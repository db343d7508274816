SPECIFICATION Spec
CONSTANTS
    r1 = r1
    r2 = r2
    r3 = r3
    main = main
    dev = dev
    d1 = d1
    d2 = d2
    q1 = q1
    q2 = q2
    NoRow = NoRow
    Requests = {r1, r2, r3}
    Versions = {1, 2}
    Tags = {main, dev}
    Descriptions = {d1, d2}
    Variants = {q1, q2}
    Workload <- Every
    AllowModification = FALSE
    Subscribed = {TRUE, FALSE}
SYMMETRY RequestSymmetry
INVARIANTS TypeOK EveryVersionServed ServesLastWritten OnlyTagsDeadlock EveryContentAnnounced
PROPERTIES CommittedRevisionsAreKept ImplementsService
CHECK_DEADLOCK FALSE
