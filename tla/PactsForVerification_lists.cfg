SPECIFICATION Spec
CONSTANTS
    main = main
    feat = feat
    c1 = c1
    c2 = c2
    b1 = b1
    b2 = b2
    NoContent = NoContent
    NoName = NoName
    Names = {main, feat}
    Contents = {c1, c2}
    Labels <- MainOnly
    Versions = {1, 2}
    Builds = {b1, b2}
    Questions <- ForFeature
    MaxTime = 3
    Delay = 2
    ClientDates = {0}
INVARIANTS
    TypeOK
    PendingIsTruthful
    NoHeadIsOverlooked
    WipIsUnverified
PROPERTIES
    StaysNonPending
SYMMETRY Symmetry
CHECK_DEADLOCK FALSE
