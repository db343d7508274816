SPECIFICATION Spec
CHECK_DEADLOCK FALSE
CONSTANTS
    r1 = r1
    r2 = r2
    r3 = r3
    r4 = r4
    prod = prod
    Requests = {r1, r2, r3, r4}
    Versions = {1, 2, 3}
    Tags = {prod}
    Workload <- AroundTheMiddle
    Settings = {TRUE, FALSE}
    NoRow = NoRow
SYMMETRY RequestSymmetry
INVARIANTS
    TypeOK
    CopiesAgree
    OrderedByCreation
    OrderedByNumber
