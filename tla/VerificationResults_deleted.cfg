SPECIFICATION Spec
CHECK_DEADLOCK FALSE
CONSTANTS
    r1 = r1
    r2 = r2
    r3 = r3
    mine = mine
    others = others
    v1 = v1
    v2 = v2
    Requests = {r1, r2, r3}
    Contents = {mine, others}
    Between = {mine}
    Versions = {v1, v2}
    Workloads <- EveryThree
    Old = Old
    NoRow = NoRow
INVARIANT
    ResultsHaveLatest
