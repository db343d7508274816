SPECIFICATION FairSpec
CONSTANTS
    r1 = r1
    r2 = r2
    r3 = r3
    v1 = v1
    v2 = v2
    blue = blue
    none = none
    Env = prod
    NoRow = NoRow
    Requests = {r1, r2, r3}
    Versions = {v1, v2}
    Targets = {none, blue}
    Workload <- AllOperations
INVARIANTS TypeOK CurrentIsDeployed CurrentIsLast
PROPERTIES UndeployedByItsTarget RequestsEnd
CHECK_DEADLOCK FALSE
