CONSTANTS
    r1 = r1  r2 = r2  h1 = h1  h2 = h2
    n1 = n1  n2 = n2  w1 = w1  w2 = w2  w3 = w3
    Requests = {r1}
    Webhooks = {h1}
    Nodes = {n1}
    Workers = {w1, w2}
    NodeOf <- OneNode
    Retries = 2
    TimersHold = FALSE
    MaxDbErrors = 2
    MaxCrashes = 1
    MaxEdits = 0
    NoTriggered = NoTriggered
SPECIFICATION Spec
SYMMETRY WorkerSymmetry
INVARIANTS SuccessIsReal
CHECK_DEADLOCK FALSE
