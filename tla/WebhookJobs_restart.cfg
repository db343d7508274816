CONSTANTS
    r1 = r1  r2 = r2  h1 = h1  h2 = h2
    n1 = n1  n2 = n2  w1 = w1  w2 = w2  w3 = w3
    Requests = {r1, r2}
    Webhooks = {h1}
    Nodes = {n1, n2}
    Workers = {w1, w2, w3}
    NodeOf <- TwoNodes
    Retries = 1
    TimersHold = TRUE
    MaxDbErrors = 0
    MaxCrashes = 2
    MaxEdits = 0
    NoTriggered = NoTriggered
SPECIFICATION FairSpec
INVARIANTS AttemptsBounded RetryingIsRetried
PROPERTIES DeliveredIsFinal SuccessIsFinal RetryingEnds
CHECK_DEADLOCK FALSE
