SPECIFICATION Spec
CONSTANTS
    t1 = t1
    t2 = t2
    t3 = t3
    c1 = c1
    c2 = c2
    w1 = w1
    w2 = w2
    None = None
    API = API
    Tasks = {t1, t3}
    ContractOf <- TwoContracts
    Contracts = {c1, c2}
    Workers = {w1, w2}
    NoContent = {}
    Poison = {c2}
    MaxKills = 1
    MaxRequests = 2
    Batches <- OneBatch
INVARIANTS NoTaskIsLost OneWorkerPerTask ExtraRunsAreKills
PROPERTY NeverSeenGoingBack
CHECK_DEADLOCK FALSE
SYMMETRY Symmetry
