SPECIFICATION FairSpec
CONSTANTS
    t1 = t1
    t2 = t2
    t3 = t3
    c1 = c1
    c2 = c2
    w1 = w1
    w2 = w2
    None = None
    API = API
    Tasks = {t1, t2}
    ContractOf <- TwoTasks
    Contracts = {c1, c2}
    Workers = {w1}
    NoContent = {c2}
    Poison = {c2}
    MaxKills = 2
    MaxRequests = 2
    Batches <- NoBatch
PROPERTY EveryTaskEnds
CHECK_DEADLOCK FALSE
