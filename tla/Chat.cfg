SPECIFICATION CSpec
CONSTANTS
    Nothing = Nothing
    Error = Error
    c1 = c1
    c2 = c2
    p1 = p1
    A = A
    B = B
    Callers = {c1, c2}
    Tenants = {A, B}
    Texts = {"fees"}
    Pages = {p1}
    TenantOf <- OnePage
    Selections = {Nothing, "a1"}
    Rows <- MCRows
    Later <- MCLater
    RestParams <- MCRestParams
    Replies <- MCReplies
    Rankings <- MCRankings
    Reranking = TRUE
    Overfetch = 4
    PoolSize = 3
    TopK = 2
    ChunkRows = 2
    TextRows = 1
    MaxCached = 1
    MaxAggregated = 1
    MaxRuns = 2
    MaxRounds = 1
INVARIANTS AnswersAreTheAskers RankingIsHonest FailuresAreNotCached ToolMessagesAnswerTheirCalls
CHECK_DEADLOCK FALSE
SYMMETRY Symmetry
