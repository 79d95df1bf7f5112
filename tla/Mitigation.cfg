SPECIFICATION MSpec
CONSTANTS
    a1 = a1
    a2 = a2
    Nothing = Nothing
    Analyses = {a1, a2}
    Contracts <- MCContracts
    ClauseNodes <- MCClauseNodes
    DemoTenant = "demo_tenant_1"
    Decisions <- MCDecisions
    Submissions <- MCSubmissions
    MaxDecisions = 3
    InGraph = {"c1"}
    Words <- MCWords
    Inside = {}
    Length <- MCLength
    Limit = 3
    MinDecisions = 2
    MinAlike = 1
    MaxFaults = 2
    MaxCached = 1
INVARIANTS AdjustmentsAreEarned AlikeClausesAreRatedAlike ToolsAnswerTheirContract
CHECK_DEADLOCK FALSE
SYMMETRY Symmetry
