\* Every plan the planner can make, tools that raise included, the traditional
\* workflow, and a reader of the progress of the application's own kind of plan.
CONSTANTS
    Queries <- EveryKind
    ToolsRaise = TRUE
    Watched <- WatchedKind
SPECIFICATION PFairSpec
INVARIANTS
    CompleteIsHonest
    GoodGradeIsEarned
    ResultAgreesWithItself
    FallbackIsHonest
    StreamTellsTheRun
PROPERTIES
    Answers
