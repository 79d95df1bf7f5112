SPECIFICATION Spec
CONSTANTS
    p1 = p1
    p2 = p2
    t1 = t1
    t2 = t2
    None = None
    Process = {p1, p2}
    Tenant = {t1, t2}
    PolicyId = {1, 2}
    Text <- Texts
    ContractType = {"liability"}
    Clause = {"cap"}
    DefaultRules <- Baseline
INVARIANTS OwnRulesOrDefaults NeverUnchecked StoredRulesApply SuccessIsAllOrNothing
SYMMETRY Symmetry
