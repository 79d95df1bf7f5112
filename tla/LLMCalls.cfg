\* A text extracted and classified, a clause evaluated against the same rule twice,
\* a search that found nothing, one permit, and one provider with a key.
SPECIFICATION FairSpec
CONSTANTS
    e1 = e1  c1 = c1  v1 = v1  v2 = v2  r1 = r1  a = a  b = b
    contract = contract  clause = clause  query = query
    Calls = {e1, c1, v1, v2, r1}
    Kind <- KindOf
    Text <- TextOf
    Asked <- AskedOf
    Pinned = {e1, c1}
    Items = {a, b}
    Rare = {b}
    Chain <- Production
    Configured = {"openai"}
    Limit = 1
    None = None
INVARIANTS PermitsBalance AnswersAreReal
PROPERTIES FoundIsKept EveryCallEnds
CHECK_DEADLOCK FALSE
