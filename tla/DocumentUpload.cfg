\* One restart; every failure of Neo4j, the extraction, the chunking and the LLM.
SPECIFICATION ESpec
CONSTANTS
    u1 = u1  u2 = u2  u3 = u3  e1 = e1  e2 = e2  s1 = s1
    t1 = t1  t2 = t2  n1 = n1  NoName = NoName
    Uploads = {u1, u2, u3, e1, e2, s1}
    Enhanced = {e1, e2}
    Streamed = {s1}
    Tenants = {t1, t2}
    Names = {n1, NoName}
    TenantOf <- OfTenant
    NameOf <- Named
    TextOf <- Texts
    DemoTenant = DemoTenant
    None = None
    MaxRestarts = 1
    Groups <- Together
INVARIANTS
    AnswersNameTheirContract
    OneContractPerName
    FilesAreRemoved
    DocumentsPointToWholeContracts
    EmbeddingsAreTheContracts
SYMMETRY Symmetry
\* Every upload may have been answered.
CHECK_DEADLOCK FALSE
