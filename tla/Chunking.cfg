SPECIFICATION Spec
CONSTANTS
    None = None
    Tenant = Tenant
    MaxFailures = 1
    Documents <- MCDocuments
    Private <- MCPrivate
INVARIANTS ChunksAreTheDocument NodesAreTheChunks
CHECK_DEADLOCK FALSE
