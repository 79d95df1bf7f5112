SPECIFICATION Spec
CONSTANTS
    p1 = p1
    p2 = p2
    u1 = u1
    u2 = u2
    u3 = u3
    bad = bad
    t1 = t1
    e1 = e1
    e2 = e2
    i1 = i1
    i2 = i2
    None = None
    Process = {p1, p2}
    Username = {u1, u2, u3}
    BadUsername = {}
    Tenant = {t1}
    Email = {e1, e2}
    Invite = {i1, i2}
    MaxCrashes = 1
SYMMETRY Symmetry
INVARIANTS
    InvitesAreAccountedFor
    LateRequestsCreateNothing
CHECK_DEADLOCK FALSE
