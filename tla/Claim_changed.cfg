SPECIFICATION Spec
CONSTANTS
    None = None
    c1 = c1
    c2 = c2
    k1 = k1
    k2 = k2
    a1 = a1
    r1 = r1
    i1 = i1
    u1 = u1
    u2 = u2
    Commits = {c1, c2}
    Sums = {k1, k2}
    MaxTied = 1
    StoreErrors = FALSE
    Offered <- MCOffered
    RollbackSafe = {k1}
    Adds = {a1}
    Removes = {r1}
    Installs = {i1}
    Updates = {u1}
PROPERTY ChangedBlocksUpdates
