SPECIFICATION Spec
CONSTANTS
    None = None
    id1 = id1
    id2 = id2
    net = net
    data = data
    Data = Data
    logs = logs
    key1 = key1
    key2 = key2
    v0 = v0
    v1 = v1
    Names = {data, Data, logs}
    Lower <- MCLower
    Joined <- MCJoined
    Values = {v0, v1}
    Blank = v0
    Apps = {id1}
    Offered <- ConfigOffered
    Overrides <- ConfigOverrides
    MaxTied = 1
INVARIANT DeclaredConfigInjected
