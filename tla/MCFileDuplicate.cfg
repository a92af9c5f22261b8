SPECIFICATION Spec
CONSTANTS
    b1 = b1
    b2 = b2
    Rpc = {r1}
    Logins = {l1}
    Metas = {m1}
    Names = {n1}
    BadName = bad
    Blobs = {b1}
    Size <- SizeOne
    Faults = {}
    SyncClients = TRUE
    None = None
INVARIANT RowHasFile
