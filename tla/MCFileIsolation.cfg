SPECIFICATION Spec
CONSTANTS
    b1 = b1
    b2 = b2
    Rpc = {r1, r2}
    Logins = {l1, l2}
    Metas = {m1}
    Names = {n1}
    BadName = bad
    Blobs = {b1, b2}
    Size <- SizeTwo
    Faults = {"db", "ack", "disk", "crash"}
    SyncClients = FALSE
    None = None
INVARIANT TypeOK
INVARIANT RowsAtHome
INVARIANT IInv
PROPERTY Isolation
