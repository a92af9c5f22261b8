SPECIFICATION Spec
CONSTANTS
    b1 = b1
    b2 = b2
    Rpc = {r1, r2}
    Logins = {l1, l2}
    Metas = {m1, m2}
    Names = {n1, n2}
    BadName = bad
    Blobs = {b1, b2}
    Size <- SizeTwo
    Faults = {"db"}
    SyncClients = TRUE
    None = None
SYMMETRY Symmetries
INVARIANT SyncInv
INVARIANT NoOrphans
INVARIANT WholeFiles
INVARIANT OkMeansDone
