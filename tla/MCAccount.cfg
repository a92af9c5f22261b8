SPECIFICATION Spec
CONSTANTS
    Rpc = {r1, r2}
    Logins = {l1}
    Others = {other}
    Stores = {passwords, files}
    Passes = {p1, p2}
    LongPass = long
    Prefix = p1
    Faults = {"db", "ack", "late", "crash"}
    MaxLate = 1
    None = None
SYMMETRY Symmetries
INVARIANT TypeOK
INVARIANT BeliefsHold
INVARIANT CleanDeleteLeavesNothing
