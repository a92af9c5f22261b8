SPECIFICATION Spec
CONSTANTS
    Rpc = {r1, r2}
    Logins = {l1, l2}
    Metas = {m1, m2}
    Ciphers = {c1, c2}
    Columns <- ExpectedColumns
    Uniques <- ExpectedUniques
    Faults = {"ack", "crash"}
    None = None
INVARIANT TypeOK
INVARIANT NoDuplicates
PROPERTY IsRecordStore
