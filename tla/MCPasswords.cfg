SPECIFICATION Spec
CONSTANTS
    Rpc = {r1, r2}
    Logins = {l1, l2}
    Metas = {m1, m2}
    Pairs = {p1, p2, p3}
    Faults = {"db", "ack", "late", "crash"}
    None = None
SYMMETRY Symmetry
INVARIANT TypeOK
INVARIANT OneRowUnlessRaced
PROPERTY IsPasswordStore
PROPERTY RecordStoreWhenOrderly
