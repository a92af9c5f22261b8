SPECIFICATION Spec
CONSTANTS
    Rpc = {r1, r2}
    Logins = {l1}
    Passes = {p1, p2}
    LongPass = long
    Prefix = p1
    Faults = {}
    MaxLate = 0
    Others = {}
    Stores = {passwords, cards, files}
    None = None
PROPERTY RegisterMeansStored
