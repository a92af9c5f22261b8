SPECIFICATION Spec
CONSTANTS
    Rpc = {r1}
    Served <- AllMethods
    Faults = {}
    None = None
INVARIANT SuccessMeansApplied
