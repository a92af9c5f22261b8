SPECIFICATION Spec
CONSTANTS
    Chars <- MCChars
    Width <- MCWidth
    Users = {"u1"}
    Places = {p1}
    Pairs <- MCPairs
    Cards <- MCCards
    Rpc = {r1, r2}
    Faults = {"db", "ack", "crash", "kill"}
    None = None
SYMMETRY Symmetries
INVARIANT TypeOK
INVARIANT StoreAsTold
INVARIANT NothingForNobody
INVARIANT StoredCardsValid
PROPERTY ReadsWhatWasSaved
