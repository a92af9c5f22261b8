------------------------------ MODULE MCAccount ------------------------------
(* Small instances of Account for TLC.                                      *)
EXTENDS Account, TLC
(* Handlers and tables are interchangeable.                                 *)
Symmetries == Permutations(Rpc) \cup Permutations(Stores)
=============================================================================
