----------------------------- MODULE MCFileStore -----------------------------
(* Small instances of FileStore for TLC.                                    *)
EXTENDS FileStore, TLC

(* One short and one long blob: writing the short one over the long one     *)
(* without truncation leaves a mixture.                                     *)
CONSTANTS b1, b2
SizeOne == [b \in Blobs |-> 1]
SizeTwo == b1 :> 1 @@ b2 :> 2

(* Handlers, users, metadata and file names are interchangeable.            *)
Symmetries == Permutations(Rpc) \cup Permutations(Logins)
              \cup Permutations(Metas) \cup Permutations(Names)
=============================================================================
