----------------------------- MODULE MCPasswords -----------------------------
(* Small instances of Passwords for TLC: the cfg files give model values.   *)
EXTENDS Passwords, TLC

Symmetry == Permutations(Rpc) \cup Permutations(Logins) \cup Permutations(Metas)
            \cup Permutations(Pairs)
=============================================================================
