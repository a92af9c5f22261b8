------------------------------ MODULE MCClient ------------------------------
(* A small instance of Client for TLC: two pairs of which one has a "|" in  *)
(* the login and the other one in the password, so that both are sealed     *)
(* alike, two valid cards and one with a wrong check digit.                 *)
EXTENDS Client

MCChars == Digits \cup {Space, Separator, "x"}
MCWidth == [c \in MCChars |-> 1]
MCPairs == {<<<<"x">>, <<Separator, "x">>>>, <<<<"x", Separator>>, <<"x">>>>}
MCCards == {<<<<"1", "8">>, <<"x">>, <<"0">>>>, <<<<"2", Space, "6">>, <<"x">>, <<Separator>>>>,
            <<<<"8", "1">>, <<"x">>, <<"0">>>>}
Symmetries == Permutations(Rpc)
=============================================================================
