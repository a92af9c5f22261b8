------------------------------- MODULE MCCards -------------------------------
(* Small instances of Cards for TLC.                                        *)
EXTENDS Cards, TLC

(* The table that the statements expect.                                    *)
ExpectedColumns == {"c_login", "c_cipherdata", "c_metadata"}
ExpectedUniques == {{"c_login", "c_metadata"}}
=============================================================================
