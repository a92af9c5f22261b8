------------------------------ MODULE MCFormats ------------------------------
(* A small instance of RoundTrip for TLC: numbers over all digits, two      *)
(* characters that are none, a run of 80 bytes, and two runs of megabytes.  *)
EXTENDS RoundTrip

Run == "abc...xyz"
Half == "2 MB"
Quarter == "1 MiB"
MCChars == Digits \cup {Space, Separator, "x", Run, Half, Quarter}
MCWidth == [c \in MCChars |-> CASE c = Run -> 80 [] c = Half -> 2000000
                                [] c = Quarter -> 1048576 [] OTHER -> 1]
MCLetters == <<Digits \cup {Space, Separator, Run},
               {"0", Separator, Run, Half, Quarter}, {"x", Separator, Run}>>
=============================================================================
