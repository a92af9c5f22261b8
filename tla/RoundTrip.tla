------------------------------ MODULE RoundTrip ------------------------------
(***************************************************************************)
(* One record on its way through a goKeeper client and back: the user      *)
(* types its fields, the client checks and encrypts them (SavePass,        *)
(* SaveCard, SaveFile), the server takes the ciphertext or not, and a      *)
(* client decrypts it (GetPass, GetCard, GetFile).                         *)
(***************************************************************************)
EXTENDS Formats

CONSTANTS
    Letters,      \* Letters[f]: the characters typed into field f
    MaxTyped      \* the bound on the characters typed in all

Fields == 1 .. 3
(* A pair is a login and a password, a card a number, the month to which it *)
(* is valid and a code, a file a name and a content.                        *)
Arity == [pair |-> 2, card |-> 3, file |-> 2]
Kinds == DOMAIN Arity

ASSUME RoundTripAssumption ==
    /\ Letters \in [Fields -> SUBSET Chars]
    /\ MaxTyped \in Nat

VARIABLES
    typed,    \* typed[f]: what stands in field f
    kind,     \* the kind of record that is saved, "none" before that
    stage,    \* "typing", "refused", "stored" or "shown"
    cipher,   \* what the server keeps
    shown     \* what the client gets from it

vars == <<typed, kind, stage, cipher, shown>>

Nothing == [text |-> <<>>, size |-> 0]

Init ==
    /\ typed = [f \in Fields |-> <<>>]
    /\ kind = "none"
    /\ stage = "typing"
    /\ cipher = Nothing
    /\ shown = Error

Type(f, c) ==
    /\ stage = "typing"
    /\ Len(typed[1]) + Len(typed[2]) + Len(typed[3]) < MaxTyped
    /\ typed' = [typed EXCEPT ![f] = Append(@, c)]
    /\ UNCHANGED <<kind, stage, cipher, shown>>

(* The column has no limit.                                                 *)
BadStore(x) == stage' = "stored" /\ cipher' = x

(* The statement that stores x, which PostgreSQL refuses if it is too long. *)
Store(x) ==
    IF Fits(x) THEN stage' = "stored" /\ cipher' = x
               ELSE stage' = "refused" /\ UNCHANGED cipher

SavePass ==
    /\ stage = "typing"
    /\ typed[3] = <<>>
    /\ kind' = "pair"
    /\ Store(CryptoPair(typed[1], typed[2]))
    /\ UNCHANGED <<typed, shown>>

SaveCard ==
    /\ stage = "typing"
    /\ kind' = "card"
    /\ IF CardAccepted(typed[1])
       THEN Store(CryptoCard(typed[1], typed[2], typed[3]))
       ELSE stage' = "refused" /\ UNCHANGED cipher
    /\ UNCHANGED <<typed, shown>>

SaveFile ==
    /\ stage = "typing"
    /\ typed[1] # <<>> /\ Bytes(typed[1]) <= NameMax
    /\ typed[3] = <<>>
    /\ kind' = "file"
    /\ LET x == CryptoFile(typed[2]) IN
       IF ~TooBig(typed[2]) /\ Passes(typed[1], x)
       THEN stage' = "stored" /\ cipher' = x
       ELSE stage' = "refused" /\ UNCHANGED cipher
    /\ UNCHANGED <<typed, shown>>

(* The server answers GetFile with login, path and metadata of the row and  *)
(* the bytes it has read, but sets no file name.                            *)
NameFromServer == <<>>

Get ==
    /\ stage = "stored"
    /\ stage' = "shown"
    /\ shown' = CASE kind = "pair" -> DecryptPair(cipher)
                  [] kind = "card" -> DecryptCard(cipher)
                  [] kind = "file" -> Download(NameFromServer, cipher)
    /\ UNCHANGED <<typed, kind, cipher>>

Next ==
    \/ \E f \in Fields, c \in Chars : c \in Letters[f] /\ Type(f, c)
    \/ SavePass \/ SaveCard \/ SaveFile \/ Get

Spec == Init /\ [][Next]_vars

-----------------------------------------------------------------------------
(* Properties                                                               *)

TypeOK ==
    /\ typed \in [Fields -> String]
    /\ kind \in Kinds \cup {"none"}
    /\ stage \in {"typing", "refused", "stored", "shown"}
    /\ cipher.text \in String
    /\ cipher.size \in 0 .. (IF kind = "file" THEN MaxMessage ELSE Column)
    /\ shown = Error \/ (shown.ok /\ shown.fields \in [1 .. Arity[kind] -> String])

Stored == stage \in {"stored", "shown"}
Saved == [f \in 1 .. Arity[kind] |-> typed[f]]
TypedBytes == Bytes(typed[1]) + Bytes(typed[2]) + Bytes(typed[3])

(* GetPass and GetCard never fail on what SavePass and SaveCard stored, and *)
(* return it unchanged if and only if no "|" stands in a field but the      *)
(* last; the number of a card, which passed Luhn's check, never has one.    *)
ComesBack ==
    stage = "shown" /\ kind # "file" =>
        /\ shown.ok
        /\ shown.fields = Saved <=> ~Has(IF kind = "pair" THEN typed[1] ELSE typed[2], Separator)

(* A pair is stored if and only if login and password together have at most *)
(* 160 bytes: what VARCHAR(255) leaves after separator, nonce, tag and      *)
(* base64.  Longer pairs are refused by every SavePass.                     *)
PairLimit == kind = "pair" => (Stored <=> TypedBytes <= 160)

(* A file is stored if and only if it has at most 4 MB: encrypted and with  *)
(* the other fields it then always fits into a message of gRPC.             *)
FileLimit == kind = "file" => (Stored <=> Bytes(typed[2]) <= 4000000)

(* SaveCard stores the cards whose number ends in the check digit of the    *)
(* standard, spaces being left out, and, if they are short enough for the   *)
(* column, all of them.                                                     *)
OnlyCardNumbers ==
    kind = "card" /\ TypedBytes <= 159 => (Stored <=> IsCardNumber(typed[1]))

(* If a number is accepted, SaveCard refuses it with one digit mistyped, or *)
(* with two neighbours exchanged, unless these are 0 and 9.                 *)
Mistyped(s) ==
    {[s EXCEPT ![i] = d] : i \in {j \in DOMAIN s : s[j] \in Digits}, d \in Digits} \ {s}
Exchanged(s) ==
    {[s EXCEPT ![i] = s[i + 1], ![i + 1] = s[i]] :
        i \in {j \in 1 .. Len(s) - 1 : {s[j], s[j + 1]} # {"0", "9"}
                                       /\ {s[j], s[j + 1]} \subseteq Digits}} \ {s}
TyposRefused ==
    kind = "card" /\ Stored =>
        \A wrong \in Mistyped(typed[1]) \cup Exchanged(typed[1]) : ~CardAccepted(wrong)
=============================================================================
