------------------------------- MODULE Formats -------------------------------
(***************************************************************************)
(* The formats in which goKeeper's clients hand records to the server:     *)
(* internal/cryptodata and ValidLuhnCardNumber of internal/auth.  A string *)
(* is a sequence of characters.  Encryption hides the text and adds bytes; *)
(* whoever holds the key, as every client does, gets the text back.        *)
(***************************************************************************)
EXTENDS Integers, Sequences, SequencesExt

CONSTANTS
    Chars,     \* the characters that users type
    Width      \* Width[c]: the bytes of character c

Numerals == <<"0", "1", "2", "3", "4", "5", "6", "7", "8", "9">>
Digits == ToSet(Numerals)
Space == " "
Separator == "|"

ASSUME FormatsAssumption ==
    /\ Separator \in Chars
    /\ Width \in [Chars -> Nat \ {0}]
    /\ \A c \in Digits \cup {Space, Separator} : c \in Chars => Width[c] = 1

String == Seq(Chars)
Has(s, c) == \E i \in DOMAIN s : s[i] = c

(* The sum of a sequence of numbers, as the loops of the code take it.      *)
Total(w) ==
    LET sum[n \in 0 .. Len(w)] == IF n = 0 THEN 0 ELSE sum[n - 1] + w[n]
    IN sum[Len(w)]

Bytes(s) == Total([i \in DOMAIN s |-> Width[s[i]]])

(* Operators named Bad... are faulty variants that no definition uses; they *)
(* serve to show that a property notices the fault (README, "Mutants").     *)

-----------------------------------------------------------------------------
(* Luhn's check                                                             *)

(* strconv.Atoi of one digit                                                *)
Atoi == [c \in Digits |-> SelectInSeq(Numerals, LAMBDA d : d = c) - 1]

(* strings.ReplaceAll(s, " ", "")                                           *)
WithoutSpaces(s) ==
    LET kept[n \in 0 .. Len(s)] ==
            IF n = 0 THEN <<>>
            ELSE IF s[n] = Space THEN kept[n - 1] ELSE Append(kept[n - 1], s[n])
    IN kept[Len(s)]

(* Counted from the left, which makes no difference to numbers of even      *)
(* length; and 10 kept as a digit.                                          *)
BadWeighted(s, i) ==
    LET twice == 2 * Atoi[s[i]] IN
    IF i % 2 = 0 THEN Atoi[s[i]] ELSE IF twice > 9 THEN twice - 9 ELSE twice
BadCarry(s, i) ==
    LET twice == 2 * Atoi[s[i]] IN
    IF (Len(s) - i) % 2 = 0 THEN Atoi[s[i]] ELSE IF twice > 10 THEN twice - 9 ELSE twice

(* What the digit at i adds to the sum: every second digit, the last one    *)
(* excepted, is doubled, and 9 subtracted if that takes two digits.         *)
Weighted(s, i) ==
    LET twice == 2 * Atoi[s[i]] IN
    IF (Len(s) - i) % 2 = 0 THEN Atoi[s[i]] ELSE IF twice > 9 THEN twice - 9 ELSE twice

ValidLuhnCardNumber(number) ==
    LET s == WithoutSpaces(number) IN
    /\ Len(s) > 1
    /\ \A i \in DOMAIN number : number[i] \in Digits \cup {Space}
    /\ Total([i \in DOMAIN s |-> Weighted(s, i)]) % 10 = 0

-----------------------------------------------------------------------------
(* Encryption                                                               *)

NonceSize == 12
TagSize == 16

(* Without padding.                                                         *)
BadEncodedLen(n) == (4 * n + 2) \div 3
(* base64.StdEncoding: four characters for every three bytes begun          *)
EncodedLen(n) == 4 * ((n + 2) \div 3)

(* The nonce in front and the tag of AES-GCM behind; the record stands for  *)
(* the base64 string.                                                       *)
Encrypt(s) == [text |-> s, size |-> EncodedLen(NonceSize + Bytes(s) + TagSize)]
Decrypt(cipher) == cipher.text

(* VARCHAR(255), the column that keeps it                                   *)
Column == 255
Fits(cipher) == cipher.size <= Column

Ok(fields) == [ok |-> TRUE, fields |-> fields]
Error == [ok |-> FALSE, fields |-> <<>>]

-----------------------------------------------------------------------------
(* Records                                                                  *)

(* At the last separator.                                                   *)
BadCut(s) == SelectLastInSeq(s, LAMBDA c : c = Separator)
(* The first separator, or 0                                                *)
Cut(s) == SelectInSeq(s, LAMBDA c : c = Separator)

(* strings.SplitN(s, "|", 2) and (s, "|", 3)                                *)
Before(s) == SubSeq(s, 1, Cut(s) - 1)
After(s) == SubSeq(s, Cut(s) + 1, Len(s))
SplitTwo(s) == IF Cut(s) = 0 THEN <<s>> ELSE <<Before(s), After(s)>>
SplitThree(s) == IF Cut(s) = 0 THEN <<s>> ELSE <<Before(s)>> \o SplitTwo(After(s))

Parts(list, n) == IF Len(list) = n THEN Ok(list) ELSE Error

CryptoPair(login, pass) == Encrypt(login \o <<Separator>> \o pass)
DecryptPair(cipher) == Parts(SplitTwo(Decrypt(cipher)), 2)

CryptoCard(number, valid, cvv) ==
    Encrypt(number \o <<Separator>> \o valid \o <<Separator>> \o cvv)
(* Any number will do.                                                      *)
BadCardAccepted(number) == TRUE
(* CryptoCard encrypts only what passes Luhn's check.                       *)
CardAccepted(number) == ValidLuhnCardNumber(number)
DecryptCard(cipher) == Parts(SplitThree(Decrypt(cipher)), 3)

-----------------------------------------------------------------------------
(* Files                                                                    *)

(* Encrypted bytes, no base64                                               *)
CryptoFile(content) == [text |-> content, size |-> NonceSize + Bytes(content) + TagSize]

(* The limit of a gRPC message instead of one that leaves room in it.       *)
BadTooBig(content) == Bytes(content) > 4194304
(* SaveFile and EditFile refuse files of more than 4 MB.                    *)
TooBig(content) == Bytes(content) > 4000000

(* A message of gRPC has at most 4 MiB; login and metadata, at most 255     *)
(* characters each, and the tags of the fields take less than Envelope.     *)
MaxMessage == 4194304
Envelope == 3000
(* filepath.Base of a path that os.Stat has found: the names of file systems *)
(* have at most 255 UTF-16 units, of three bytes each in the message.       *)
NameMax == 765
Passes(name, cipher) == Envelope + Bytes(name) + cipher.size <= MaxMessage

(* GetFile opens the file of that name in the download directory for        *)
(* writing; without a name that is the directory itself, which cannot be.   *)
Download(name, cipher) == IF name = <<>> THEN Error ELSE Ok(<<name, Decrypt(cipher)>>)

-----------------------------------------------------------------------------
(* Luhn's check as ISO/IEC 7812 states it: the last digit is the one that   *)
(* completes the others to a multiple of ten, every second of them, from    *)
(* the right, taken from the table of doubled digits.                       *)
Doubled == <<0, 2, 4, 6, 8, 1, 3, 5, 7, 9>>
CheckDigit(payload) ==
    LET right == Reverse(payload)
        weight(i) == IF i % 2 = 1 THEN Doubled[Atoi[right[i]] + 1] ELSE Atoi[right[i]]
    IN (10 - (Total([i \in DOMAIN right |-> weight(i)]) % 10)) % 10
IsCardNumber(number) ==
    LET s == WithoutSpaces(number) IN
    /\ Len(s) >= 2 /\ ToSet(s) \subseteq Digits
    /\ Atoi[Last(s)] = CheckDigit(Front(s))
=============================================================================
