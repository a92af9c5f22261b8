--------------------------- MODULE RoundTripProofs ---------------------------
(* What a record goes through between its two ends, in terms of what its    *)
(* user has typed, for any characters and any length of the fields.         *)
EXTENDS RoundTrip, FormatsProofs

(* What the server keeps and what the client has got from it, in terms of   *)
(* the fields, which do not change any more.                                *)
IInv ==
    /\ typed \in [Fields -> String]
    /\ stage \in {"typing", "refused", "stored", "shown"}
    /\ Stored /\ kind = "pair" => cipher = CryptoPair(typed[1], typed[2])
    /\ Stored /\ kind = "card" =>
        cipher = CryptoCard(typed[1], typed[2], typed[3]) /\ CardAccepted(typed[1])
    /\ stage \in {"stored", "shown"} => kind \in Kinds
    /\ stage = "shown" /\ kind = "pair" => shown = DecryptPair(cipher)
    /\ stage = "shown" /\ kind = "card" => shown = DecryptCard(cipher)

LEMMA KindsAre == Kinds = {"pair", "card", "file"}
  BY DEF Kinds, Arity

LEMMA InitIInv == Init => IInv
  BY DEF Init, IInv, Stored, String

LEMMA StepIInv == IInv /\ [Next]_vars => IInv'
  <1> SUFFICES ASSUME IInv, [Next]_vars PROVE IInv'
    OBVIOUS
  <1> USE KindsAre
  <1>1. ASSUME NEW f \in Fields, NEW c \in Chars, c \in Letters[f], Type(f, c) PROVE IInv'
    <2>1. typed' \in [Fields -> String]
      BY <1>1 DEF IInv, Type, String
    <2> QED
      BY <2>1, <1>1 DEF IInv, Type, Stored
  <1>2. CASE SavePass
    BY <1>2 DEF IInv, SavePass, Store, Stored
  <1>3. CASE SaveCard
    BY <1>3 DEF IInv, SaveCard, Store, Stored
  <1>4. CASE SaveFile
    BY <1>4 DEF IInv, SaveFile, Stored
  <1>5. CASE Get
    <2>1. typed' = typed /\ kind' = kind /\ cipher' = cipher /\ stage' = "shown"
      BY <1>5 DEF Get
    <2>2. kind = "pair" => shown' = DecryptPair(cipher)
      BY <1>5 DEF Get
    <2>3. kind = "card" => shown' = DecryptCard(cipher)
      BY <1>5 DEF Get
    <2> QED
      BY <1>5, <2>1, <2>2, <2>3 DEF IInv, Stored, Get
  <1>6. CASE UNCHANGED vars
    BY <1>6 DEF IInv, Stored, vars
  <1> QED
    BY <1>1, <1>2, <1>3, <1>4, <1>5, <1>6 DEF Next

LEMMA IInvImplies == IInv => ComesBack
  <1> SUFFICES ASSUME IInv, stage = "shown", kind # "file"
               PROVE  /\ shown.ok
                      /\ shown.fields = Saved
                           <=> ~Has(IF kind = "pair" THEN typed[1] ELSE typed[2], Separator)
    BY DEF ComesBack
  <1>1. typed[1] \in String /\ typed[2] \in String /\ typed[3] \in String
    BY DEF IInv, Fields
  <1>2. CASE kind = "pair"
    <2>1. shown = DecryptPair(CryptoPair(typed[1], typed[2]))
      BY <1>2 DEF IInv, Stored
    <2>2. Saved = <<typed[1], typed[2]>>
      BY <1>2 DEF Saved, Arity
    <2> QED
      BY <2>1, <2>2, <1>1, <1>2, PairComesBack
  <1>3. CASE kind = "card"
    <2>1. /\ shown = DecryptCard(CryptoCard(typed[1], typed[2], typed[3]))
          /\ CardAccepted(typed[1])
      BY <1>3 DEF IInv, Stored
    <2>2. Saved = <<typed[1], typed[2], typed[3]>>
      BY <1>3 DEF Saved, Arity
    <2> QED
      BY <2>1, <2>2, <1>1, <1>3, CardComesBack
  <1> QED
    BY <1>2, <1>3, KindsAre DEF IInv

(* GetPass and GetCard return what SavePass and SaveCard stored unless a    *)
(* "|" in a field before the last moves the border between the fields, for  *)
(* fields of any length over any characters.                                *)
THEOREM RecordsComeBack == Spec => []ComesBack
  <1>1. Spec => []IInv
    BY InitIInv, StepIInv, PTL DEF Spec
  <1> QED
    BY <1>1, IInvImplies, PTL

-----------------------------------------------------------------------------
(* What is stored                                                           *)

(* What has been decided of the record, in terms of what was typed, and the *)
(* sizes of what the server keeps.                                          *)
Decided ==
    /\ stage = "typing" <=> kind = "none"
    /\ kind \in Kinds \cup {"none"}
    /\ kind = "pair" => (Stored <=> Fits(CryptoPair(typed[1], typed[2]))) /\ typed[3] = <<>>
    /\ kind = "card" =>
        (Stored <=> /\ CardAccepted(typed[1])
                    /\ Fits(CryptoCard(typed[1], typed[2], typed[3])))
    /\ kind = "file" =>
        /\ Stored <=> /\ ~TooBig(typed[2])
                      /\ Passes(typed[1], CryptoFile(typed[2]))
        /\ Bytes(typed[1]) <= NameMax
        /\ Stored => cipher = CryptoFile(typed[2])
    /\ ~Stored => cipher = Nothing
    /\ stage # "shown" => shown = Error
    /\ stage = "shown" /\ kind = "file" => shown = Error

(* At the start nothing has been decided.                                   *)
LEMMA InitDecided == Init => Decided
  <1> SUFFICES ASSUME Init  PROVE Decided
    OBVIOUS
  <1>1. kind = "none" /\ stage = "typing" /\ cipher = Nothing /\ shown = Error
    BY DEF Init
  <1> QED  BY <1>1 DEF Decided, Stored

(* Every step keeps it so.                                                  *)
LEMMA StepDecided == IInv /\ Decided /\ [Next]_vars => Decided'
  <1> SUFFICES ASSUME IInv, Decided, [Next]_vars  PROVE Decided'
    OBVIOUS
  <1> USE KindsAre
  <1>1. ASSUME NEW f \in Fields, NEW c \in Chars, Type(f, c)  PROVE Decided'
    <2>1. /\ stage = "typing" /\ stage' = stage /\ kind' = kind
          /\ cipher' = cipher /\ shown' = shown
      BY <1>1 DEF Type
    <2>2. kind = "none" /\ cipher = Nothing /\ shown = Error
      BY <2>1 DEF Decided, Stored
    <2> QED  BY <2>1, <2>2 DEF Decided, Stored
  <1>2. CASE SavePass
    <2>1. /\ stage = "typing" /\ kind' = "pair" /\ typed' = typed /\ shown' = shown
          /\ typed[3] = <<>> /\ Store(CryptoPair(typed[1], typed[2]))
      BY <1>2 DEF SavePass
    <2>2. cipher = Nothing /\ shown = Error
      BY <2>1 DEF Decided, Stored
    <2>3. CASE Fits(CryptoPair(typed[1], typed[2]))
      <3>1. stage' = "stored"
        BY <2>1, <2>3 DEF Store
      <3> QED  BY <2>1, <2>2, <2>3, <3>1 DEF Decided, Stored
    <2>4. CASE ~Fits(CryptoPair(typed[1], typed[2]))
      <3>1. stage' = "refused" /\ cipher' = cipher
        BY <2>1, <2>4 DEF Store
      <3> QED  BY <2>1, <2>2, <2>4, <3>1 DEF Decided, Stored
    <2> QED  BY <2>3, <2>4
  <1>3. CASE SaveCard
    <2> DEFINE x == CryptoCard(typed[1], typed[2], typed[3])
    <2>1. /\ stage = "typing" /\ kind' = "card" /\ typed' = typed /\ shown' = shown
          /\ IF CardAccepted(typed[1]) THEN Store(x) ELSE stage' = "refused" /\ UNCHANGED cipher
      BY <1>3 DEF SaveCard
    <2>2. cipher = Nothing /\ shown = Error
      BY <2>1 DEF Decided, Stored
    <2>3. CASE CardAccepted(typed[1]) /\ Fits(x)
      <3>1. stage' = "stored"
        BY <2>1, <2>3 DEF Store
      <3> QED  BY <2>1, <2>2, <2>3, <3>1 DEF Decided, Stored
    <2>4. CASE ~(CardAccepted(typed[1]) /\ Fits(x))
      <3>1. stage' = "refused" /\ cipher' = cipher
        BY <2>1, <2>4 DEF Store
      <3> QED  BY <2>1, <2>2, <2>4, <3>1 DEF Decided, Stored
    <2> QED  BY <2>3, <2>4
  <1>4. CASE SaveFile
    <2> DEFINE x == CryptoFile(typed[2])
               fine == ~TooBig(typed[2]) /\ Passes(typed[1], x)
    <2>1. /\ stage = "typing" /\ kind' = "file" /\ typed' = typed /\ shown' = shown
          /\ Bytes(typed[1]) <= NameMax
          /\ IF fine THEN stage' = "stored" /\ cipher' = x ELSE stage' = "refused" /\ UNCHANGED cipher
      BY <1>4 DEF SaveFile
    <2>2. cipher = Nothing /\ shown = Error
      BY <2>1 DEF Decided, Stored
    <2>3. CASE fine
      <3>1. stage' = "stored" /\ cipher' = x
        BY <2>1, <2>3
      <3> QED  BY <2>1, <2>2, <2>3, <3>1 DEF Decided, Stored
    <2>4. CASE ~fine
      <3>1. stage' = "refused" /\ cipher' = cipher
        BY <2>1, <2>4
      <3> QED  BY <2>1, <2>2, <2>4, <3>1 DEF Decided, Stored
    <2> QED  BY <2>3, <2>4
  <1>5. CASE Get
    <2>1. /\ typed' = typed /\ kind' = kind /\ cipher' = cipher
          /\ stage = "stored" /\ stage' = "shown"
      BY <1>5 DEF Get
    <2>2. kind = "file" => shown' = Error
      BY <1>5 DEF Get, Download, NameFromServer
    <2> QED  BY <2>1, <2>2 DEF Decided, Stored
  <1>6. CASE UNCHANGED vars
    BY <1>6 DEF Decided, Stored, vars
  <1> QED  BY <1>1, <1>2, <1>3, <1>4, <1>5, <1>6 DEF Next

(* Both parts of the invariant hold always.                                 *)
LEMMA DecidedInvariant == Spec => [](IInv /\ Decided)
  <1>1. Init => IInv /\ Decided
    BY InitIInv, InitDecided
  <1>2. IInv /\ Decided /\ [Next]_vars => (IInv /\ Decided)'
    BY StepIInv, StepDecided
  <1> QED  BY <1>1, <1>2, PTL DEF Spec

(* A name that a file system has leaves room for 4 MB in a message.         *)
LEMMA FilePasses ==
    ASSUME NEW name \in String, NEW content \in String, Bytes(name) <= NameMax
    PROVE  /\ CryptoFile(content).text \in String
           /\ CryptoFile(content).size \in Nat
           /\ ~TooBig(content) => Passes(name, CryptoFile(content))
           /\ TooBig(content) <=> ~(Bytes(content) <= 4000000)
           /\ Passes(name, CryptoFile(content)) => CryptoFile(content).size <= MaxMessage
  <1>1. Bytes(name) \in Nat /\ Bytes(content) \in Nat
    BY BytesType
  <1> QED
    BY <1>1 DEF CryptoFile, TooBig, Passes, NameMax, NonceSize, TagSize, Envelope, MaxMessage

(* The empty string has no bytes.                                           *)
LEMMA EmptyBytes == <<>> \in String /\ Bytes(<<>>) = 0
  <1>1. <<>> \in String
    BY DEF String
  <1>2. Bytes(<<>> \o <<Separator>>) = Bytes(<<>>) + Bytes(<<Separator>>)
    BY <1>1, SeparatorBytes, BytesConcat
  <1>3. <<>> \o <<Separator>> = <<Separator>>
    BY SeparatorBytes, ConcatEmptySeq DEF String
  <1>4. Bytes(<<>>) \in Nat
    BY <1>1, BytesType
  <1> QED  BY <1>1, <1>2, <1>3, <1>4, SeparatorBytes

(* SavePass stores a pair if and only if login and password have at most    *)
(* 160 bytes, whatever the characters and their width in UTF-8.             *)
THEOREM PairsUpToTheLimit == Spec => []PairLimit
  <1>1. IInv /\ Decided => PairLimit
    <2> SUFFICES ASSUME IInv, Decided, kind = "pair"
                 PROVE  Stored <=> TypedBytes <= 160
      BY DEF PairLimit
    <2>1. typed[1] \in String /\ typed[2] \in String /\ typed[3] = <<>>
      BY DEF IInv, Decided, Fields
    <2>2. Stored <=> Bytes(typed[1]) + Bytes(typed[2]) <= 160
      BY <2>1, PairFits DEF Decided
    <2>3. TypedBytes = Bytes(typed[1]) + Bytes(typed[2])
      <3>1. Bytes(typed[1]) \in Nat /\ Bytes(typed[2]) \in Nat /\ Bytes(typed[3]) = 0
        BY <2>1, BytesType, EmptyBytes
      <3> QED  BY <3>1 DEF TypedBytes
    <2> QED  BY <2>2, <2>3
  <1> QED  BY <1>1, DecidedInvariant, PTL

(* SaveFile stores a file if and only if it has at most 4 MB: with any name *)
(* that a file system allows, the request then fits into a message of gRPC. *)
THEOREM FilesUpToTheLimit == Spec => []FileLimit
  <1>1. IInv /\ Decided => FileLimit
    <2> SUFFICES ASSUME IInv, Decided, kind = "file"
                 PROVE  Stored <=> Bytes(typed[2]) <= 4000000
      BY DEF FileLimit
    <2>1. typed[1] \in String /\ typed[2] \in String /\ Bytes(typed[1]) <= NameMax
      BY DEF IInv, Decided, Fields
    <2>2. Stored <=> ~TooBig(typed[2]) /\ Passes(typed[1], CryptoFile(typed[2]))
      BY DEF Decided
    <2> QED  BY <2>1, <2>2, FilePasses
  <1> QED  BY <1>1, DecidedInvariant, PTL

(* SplitN returns one string or two.                                        *)
LEMMA SplitType ==
    ASSUME NEW s \in String
    PROVE  \/ SplitTwo(s) = <<s>>
           \/ \E x, y \in String : SplitTwo(s) = <<x, y>>
  <1>1. CASE Has(s, Separator)
    <2>1. Cut(s) \in 1 .. Len(s)
      BY <1>1, CutIsFirst
    <2>2. Before(s) \in String /\ After(s) \in String
      <3>1. Len(s) \in Nat
        BY DEF String
      <3> QED  BY <2>1, <3>1 DEF Before, After, String
    <2>3. SplitTwo(s) = <<Before(s), After(s)>>
      BY <2>1 DEF SplitTwo
    <2> QED  BY <2>2, <2>3
  <1>2. CASE ~Has(s, Separator)
    <2>1. \A i \in 1 .. Len(s) : s[i] # Separator
      BY <1>2 DEF Has, String
    <2>2. Cut(s) = 0
      BY <2>1 DEF Cut, SelectInSeq
    <2> QED  BY <2>2 DEF SplitTwo
  <1> QED  BY <1>1, <1>2

(* What SaveCard stores.                                                    *)
LEMMA CardStored ==
    ASSUME IInv, Decided, kind = "card"
    PROVE  /\ typed[1] \in Seq(Chars)
           /\ Stored <=> ValidLuhnCardNumber(typed[1]) /\ TypedBytes <= 159
  <1>1. typed[1] \in String /\ typed[2] \in String /\ typed[3] \in String
    BY DEF IInv, Fields
  <1>2. Stored <=> /\ CardAccepted(typed[1])
                   /\ Fits(CryptoCard(typed[1], typed[2], typed[3]))
    BY DEF Decided
  <1>3. Fits(CryptoCard(typed[1], typed[2], typed[3]))
        <=> Bytes(typed[1]) + Bytes(typed[2]) + Bytes(typed[3]) <= 159
    BY <1>1, CardFits
  <1> QED  BY <1>1, <1>2, <1>3 DEF CardAccepted, TypedBytes, String

(* SaveCard stores those, and of a length that fits all, whose last digit   *)
(* is the check digit of ISO/IEC 7812.                                      *)
THEOREM OnlyCardNumbersStored == Spec => []OnlyCardNumbers
  <1>1. IInv /\ Decided => OnlyCardNumbers
    <2> SUFFICES ASSUME IInv, Decided, kind = "card", TypedBytes <= 159
                 PROVE  Stored <=> IsCardNumber(typed[1])
      BY DEF OnlyCardNumbers
    <2>1. typed[1] \in Seq(Chars) /\ (Stored <=> ValidLuhnCardNumber(typed[1]))
      BY CardStored
    <2>2. ValidLuhnCardNumber(typed[1]) <=> IsCardNumber(typed[1])
      BY <2>1, AcceptedAreCardNumbers
    <2> QED  BY <2>1, <2>2
  <1> QED  BY <1>1, DecidedInvariant, PTL

(* A stored number with one digit mistyped, or two neighbours exchanged.    *)
THEOREM NoTypoStored == Spec => []TyposRefused
  <1>1. IInv /\ Decided => TyposRefused
    <2> SUFFICES ASSUME IInv, Decided, kind = "card", Stored,
                        NEW wrong \in Mistyped(typed[1]) \cup Exchanged(typed[1])
                 PROVE  ~ValidLuhnCardNumber(wrong)
      BY DEF TyposRefused, CardAccepted
    <2> DEFINE s == typed[1]
    <2>1. s \in Seq(Chars) /\ ValidLuhnCardNumber(s)
      BY CardStored
    <2> HIDE DEF s
    <2>0. Len(s) \in Nat /\ DOMAIN s = 1 .. Len(s)
      BY <2>1
    <2>2. CASE wrong \in Mistyped(s)
      <3>1. PICK i \in 1 .. Len(s), d \in Digits :
                s[i] \in Digits /\ wrong = [s EXCEPT ![i] = d] /\ wrong # s
        BY <2>0, <2>2 DEF Mistyped
      <3>2. d # s[i]
        <4>1. [s EXCEPT ![i] = s[i]] = s
          BY <2>1
        <4> QED  BY <3>1, <4>1
      <3> QED  BY <2>1, <3>1, <3>2, MistypedRefused
    <2>3. CASE wrong \in Exchanged(s)
      <3>1. PICK i \in 1 .. Len(s) - 1 :
                /\ {s[i], s[i + 1]} # {"0", "9"} /\ {s[i], s[i + 1]} \subseteq Digits
                /\ wrong = [s EXCEPT ![i] = s[i + 1], ![i + 1] = s[i]] /\ wrong # s
        BY <2>3 DEF Exchanged
      <3>2. s[i] # s[i + 1]
        <4>1. i \in 1 .. Len(s) /\ i + 1 \in 1 .. Len(s)
          BY <2>0
        <4>2. [s EXCEPT ![i] = s[i], ![i + 1] = s[i + 1]] = s
          BY <2>1, <4>1
        <4>3. s[i] = s[i + 1] => wrong = [s EXCEPT ![i] = s[i], ![i + 1] = s[i + 1]]
          BY <3>1
        <4> QED  BY <3>1, <4>2, <4>3
      <3>3. s[i] \in Digits /\ s[i + 1] \in Digits
        BY <3>1
      <3> QED  BY <2>1, <3>1, <3>2, <3>3, ExchangedRefused
    <2> QED  BY <2>2, <2>3 DEF s
  <1> QED  BY <1>1, DecidedInvariant, PTL

-----------------------------------------------------------------------------
(* Types                                                                    *)

(* Whatever text is decrypted, DecryptPair returns two strings or an error. *)
LEMMA DecryptPairType ==
    ASSUME NEW x, x.text \in String
    PROVE  \/ DecryptPair(x) = Error
           \/ DecryptPair(x).ok /\ DecryptPair(x).fields \in [1 .. 2 -> String]
  <1>1. DecryptPair(x) = Parts(SplitTwo(x.text), 2)
    BY DEF DecryptPair, Decrypt
  <1>2. CASE SplitTwo(x.text) = <<x.text>>
    <2>1. Len(<<x.text>>) # 2
      OBVIOUS
    <2> QED  BY <1>1, <1>2, <2>1 DEF Parts
  <1>3. CASE \E a, b \in String : SplitTwo(x.text) = <<a, b>>
    <2>1. PICK a \in String, b \in String : SplitTwo(x.text) = <<a, b>>
      BY <1>3
    <2>2. Len(<<a, b>>) = 2
      OBVIOUS
    <2>3. DecryptPair(x) = Ok(<<a, b>>)
      BY <1>1, <2>1, <2>2 DEF Parts
    <2> QED  BY <2>3 DEF Ok
  <1> QED  BY <1>2, <1>3, SplitType

(* So does DecryptCard, with three.                                         *)
LEMMA DecryptCardType ==
    ASSUME NEW x, x.text \in String
    PROVE  \/ DecryptCard(x) = Error
           \/ DecryptCard(x).ok /\ DecryptCard(x).fields \in [1 .. 3 -> String]
  <1> DEFINE s == x.text
  <1>1. DecryptCard(x) = Parts(SplitThree(s), 3)
    BY DEF DecryptCard, Decrypt
  <1>0. s \in String
    OBVIOUS
  <1> HIDE DEF s
  <1>2. CASE SplitTwo(s) = <<s>>
    <2>1. SplitThree(s) = <<s>>
      <3>1. Cut(s) # 0 => Len(SplitTwo(s)) = 2
        BY DEF SplitTwo
      <3>2. Len(<<s>>) = 1
        OBVIOUS
      <3> QED  BY <1>2, <3>1, <3>2 DEF SplitThree
    <2>2. Len(<<s>>) # 3
      OBVIOUS
    <2> QED  BY <1>1, <2>1, <2>2 DEF Parts
  <1>3. CASE \E a, b \in String : SplitTwo(s) = <<a, b>>
    <2>1. PICK a \in String, b \in String : SplitTwo(s) = <<a, b>>
      BY <1>3
    <2>2. Cut(s) # 0 /\ Before(s) = a /\ After(s) = b
      <3>1. Len(<<a, b>>) # Len(<<s>>)
        OBVIOUS
      <3> QED  BY <2>1, <3>1 DEF SplitTwo
    <2>3. SplitThree(s) = <<a>> \o SplitTwo(b)
      BY <2>2 DEF SplitThree
    <2>4. CASE SplitTwo(b) = <<b>>
      <3>1. Len(<<a>> \o <<b>>) # 3
        OBVIOUS
      <3> QED  BY <1>1, <2>3, <2>4, <3>1 DEF Parts
    <2>5. CASE \E c, d \in String : SplitTwo(b) = <<c, d>>
      <3>1. PICK c \in String, d \in String : SplitTwo(b) = <<c, d>>
        BY <2>5
      <3> DEFINE l == <<a>> \o <<c, d>>
      <3>2. Len(l) = 3 /\ l \in [1 .. 3 -> String]
        <4>1. <<a>> \in Seq(String) /\ <<c, d>> \in Seq(String) /\ Len(<<a>>) = 1 /\ Len(<<c, d>>) = 2
          OBVIOUS
        <4>2. l \in Seq(String) /\ Len(l) = 1 + 2
          BY <4>1, ConcatProperties
        <4> HIDE DEF l
        <4>3. Len(l) = 3
          BY <4>2
        <4>4. l \in [1 .. Len(l) -> String]
          BY <4>2, LenProperties
        <4> QED  BY <4>3, <4>4
      <3>3. DecryptCard(x) = Ok(l)
        BY <1>1, <2>3, <3>1, <3>2 DEF Parts
      <3> QED  BY <3>2, <3>3 DEF Ok
    <2> QED  BY <2>4, <2>5, SplitType
  <1> QED  BY <1>0, <1>2, <1>3, SplitType

(* What the server keeps has a size within the limits of its place.         *)
LEMMA CipherType ==
    ASSUME IInv, Decided
    PROVE  /\ cipher.text \in String
           /\ cipher.size \in 0 .. (IF kind = "file" THEN MaxMessage ELSE Column)
  <1> USE KindsAre
  <1>1. typed[1] \in String /\ typed[2] \in String /\ typed[3] \in String
    BY DEF IInv, Fields
  <1>2. CASE ~Stored
    <2>1. cipher.text = <<>> /\ cipher.size = 0
      BY <1>2 DEF Decided, Nothing
    <2> QED  BY <2>1, EmptyBytes DEF MaxMessage, Column
  <1>3. CASE Stored /\ kind = "pair"
    <2>1. cipher = CryptoPair(typed[1], typed[2]) /\ Fits(cipher)
      BY <1>3 DEF IInv, Decided
    <2>2. cipher.text \in String /\ cipher.size \in Nat
      BY <1>1, <2>1, PairFits
    <2>3. cipher.size \in 0 .. Column
      BY <2>1, <2>2 DEF Fits, Column
    <2>4. kind # "file"
      BY <1>3
    <2> QED  BY <2>2, <2>3, <2>4, Zenon
  <1>4. CASE Stored /\ kind = "card"
    <2>1. cipher = CryptoCard(typed[1], typed[2], typed[3]) /\ Fits(cipher)
      BY <1>4 DEF IInv, Decided
    <2>2. cipher.text \in String /\ cipher.size \in Nat
      BY <1>1, <2>1, CardFits
    <2>3. cipher.size \in 0 .. Column
      BY <2>1, <2>2 DEF Fits, Column
    <2>4. kind # "file"
      BY <1>4
    <2> QED  BY <2>2, <2>3, <2>4, Zenon
  <1>5. CASE Stored /\ kind = "file"
    <2>1. /\ cipher = CryptoFile(typed[2]) /\ Passes(typed[1], cipher)
          /\ Bytes(typed[1]) <= NameMax
      BY <1>5 DEF Decided
    <2>2. cipher.text \in String /\ cipher.size \in Nat /\ cipher.size <= MaxMessage
      BY <1>1, <2>1, FilePasses
    <2>3. cipher.size \in 0 .. MaxMessage
      <3>1. MaxMessage \in Int
        BY DEF MaxMessage
      <3> HIDE DEF MaxMessage
      <3> QED  BY <2>2, <3>1
    <2>4. kind = "file"
      BY <1>5
    <2> QED  BY <2>2, <2>3, <2>4
  <1>6. ~Stored \/ kind = "pair" \/ kind = "card" \/ kind = "file"
    BY DEF IInv, Stored
  <1> DEFINE bound == IF kind = "file" THEN MaxMessage ELSE Column
  <1> HIDE DEF bound
  <1>7. cipher.text \in String /\ cipher.size \in 0 .. bound
    BY <1>2, <1>3, <1>4, <1>5, <1>6 DEF bound
  <1> QED  BY <1>7 DEF bound

(* The variables of RoundTrip have their types.                             *)
THEOREM RecordsTypeCorrect == Spec => []TypeOK
  <1>1. IInv /\ Decided => TypeOK
    <2> SUFFICES ASSUME IInv, Decided  PROVE TypeOK
      OBVIOUS
    <2>1. cipher.text \in String
      BY CipherType
    <2>2. \/ shown = Error
          \/ shown.ok /\ shown.fields \in [1 .. Arity[kind] -> String]
      <3>1. CASE stage # "shown" \/ kind = "file"
        BY <3>1 DEF Decided
      <3>2. CASE stage = "shown" /\ kind = "pair"
        <4>1. shown = DecryptPair(cipher) /\ Arity[kind] = 2
          BY <3>2 DEF IInv, Arity
        <4> QED  BY <2>1, <4>1, DecryptPairType
      <3>3. CASE stage = "shown" /\ kind = "card"
        <4>1. shown = DecryptCard(cipher) /\ Arity[kind] = 3
          BY <3>3 DEF IInv, Arity
        <4> QED  BY <2>1, <4>1, DecryptCardType
      <3> QED  BY <3>1, <3>2, <3>3, KindsAre DEF IInv
    <2> QED  BY <2>2, CipherType DEF TypeOK, IInv, Decided
  <1> QED  BY <1>1, DecidedInvariant, PTL
=============================================================================
