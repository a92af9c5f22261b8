---------------------------- MODULE FormatsProofs ----------------------------
(***************************************************************************)
(* What goKeeper's record formats bring back and how long they become, and *)
(* which card numbers its check accepts, for strings of any length over    *)
(* any set of characters.                                                  *)
(***************************************************************************)
EXTENDS Formats, SequenceTheorems, WellFoundedInduction, TLAPS

(* A nonempty set of natural numbers has a least element, and Min is it.    *)
LEMMA MinIsLeast ==
    ASSUME NEW I \in SUBSET Nat, I # {}
    PROVE  Min(I) \in I /\ \A j \in I : Min(I) <= j
  <1>1. \E m \in I : \A j \in I : ~ (<<j, m>> \in OpToRel(<, Nat))
    BY NatLessThanWellFounded, WFMin
  <1>2. PICK m \in I : \A j \in I : ~ (<<j, m>> \in OpToRel(<, Nat))
    BY <1>1
  <1>3. ASSUME NEW j \in Nat, NEW k \in Nat, j < k PROVE <<j, k>> \in OpToRel(<, Nat)
    BY <1>3, SMT DEF OpToRel
  <1>4. ASSUME NEW j \in I PROVE ~ (j < m)
    BY <1>2, <1>3, Zenon
  <1>5. \A j \in I : m <= j
    BY <1>4, SMT
  <1> QED
    BY <1>5 DEF Min

(* Cut finds the first separator of a string that has one.                  *)
LEMMA CutIsFirst ==
    ASSUME NEW s \in String, Has(s, Separator)
    PROVE  /\ Cut(s) \in 1 .. Len(s)
           /\ s[Cut(s)] = Separator
           /\ \A j \in 1 .. Cut(s) - 1 : s[j] # Separator
  <1> DEFINE I == {i \in 1 .. Len(s) : s[i] = Separator}
  <1>1. I \in SUBSET Nat /\ I # {}
    BY DEF String, Has
  <1>2. Min(I) \in I /\ \A j \in I : Min(I) <= j
    BY <1>1, MinIsLeast
  <1>3. Cut(s) = Min(I)
    BY <1>1 DEF Cut, SelectInSeq
  <1>4. Cut(s) \in I /\ \A j \in I : Cut(s) <= j
    BY <1>2, <1>3
  <1> HIDE DEF I
  <1>5. \A i : i \in I <=> i \in 1 .. Len(s) /\ s[i] = Separator
    BY DEF I
  <1>6. Len(s) \in Nat
    BY DEF String
  <1> QED
    BY <1>4, <1>5, <1>6

(* Two strings with a separator between them: SplitTwo cuts them apart      *)
(* again, unless the first one holds a separator; then it cuts that one.    *)
LEMMA SplitJoined ==
    ASSUME NEW a \in String, NEW b \in String
    PROVE  LET s == a \o <<Separator>> \o b IN
           /\ s \in String
           /\ ~Has(a, Separator) => SplitTwo(s) = <<a, b>>
           /\ Has(a, Separator) => \E x, y \in String : SplitTwo(s) = <<x, y>> /\ x # a
  <1> DEFINE m == a \o <<Separator>>
             s == m \o b
  <1>1. /\ <<Separator>> \in String /\ m \in String
        /\ Len(m) = Len(a) + 1
        /\ \A i \in 1 .. Len(a) : m[i] = a[i]
        /\ m[Len(a) + 1] = Separator
    BY FormatsAssumption DEF String
  <1>2. /\ s \in String
        /\ Len(s) = Len(a) + 1 + Len(b)
        /\ \A i \in 1 .. Len(a) : s[i] = a[i]
        /\ s[Len(a) + 1] = Separator
        /\ \A i \in 1 .. Len(b) : s[Len(a) + 1 + i] = b[i]
    <2> HIDE DEF m
    <2> QED
      BY <1>1, SMTT(30) DEF String
  <1> HIDE DEF s
  <1>3. Len(a) \in Nat /\ Len(b) \in Nat
    BY DEF String
  <1>4. Has(s, Separator)
    BY <1>2, <1>3 DEF Has, String
  <1>5. /\ Cut(s) \in 1 .. Len(s) /\ s[Cut(s)] = Separator
        /\ \A j \in 1 .. Cut(s) - 1 : s[j] # Separator
    BY <1>2, <1>4, CutIsFirst
  <1>6. SplitTwo(s) = <<Before(s), After(s)>>
    BY <1>5, <1>2, <1>3 DEF SplitTwo
  <1>7. Before(s) \in String /\ Len(Before(s)) = Cut(s) - 1
    BY <1>2, <1>3, <1>5 DEF Before, String
  <1>8. After(s) \in String
    BY <1>2, <1>3, <1>5 DEF After, String
  <1>9. ASSUME ~Has(a, Separator) PROVE SplitTwo(s) = <<a, b>>
    <2>1. Cut(s) = Len(a) + 1
      <3>1. \A i \in 1 .. Len(a) : s[i] # Separator
        <4>1. \A i \in DOMAIN a : a[i] # Separator
          BY <1>9 DEF Has
        <4>2. DOMAIN a = 1 .. Len(a)
          BY DEF String
        <4> QED
          BY <4>1, <4>2, <1>2
      <3> QED
        BY <3>1, <1>2, <1>3, <1>5
    <2>2. Before(s) = a
      <3>1. \A i \in 1 .. Len(a) : Before(s)[i] = a[i]
        BY <2>1, <1>2, <1>3 DEF Before, String
      <3> QED
        BY <3>1, <2>1, <1>7, <1>3, SeqEqual DEF String
    <2>3. After(s) = b
      <3>1. Len(After(s)) = Len(b) /\ \A i \in 1 .. Len(b) : After(s)[i] = b[i]
        BY <2>1, <1>2, <1>3 DEF After, String
      <3> QED
        BY <3>1, <1>8, <1>3, SeqEqual DEF String
    <2> QED
      BY <2>2, <2>3, <1>6
  <1>10. ASSUME Has(a, Separator) PROVE Before(s) # a
    <2>1. PICK i \in DOMAIN a : a[i] = Separator
      BY <1>10 DEF Has
    <2>2. i \in 1 .. Len(a)
      BY DEF String
    <2>3. s[i] = Separator
      BY <2>1, <2>2, <1>2
    <2>4. Cut(s) <= i
      BY <2>2, <2>3, <1>2, <1>3, <1>5
    <2> QED
      BY <2>2, <2>4, <1>7, <1>3, <1>5
  <1>11. s = a \o <<Separator>> \o b
    BY DEF s
  <1> QED
    BY <1>2, <1>6, <1>7, <1>8, <1>9, <1>10, <1>11

(* What DecryptPair makes of what CryptoPair has sealed, for every login    *)
(* and password.                                                            *)
THEOREM PairComesBack ==
    ASSUME NEW l \in String, NEW p \in String
    PROVE  LET back == DecryptPair(CryptoPair(l, p)) IN
           /\ back.ok
           /\ back.fields = <<l, p>> <=> ~Has(l, Separator)
  <1> DEFINE s == l \o <<Separator>> \o p
  <1>1. DecryptPair(CryptoPair(l, p)) = Parts(SplitTwo(s), 2)
    BY DEF DecryptPair, CryptoPair, Encrypt, Decrypt
  <1>2. ASSUME NEW x, NEW y PROVE Parts(<<x, y>>, 2) = Ok(<<x, y>>)
    BY DEF Parts
  <1>3. CASE ~Has(l, Separator)
    <2>1. SplitTwo(s) = <<l, p>>
      BY <1>3, SplitJoined
    <2>2. DecryptPair(CryptoPair(l, p)) = Ok(<<l, p>>)
      BY <2>1, <1>1, <1>2
    <2> QED
      BY <2>2, <1>3 DEF Ok
  <1>4. CASE Has(l, Separator)
    <2>1. PICK x \in String, y \in String : SplitTwo(s) = <<x, y>> /\ x # l
      BY <1>4, SplitJoined
    <2>2. DecryptPair(CryptoPair(l, p)) = Ok(<<x, y>>)
      BY <2>1, <1>1, <1>2
    <2> QED
      BY <2>1, <2>2, <1>4 DEF Ok
  <1> QED
    BY <1>3, <1>4

(* The number of an accepted card consists of digits and spaces.            *)
LEMMA AcceptedHasNoSeparator ==
    ASSUME NEW number \in String, CardAccepted(number)
    PROVE  ~Has(number, Separator)
  <1>1. Separator \notin Digits \cup {Space}
    BY DEF Separator, Space, Digits, ToSet, Numerals
  <1> QED
    BY <1>1 DEF CardAccepted, ValidLuhnCardNumber, Has

(* What DecryptCard makes of what CryptoCard has sealed: the number comes   *)
(* back in any case.                                                        *)
THEOREM CardComesBack ==
    ASSUME NEW n \in String, NEW v \in String, NEW c \in String, CardAccepted(n)
    PROVE  LET back == DecryptCard(CryptoCard(n, v, c)) IN
           /\ back.ok
           /\ back.fields = <<n, v, c>> <=> ~Has(v, Separator)
           /\ back.fields[1] = n
  <1> DEFINE t == v \o <<Separator>> \o c
             s == n \o <<Separator>> \o t
  <1>1. t \in String /\ s \in String
    BY SplitJoined
  <1>2. n \o <<Separator>> \o v \o <<Separator>> \o c = s
    <2>1. <<Separator>> \in String
      BY FormatsAssumption DEF String
    <2>2. /\ (n \o <<Separator>>) \in String
          /\ v \o <<Separator>> \in String
      BY <2>1, ConcatProperties DEF String
    <2>3. (n \o <<Separator>>) \o v \o <<Separator>> = (n \o <<Separator>>) \o (v \o <<Separator>>)
      BY <2>1, <2>2, ConcatAssociative, SMTT(30) DEF String
    <2>4. (n \o <<Separator>>) \o (v \o <<Separator>>) \o c = (n \o <<Separator>>) \o (v \o <<Separator>> \o c)
      BY <2>1, <2>2, ConcatAssociative, SMTT(30) DEF String
    <2> QED
      BY <2>3, <2>4
  <1>3. DecryptCard(CryptoCard(n, v, c)) = Parts(SplitThree(s), 3)
    BY <1>2 DEF DecryptCard, CryptoCard, Encrypt, Decrypt
  <1> HIDE DEF t
  <1>4. SplitTwo(s) = <<n, t>>
    BY <1>1, SplitJoined, AcceptedHasNoSeparator
  <1> HIDE DEF s
  <1>5. Cut(s) # 0 /\ Before(s) = n /\ After(s) = t
    BY <1>4 DEF SplitTwo
  <1>6. SplitThree(s) = <<n>> \o SplitTwo(t)
    BY <1>5 DEF SplitThree
  <1>7. ASSUME NEW x \in String, NEW y \in String, SplitTwo(t) = <<x, y>>
        PROVE  DecryptCard(CryptoCard(n, v, c)) = Ok(<<n, x, y>>)
    <2>1. <<n>> \o <<x, y>> = <<n, x, y>>
      <3>1. <<n>> \in Seq(String) /\ <<x, y>> \in Seq(String) /\ <<n, x, y>> \in Seq(String)
        OBVIOUS
      <3>2. Len(<<n>> \o <<x, y>>) = Len(<<n, x, y>>)
        OBVIOUS
      <3>3. ASSUME NEW i \in 1 .. 3 PROVE (<<n>> \o <<x, y>>)[i] = <<n, x, y>>[i]
        <4>1. i = 1 \/ i = 2 \/ i = 3
          OBVIOUS
        <4> QED
          BY <4>1, <3>1, ConcatProperties
      <3>4. Len(<<n>> \o <<x, y>>) = 3
        OBVIOUS
      <3>5. <<n>> \o <<x, y>> \in Seq(String)
        BY <3>1, ConcatProperties
      <3> QED
        BY <3>1, <3>2, <3>3, <3>4, <3>5, SeqEqual
    <2>2. SplitThree(s) = <<n, x, y>>
      BY <2>1, <1>6, <1>7
    <2>3. Len(<<n, x, y>>) = 3
      OBVIOUS
    <2> QED
      BY <2>2, <2>3, <1>3 DEF Parts
  <1>8. CASE ~Has(v, Separator)
    <2>1. SplitTwo(t) = <<v, c>>
      BY <1>8, SplitJoined DEF t
    <2> QED
      BY <2>1, <1>7, <1>8 DEF Ok
  <1>9. CASE Has(v, Separator)
    <2>1. PICK x \in String, y \in String : SplitTwo(t) = <<x, y>> /\ x # v
      BY <1>9, SplitJoined DEF t
    <2>2. DecryptCard(CryptoCard(n, v, c)) = Ok(<<n, x, y>>)
      BY <2>1, <1>7
    <2> QED
      BY <2>1, <2>2, <1>9 DEF Ok
  <1> QED
    BY <1>8, <1>9

(* A text that is sealed and encoded fits into VARCHAR(255) if and only if  *)
(* it has at most 161 bytes, the separators among them.                     *)
THEOREM ColumnLimit ==
    \A n \in Nat : EncodedLen(NonceSize + n + TagSize) <= Column <=> n <= 161
  BY DEF EncodedLen, NonceSize, TagSize, Column

-----------------------------------------------------------------------------
(* Sums                                                                     *)

(* A set of numbers that holds 0 and, up to N, the successor of each of its *)
(* members holds all of them: induction, by the least number that is not.   *)
LEMMA UpTo ==
    ASSUME NEW N \in Nat, NEW I, 0 \in I,
           \A n \in 0 .. N - 1 : n \in I => n + 1 \in I
    PROVE  0 .. N \subseteq I
  <1> DEFINE Out == {n \in 0 .. N : n \notin I}
  <1>1. SUFFICES ASSUME Out # {}  PROVE FALSE
    OBVIOUS
  <1>2. Out \in SUBSET Nat
    OBVIOUS
  <1>3. Min(Out) \in Out /\ \A j \in Out : Min(Out) <= j
    BY <1>1, <1>2, MinIsLeast
  <1>4. PICK m \in Out : \A j \in Out : m <= j
    BY <1>3
  <1>5. m \in 1 .. N /\ m - 1 \in 0 .. N - 1
    BY <1>4
  <1>6. m - 1 \in I
    BY <1>4, <1>5
  <1>7. m \in I
    BY <1>5, <1>6
  <1> QED  BY <1>7

(* f[n] is the sum of the first n numbers of w.                             *)
Sums(f, w, N) ==
    /\ f \in [0 .. N -> Nat]
    /\ f[0] = 0
    /\ \A n \in 0 .. N - 1 : f[n + 1] = f[n] + w[n + 1]

(* Total, which the model takes from a recursive function, is the last of   *)
(* these sums: there is one such f, and the recursive function, which is    *)
(* only chosen, is equal to it.                                             *)
LEMMA TotalSums ==
    ASSUME NEW w \in Seq(Nat)
    PROVE  \E f : Sums(f, w, Len(w)) /\ Total(w) = f[Len(w)]
  <1> DEFINE N == Len(w)
             Summed == {n \in 0 .. N : \E f : Sums(f, w, n)}
  <1>1. N \in Nat /\ \A i \in 1 .. N : w[i] \in Nat
    OBVIOUS
  <1> HIDE DEF N
  <1>2. 0 \in Summed
    <2>1. Sums([i \in 0 .. 0 |-> 0], w, 0)
      BY DEF Sums
    <2> QED  BY <1>1, <2>1
  <1>3. ASSUME NEW n \in 0 .. N - 1, n \in Summed  PROVE n + 1 \in Summed
    <2>1. PICK f : Sums(f, w, n)
      BY <1>3
    <2> DEFINE g == [i \in 0 .. n + 1 |-> IF i = n + 1 THEN f[n] + w[i] ELSE f[i]]
    <2>2. g \in [0 .. n + 1 -> Nat] /\ g[0] = 0
      BY <1>1, <2>1 DEF Sums
    <2>3. ASSUME NEW i \in 0 .. n  PROVE g[i + 1] = g[i] + w[i + 1]
      <3>1. CASE i = n
        BY <1>1, <2>1, <3>1 DEF Sums
      <3>2. CASE i < n
        BY <1>1, <2>1, <3>2 DEF Sums
      <3> QED  BY <3>1, <3>2
    <2> HIDE DEF g
    <2>4. Sums(g, w, n + 1)
      <3>1. (n + 1) - 1 = n
        OBVIOUS
      <3> QED  BY <2>2, <2>3, <3>1 DEF Sums
    <2> QED  BY <1>1, <2>4
  <1>4. N \in Summed
    <2> HIDE DEF Summed
    <2>1. 0 .. N \subseteq Summed
      BY <1>1, <1>2, <1>3, UpTo
    <2> QED  BY <1>1, <2>1
  <1>5. PICK f : Sums(f, w, N)
    BY <1>4
  <1> DEFINE Def(h) == [n \in 0 .. N |-> IF n = 0 THEN 0 ELSE h[n - 1] + w[n]]
             sum == CHOOSE h : h = Def(h)
  <1>6. f = Def(f)
    <2>1. \A n \in 1 .. N : f[n] = f[n - 1] + w[n]
      <3> SUFFICES ASSUME NEW n \in 1 .. N  PROVE f[n] = f[n - 1] + w[n]
        OBVIOUS
      <3>1. n - 1 \in 0 .. N - 1 /\ (n - 1) + 1 = n
        BY <1>1
      <3> QED  BY <1>5, <3>1 DEF Sums
    <2>2. f \in [0 .. N -> Nat] /\ f[0] = 0
      BY <1>5 DEF Sums
    <2>3. Def(f) = [n \in 0 .. N |-> f[n]]
      BY <1>1, <2>1, <2>2
    <2> QED  BY <2>2, <2>3
  <1>7. sum = Def(sum)
    BY <1>6
  <1>8. Total(w) = sum[N]
    BY DEF Total, N
  <1> HIDE DEF sum
  <1>9. \A n \in 0 .. N : sum[n] = IF n = 0 THEN 0 ELSE sum[n - 1] + w[n]
    BY <1>7
  <1> DEFINE Same == {n \in 0 .. N : sum[n] = f[n]}
  <1>10. 0 \in Same
    BY <1>1, <1>5, <1>9 DEF Sums
  <1>11. ASSUME NEW n \in 0 .. N - 1, n \in Same  PROVE n + 1 \in Same
    BY <1>1, <1>5, <1>9, <1>11 DEF Sums
  <1>12. N \in Same
    <2> HIDE DEF Same
    <2>1. 0 .. N \subseteq Same
      BY <1>1, <1>10, <1>11, UpTo
    <2> QED  BY <1>1, <2>1
  <1>13. Total(w) = f[N]
    BY <1>8, <1>12
  <1> QED  BY <1>5, <1>13 DEF N

(* One step of a sum.                                                       *)
LEMMA SumStep ==
    ASSUME NEW N \in Nat, NEW w \in [1 .. N -> Nat], NEW f, Sums(f, w, N),
           NEW n \in 0 .. N - 1
    PROVE  /\ n \in 0 .. N /\ n + 1 \in 1 .. N /\ n + 1 \in 0 .. N
           /\ f[n] \in Nat /\ f[n + 1] \in Nat /\ w[n + 1] \in Nat
           /\ f[n + 1] = f[n] + w[n + 1]
  <1>1. n \in 0 .. N /\ n + 1 \in 1 .. N /\ n + 1 \in 0 .. N
    OBVIOUS
  <1>2. f[n + 1] = f[n] + w[n + 1]
    BY DEF Sums
  <1>3. f[n] \in Nat /\ f[n + 1] \in Nat
    BY <1>1 DEF Sums
  <1> QED  BY <1>1, <1>2, <1>3

(* a + c and b + d are the same, and stay so if e is added on both sides.   *)
Level(a, b, c, d) == a \in Nat /\ b \in Nat /\ c \in Nat /\ d \in Nat /\ a + c = b + d

LEMMA LevelKept ==
    \A a, b, c, d, e : Level(a, b, c, d) /\ e \in Nat => Level(a + e, b + e, c, d)
  BY DEF Level

(* Changing one number changes the sum by the same amount.                  *)
LEMMA TotalChange ==
    ASSUME NEW v \in Seq(Nat), NEW w \in Seq(Nat), Len(v) = Len(w),
           NEW k \in 1 .. Len(w), \A i \in 1 .. Len(w) : i # k => v[i] = w[i]
    PROVE  Total(v) + w[k] = Total(w) + v[k]
  <1> DEFINE N == Len(w)
  <1>1. PICK f : Sums(f, v, N) /\ Total(v) = f[N]
    BY TotalSums
  <1>2. PICK g : Sums(g, w, N) /\ Total(w) = g[N]
    BY TotalSums
  <1>0. N \in Nat
    OBVIOUS
  <1>3. /\ w \in [1 .. N -> Nat] /\ v \in [1 .. N -> Nat] /\ k \in 1 .. N
        /\ \A i \in 1 .. N : i # k => v[i] = w[i]
    OBVIOUS
  <1> HIDE DEF N
  <1> DEFINE I == {n \in 0 .. N : IF n < k THEN f[n] = g[n] ELSE f[n] + w[k] = g[n] + v[k]}
  <1>4. 0 \in I
    BY <1>0, <1>1, <1>2, <1>3 DEF Sums
  <1>5. ASSUME NEW n \in 0 .. N - 1, n \in I  PROVE n + 1 \in I
    <2>1. f[n + 1] = f[n] + v[n + 1] /\ g[n + 1] = g[n] + w[n + 1]
      BY <1>0, <1>1, <1>2, <1>3, SumStep
    <2>0. n \in 0 .. N /\ n + 1 \in 1 .. N /\ n + 1 \in 0 .. N
      BY <1>0, <1>1, <1>3, SumStep
    <2>2. /\ f[n] \in Nat /\ g[n] \in Nat /\ v[n + 1] \in Nat /\ w[n + 1] \in Nat
          /\ v[k] \in Nat /\ w[k] \in Nat
      BY <1>0, <1>1, <1>2, <1>3, SumStep
    <2>3. n + 1 # k => v[n + 1] = w[n + 1]
      BY <1>3, <2>0
    <2>7. k \in Int /\ n \in Int
      BY <1>0, <1>3
    <2>8. IF n < k THEN f[n] = g[n] ELSE f[n] + w[k] = g[n] + v[k]
      BY <1>5
    <2>4. CASE n + 1 < k
      <3>1. f[n] = g[n] /\ v[n + 1] = w[n + 1]
        BY <2>3, <2>4, <2>7, <2>8
      <3>2. f[n + 1] = g[n + 1]
        BY <2>1, <3>1
      <3> QED  BY <2>0, <2>4, <3>2
    <2>5. CASE n + 1 = k
      <3>1. f[n] = g[n]
        BY <2>5, <2>7, <2>8
      <3>2. f[n + 1] + w[k] = g[n + 1] + v[k]
        BY <2>1, <2>2, <2>5, <3>1
      <3> QED  BY <2>0, <2>5, <2>7, <3>2
    <2>6. CASE k < n + 1
      <3>1. f[n] + w[k] = g[n] + v[k] /\ v[n + 1] = w[n + 1]
        BY <2>3, <2>6, <2>7, <2>8
      <3>2. Level(f[n], g[n], w[k], v[k])
        BY <2>2, <3>1, Zenon DEF Level
      <3>3. Level(f[n] + v[n + 1], g[n] + v[n + 1], w[k], v[k])
        BY <2>2, <3>2, LevelKept, Zenon
      <3>4. Level(f[n + 1], g[n + 1], w[k], v[k])
        BY <2>1, <3>1, <3>3, Zenon
      <3>5. f[n + 1] + w[k] = g[n + 1] + v[k]
        BY <3>4, Zenon DEF Level
      <3> QED  BY <2>0, <2>6, <2>7, <3>5
    <2> QED  BY <2>4, <2>5, <2>6, <2>7
  <1>6. N \in I
    <2> HIDE DEF I
    <2>1. 0 .. N \subseteq I
      BY <1>0, <1>4, <1>5, UpTo
    <2> QED  BY <1>0, <2>1
  <1> QED  BY <1>0, <1>1, <1>2, <1>3, <1>6

(* The sum of a concatenation.                                              *)
LEMMA TotalConcat ==
    ASSUME NEW v \in Seq(Nat), NEW w \in Seq(Nat)
    PROVE  v \o w \in Seq(Nat) /\ Total(v \o w) = Total(v) + Total(w)
  <1> DEFINE M == Len(v)
             N == Len(w)
             u == v \o w
  <1>1. /\ M \in Nat /\ N \in Nat /\ u \in Seq(Nat) /\ Len(u) = M + N
        /\ v \in [1 .. M -> Nat] /\ w \in [1 .. N -> Nat]
        /\ \A i \in 1 .. M : u[i] = v[i]
        /\ \A i \in 1 .. N : u[M + i] = w[i]
    OBVIOUS
  <1> HIDE DEF u
  <1>2. PICK f : Sums(f, u, M + N) /\ Total(u) = f[M + N]
    BY <1>1, TotalSums
  <1>3. PICK g : Sums(g, v, M) /\ Total(v) = g[M]
    BY TotalSums
  <1>4. PICK h : Sums(h, w, N) /\ Total(w) = h[N]
    BY TotalSums
  <1> HIDE DEF M, N
  <1>5. f[M] = g[M]
    <2> DEFINE I == {n \in 0 .. M : f[n] = g[n]}
    <2>1. 0 \in I
      BY <1>1, <1>2, <1>3 DEF Sums
    <2>2. ASSUME NEW n \in 0 .. M - 1, n \in I  PROVE n + 1 \in I
      <3>1. n \in 0 .. (M + N) - 1 /\ n + 1 \in 1 .. M
        BY <1>1
      <3>2. f[n + 1] = f[n] + u[n + 1] /\ g[n + 1] = g[n] + v[n + 1]
        BY <1>2, <1>3, <3>1 DEF Sums
      <3> QED  BY <1>1, <2>2, <3>1, <3>2
    <2>3. M \in I
      <3> HIDE DEF I
      <3>1. 0 .. M \subseteq I
        BY <1>1, <2>1, <2>2, UpTo
      <3> QED  BY <1>1, <3>1
    <2> QED  BY <2>3
  <1>6. f[M + N] = g[M] + h[N]
    <2> DEFINE I == {n \in 0 .. N : f[M + n] = g[M] + h[n]}
    <2>0. M \in 0 .. M /\ g[M] \in Nat
      BY <1>1, <1>3 DEF Sums
    <2>1. 0 \in I
      BY <1>1, <1>4, <1>5, <2>0 DEF Sums
    <2>2. ASSUME NEW n \in 0 .. N - 1, n \in I  PROVE n + 1 \in I
      <3>1. /\ n + 1 \in 1 .. N /\ M + n \in 0 .. (M + N) - 1
            /\ (M + n) + 1 = M + (n + 1)
        BY <1>1
      <3>2. f[M + (n + 1)] = f[M + n] + u[M + (n + 1)]
        BY <1>2, <3>1 DEF Sums
      <3>3. h[n + 1] = h[n] + w[n + 1] /\ h[n] \in Nat
        BY <1>1, <1>4 DEF Sums
      <3>4. u[M + (n + 1)] = w[n + 1] /\ w[n + 1] \in Nat
        BY <1>1, <3>1
      <3>5. f[M + n] = g[M] + h[n]
        BY <2>2
      <3>6. f[M + (n + 1)] = g[M] + h[n + 1]
        BY <2>0, <3>2, <3>3, <3>4, <3>5, SMTT(30)
      <3> QED  BY <1>1, <3>1, <3>6
    <2>3. N \in I
      <3> HIDE DEF I
      <3>1. 0 .. N \subseteq I
        BY <1>1, <2>1, <2>2, UpTo
      <3> QED  BY <1>1, <3>1
    <2> QED  BY <2>3
  <1>7. Total(u) = Total(v) + Total(w)
    BY <1>2, <1>3, <1>4, <1>6
  <1> QED  BY <1>1, <1>7 DEF u

(* The sum of a sequence is that of its reverse.                            *)
LEMMA TotalReverse ==
    ASSUME NEW v \in Seq(Nat), NEW w \in Seq(Nat), Len(v) = Len(w),
           \A i \in 1 .. Len(w) : v[i] = w[Len(w) + 1 - i]
    PROVE  Total(v) = Total(w)
  <1> DEFINE N == Len(w)
  <1>1. PICK f : Sums(f, w, N) /\ Total(w) = f[N]
    BY TotalSums
  <1>2. PICK g : Sums(g, v, N) /\ Total(v) = g[N]
    BY TotalSums
  <1>0. N \in Nat
    OBVIOUS
  <1>3. /\ v \in [1 .. N -> Nat] /\ w \in [1 .. N -> Nat]
        /\ \A i \in 1 .. N : v[i] = w[N + 1 - i]
    BY SMTT(30)
  <1> HIDE DEF N
  <1> DEFINE I == {n \in 0 .. N : f[N - n] + g[n] = f[N]}
  <1>4. 0 \in I
    BY <1>0, <1>1, <1>2, <1>3 DEF Sums
  <1>5. ASSUME NEW n \in 0 .. N - 1, n \in I  PROVE n + 1 \in I
    <2> DEFINE m == N - (n + 1)
    <2>1. m \in 0 .. N - 1 /\ m + 1 \in 1 .. N /\ m + 1 = N - n /\ N + 1 - (n + 1) = m + 1
      BY <1>0
    <2> HIDE DEF I, m
    <2>2. f[m + 1] = f[m] + w[m + 1] /\ f[m] \in Nat
      BY <1>0, <1>1, <1>3, <2>1, SumStep
    <2>3. g[n + 1] = g[n] + v[n + 1] /\ g[n] \in Nat
      BY <1>0, <1>2, <1>3, SumStep
    <2>4. v[n + 1] = w[m + 1] /\ w[m + 1] \in Nat
      <3>1. n + 1 \in 1 .. N
        <4> HIDE DEF I, m
        <4> QED  BY <1>0, <1>5
      <3> DEFINE i == n + 1
      <3>2. i \in 1 .. N => v[i] = w[N + 1 - i]
        BY <1>3
      <3>3. v[n + 1] = w[N + 1 - (n + 1)]
        BY <3>1, <3>2
      <3>4. v[n + 1] = w[m + 1]
        BY <2>1, <3>3
      <3> QED  BY <1>3, <2>1, <3>4
    <2>5. f[m + 1] + g[n] = f[N]
      BY <1>5, <2>1 DEF I
    <2>6. f[m] + g[n + 1] = f[N]
      BY <2>2, <2>3, <2>4, <2>5
    <2> QED  BY <1>0, <2>6 DEF I, m
  <1>6. N \in I
    <2> HIDE DEF I
    <2>1. 0 .. N \subseteq I
      BY <1>0, <1>4, <1>5, UpTo
    <2> QED  BY <1>0, <2>1
  <1>7. f[0] + g[N] = f[N] /\ f[0] = 0 /\ g[N] \in Nat
    BY <1>0, <1>1, <1>2, <1>3, <1>6 DEF Sums
  <1> QED  BY <1>1, <1>2, <1>7

-----------------------------------------------------------------------------
(* Lengths                                                                  *)

(* The sum of a sequence of numbers is a number.                            *)
LEMMA TotalType == \A w \in Seq(Nat) : Total(w) \in Nat
  <1> SUFFICES ASSUME NEW w \in Seq(Nat)  PROVE Total(w) \in Nat
    OBVIOUS
  <1>1. PICK f : Sums(f, w, Len(w)) /\ Total(w) = f[Len(w)]
    BY TotalSums
  <1>2. Len(w) \in 0 .. Len(w)
    OBVIOUS
  <1> QED  BY <1>1, <1>2 DEF Sums

(* The sum of a single number.                                              *)
LEMMA TotalOne == \A a \in Nat : Total(<<a>>) = a
  <1> SUFFICES ASSUME NEW a \in Nat  PROVE Total(<<a>>) = a
    OBVIOUS
  <1> DEFINE w == <<a>>
  <1>1. w \in Seq(Nat) /\ Len(w) = 1 /\ w[1] = a
    OBVIOUS
  <1> HIDE DEF w
  <1>2. PICK f : Sums(f, w, Len(w)) /\ Total(w) = f[Len(w)]
    BY <1>1, TotalSums
  <1>3. f[0] = 0 /\ f[0 + 1] = f[0] + w[0 + 1] /\ Total(w) = f[1]
    BY <1>1, <1>2 DEF Sums
  <1>4. Total(w) = a
    BY <1>1, <1>3
  <1> QED  BY <1>4 DEF w

(* What Bytes adds up.                                                      *)
Widths(s) == [i \in DOMAIN s |-> Width[s[i]]]

(* The widths of a string, one number for each of its characters.           *)
LEMMA WidthsType ==
    ASSUME NEW s \in String
    PROVE  /\ Widths(s) \in Seq(Nat) /\ Len(Widths(s)) = Len(s)
           /\ \A i \in 1 .. Len(s) : Widths(s)[i] = Width[s[i]]
  <1>1. DOMAIN s = 1 .. Len(s) /\ Len(s) \in Nat /\ \A i \in 1 .. Len(s) : s[i] \in Chars
    BY DEF String
  <1>2. \A i \in 1 .. Len(s) : Width[s[i]] \in Nat
    BY <1>1, FormatsAssumption
  <1> DEFINE n == Len(s)
             w == [i \in 1 .. n |-> Width[s[i]]]
  <1>3. Widths(s) = w
    BY <1>1 DEF Widths
  <1>4. w \in [1 .. n -> Nat]
    BY <1>2
  <1>5. w \in Seq(Nat) /\ Len(w) = n
    <2> HIDE DEF w, n
    <2>1. n \in Nat
      BY <1>1 DEF n
    <2> QED  BY <1>4, <2>1
  <1> QED  BY <1>3, <1>5

(* The bytes of a string are a number.                                      *)
LEMMA BytesType == \A s \in String : Bytes(s) \in Nat
  BY WidthsType, TotalType DEF Bytes, Widths

(* Bytes add up.                                                            *)
LEMMA BytesConcat ==
    ASSUME NEW a \in String, NEW b \in String
    PROVE  a \o b \in String /\ Bytes(a \o b) = Bytes(a) + Bytes(b)
  <1> DEFINE c == a \o b
  <1>1. /\ c \in String /\ Len(c) = Len(a) + Len(b) /\ Len(a) \in Nat /\ Len(b) \in Nat
        /\ \A i \in 1 .. Len(a) : c[i] = a[i]
        /\ \A i \in 1 .. Len(b) : c[Len(a) + i] = b[i]
    BY DEF String
  <1> HIDE DEF c
  <1> DEFINE w == Widths(a) \o Widths(b)
  <1>2. /\ w \in Seq(Nat) /\ Len(w) = Len(a) + Len(b)
        /\ \A i \in 1 .. Len(a) : w[i] = Width[a[i]]
        /\ \A i \in 1 .. Len(b) : w[Len(a) + i] = Width[b[i]]
    <2> DEFINE v == Widths(a)
               u == Widths(b)
    <2>1. /\ v \in Seq(Nat) /\ Len(v) = Len(a)
          /\ \A i \in 1 .. Len(a) : v[i] = Width[a[i]]
      BY WidthsType
    <2>2. /\ u \in Seq(Nat) /\ Len(u) = Len(b)
          /\ \A i \in 1 .. Len(b) : u[i] = Width[b[i]]
      BY WidthsType
    <2> HIDE DEF v, u
    <2>3. /\ v \o u \in Seq(Nat) /\ Len(v \o u) = Len(v) + Len(u)
          /\ \A i \in 1 .. Len(v) : (v \o u)[i] = v[i]
          /\ \A i \in 1 .. Len(u) : (v \o u)[Len(v) + i] = u[i]
      <3>0. Len(v) \in Nat /\ Len(u) \in Nat
        BY <2>1, <2>2
      <3>1. v \o u \in Seq(Nat) /\ Len(v \o u) = Len(v) + Len(u)
        BY <2>1, <2>2, ConcatProperties
      <3>2. \A i \in 1 .. Len(v) + Len(u) :
                (v \o u)[i] = IF i <= Len(v) THEN v[i] ELSE u[i - Len(v)]
        BY <2>1, <2>2, ConcatProperties
      <3>3. \A i \in 1 .. Len(v) : (v \o u)[i] = v[i]
        BY <3>0, <3>2
      <3>4. \A i \in 1 .. Len(u) : (v \o u)[Len(v) + i] = u[i]
        <4> SUFFICES ASSUME NEW i \in 1 .. Len(u)  PROVE (v \o u)[Len(v) + i] = u[i]
          OBVIOUS
        <4>1. /\ Len(v) + i \in 1 .. Len(v) + Len(u) /\ ~(Len(v) + i <= Len(v))
              /\ (Len(v) + i) - Len(v) = i
          BY <3>0
        <4> QED  BY <3>2, <4>1
      <3> QED  BY <3>1, <3>3, <3>4
    <2>4. w = v \o u
      BY DEF v, u
    <2> HIDE DEF w
    <2> QED  BY <2>1, <2>2, <2>3, <2>4
  <1> HIDE DEF w
  <1>3. \A i \in 1 .. Len(c) : Widths(c)[i] = w[i]
    <2> SUFFICES ASSUME NEW i \in 1 .. Len(c)  PROVE Widths(c)[i] = w[i]
      OBVIOUS
    <2>1. Widths(c)[i] = Width[c[i]]
      BY <1>1, WidthsType
    <2>2. CASE i \in 1 .. Len(a)
      BY <1>1, <1>2, <2>1, <2>2
    <2>3. CASE i \notin 1 .. Len(a)
      <3>1. PICK j \in 1 .. Len(b) : i = Len(a) + j
        <4>1. i - Len(a) \in 1 .. Len(b) /\ i = Len(a) + (i - Len(a))
          BY <1>1, <2>3
        <4> QED  BY <4>1
      <3>2. c[i] = b[j] /\ w[i] = Width[b[j]]
        BY <1>1, <1>2, <3>1
      <3> QED  BY <2>1, <3>2
    <2> QED  BY <2>2, <2>3
  <1>4. Widths(c) = w
    <2>1. Widths(c) \in Seq(Nat) /\ Len(Widths(c)) = Len(c)
      BY <1>1, WidthsType
    <2> QED  BY <1>1, <1>2, <1>3, <2>1, SeqEqual
  <1>5. Total(w) = Total(Widths(a)) + Total(Widths(b))
    <2>1. Widths(a) \in Seq(Nat) /\ Widths(b) \in Seq(Nat)
      BY WidthsType
    <2> QED  BY <2>1, TotalConcat DEF w
  <1>6. Bytes(c) = Bytes(a) + Bytes(b)
    BY <1>4, <1>5 DEF Bytes, Widths
  <1> QED  BY <1>1, <1>6 DEF c

(* The separator is one byte.                                               *)
LEMMA SeparatorBytes == <<Separator>> \in String /\ Bytes(<<Separator>>) = 1
  <1>1. <<Separator>> \in String /\ Width[Separator] = 1
    BY FormatsAssumption DEF String
  <1>2. Widths(<<Separator>>) = <<1>>
    <2>1. Widths(<<Separator>>) \in Seq(Nat) /\ Len(Widths(<<Separator>>)) = 1
          /\ Widths(<<Separator>>)[1] = 1
      BY <1>1, WidthsType
    <2> HIDE DEF Widths
    <2> QED  BY <2>1, SeqEqual
  <1>3. Bytes(<<Separator>>) = Total(<<1>>)
    BY <1>2 DEF Bytes, Widths
  <1> QED  BY <1>1, <1>3, TotalOne

(* What CryptoPair seals fits into VARCHAR(255) if and only if login and    *)
(* password together have at most 160 bytes.                                *)
LEMMA PairFits ==
    ASSUME NEW a \in String, NEW b \in String
    PROVE  /\ CryptoPair(a, b).text \in String
           /\ CryptoPair(a, b).size \in Nat
           /\ Fits(CryptoPair(a, b)) <=> Bytes(a) + Bytes(b) <= 160
  <1> DEFINE s == a \o <<Separator>> \o b
  <1>1. s \in String /\ Bytes(s) = Bytes(a) + 1 + Bytes(b)
    <2>1. /\ a \o <<Separator>> \in String
          /\ Bytes(a \o <<Separator>>) = Bytes(a) + 1
      BY SeparatorBytes, BytesConcat
    <2> DEFINE t == a \o <<Separator>>
    <2>2. t \in String /\ Bytes(t) = Bytes(a) + 1
      BY <2>1
    <2> HIDE DEF t
    <2>3. t \o b \in String /\ Bytes(t \o b) = Bytes(t) + Bytes(b)
      BY <2>2, BytesConcat
    <2> QED  BY <2>2, <2>3 DEF t
  <1> HIDE DEF s
  <1>2. Bytes(a) \in Nat /\ Bytes(b) \in Nat
    BY BytesType
  <1>3. CryptoPair(a, b) = [text |-> s, size |-> EncodedLen(NonceSize + Bytes(s) + TagSize)]
    BY DEF CryptoPair, Encrypt, s
  <1>4. Fits(CryptoPair(a, b)) <=> Bytes(s) <= 161
    <2>1. Bytes(s) \in Nat
      BY <1>1, <1>2
    <2> QED  BY <1>3, <2>1, ColumnLimit DEF Fits
  <1>5. CryptoPair(a, b).size \in Nat
    BY <1>1, <1>2, <1>3 DEF EncodedLen, NonceSize, TagSize
  <1> QED  BY <1>1, <1>2, <1>3, <1>4, <1>5

(* What CryptoCard seals fits if and only if its three fields have at most  *)
(* 159 bytes.                                                               *)
LEMMA CardFits ==
    ASSUME NEW a \in String, NEW b \in String, NEW c \in String
    PROVE  /\ CryptoCard(a, b, c).text \in String
           /\ CryptoCard(a, b, c).size \in Nat
           /\ Fits(CryptoCard(a, b, c)) <=> Bytes(a) + Bytes(b) + Bytes(c) <= 159
  <1> DEFINE t == a \o <<Separator>> \o b
             s == t \o <<Separator>> \o c
  <1>1. t \in String /\ Bytes(t) = Bytes(a) + 1 + Bytes(b)
    <2> DEFINE u == a \o <<Separator>>
    <2>1. u \in String /\ Bytes(u) = Bytes(a) + 1
      BY SeparatorBytes, BytesConcat
    <2> HIDE DEF u
    <2>2. u \o b \in String /\ Bytes(u \o b) = Bytes(u) + Bytes(b)
      BY <2>1, BytesConcat
    <2> QED  BY <2>1, <2>2 DEF u
  <1>2. CryptoCard(a, b, c) = CryptoPair(t, c)
    BY DEF CryptoCard, CryptoPair
  <1> HIDE DEF t
  <1>3. /\ CryptoPair(t, c).text \in String /\ CryptoPair(t, c).size \in Nat
        /\ Fits(CryptoPair(t, c)) <=> Bytes(t) + Bytes(c) <= 160
    BY <1>1, PairFits
  <1>4. Bytes(a) \in Nat /\ Bytes(b) \in Nat /\ Bytes(c) \in Nat
    BY BytesType
  <1> QED  BY <1>1, <1>2, <1>3, <1>4

-----------------------------------------------------------------------------
(* Luhn's check                                                             *)

(* What doubling makes of a digit.                                          *)
Twice(x) == IF 2 * x > 9 THEN 2 * x - 9 ELSE 2 * x

(* Every digit is a numeral and Atoi its number.                            *)
LEMMA AtoiIs == \A c \in Digits : Atoi[c] \in 0 .. 9 /\ Numerals[Atoi[c] + 1] = c
  <1> SUFFICES ASSUME NEW c \in Digits  PROVE Atoi[c] \in 0 .. 9 /\ Numerals[Atoi[c] + 1] = c
    OBVIOUS
  <1> DEFINE I == {i \in 1 .. Len(Numerals) : Numerals[i] = c}
  <1>1. Len(Numerals) = 10
    BY DEF Numerals
  <1>2. Digits = {Numerals[i] : i \in 1 .. 10}
    BY <1>1 DEF Digits, ToSet, Numerals
  <1>3. I \in SUBSET Nat /\ I # {}
    BY <1>1, <1>2
  <1>4. Min(I) \in I
    BY <1>3, MinIsLeast
  <1>5. SelectInSeq(Numerals, LAMBDA d : d = c) = Min(I)
    BY <1>3 DEF SelectInSeq
  <1>6. Atoi[c] = Min(I) - 1
    BY <1>5 DEF Atoi
  <1> DEFINE m == Min(I)
  <1>7. m \in 1 .. 10 /\ Numerals[m] = c
    BY <1>1, <1>4
  <1> HIDE DEF m
  <1>8. Atoi[c] = m - 1
    BY <1>6 DEF m
  <1> QED  BY <1>7, <1>8

(* The standard's table of doubled digits is what the code computes.        *)
LEMMA DoubledIs ==
    \A x \in 0 .. 9 : Doubled[x + 1] = Twice(x) /\ Twice(x) \in 0 .. 9
  <1> SUFFICES ASSUME NEW x \in 0 .. 9  PROVE Doubled[x + 1] = Twice(x) /\ Twice(x) \in 0 .. 9
    OBVIOUS
  <1>1. x \in {0, 1, 2, 3, 4, 5, 6, 7, 8, 9}
    OBVIOUS
  <1> QED  BY <1>1 DEF Doubled, Twice

(* Doubling tells all digits apart.                                         *)
LEMMA TwiceInjective == \A x, y \in 0 .. 9 : Twice(x) = Twice(y) => x = y
  BY DEF Twice

(* The digit that completes a sum to a multiple of ten.                     *)
LEMMA Completes ==
    ASSUME NEW t \in Nat, NEW a \in 0 .. 9
    PROVE  (t + a) % 10 = 0 <=> a = (10 - (t % 10)) % 10
  OBVIOUS

(* Two multiples of ten that differ by two digits are equal.                *)
LEMMA TypoChangesSum ==
    ASSUME NEW s \in Nat, NEW t \in Nat, s % 10 = 0, t % 10 = 0,
           NEW a \in 0 .. 9, NEW b \in 0 .. 9, s + b = t + a
    PROVE  a = b
  OBVIOUS

(* Which digits may change places without changing the sum modulo ten.      *)
LEMMA ExchangeChangesSum ==
    ASSUME NEW s \in Nat, NEW t \in Nat, s % 10 = 0, t % 10 = 0,
           NEW x \in 0 .. 9, NEW y \in 0 .. 9, s + (Twice(y) + x) = t + (Twice(x) + y)
    PROVE  x = y \/ (x = 0 /\ y = 9) \/ (x = 9 /\ y = 0)
  BY DEF Twice

(* f[n] is what remains of the first n characters of s without spaces.      *)
Keeps(f, s, N, S) ==
    /\ f \in [0 .. N -> Seq(S)]
    /\ f[0] = <<>>
    /\ \A n \in 0 .. N - 1 :
          f[n + 1] = IF s[n + 1] = Space THEN f[n] ELSE Append(f[n], s[n + 1])

(* WithoutSpaces is the last one, by the argument of TotalSums.             *)
LEMMA WithoutSpacesIs ==
    ASSUME NEW S, NEW s \in Seq(S)
    PROVE  \E f : Keeps(f, s, Len(s), S) /\ WithoutSpaces(s) = f[Len(s)]
  <1> DEFINE N == Len(s)
             Kept == {n \in 0 .. N : \E f : Keeps(f, s, n, S)}
  <1>1. N \in Nat /\ \A i \in 1 .. N : s[i] \in S
    OBVIOUS
  <1> HIDE DEF N
  <1>2. 0 \in Kept
    <2>1. Keeps([i \in 0 .. 0 |-> <<>>], s, 0, S)
      BY DEF Keeps
    <2> QED  BY <1>1, <2>1
  <1>3. ASSUME NEW n \in 0 .. N - 1, n \in Kept  PROVE n + 1 \in Kept
    <2>1. PICK f : Keeps(f, s, n, S)
      BY <1>3
    <2> DEFINE last == IF s[n + 1] = Space THEN f[n] ELSE Append(f[n], s[n + 1])
               g == [i \in 0 .. n + 1 |-> IF i = n + 1 THEN last ELSE f[i]]
    <2>0. n \in Nat /\ n \in 0 .. n /\ n + 1 \in 1 .. N
      BY <1>1
    <2>2. last \in Seq(S)
      <3>1. f[n] \in Seq(S) /\ s[n + 1] \in S
        BY <1>1, <2>0, <2>1 DEF Keeps
      <3> QED  BY <3>1
    <2> HIDE DEF last
    <2>3. g \in [0 .. n + 1 -> Seq(S)] /\ g[0] = <<>>
      BY <2>0, <2>1, <2>2 DEF Keeps
    <2>4. ASSUME NEW i \in 0 .. n
          PROVE  g[i + 1] = IF s[i + 1] = Space THEN g[i] ELSE Append(g[i], s[i + 1])
      <3>1. CASE i = n
        <4>1. g[i + 1] = last /\ g[i] = f[n]
          BY <2>0, <3>1
        <4> HIDE DEF g
        <4> QED  BY <3>1, <4>1 DEF last
      <3>2. CASE i # n
        <4>1. i \in 0 .. n - 1 /\ g[i + 1] = f[i + 1] /\ g[i] = f[i]
          BY <2>0, <3>2
        <4> HIDE DEF g
        <4> QED  BY <2>1, <4>1 DEF Keeps
      <3> QED  BY <3>1, <3>2
    <2> HIDE DEF g
    <2>5. Keeps(g, s, n + 1, S)
      <3>1. (n + 1) - 1 = n
        BY <2>0
      <3> QED  BY <2>3, <2>4, <3>1 DEF Keeps
    <2> QED  BY <2>0, <1>1, <2>5
  <1>4. N \in Kept
    <2> HIDE DEF Kept
    <2>1. 0 .. N \subseteq Kept
      BY <1>1, <1>2, <1>3, UpTo
    <2> QED  BY <1>1, <2>1
  <1>5. PICK f : Keeps(f, s, N, S)
    BY <1>4
  <1> DEFINE Def(h) == [n \in 0 .. N |->
                           IF n = 0 THEN <<>>
                           ELSE IF s[n] = Space THEN h[n - 1] ELSE Append(h[n - 1], s[n])]
             kept == CHOOSE h : h = Def(h)
  <1>6. f = Def(f)
    <2>1. \A n \in 1 .. N : f[n] = IF s[n] = Space THEN f[n - 1] ELSE Append(f[n - 1], s[n])
      <3> SUFFICES ASSUME NEW n \in 1 .. N
                   PROVE  f[n] = IF s[n] = Space THEN f[n - 1] ELSE Append(f[n - 1], s[n])
        OBVIOUS
      <3>1. n - 1 \in 0 .. N - 1 /\ (n - 1) + 1 = n
        BY <1>1
      <3> QED  BY <1>5, <3>1 DEF Keeps
    <2>2. f \in [0 .. N -> Seq(S)] /\ f[0] = <<>>
      BY <1>5 DEF Keeps
    <2>3. ASSUME NEW n \in 0 .. N
          PROVE  f[n] = IF n = 0 THEN <<>>
                        ELSE IF s[n] = Space THEN f[n - 1] ELSE Append(f[n - 1], s[n])
      <3>1. n = 0 \/ (n \in 1 .. N /\ n # 0)
        BY <1>1
      <3> QED  BY <2>1, <2>2, <3>1
    <2>4. Def(f) = [n \in 0 .. N |-> f[n]]
      BY <2>3, Zenon
    <2> QED  BY <2>2, <2>4
  <1>7. kept = Def(kept)
    BY <1>6
  <1>8. WithoutSpaces(s) = kept[N]
    BY DEF WithoutSpaces, N
  <1> HIDE DEF kept
  <1>9. \A n \in 0 .. N : kept[n] = IF n = 0 THEN <<>>
                                    ELSE IF s[n] = Space THEN kept[n - 1]
                                    ELSE Append(kept[n - 1], s[n])
    BY <1>7
  <1> DEFINE Same == {n \in 0 .. N : kept[n] = f[n]}
  <1>10. 0 \in Same
    BY <1>1, <1>5, <1>9 DEF Keeps
  <1>11. ASSUME NEW n \in 0 .. N - 1, n \in Same  PROVE n + 1 \in Same
    <2>1. n + 1 \in 0 .. N /\ n + 1 # 0 /\ (n + 1) - 1 = n
      BY <1>1
    <2>2. kept[n + 1] = IF s[n + 1] = Space THEN kept[n] ELSE Append(kept[n], s[n + 1])
      BY <1>9, <2>1
    <2>3. f[n + 1] = IF s[n + 1] = Space THEN f[n] ELSE Append(f[n], s[n + 1])
      BY <1>5 DEF Keeps
    <2> QED  BY <1>11, <2>1, <2>2, <2>3
  <1>12. N \in Same
    <2> HIDE DEF Same
    <2>1. 0 .. N \subseteq Same
      BY <1>1, <1>10, <1>11, UpTo
    <2> QED  BY <1>1, <2>1
  <1>13. WithoutSpaces(s) = f[N]
    BY <1>8, <1>12
  <1> QED  BY <1>5, <1>13 DEF N

(* P[n]: how many of the first n characters are no spaces.                  *)
Counts(P, s) ==
    /\ P \in [0 .. Len(s) -> Nat]
    /\ P[0] = 0
    /\ \A n \in 0 .. Len(s) - 1 : P[n + 1] = IF s[n + 1] = Space THEN P[n] ELSE P[n] + 1

(* w is what stands in the first n characters of s but for the spaces.      *)
Shows(P, s, n, w) ==
    /\ Len(w) = P[n]
    /\ \A i \in 1 .. n : s[i] # Space => P[i] \in 1 .. P[n] /\ w[P[i]] = s[i]
    /\ \A m \in 1 .. P[n] : \E i \in 1 .. n : s[i] # Space /\ P[i] = m /\ w[m] = s[i]

(* WithoutSpaces keeps every other character, and nothing else, in order.   *)
LEMMA WithoutSpacesShows ==
    ASSUME NEW S, NEW s \in Seq(S)
    PROVE  /\ WithoutSpaces(s) \in Seq(S)
           /\ \E P : Counts(P, s) /\ Shows(P, s, Len(s), WithoutSpaces(s))
  <1> DEFINE N == Len(s)
  <1>1. N \in Nat /\ \A i \in 1 .. N : s[i] \in S
    OBVIOUS
  <1>2. PICK f : Keeps(f, s, N, S) /\ WithoutSpaces(s) = f[N]
    BY WithoutSpacesIs
  <1> DEFINE P == [n \in 0 .. N |-> Len(f[n])]
  <1>3. /\ f \in [0 .. N -> Seq(S)] /\ f[0] = <<>>
        /\ \A n \in 0 .. N - 1 :
              f[n + 1] = IF s[n + 1] = Space THEN f[n] ELSE Append(f[n], s[n + 1])
    BY <1>2 DEF Keeps
  <1> HIDE DEF N
  <1>4. \A n \in 0 .. N : P[n] = Len(f[n]) /\ P[n] \in Nat /\ f[n] \in Seq(S)
    BY <1>3
  <1>5. P \in [0 .. N -> Nat] /\ P[0] = 0
    <2>1. 0 \in 0 .. N /\ Len(<<>>) = 0
      BY <1>1
    <2> QED  BY <1>3, <1>4, <2>1
  <1> HIDE DEF P
  <1>6. ASSUME NEW n \in 0 .. N - 1
        PROVE  /\ n \in 0 .. N /\ n + 1 \in 0 .. N /\ n + 1 \in 1 .. N
               /\ P[n + 1] = IF s[n + 1] = Space THEN P[n] ELSE P[n] + 1
               /\ f[n + 1] = IF s[n + 1] = Space THEN f[n] ELSE Append(f[n], s[n + 1])
    <2>1. n \in 0 .. N /\ n + 1 \in 0 .. N /\ n + 1 \in 1 .. N
      BY <1>1
    <2>2. P[n] = Len(f[n]) /\ f[n] \in Seq(S) /\ P[n + 1] = Len(f[n + 1]) /\ s[n + 1] \in S
      BY <1>1, <1>4, <2>1
    <2>3. f[n + 1] = IF s[n + 1] = Space THEN f[n] ELSE Append(f[n], s[n + 1])
      BY <1>3
    <2>4. Len(Append(f[n], s[n + 1])) = Len(f[n]) + 1
      BY <2>2
    <2> QED  BY <2>1, <2>2, <2>3, <2>4
  <1> DEFINE I == {n \in 0 .. N : Shows(P, s, n, f[n])}
  <1>7. 0 \in I
    <2>1. 0 \in 0 .. N /\ 1 .. 0 = {} /\ 1 .. P[0] = {}
      BY <1>1, <1>5
    <2>2. Len(f[0]) = P[0]
      BY <1>4, <2>1
    <2> QED  BY <2>1, <2>2 DEF Shows
  <1>8. ASSUME NEW n \in 0 .. N - 1, n \in I  PROVE n + 1 \in I
    <2>1. /\ n \in 0 .. N /\ n + 1 \in 0 .. N /\ n + 1 \in 1 .. N /\ n \in Nat
          /\ P[n] \in Nat /\ Len(f[n]) = P[n] /\ f[n] \in Seq(S) /\ s[n + 1] \in S
          /\ Len(f[n + 1]) = P[n + 1]
      BY <1>1, <1>4, <1>6
    <2>2. Shows(P, s, n, f[n])
      BY <1>8
    <2>3. \A i : i \in 1 .. n + 1 <=> i \in 1 .. n \/ i = n + 1
      BY <2>1
    <2>4. CASE s[n + 1] = Space
      <3>1. P[n + 1] = P[n] /\ f[n + 1] = f[n]
        BY <1>6, <2>4
      <3>2. Shows(P, s, n + 1, f[n])
        BY <2>2, <2>3, <2>4, <3>1 DEF Shows
      <3> QED  BY <2>1, <3>1, <3>2
    <2>5. CASE s[n + 1] # Space
      <3> DEFINE w == Append(f[n], s[n + 1])
      <3>1. P[n + 1] = P[n] + 1 /\ f[n + 1] = w
        BY <1>6, <2>5
      <3>2. /\ Len(w) = P[n] + 1 /\ w[P[n] + 1] = s[n + 1]
            /\ \A m \in 1 .. P[n] : w[m] = f[n][m]
        BY <2>1
      <3> HIDE DEF w
      <3>3. \A m : m \in 1 .. P[n] + 1 <=> m \in 1 .. P[n] \/ m = P[n] + 1
        BY <2>1
      <3>4. \A i \in 1 .. n + 1 : s[i] # Space => P[i] \in 1 .. P[n + 1] /\ w[P[i]] = s[i]
        <4> SUFFICES ASSUME NEW i \in 1 .. n + 1, s[i] # Space
                     PROVE  P[i] \in 1 .. P[n + 1] /\ w[P[i]] = s[i]
          OBVIOUS
        <4>1. CASE i = n + 1
          BY <3>1, <3>2, <3>3, <4>1
        <4>2. CASE i \in 1 .. n
          <5>1. P[i] \in 1 .. P[n] /\ f[n][P[i]] = s[i]
            BY <2>2, <4>2 DEF Shows
          <5> QED  BY <3>1, <3>2, <3>3, <5>1
        <4> QED  BY <2>3, <4>1, <4>2
      <3>5. ASSUME NEW m \in 1 .. P[n + 1]
            PROVE  \E i \in 1 .. n + 1 : s[i] # Space /\ P[i] = m /\ w[m] = s[i]
        <4>1. CASE m = P[n] + 1
          BY <2>3, <2>5, <3>1, <3>2, <4>1
        <4>2. CASE m \in 1 .. P[n]
          <5>1. PICK i \in 1 .. n : s[i] # Space /\ P[i] = m /\ f[n][m] = s[i]
            BY <2>2, <4>2 DEF Shows
          <5> QED  BY <2>3, <3>2, <4>2, <5>1
        <4> QED  BY <3>1, <3>3, <4>1, <4>2
      <3>6. Shows(P, s, n + 1, w)
        BY <3>1, <3>2, <3>4, <3>5 DEF Shows
      <3> QED  BY <2>1, <3>1, <3>6
    <2> QED  BY <2>4, <2>5
  <1>9. N \in I
    <2> HIDE DEF I
    <2>1. 0 .. N \subseteq I
      BY <1>1, <1>7, <1>8, UpTo
    <2> QED  BY <1>1, <2>1
  <1>10. Counts(P, s)
    BY <1>5, <1>6 DEF Counts, N
  <1>11. Shows(P, s, N, WithoutSpaces(s)) /\ WithoutSpaces(s) \in Seq(S)
    BY <1>1, <1>2, <1>4, <1>9
  <1> QED  BY <1>10, <1>11 DEF N

(* The number of characters that are no spaces depends on nothing but where *)
(* the spaces stand.                                                        *)
LEMMA CountsUnique ==
    ASSUME NEW S, NEW s \in Seq(S), NEW t \in Seq(S), Len(s) = Len(t),
           \A i \in 1 .. Len(s) : s[i] = Space <=> t[i] = Space,
           NEW P, Counts(P, s), NEW Q, Counts(Q, t)
    PROVE  P = Q
  <1> DEFINE N == Len(s)
  <1>1. N \in Nat
    OBVIOUS
  <1>2. /\ P \in [0 .. N -> Nat] /\ P[0] = 0 /\ Q \in [0 .. N -> Nat] /\ Q[0] = 0
        /\ \A n \in 0 .. N - 1 : P[n + 1] = IF s[n + 1] = Space THEN P[n] ELSE P[n] + 1
        /\ \A n \in 0 .. N - 1 : Q[n + 1] = IF t[n + 1] = Space THEN Q[n] ELSE Q[n] + 1
    BY DEF Counts
  <1>3. \A i \in 1 .. N : s[i] = Space <=> t[i] = Space
    OBVIOUS
  <1> HIDE DEF N
  <1> DEFINE I == {n \in 0 .. N : P[n] = Q[n]}
  <1>4. 0 \in I
    BY <1>1, <1>2
  <1>5. ASSUME NEW n \in 0 .. N - 1, n \in I  PROVE n + 1 \in I
    <2>1. n + 1 \in 0 .. N /\ n + 1 \in 1 .. N
      BY <1>1
    <2>2. P[n] = Q[n]
      BY <1>5
    <2>3. P[n + 1] = Q[n + 1]
      BY <1>2, <1>3, <2>1, <2>2
    <2> QED  BY <2>1, <2>3
  <1>6. 0 .. N \subseteq I
    <2> HIDE DEF I
    <2> QED  BY <1>1, <1>4, <1>5, UpTo
  <1>7. \A n \in 0 .. N : P[n] = Q[n]
    BY <1>6
  <1>8. P = [n \in 0 .. N |-> P[n]] /\ Q = [n \in 0 .. N |-> Q[n]]
    BY <1>2
  <1> QED  BY <1>7, <1>8, Zenon

(* A function on 1 .. n is a sequence of length n.                          *)
LEMMA FunctionIsSeq ==
    ASSUME NEW S, NEW n \in Nat, NEW f \in [1 .. n -> S]
    PROVE  f \in Seq(S) /\ Len(f) = n
  OBVIOUS

(* What ValidLuhnCardNumber adds up.                                        *)
Weights(s) == [i \in DOMAIN s |-> Weighted(s, i)]

(* What Weighted makes of digits: digits, every second one doubled.         *)
Weighed(v, w, n) ==
    /\ v \in Seq(Nat) /\ Len(v) = n
    /\ \A i \in 1 .. n :
          /\ Atoi[w[i]] \in 0 .. 9
          /\ v[i] = IF (n - i) % 2 = 0 THEN Atoi[w[i]] ELSE Twice(Atoi[w[i]])
          /\ v[i] \in 0 .. 9

(* So it is for every number of digits.                                     *)
LEMMA WeightsAre ==
    ASSUME NEW w \in Seq(Digits)
    PROVE  Weighed(Weights(w), w, Len(w))
  <1> DEFINE n == Len(w)
             v == [i \in 1 .. n |-> Weighted(w, i)]
  <1>1. n \in Nat /\ DOMAIN w = 1 .. n /\ \A i \in 1 .. n : w[i] \in Digits
    OBVIOUS
  <1>2. Weights(w) = v
    BY <1>1 DEF Weights
  <1>3. \A i \in 1 .. n : Weighted(w, i) = IF (n - i) % 2 = 0 THEN Atoi[w[i]] ELSE Twice(Atoi[w[i]])
    BY DEF Weighted, Twice
  <1>4. \A i \in 1 .. n : Atoi[w[i]] \in 0 .. 9 /\ Twice(Atoi[w[i]]) \in 0 .. 9
    BY <1>1, AtoiIs, DoubledIs
  <1>5. \A i \in 1 .. n : Weighted(w, i) \in 0 .. 9
    BY <1>3, <1>4
  <1>6. v \in [1 .. n -> Nat]
    BY <1>5
  <1>7. v \in Seq(Nat) /\ Len(v) = n
    <2> HIDE DEF v, n
    <2> QED  BY <1>1, <1>6, FunctionIsSeq
  <1>8. Weighed(v, w, n)
    <2>1. \A i \in 1 .. n : v[i] = Weighted(w, i)
      OBVIOUS
    <2> HIDE DEF v, n
    <2> QED  BY <1>3, <1>4, <1>5, <1>7, <2>1 DEF Weighed
  <1> QED  BY <1>2, <1>8

(* A number of digits and spaces is one of which only digits are left.      *)
LEMMA OnlyDigits ==
    ASSUME NEW S, NEW s \in Seq(S)
    PROVE  LET w == WithoutSpaces(s) IN
           /\ (\A i \in DOMAIN s : s[i] \in Digits \cup {Space}) <=> w \in Seq(Digits)
           /\ w \in Seq(Digits) <=> ToSet(w) \subseteq Digits
  <1> DEFINE w == WithoutSpaces(s)
  <1>1. w \in Seq(S)
    BY WithoutSpacesShows
  <1>2. PICK P : Counts(P, s) /\ Shows(P, s, Len(s), w)
    BY WithoutSpacesShows
  <1> HIDE DEF w
  <1>3. Len(s) \in Nat /\ DOMAIN s = 1 .. Len(s) /\ DOMAIN w = 1 .. Len(w) /\ Len(w) \in Nat
    BY <1>1
  <1>4. w \in Seq(Digits) <=> \A m \in 1 .. Len(w) : w[m] \in Digits
    <2>1. ASSUME \A m \in 1 .. Len(w) : w[m] \in Digits  PROVE w \in Seq(Digits)
      <3>1. w \in [1 .. Len(w) -> Digits]
        <4>1. w \in [1 .. Len(w) -> S]
          BY <1>1, LenProperties
        <4> QED  BY <2>1, <4>1
      <3> QED  BY <1>3, <3>1
    <2> QED  BY <2>1
  <1>5. ToSet(w) \subseteq Digits <=> \A m \in 1 .. Len(w) : w[m] \in Digits
    BY <1>3 DEF ToSet
  <1>6. ASSUME \A i \in 1 .. Len(s) : s[i] \in Digits \cup {Space},
               NEW m \in 1 .. Len(w)
        PROVE  w[m] \in Digits
    <2>1. PICK i \in 1 .. Len(s) : s[i] # Space /\ w[m] = s[i]
      BY <1>2 DEF Shows
    <2> QED  BY <1>6, <2>1
  <1>7. ASSUME \A m \in 1 .. Len(w) : w[m] \in Digits,
               NEW i \in 1 .. Len(s), s[i] # Space
        PROVE  s[i] \in Digits
    <2>1. P[i] \in 1 .. Len(w) /\ w[P[i]] = s[i]
      BY <1>2, <1>7 DEF Shows
    <2> QED  BY <1>7, <2>1
  <1>8. (\A i \in 1 .. Len(s) : s[i] \in Digits \cup {Space})
        <=> \A m \in 1 .. Len(w) : w[m] \in Digits
    BY <1>6, <1>7
  <1> QED  BY <1>3, <1>4, <1>5, <1>8 DEF w

(* ValidLuhnCardNumber, in terms of what is left without spaces.            *)
LEMMA LuhnIs ==
    ASSUME NEW S, NEW s \in Seq(S)
    PROVE  LET w == WithoutSpaces(s) IN
           ValidLuhnCardNumber(s)
           <=> Len(w) > 1 /\ w \in Seq(Digits) /\ Total(Weights(w)) % 10 = 0
  <1>1. (\A i \in DOMAIN s : s[i] \in Digits \cup {Space}) <=> WithoutSpaces(s) \in Seq(Digits)
    BY OnlyDigits
  <1> QED  BY <1>1 DEF ValidLuhnCardNumber, Weights

(* The weights of a number are those of its payload and its last digit.     *)
LEMMA LastDigitCompletes ==
    ASSUME NEW w \in Seq(Digits), Len(w) > 1
    PROVE  Total(Weights(w)) % 10 = 0 <=> Atoi[Last(w)] = CheckDigit(Front(w))
  <1> DEFINE N == Len(w)
             v == Weights(w)
             front == [i \in 1 .. N - 1 |-> v[i]]
             back == [i \in 1 .. N - 1 |-> v[N - i]]
  <1>1. /\ N \in Nat /\ N > 1 /\ N \in 1 .. N /\ N - 1 \in Nat
        /\ \A i \in 1 .. N - 1 : i \in 1 .. N /\ N - i \in 1 .. N - 1 /\ N - i \in 1 .. N
        /\ \A i \in 1 .. N : w[i] \in Digits
    OBVIOUS
  <1>2. /\ v \in Seq(Nat) /\ Len(v) = N
        /\ \A i \in 1 .. N : /\ Atoi[w[i]] \in 0 .. 9
                             /\ v[i] = IF (N - i) % 2 = 0 THEN Atoi[w[i]] ELSE Twice(Atoi[w[i]])
                             /\ v[i] \in 0 .. 9
    BY WeightsAre DEF Weighed
  <1> HIDE DEF v
  <1>3. /\ front \in Seq(Nat) /\ Len(front) = N - 1
        /\ back \in Seq(Nat) /\ Len(back) = N - 1
    <2>1. front \in [1 .. N - 1 -> Nat] /\ back \in [1 .. N - 1 -> Nat]
      BY <1>1, <1>2
    <2> HIDE DEF front, back, N
    <2>2. N - 1 \in Nat
      BY <1>1
    <2> QED  BY <2>1, <2>2, FunctionIsSeq
  <1>4. Total(v) = Total(front) + Atoi[Last(w)]
    <2>1. v[N] = Atoi[w[N]] /\ v[N] \in Nat
      BY <1>1, <1>2
    <2>2. <<v[N]>> \in Seq(Nat) /\ Len(<<v[N]>>) = 1 /\ <<v[N]>>[1] = v[N]
      BY <2>1
    <2> DEFINE one == <<v[N]>>
    <2> HIDE DEF one
    <2>3. /\ front \o one \in Seq(Nat) /\ Len(front \o one) = (N - 1) + 1
          /\ \A i \in 1 .. (N - 1) + 1 :
                (front \o one)[i] = IF i <= N - 1 THEN front[i] ELSE one[i - (N - 1)]
      <3> HIDE DEF front, N
      <3> QED  BY <1>1, <1>3, <2>2, ConcatProperties DEF one
    <2>4. ASSUME NEW i \in 1 .. N  PROVE (front \o one)[i] = v[i]
      <3>1. CASE i = N
        BY <1>1, <2>2, <2>3, <3>1 DEF one
      <3>2. CASE i # N
        <4>0. i \in 1 .. N - 1 /\ i <= N - 1 /\ i \in 1 .. (N - 1) + 1
          BY <1>1, <3>2
        <4>1. (front \o one)[i] = front[i]
          <5> HIDE DEF front
          <5> QED  BY <2>3, <4>0
        <4> QED  BY <4>0, <4>1
      <3> QED  BY <3>1, <3>2
    <2>5. front \o one = v
      <3>1. Len(front \o one) = N
        BY <1>1, <2>3
      <3> HIDE DEF front, N
      <3> QED  BY <1>2, <2>3, <2>4, <3>1, SeqEqual
    <2>6. Total(front \o one) = Total(front) + Total(one)
      <3> HIDE DEF front
      <3> QED  BY <1>3, <2>2, TotalConcat DEF one
    <2>7. Total(one) = v[N]
      BY <2>1, TotalOne DEF one
    <2>8. Last(w) = w[N]
      BY DEF Last
    <2> QED  BY <2>1, <2>5, <2>6, <2>7, <2>8
  <1>5. Total(back) = Total(front)
    <2>1. \A i \in 1 .. N - 1 : back[i] = front[((N - 1) + 1) - i]
      <3> SUFFICES ASSUME NEW i \in 1 .. N - 1  PROVE back[i] = front[((N - 1) + 1) - i]
        OBVIOUS
      <3>1. ((N - 1) + 1) - i = N - i /\ N - i \in 1 .. N - 1
        BY <1>1
      <3> QED  BY <3>1
    <2>2. \A i \in 1 .. Len(front) : back[i] = front[Len(front) + 1 - i]
      <3> HIDE DEF front, back, N
      <3>1. Len(front) = N - 1
        BY <1>3
      <3> SUFFICES ASSUME NEW i \in 1 .. N - 1
                   PROVE  back[i] = front[((N - 1) + 1) - i]
        BY <3>1
      <3> QED  BY <2>1
    <2>3. front \in Seq(Nat) /\ back \in Seq(Nat) /\ Len(back) = Len(front)
      BY <1>3
    <2> HIDE DEF front, back, N
    <2> QED  BY <2>2, <2>3, TotalReverse
  <1>6. CheckDigit(Front(w)) = (10 - (Total(back) % 10)) % 10
    <2> DEFINE right == Reverse(Front(w))
               weight(i) == IF i % 2 = 1 THEN Doubled[Atoi[right[i]] + 1] ELSE Atoi[right[i]]
               t == [i \in DOMAIN right |-> weight(i)]
    <2>1. /\ Front(w) \in Seq(Digits) /\ Len(Front(w)) = N - 1
          /\ \A i \in 1 .. N - 1 : Front(w)[i] = w[i]
      BY <1>1 DEF Front
    <2>2. /\ right = [i \in 1 .. N - 1 |-> Front(w)[((N - 1) - i) + 1]]
      BY <2>1 DEF Reverse
    <2> HIDE DEF right
    <2>3. ASSUME NEW i \in 1 .. N - 1  PROVE weight(i) = v[N - i]
      <3>1. right[i] = w[N - i]
        <4>1. ((N - 1) - i) + 1 = N - i
          BY <1>1
        <4> QED  BY <1>1, <2>1, <2>2, <4>1
      <3>2. N - (N - i) = i
        BY <1>1
      <3>3. /\ Atoi[w[N - i]] \in 0 .. 9
            /\ v[N - i] = IF i % 2 = 0 THEN Atoi[w[N - i]] ELSE Twice(Atoi[w[N - i]])
        BY <1>1, <1>2, <3>2
      <3>4. Doubled[Atoi[w[N - i]] + 1] = Twice(Atoi[w[N - i]])
        BY <3>3, DoubledIs
      <3>5. i % 2 = 0 \/ i % 2 = 1
        BY <1>1
      <3> QED  BY <3>1, <3>3, <3>4, <3>5
    <2>4. DOMAIN right = 1 .. N - 1
      BY <2>2
    <2> HIDE DEF weight
    <2>5. t = back
      BY <2>3, <2>4
    <2>6. CheckDigit(Front(w)) = (10 - (Total(t) % 10)) % 10
      BY DEF CheckDigit, right, weight
    <2> QED  BY <2>5, <2>6
  <1>7. Total(front) \in Nat /\ Atoi[Last(w)] \in 0 .. 9
    <2>1. Last(w) = w[N]
      BY DEF Last
    <2> HIDE DEF front
    <2> QED  BY <1>1, <1>2, <1>3, <2>1, TotalType
  <1> QED
    <2> DEFINE T == Total(front)
               a == Atoi[Last(w)]
    <2>1. (T + a) % 10 = 0 <=> a = (10 - (T % 10)) % 10
      <3>1. T \in Nat /\ a \in 0 .. 9
        BY <1>7
      <3> HIDE DEF T, a
      <3> QED  BY <3>1, Completes
    <2>2. Total(v) = T + a /\ CheckDigit(Front(w)) = (10 - (T % 10)) % 10
      <3> HIDE DEF front, back
      <3> QED  BY <1>4, <1>5, <1>6
    <2> HIDE DEF T, a
    <2>3. Total(v) % 10 = 0 <=> a = CheckDigit(Front(w))
      BY <2>1, <2>2, Zenon
    <2> QED  BY <2>3 DEF v, a

(* ValidLuhnCardNumber accepts a string, of any length and with spaces      *)
(* anywhere, if and only if it is a number whose last digit is the check    *)
(* digit of ISO/IEC 7812.                                                   *)
THEOREM AcceptedAreCardNumbers ==
    ASSUME NEW S, NEW s \in Seq(S)
    PROVE  ValidLuhnCardNumber(s) <=> IsCardNumber(s)
  <1> DEFINE w == WithoutSpaces(s)
  <1>1. w \in Seq(S) /\ (w \in Seq(Digits) <=> ToSet(w) \subseteq Digits)
    BY WithoutSpacesShows, OnlyDigits
  <1>2. ValidLuhnCardNumber(s)
        <=> Len(w) > 1 /\ w \in Seq(Digits) /\ Total(Weights(w)) % 10 = 0
    BY LuhnIs
  <1>3. IsCardNumber(s)
        <=> Len(w) >= 2 /\ ToSet(w) \subseteq Digits /\ Atoi[Last(w)] = CheckDigit(Front(w))
    BY DEF IsCardNumber
  <1> HIDE DEF w
  <1>4. Len(w) \in Nat
    BY <1>1
  <1>5. Len(w) > 1 <=> Len(w) >= 2
    BY <1>4
  <1> QED  BY <1>1, <1>2, <1>3, <1>5, LastDigitCompletes

-----------------------------------------------------------------------------
(* Mistyped numbers                                                         *)

(* Atoi tells all digits apart.                                             *)
LEMMA SameDigit == \A c, d \in Digits : Atoi[c] = Atoi[d] => c = d
  BY AtoiIs

(* The sequences of length N over S.                                        *)
OfLength(S, N) == {v \in Seq(S) : Len(v) = N}

(* What is known of such a sequence.                                        *)
LEMMA OfLengthIs ==
    ASSUME NEW S, NEW N, NEW v \in OfLength(S, N)
    PROVE  v \in Seq(S) /\ Len(v) = N /\ N \in Nat /\ \A i \in 1 .. N : v[i] \in S
  BY DEF OfLength

(* TotalChange, for sequences of a given length.                            *)
LEMMA ChangeOne ==
    ASSUME NEW N, NEW v \in OfLength(Nat, N), NEW w \in OfLength(Nat, N), NEW k \in 1 .. N,
           \A i \in 1 .. N : i # k => v[i] = w[i]
    PROVE  Total(v) + w[k] = Total(w) + v[k]
  <1>1. /\ v \in Seq(Nat) /\ w \in Seq(Nat) /\ Len(v) = Len(w) /\ k \in 1 .. Len(w)
        /\ \A i \in 1 .. Len(w) : i # k => v[i] = w[i]
    BY OfLengthIs
  <1> QED  BY <1>1, TotalChange

(* The sum if two numbers are changed.                                      *)
LEMMA ChangeTwo ==
    ASSUME NEW N, NEW v \in OfLength(Nat, N), NEW w \in OfLength(Nat, N),
           NEW k \in 1 .. N, NEW j \in 1 .. N, j # k,
           \A i \in 1 .. N : i # k /\ i # j => v[i] = w[i]
    PROVE  Total(v) + (w[k] + w[j]) = Total(w) + (v[k] + v[j])
  <1> DEFINE u == [w EXCEPT ![k] = v[k]]
  <1>1. v[k] \in Nat /\ v[j] \in Nat /\ w[k] \in Nat /\ w[j] \in Nat
    BY OfLengthIs
  <1>2. u \in OfLength(Nat, N) /\ u[k] = v[k] /\ \A i \in 1 .. N : i # k => u[i] = w[i]
    <2>1. w \in Seq(Nat) /\ Len(w) = N
      BY OfLengthIs
    <2> QED  BY <1>1, <2>1 DEF OfLength
  <1> HIDE DEF u
  <1>3. Total(u) + w[k] = Total(w) + u[k]
    BY <1>2, ChangeOne
  <1>4. Total(u) + v[j] = Total(v) + u[j]
    <2>1. \A i \in 1 .. N : i # j => u[i] = v[i]
      BY <1>2
    <2> QED  BY <1>2, <2>1, ChangeOne
  <1>5. u[k] = v[k] /\ u[j] = w[j]
    BY <1>2
  <1>6. Total(u) \in Nat /\ Total(v) \in Nat /\ Total(w) \in Nat
    BY <1>2, OfLengthIs, TotalType
  <1> QED  BY <1>1, <1>3, <1>4, <1>5, <1>6

(* The sum of the code's check is a multiple of ten.                        *)
Checked(w) == Total(Weights(w)) % 10 = 0

(* Numbers of N digits that differ only at places of K.                     *)
Apart(v, w, N, K) ==
    /\ v \in OfLength(Digits, N) /\ w \in OfLength(Digits, N) /\ K \subseteq 1 .. N
    /\ \A i \in 1 .. N : i \notin K => v[i] = w[i]

(* Two accepted numbers of N digits that differ at most at k, and two of    *)
(* which one has the digits at k and k + 1 exchanged.                       *)
Typo(v, w, N, k) == Apart(v, w, N, {k}) /\ Checked(v) /\ Checked(w)
Swap(v, w, N, k) ==
    /\ Apart(v, w, N, {k, k + 1}) /\ Checked(v) /\ Checked(w)
    /\ v[k] = w[k + 1] /\ v[k + 1] = w[k]
SameAt(v, w, k) == v[k] = w[k]
Harmless(v, k) == v[k] = v[k + 1] \/ {v[k], v[k + 1]} = {"0", "9"}

(* If both pass the check, two numbers of digits that may differ at one     *)
(* place do not.                                                            *)
LEMMA WeightsChange == \A N, v, w, k : Typo(v, w, N, k) => SameAt(v, w, k)
  <1> SUFFICES ASSUME NEW N, NEW v, NEW w, NEW k, Apart(v, w, N, {k}), Checked(v), Checked(w)
               PROVE  v[k] = w[k]
    BY DEF Typo, SameAt
  <1>0. /\ v \in OfLength(Digits, N) /\ w \in OfLength(Digits, N) /\ k \in 1 .. N
        /\ \A i \in 1 .. N : i # k => v[i] = w[i]
    BY DEF Apart
  <1> DEFINE wv == Weights(v)
             ww == Weights(w)
  <1>1. N \in Nat /\ v[k] \in Digits /\ w[k] \in Digits
    BY <1>0, OfLengthIs
  <1>2. Weighed(wv, v, N) /\ Weighed(ww, w, N)
    BY <1>0, OfLengthIs, WeightsAre
  <1>3. wv \in OfLength(Nat, N) /\ ww \in OfLength(Nat, N)
    BY <1>2 DEF Weighed, OfLength
  <1> HIDE DEF wv, ww
  <1>4. \A i \in 1 .. N : i # k => wv[i] = ww[i]
    BY <1>0, <1>2 DEF Weighed
  <1>5. Total(wv) + ww[k] = Total(ww) + wv[k]
    BY <1>0, <1>3, <1>4, ChangeOne
  <1>6. wv[k] = ww[k]
    <2>1. wv[k] \in 0 .. 9 /\ ww[k] \in 0 .. 9
      BY <1>0, <1>2 DEF Weighed
    <2>2. Total(wv) \in Nat /\ Total(ww) \in Nat
      BY <1>3, OfLengthIs, TotalType
    <2>3. Total(wv) % 10 = 0 /\ Total(ww) % 10 = 0
      BY DEF wv, ww, Checked
    <2> QED  BY <1>5, <2>1, <2>2, <2>3, TypoChangesSum
  <1>7. Atoi[v[k]] = Atoi[w[k]]
    <2>1. /\ Atoi[v[k]] \in 0 .. 9 /\ Atoi[w[k]] \in 0 .. 9
          /\ wv[k] = IF (N - k) % 2 = 0 THEN Atoi[v[k]] ELSE Twice(Atoi[v[k]])
          /\ ww[k] = IF (N - k) % 2 = 0 THEN Atoi[w[k]] ELSE Twice(Atoi[w[k]])
      BY <1>0, <1>2 DEF Weighed
    <2> QED  BY <1>6, <2>1, TwiceInjective
  <1> QED  BY <1>1, <1>7, SameDigit

(* If both pass, the exchanged neighbours are equal, or 0 and 9.            *)
LEMMA WeightsExchange == \A N, v, w, k : Swap(v, w, N, k) => Harmless(v, k)
  <1> SUFFICES ASSUME NEW N, NEW v, NEW w, NEW k,
                      Apart(v, w, N, {k, k + 1}), Checked(v), Checked(w),
                      v[k] = w[k + 1], v[k + 1] = w[k]
               PROVE  v[k] = v[k + 1] \/ {v[k], v[k + 1]} = {"0", "9"}
    BY DEF Swap, Harmless
  <1>0. /\ v \in OfLength(Digits, N) /\ w \in OfLength(Digits, N)
        /\ k \in 1 .. N /\ k + 1 \in 1 .. N /\ v[k] = w[k + 1] /\ v[k + 1] = w[k]
        /\ \A i \in 1 .. N : i # k /\ i # k + 1 => v[i] = w[i]
    BY DEF Apart
  <1> DEFINE wv == Weights(v)
             ww == Weights(w)
             x == Atoi[v[k]]
             y == Atoi[v[k + 1]]
  <1>1. N \in Nat /\ k \in Int /\ v[k] \in Digits /\ v[k + 1] \in Digits
    BY <1>0, OfLengthIs
  <1>2. Weighed(wv, v, N) /\ Weighed(ww, w, N)
    BY <1>0, OfLengthIs, WeightsAre
  <1>3. wv \in OfLength(Nat, N) /\ ww \in OfLength(Nat, N)
    BY <1>2 DEF Weighed, OfLength
  <1>4. Total(wv) % 10 = 0 /\ Total(ww) % 10 = 0
    BY DEF Checked
  <1> HIDE DEF wv, ww
  <1>5. \A i \in 1 .. N : i # k /\ i # k + 1 => wv[i] = ww[i]
    BY <1>0, <1>2 DEF Weighed
  <1>6. Total(wv) + (ww[k] + ww[k + 1]) = Total(ww) + (wv[k] + wv[k + 1])
    <2> DEFINE j == k + 1
    <2>1. j \in 1 .. N /\ j # k /\ \A i \in 1 .. N : i # k /\ i # j => wv[i] = ww[i]
      BY <1>0, <1>1, <1>5
    <2> HIDE DEF j
    <2>2. Total(wv) + (ww[k] + ww[j]) = Total(ww) + (wv[k] + wv[j])
      BY <1>0, <1>3, <2>1, ChangeTwo
    <2> QED  BY <2>2 DEF j
  <1>7. Total(wv) \in Nat /\ Total(ww) \in Nat
    BY <1>3, OfLengthIs, TotalType
  <1>8. x \in 0 .. 9 /\ y \in 0 .. 9
    BY <1>1, AtoiIs
  <1>9. /\ wv[k] = IF (N - k) % 2 = 0 THEN x ELSE Twice(x)
        /\ wv[k + 1] = IF (N - (k + 1)) % 2 = 0 THEN y ELSE Twice(y)
        /\ ww[k] = IF (N - k) % 2 = 0 THEN y ELSE Twice(y)
        /\ ww[k + 1] = IF (N - (k + 1)) % 2 = 0 THEN x ELSE Twice(x)
    BY <1>0, <1>2 DEF Weighed
  <1> HIDE DEF x, y
  <1>10. x = y \/ (x = 0 /\ y = 9) \/ (x = 9 /\ y = 0)
    <2>1. Twice(x) \in Nat /\ Twice(y) \in Nat
      BY <1>8 DEF Twice
    <2>2. CASE (N - k) % 2 = 0
      <3>1. (N - (k + 1)) % 2 # 0
        BY <1>1, <2>2
      <3>2. Total(ww) + (Twice(y) + x) = Total(wv) + (Twice(x) + y)
        BY <1>6, <1>7, <1>8, <1>9, <2>1, <2>2, <3>1
      <3> QED  BY <1>4, <1>7, <1>8, <3>2, ExchangeChangesSum
    <2>3. CASE (N - k) % 2 # 0
      <3>1. (N - (k + 1)) % 2 = 0
        BY <1>1, <2>3
      <3>2. Total(wv) + (Twice(y) + x) = Total(ww) + (Twice(x) + y)
        BY <1>6, <1>7, <1>8, <1>9, <2>1, <2>3, <3>1
      <3> QED  BY <1>4, <1>7, <1>8, <3>2, ExchangeChangesSum
    <2> QED  BY <2>2, <2>3
  <1>11. Numerals[x + 1] = v[k] /\ Numerals[y + 1] = v[k + 1]
    BY <1>1, AtoiIs DEF x, y
  <1>12. Numerals[0 + 1] = "0" /\ Numerals[9 + 1] = "9"
    BY DEF Numerals
  <1> QED  BY <1>10, <1>11, <1>12

(* In strings with spaces at the same places, the other characters come to  *)
(* stand at the same places without them.                                   *)
LEMMA SameSpaces ==
    ASSUME NEW S, NEW s \in Seq(S), NEW t \in Seq(S), Len(s) = Len(t),
           \A i \in 1 .. Len(s) : s[i] = Space <=> t[i] = Space
    PROVE  \E P : /\ Counts(P, s)
                  /\ Shows(P, s, Len(s), WithoutSpaces(s))
                  /\ Shows(P, t, Len(s), WithoutSpaces(t))
  <1>1. PICK P : Counts(P, s) /\ Shows(P, s, Len(s), WithoutSpaces(s))
    BY WithoutSpacesShows
  <1>2. PICK Q : Counts(Q, t) /\ Shows(Q, t, Len(t), WithoutSpaces(t))
    BY WithoutSpacesShows
  <1>3. P = Q
    BY <1>1, <1>2, CountsUnique
  <1> QED  BY <1>1, <1>2, <1>3

(* No digit is a space.                                                     *)
LEMMA NoDigitIsSpace == Space \notin Digits
  <1>0. " " \notin {"0", "1", "2", "3", "4", "5", "6", "7", "8", "9"}
    OBVIOUS
  <1>1. \A m \in 1 .. 10 : Numerals[m] # Space
    <2> SUFFICES ASSUME NEW m \in 1 .. 10  PROVE Numerals[m] # Space
      OBVIOUS
    <2>1. /\ Numerals[1] = "0" /\ Numerals[2] = "1" /\ Numerals[3] = "2" /\ Numerals[4] = "3"
          /\ Numerals[5] = "4" /\ Numerals[6] = "5" /\ Numerals[7] = "6" /\ Numerals[8] = "7"
          /\ Numerals[9] = "8" /\ Numerals[10] = "9"
      BY DEF Numerals
    <2>2. m \in {1, 2, 3, 4, 5, 6, 7, 8, 9, 10}
      OBVIOUS
    <2> QED  BY <1>0, <2>1, <2>2 DEF Space
  <1>2. ASSUME Space \in Digits  PROVE FALSE
    <2>1. Atoi[Space] + 1 \in 1 .. 10 /\ Numerals[Atoi[Space] + 1] = Space
      BY <1>2, AtoiIs
    <2> QED  BY <1>1, <2>1
  <1> QED  BY <1>2

(* Two accepted strings of N characters that differ at most in the digit at *)
(* i, and two of which one has the digits at i and i + 1 exchanged.         *)
Mistaken(S, N, s, t, i) ==
    /\ s \in OfLength(S, N) /\ t \in OfLength(S, N) /\ i \in 1 .. N
    /\ s[i] \in Digits /\ t[i] \in Digits /\ \A j \in 1 .. N : j # i => t[j] = s[j]
    /\ ValidLuhnCardNumber(s) /\ ValidLuhnCardNumber(t)
Twisted(S, N, s, t, i) ==
    /\ s \in OfLength(S, N) /\ t \in OfLength(S, N) /\ i \in 1 .. N - 1
    /\ s[i] \in Digits /\ s[i + 1] \in Digits /\ t[i] = s[i + 1] /\ t[i + 1] = s[i]
    /\ \A j \in 1 .. N : j # i /\ j # i + 1 => t[j] = s[j]
    /\ ValidLuhnCardNumber(s) /\ ValidLuhnCardNumber(t)

(* If two strings that differ in one digit are both accepted, that digit is *)
(* the same.                                                                *)
LEMMA OneDigitOff == \A S, N, s, t, i : Mistaken(S, N, s, t, i) => SameAt(s, t, i)
  <1> SUFFICES ASSUME NEW S, NEW N, NEW s \in OfLength(S, N), NEW t \in OfLength(S, N),
                      NEW i \in 1 .. N, s[i] \in Digits, t[i] \in Digits,
                      \A j \in 1 .. N : j # i => t[j] = s[j],
                      ValidLuhnCardNumber(s), ValidLuhnCardNumber(t)
               PROVE  s[i] = t[i]
    BY DEF Mistaken, SameAt
  <1> DEFINE a == WithoutSpaces(s)
             b == WithoutSpaces(t)
  <1>1. \A j \in 1 .. N : s[j] = Space <=> t[j] = Space
    BY NoDigitIsSpace
  <1>2. PICK P : Counts(P, s) /\ Shows(P, s, N, a) /\ Shows(P, t, N, b)
    BY <1>1, OfLengthIs, SameSpaces
  <1>3. a \in Seq(Digits) /\ Checked(a) /\ b \in Seq(Digits) /\ Checked(b)
    BY OfLengthIs, LuhnIs DEF Checked
  <1> HIDE DEF a, b
  <1>4. Len(a) = Len(b) /\ P[i] \in 1 .. Len(b) /\ a[P[i]] = s[i] /\ b[P[i]] = t[i]
    BY <1>1, <1>2, NoDigitIsSpace DEF Shows
  <1>5. ASSUME NEW m \in 1 .. Len(b), m # P[i]  PROVE a[m] = b[m]
    <2>1. PICK j \in 1 .. N : s[j] # Space /\ P[j] = m /\ a[m] = s[j]
      BY <1>2, <1>4 DEF Shows
    <2>2. b[m] = t[j]
      BY <1>1, <1>2, <2>1 DEF Shows
    <2> QED  BY <1>5, <2>1, <2>2
  <1>6. Apart(a, b, Len(b), {P[i]})
    BY <1>3, <1>4, <1>5 DEF Apart, OfLength
  <1>7. Typo(a, b, Len(b), P[i])
    BY <1>3, <1>6 DEF Typo
  <1>8. SameAt(a, b, P[i])
    BY <1>7, WeightsChange
  <1> QED  BY <1>4, <1>8 DEF SameAt

(* If a string is accepted with two neighbouring digits in either order,    *)
(* these are equal, or 0 and 9.                                             *)
LEMMA NeighboursOff == \A S, N, s, t, i : Twisted(S, N, s, t, i) => Harmless(s, i)
  <1> SUFFICES ASSUME NEW S, NEW N, NEW s \in OfLength(S, N), NEW t \in OfLength(S, N),
                      NEW i \in 1 .. N - 1, s[i] \in Digits, s[i + 1] \in Digits,
                      t[i] = s[i + 1], t[i + 1] = s[i],
                      \A j \in 1 .. N : j # i /\ j # i + 1 => t[j] = s[j],
                      ValidLuhnCardNumber(s), ValidLuhnCardNumber(t)
               PROVE  s[i] = s[i + 1] \/ {s[i], s[i + 1]} = {"0", "9"}
    BY DEF Twisted, Harmless
  <1> DEFINE a == WithoutSpaces(s)
             b == WithoutSpaces(t)
  <1>0. N \in Nat /\ i \in 1 .. N /\ i + 1 \in 1 .. N /\ i # i + 1 /\ i \in 0 .. N - 1
    BY OfLengthIs
  <1>1. \A j \in 1 .. N : s[j] = Space <=> t[j] = Space
    BY <1>0, NoDigitIsSpace
  <1>2. PICK P : Counts(P, s) /\ Shows(P, s, N, a) /\ Shows(P, t, N, b)
    BY <1>1, OfLengthIs, SameSpaces
  <1>3. a \in Seq(Digits) /\ Checked(a) /\ b \in Seq(Digits) /\ Checked(b)
    BY OfLengthIs, LuhnIs DEF Checked
  <1> HIDE DEF a, b
  <1> DEFINE k == P[i]
  <1>4. /\ Len(a) = Len(b) /\ k \in 1 .. Len(b) /\ a[k] = s[i] /\ b[k] = s[i + 1]
        /\ P[i + 1] \in 1 .. Len(b) /\ a[P[i + 1]] = s[i + 1] /\ b[P[i + 1]] = s[i]
    BY <1>0, <1>1, <1>2, NoDigitIsSpace DEF Shows
  <1>5. P[i + 1] = k + 1
    <2>1. s[i + 1] # Space /\ Len(s) = N
      BY NoDigitIsSpace, OfLengthIs
    <2> QED  BY <1>0, <1>2, <2>1 DEF Counts
  <1>6. ASSUME NEW m \in 1 .. Len(b), m # k, m # k + 1  PROVE a[m] = b[m]
    <2>1. PICK j \in 1 .. N : s[j] # Space /\ P[j] = m /\ a[m] = s[j]
      BY <1>2, <1>4 DEF Shows
    <2>2. b[m] = t[j]
      BY <1>1, <1>2, <2>1 DEF Shows
    <2> QED  BY <1>5, <1>6, <2>1, <2>2
  <1> HIDE DEF k
  <1>7. k + 1 \in 1 .. Len(b) /\ a[k] = b[k + 1] /\ a[k + 1] = b[k]
    BY <1>4, <1>5
  <1>8. Apart(a, b, Len(b), {k, k + 1})
    BY <1>3, <1>4, <1>6, <1>7 DEF Apart, OfLength
  <1>9. Swap(a, b, Len(b), k)
    BY <1>3, <1>7, <1>8 DEF Swap
  <1>10. Harmless(a, k)
    BY <1>9, WeightsExchange
  <1> QED  BY <1>4, <1>5, <1>10 DEF Harmless

(* A number that ValidLuhnCardNumber accepts is refused with any one digit  *)
(* mistyped, whatever its length and wherever spaces stand.                 *)
THEOREM MistypedRefused ==
    ASSUME NEW S, NEW s \in Seq(S), ValidLuhnCardNumber(s),
           NEW i \in 1 .. Len(s), s[i] \in Digits, NEW d \in Digits, d # s[i]
    PROVE  ~ValidLuhnCardNumber([s EXCEPT ![i] = d])
  <1> DEFINE A == S \cup Digits
             t == [s EXCEPT ![i] = d]
             N == Len(s)
  <1>1. /\ s \in OfLength(A, N) /\ t \in OfLength(A, N) /\ t[i] = d /\ i \in 1 .. N
        /\ \A j \in 1 .. N : j # i => t[j] = s[j]
    BY DEF OfLength
  <1> HIDE DEF t, A, N
  <1>2. ASSUME ValidLuhnCardNumber(t)  PROVE FALSE
    <2>1. Mistaken(A, N, s, t, i)
      BY <1>1, <1>2 DEF Mistaken
    <2>2. SameAt(s, t, i)
      BY <2>1, OneDigitOff
    <2> QED  BY <1>1, <2>2 DEF SameAt
  <1> QED  BY <1>2 DEF t

(* It is refused, too, with two neighbouring digits exchanged, unless these *)
(* are 0 and 9.                                                             *)
THEOREM ExchangedRefused ==
    ASSUME NEW S, NEW s \in Seq(S), ValidLuhnCardNumber(s),
           NEW i \in 1 .. Len(s) - 1, s[i] \in Digits, s[i + 1] \in Digits,
           s[i] # s[i + 1], {s[i], s[i + 1]} # {"0", "9"}
    PROVE  ~ValidLuhnCardNumber([s EXCEPT ![i] = s[i + 1], ![i + 1] = s[i]])
  <1> DEFINE t == [s EXCEPT ![i] = s[i + 1], ![i + 1] = s[i]]
             N == Len(s)
  <1>1. /\ s \in OfLength(S, N) /\ t \in OfLength(S, N) /\ t[i] = s[i + 1] /\ t[i + 1] = s[i]
        /\ i \in 1 .. N - 1 /\ \A j \in 1 .. N : j # i /\ j # i + 1 => t[j] = s[j]
    <2>1. i \in 1 .. N /\ i + 1 \in 1 .. N /\ i # i + 1
      OBVIOUS
    <2> QED  BY <2>1 DEF OfLength
  <1> HIDE DEF t, N
  <1>2. ASSUME ValidLuhnCardNumber(t)  PROVE FALSE
    <2>1. Twisted(S, N, s, t, i)
      BY <1>1, <1>2 DEF Twisted
    <2>2. Harmless(s, i)
      BY <2>1, NeighboursOff
    <2> QED  BY <2>2 DEF Harmless
  <1> QED  BY <1>2 DEF t
=============================================================================
