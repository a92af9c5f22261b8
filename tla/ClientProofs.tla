----------------------------- MODULE ClientProofs -----------------------------
(***************************************************************************)
(* What a user of the goKeeper client can tell of the store, for any users,*)
(* records, numbers of calls and faults.  The server is a RecordStore.     *)
(***************************************************************************)
EXTENDS Client, FormatsProofs

(* What a client sends to be stored.                                        *)
Sendable(kind) == IF kind = "pair" THEN Pairs ELSE {c \in Cards : CardAccepted(c[1])}

(* x, as kept under m, is a record of S, or nothing and None is in S.       *)
Told(m, x, S) == IF x = None THEN None \in S ELSE \E v \in S \ {None} : x = Seal(m[1], v)

(* Call r is under way and will write what intent[r] says, or nothing.      *)
Writes(r, u, m) ==
    /\ ask[r] # None /\ answer[r] = None /\ ask[r].op # "get"
    /\ ask[r].login = u /\ ask[r].meta = m

Shapes ==
    /\ vault \in [Server!Keys -> Ciphers \cup {None}]
    /\ ask \in [Rpc -> Server!Asks \cup {None}]
    /\ answer \in [Rpc -> Answers \cup {None}]
    /\ intent \in [Rpc -> Records \cup {None}]
    /\ stage \in [Users -> {"start", "ready", "waiting"}]
    /\ token \in [Users -> Tokens]
    /\ login \in [Users -> Users \cup {Nobody}]
    /\ mine \in [Users -> Rpc \cup {None}]
    /\ DOMAIN read = Users
    /\ may \in [Users \X Metas -> SUBSET (Records \cup {None})]
    /\ rivals \in [Users -> SUBSET (Records \cup {None})]

(* A call on the server asks for what its client has intended.              *)
CallOK(r) ==
    LET q == ask[r] IN
    /\ q = None => answer[r] = None
    /\ q # None =>
        /\ q.op \in {"save", "edit", "get", "delete"}
        /\ q.login \in Users /\ q.meta \in Metas
        /\ q.op \in {"save", "edit"} =>
            intent[r] \in Sendable(q.meta[1]) /\ q.value = Seal(q.meta[1], intent[r])
        /\ q.op = "delete" => intent[r] = None

(* A user expects what is stored and what any call under way may write.     *)
KeyOK(u, m) ==
    /\ may[<<u, m>>] \subseteq Sendable(m[1]) \cup {None}
    /\ Told(m, vault[<<u, m>>], may[<<u, m>>])
    /\ \A r \in Rpc : Writes(r, u, m) => intent[r] \in may[<<u, m>>]

(* What the answer to r, if it is OK, tells u.                              *)
Known(u, r) ==
    IF ask[r].op # "get" THEN {intent[r]}
    ELSE {v \in may[<<u, ask[r].meta>>] \ {None} : Seal(ask[r].meta[1], v) = answer[r].data}

(* While u waits for r: what late calls still write is among the rivals,    *)
(* and from the instant of the call on the store holds what the answer      *)
(* tells, or one of the rivals.                                             *)
WaitOK(u, r) ==
    /\ r \in Rpc
    /\ ask[r] # None /\ ask[r].login = u
    /\ read[u] = None
    /\ rivals[u] \subseteq may[<<u, ask[r].meta>>]
    /\ \A s \in Rpc \ {r} : Writes(s, u, ask[r].meta) => intent[s] \in rivals[u]
    /\ answer[r] # None /\ answer[r].ok =>
        /\ Told(ask[r].meta, vault[<<u, ask[r].meta>>], Known(u, r) \cup rivals[u])
        /\ ask[r].op = "get" =>
            \E v \in may[<<u, ask[r].meta>>] \ {None} : answer[r].data = Seal(ask[r].meta[1], v)

UserOK(u) ==
    /\ token[u].state = "good" => login[u] = u
    /\ IF stage[u] = "waiting" THEN WaitOK(u, mine[u]) ELSE mine[u] = None

IInv ==
    /\ Shapes
    /\ \A r \in Rpc : CallOK(r)
    /\ \A u \in Users, m \in Metas : KeyOK(u, m)
    /\ \A u \in Users : UserOK(u)
    /\ NothingForNobody

-----------------------------------------------------------------------------
(* Records                                                                  *)

LEMMA Strings == String = Seq(Chars)
  BY DEF String

LEMMA SealIsCipher ==
    ASSUME NEW kind \in Kinds, NEW v \in Sendable(kind)
    PROVE  Seal(kind, v) \in Ciphers /\ v \in Records /\ v # None /\ Seal(kind, v) # None
  <1>1. CASE kind = "pair"
    <2>1. v \in Pairs
      BY <1>1 DEF Sendable
    <2> QED
      BY <2>1, <1>1, NoneAssumption, Zenon DEF Ciphers, Records
  <1>2. CASE kind = "card"
    <2>1. v \in Cards
      BY <1>2 DEF Sendable
    <2> QED
      BY <2>1, <1>2, NoneAssumption, Zenon DEF Ciphers, Records
  <1> QED
    BY <1>1, <1>2 DEF Kinds

(* What a record opens to after it was sealed is taken for that record.     *)
LEMMA OpensToItself ==
    ASSUME NEW kind \in Kinds, NEW v \in Sendable(kind)
    PROVE  /\ Open(kind, Seal(kind, v)).ok
           /\ Matches(Open(kind, Seal(kind, v)).fields, v)
  <1> DEFINE x == Open(kind, Seal(kind, v))
  <1>1. CASE kind = "pair"
    <2>1. v \in String \X String
      BY <1>1, ClientAssumption DEF Sendable
    <2>2. v = <<v[1], v[2]>> /\ v[1] \in String /\ v[2] \in String /\ Len(v) = 2
      BY <2>1
    <2>3. x = DecryptPair(CryptoPair(v[1], v[2]))
      BY <1>1 DEF Open, Seal
    <2>4. x.ok /\ (x.fields = <<v[1], v[2]>> <=> ~Has(v[1], Separator))
      BY <2>2, <2>3, PairComesBack
    <2>5. Faithful(v) => ~Has(v[1], Separator)
      BY <2>2 DEF Faithful
    <2> QED
      BY <2>2, <2>4, <2>5, SealIsCipher DEF Matches
  <1>2. CASE kind = "card"
    <2>1. v \in String \X String \X String /\ CardAccepted(v[1])
      BY <1>2, ClientAssumption DEF Sendable
    <2>2. /\ v = <<v[1], v[2], v[3]>> /\ Len(v) = 3
          /\ v[1] \in String /\ v[2] \in String /\ v[3] \in String
      BY <2>1
    <2>3. x = DecryptCard(CryptoCard(v[1], v[2], v[3]))
      BY <1>2 DEF Open, Seal
    <2>4. x.ok /\ (x.fields = <<v[1], v[2], v[3]>> <=> ~Has(v[2], Separator))
      BY <2>1, <2>2, <2>3, CardComesBack
    <2>5. Faithful(v) => ~Has(v[2], Separator)
      BY <2>2 DEF Faithful
    <2> QED
      BY <2>2, <2>4, <2>5, SealIsCipher DEF Matches
  <1> QED
    BY <1>1, <1>2 DEF Kinds

LEMMA ToldMore ==
    ASSUME NEW m, NEW x, NEW S, NEW T, S \subseteq T, Told(m, x, S)
    PROVE  Told(m, x, T)
  BY DEF Told

LEMMA ToldSealed ==
    ASSUME NEW m \in Metas, NEW v \in Sendable(m[1]), NEW S, v \in S
    PROVE  Told(m, Seal(m[1], v), S)
  <1>1. m[1] \in Kinds
    BY DEF Metas
  <1>2. v # None /\ Seal(m[1], v) # None
    BY <1>1, SealIsCipher
  <1> QED
    BY <1>2 DEF Told

LEMMA NotNone ==
    /\ \A q \in Server!Asks : q # None
    /\ \A a \in Answers : a # None
    /\ \A v \in Records : v # None
    /\ \A x \in Ciphers : x # None
    /\ \A r \in Rpc : r # None
  BY NoneAssumption DEF Records

LEMMA KeysAre ==
    /\ Server!Keys = (Users \cup {Nobody}) \X Metas
    /\ \A u \in Users, m \in Metas : <<u, m>> \in Server!Keys /\ m[1] \in Kinds
    /\ \A m \in Metas : <<Nobody, m>> \in Server!Keys
    /\ Nobody \notin Users
  BY ClientAssumption DEF Server!Keys, Metas

-----------------------------------------------------------------------------
(* What a step leaves alone                                                 *)

LEMMA Parts4 ==
    ASSUME Shapes', \A r \in Rpc : CallOK(r)',
           \A u \in Users, m \in Metas : KeyOK(u, m)',
           \A u \in Users : UserOK(u)', NothingForNobody'
    PROVE  IInv'
  BY DEF IInv

LEMMA CallFrame ==
    ASSUME NEW r \in Rpc, CallOK(r),
           ask'[r] = ask[r], intent'[r] = intent[r],
           ask[r] = None => answer'[r] = None
    PROVE  CallOK(r)'
  BY DEF CallOK

LEMMA KeyFrame ==
    ASSUME NEW u \in Users, NEW m \in Metas, KeyOK(u, m),
           may'[<<u, m>>] = may[<<u, m>>], vault'[<<u, m>>] = vault[<<u, m>>],
           \A s \in Rpc : Writes(s, u, m)' => Writes(s, u, m) /\ intent'[s] = intent[s]
    PROVE  KeyOK(u, m)'
  BY DEF KeyOK

LEMMA UserFrame ==
    ASSUME NEW w \in Users, UserOK(w),
           stage'[w] = stage[w], token'[w] = token[w], login'[w] = login[w],
           mine'[w] = mine[w], read'[w] = read[w], rivals'[w] = rivals[w],
           NEW r, r = mine[w], NEW m, m = ask[r].meta,
           stage[w] = "waiting" =>
               /\ ask'[r] = ask[r] /\ answer'[r] = answer[r] /\ intent'[r] = intent[r]
               /\ may'[<<w, m>>] = may[<<w, m>>] /\ vault'[<<w, m>>] = vault[<<w, m>>]
               /\ \A s \in Rpc : Writes(s, w, m)' => Writes(s, w, m) /\ intent'[s] = intent[s]
    PROVE  UserOK(w)'
  <1>1. CASE stage[w] = "waiting"
    <2>1. WaitOK(w, r)
      BY <1>1 DEF UserOK
    <2>2. Known(w, r)' = Known(w, r)
      BY <1>1 DEF Known
    <2>3. \A s \in Rpc \ {r} : Writes(s, w, m)' => intent'[s] \in rivals'[w]
      BY <1>1, <2>1 DEF WaitOK
    <2>4. WaitOK(w, r)'
      BY <1>1, <2>1, <2>2, <2>3 DEF WaitOK
    <2> QED
      BY <1>1, <2>4 DEF UserOK
  <1>2. CASE stage[w] # "waiting"
    BY <1>2 DEF UserOK
  <1> QED
    BY <1>1, <1>2

LEMMA WritesSame ==
    ASSUME NEW s \in Rpc, NEW u \in Users, NEW m \in Metas,
           ask'[s] = ask[s], answer'[s] = answer[s]
    PROVE  Writes(s, u, m)' <=> Writes(s, u, m)
  BY DEF Writes

-----------------------------------------------------------------------------
(* The life of a client process                                             *)

(* A step of u's client that no call notices.                               *)
LEMMA AloneStep ==
    ASSUME IInv, NEW u \in Users,
           UNCHANGED <<server, intent, may>>, Shapes', UserOK(u)',
           \A w \in Users \ {u} :
               /\ stage'[w] = stage[w] /\ token'[w] = token[w] /\ login'[w] = login[w]
               /\ mine'[w] = mine[w] /\ read'[w] = read[w] /\ rivals'[w] = rivals[w]
    PROVE  IInv'
  <1>0. vault' = vault /\ ask' = ask /\ answer' = answer /\ intent' = intent /\ may' = may
    BY DEF server
  <1>1. ASSUME NEW r \in Rpc PROVE CallOK(r)'
    BY <1>0, CallFrame DEF IInv, CallOK
  <1>2. ASSUME NEW w \in Users, NEW m \in Metas PROVE KeyOK(w, m)'
    BY <1>0, WritesSame, KeyFrame DEF IInv
  <1>3. ASSUME NEW w \in Users PROVE UserOK(w)'
    <2>1. CASE w = u
      BY <2>1
    <2>2. CASE w # u
      <3>1. \A s \in Rpc : \A m : Writes(s, w, m)' => Writes(s, w, m)
        BY <1>0 DEF Writes
      <3> QED
        BY <1>0, <2>2, <3>1, UserFrame DEF IInv
    <2> QED
      BY <2>1, <2>2
  <1>4. NothingForNobody'
    BY <1>0 DEF IInv, NothingForNobody
  <1> QED
    BY <1>1, <1>2, <1>3, <1>4, Parts4

LEMMA AuthenticateStep ==
    ASSUME IInv, NEW u \in Users, Authenticate(u)
    PROVE  IInv'
  <1>1. Shapes'
    BY DEF IInv, Shapes, Authenticate, server, knowledge, Tokens, Empty
  <1>2. UserOK(u)'
    <2>1. mine[u] = None /\ stage'[u] = "ready" /\ mine'[u] = None
      BY DEF IInv, Shapes, UserOK, Authenticate
    <2>2. token'[u].state = "good" => login'[u] = u
      BY DEF IInv, Shapes, Authenticate, Empty
    <2> QED
      BY <2>1, <2>2 DEF UserOK
  <1>3. \A w \in Users \ {u} : stage'[w] = stage[w] /\ token'[w] = token[w] /\ login'[w] = login[w]
    BY DEF IInv, Shapes, Authenticate
  <1> QED
    BY <1>1, <1>2, <1>3, AloneStep DEF Authenticate, knowledge

LEMMA ExpireStep ==
    ASSUME IInv, NEW u \in Users, Expire(u)
    PROVE  IInv'
  <1>0. token'[u].state = "expired" /\ token'[u] \in Tokens
    BY DEF IInv, Shapes, Expire, Tokens
  <1>1. Shapes'
    BY <1>0 DEF IInv, Shapes, Expire, server, knowledge
  <1>2. UserOK(u)'
    <2>1. CASE stage[u] = "waiting"
      <3>1. WaitOK(u, mine[u])
        BY <2>1 DEF IInv, UserOK
      <3>2. WaitOK(u, mine[u])'
        BY <3>1 DEF WaitOK, Known, Writes, Expire, server, knowledge
      <3> QED
        BY <2>1, <1>0, <3>2 DEF UserOK, Expire
    <2>2. CASE stage[u] # "waiting"
      BY <2>2, <1>0 DEF IInv, UserOK, Expire
    <2> QED
      BY <2>1, <2>2
  <1>3. \A w \in Users \ {u} : token'[w] = token[w]
    BY DEF IInv, Shapes, Expire
  <1> QED
    BY <1>1, <1>2, <1>3, AloneStep DEF Expire, knowledge

LEMMA LeaveStep ==
    ASSUME IInv, NEW u \in Users, Leave(u)
    PROVE  IInv'
  <1>1. Shapes'
    BY DEF IInv, Shapes, Leave, server, Tokens, Placeholder
  <1>2. UserOK(u)'
    BY DEF IInv, Shapes, UserOK, Leave, Placeholder
  <1>3. \A w \in Users \ {u} :
            /\ stage'[w] = stage[w] /\ token'[w] = token[w] /\ login'[w] = login[w]
            /\ mine'[w] = mine[w] /\ read'[w] = read[w] /\ rivals'[w] = rivals[w]
    BY DEF IInv, Shapes, Leave
  <1> QED
    BY <1>1, <1>2, <1>3, AloneStep DEF Leave

-----------------------------------------------------------------------------
(* The ends of calls                                                        *)

LEMMA EndEffect ==
    ASSUME IInv, NEW r \in Rpc, Server!End(r), intent' = [intent EXCEPT ![r] = None]
    PROVE  /\ vault' = vault
           /\ ask[r] # None /\ ask[r].login \in Users /\ ask[r].meta \in Metas
           /\ ask' \in [Rpc -> Server!Asks \cup {None}]
           /\ answer' \in [Rpc -> Answers \cup {None}]
           /\ intent' \in [Rpc -> Records \cup {None}]
           /\ \A s \in Rpc : CallOK(s)'
           /\ \A s \in Rpc \ {r} : ask'[s] = ask[s] /\ answer'[s] = answer[s]
           /\ \A s \in Rpc \ {r} : intent'[s] = intent[s]
           /\ \A s \in Rpc : \A u, m :
                Writes(s, u, m)' => s # r /\ Writes(s, u, m) /\ intent'[s] = intent[s]
  <1>1. /\ vault' = vault
        /\ ask' = [ask EXCEPT ![r] = None]
        /\ answer' = [answer EXCEPT ![r] = None]
        /\ answer[r] # None
    BY DEF Server!End
  <1>2. ask[r] # None /\ ask[r].login \in Users /\ ask[r].meta \in Metas
    BY <1>1 DEF IInv, CallOK
  <1>3. /\ ask' \in [Rpc -> Server!Asks \cup {None}]
        /\ answer' \in [Rpc -> Answers \cup {None}]
        /\ intent' \in [Rpc -> Records \cup {None}]
    BY <1>1 DEF IInv, Shapes
  <1>4. /\ ask'[r] = None /\ answer'[r] = None
        /\ \A s \in Rpc \ {r} :
             ask'[s] = ask[s] /\ answer'[s] = answer[s] /\ intent'[s] = intent[s]
    BY <1>1 DEF IInv, Shapes
  <1>5. ASSUME NEW s \in Rpc PROVE CallOK(s)'
    <2>1. CASE s = r
      BY <2>1, <1>4 DEF CallOK
    <2>2. CASE s # r
      BY <2>2, <1>4, CallFrame DEF IInv, CallOK
    <2> QED
      BY <2>1, <2>2
  <1>6. \A s \in Rpc : \A u, m :
          Writes(s, u, m)' => s # r /\ Writes(s, u, m) /\ intent'[s] = intent[s]
    BY <1>4 DEF Writes
  <1> QED
    BY <1>1, <1>2, <1>3, <1>4, <1>5, <1>6

LEMMA DiscardStep ==
    ASSUME IInv, NEW r \in Rpc, Discard(r)
    PROVE  IInv'
  <1>0. /\ Server!End(r) /\ intent' = [intent EXCEPT ![r] = None]
        /\ \A u \in Users : mine[u] # r
        /\ stage' = stage /\ token' = token /\ login' = login /\ mine' = mine
        /\ read' = read /\ may' = may /\ rivals' = rivals
    BY DEF Discard, process
  <1>1. Shapes'
    BY <1>0, EndEffect DEF IInv, Shapes
  <1>2. \A s \in Rpc : CallOK(s)'
    BY <1>0, EndEffect
  <1>3. vault' = vault
    BY <1>0, EndEffect
  <1>4. \A s \in Rpc : \A u, m :
          Writes(s, u, m)' => s # r /\ Writes(s, u, m) /\ intent'[s] = intent[s]
    BY <1>0, EndEffect
  <1>5. ASSUME NEW u \in Users, NEW m \in Metas PROVE KeyOK(u, m)'
    BY <1>0, <1>3, <1>4, KeyFrame DEF IInv
  <1>6. ASSUME NEW u \in Users PROVE UserOK(u)'
    <2>1. PICK s : s = mine[u]
      OBVIOUS
    <2>2. stage[u] = "waiting" => s \in Rpc \ {r}
      BY <2>1, <1>0 DEF IInv, UserOK, WaitOK
    <2>3. stage[u] = "waiting" =>
            ask'[s] = ask[s] /\ answer'[s] = answer[s] /\ intent'[s] = intent[s]
      BY <2>2, <1>0, EndEffect
    <2> QED
      BY <2>1, <2>3, <1>0, <1>3, <1>4, UserFrame DEF IInv
  <1>7. NothingForNobody'
    BY <1>3 DEF IInv, NothingForNobody
  <1> QED
    BY <1>1, <1>2, <1>5, <1>6, <1>7, Parts4

LEMMA CrashStep ==
    ASSUME IInv, Crash
    PROVE  IInv'
  <1>0. /\ vault' = vault /\ may' = may /\ read' = read
        /\ token' = token /\ login' = login
        /\ ask' = [r \in Rpc |-> None] /\ answer' = [r \in Rpc |-> None]
        /\ intent' = [r \in Rpc |-> None]
        /\ stage' = [u \in Users |-> IF stage[u] = "waiting" THEN "ready" ELSE stage[u]]
        /\ mine' = [u \in Users |-> None] /\ rivals' = [u \in Users |-> {}]
    BY DEF Crash, Server!Restart
  <1>1. Shapes'
    BY <1>0 DEF IInv, Shapes
  <1>2. \A s \in Rpc : CallOK(s)'
    BY <1>0 DEF CallOK
  <1>3. \A s \in Rpc : \A u, m : ~ Writes(s, u, m)'
    BY <1>0 DEF Writes
  <1>4. ASSUME NEW u \in Users, NEW m \in Metas PROVE KeyOK(u, m)'
    BY <1>0, <1>3, KeyFrame DEF IInv
  <1>5. ASSUME NEW u \in Users PROVE UserOK(u)'
    BY <1>0 DEF IInv, Shapes, UserOK
  <1>6. NothingForNobody'
    BY <1>0 DEF IInv, NothingForNobody
  <1> QED
    BY <1>1, <1>2, <1>4, <1>5, <1>6, Parts4

-----------------------------------------------------------------------------
(* The beginning of calls                                                   *)

(* What clients ask for.                                                    *)
Proper(q, v) ==
    /\ q \in Server!Asks
    /\ q.op \in {"save", "edit", "get", "delete"}
    /\ q.login \in Users /\ q.meta \in Metas
    /\ q.op \in {"save", "edit"} =>
        v \in Sendable(q.meta[1]) /\ q.value = Seal(q.meta[1], v)
    /\ q.op \in {"get", "delete"} => v = None

LEMMA SendStep ==
    ASSUME IInv, NEW u \in Users, NEW m \in Metas, NEW q, NEW v,
           Proper(q, v), q.login = u, q.meta = m, Send(u, m, q, v)
    PROVE  IInv'
  <1>0. PICK r \in Rpc :
          /\ ask[r] = None
          /\ ask' = [ask EXCEPT ![r] = q]
          /\ mine' = [mine EXCEPT ![u] = r]
          /\ intent' = [intent EXCEPT ![r] = v]
    BY DEF Send
  <1>1. /\ stage[u] = "ready"
        /\ stage' = [stage EXCEPT ![u] = "waiting"]
        /\ may' = [may EXCEPT ![<<u, m>>] = IF q.op = "get" THEN @ ELSE @ \cup {v}]
        /\ rivals' = [rivals EXCEPT ![u] = UNION {Leaves(s) : s \in Late(u, m)}]
        /\ read' = [read EXCEPT ![u] = None]
        /\ vault' = vault /\ answer' = answer /\ token' = token /\ login' = login
    BY DEF Send
  <1>2. q # None /\ answer[r] = None
    BY <1>0, NotNone DEF Proper, IInv, CallOK
  <1>3. m[1] \in Kinds
    BY KeysAre
  <1>4. v \in Sendable(m[1]) \cup {None} /\ v \in Records \cup {None}
    BY <1>3, SealIsCipher DEF Proper
  <1>5. /\ ask'[r] = q /\ intent'[r] = v
        /\ \A s \in Rpc \ {r} : ask'[s] = ask[s] /\ intent'[s] = intent[s]
    BY <1>0 DEF IInv, Shapes
  <1>6. /\ may'[<<u, m>>] = IF q.op = "get" THEN may[<<u, m>>] ELSE may[<<u, m>>] \cup {v}
        /\ \A w \in Users, n \in Metas :
             <<w, n>> # <<u, m>> => may'[<<w, n>>] = may[<<w, n>>]
    BY <1>1 DEF IInv, Shapes
  <1>7. \A s \in Rpc : \A w, n :
          Writes(s, w, n)' => IF s = r THEN w = u /\ n = m /\ q.op # "get"
                              ELSE Writes(s, w, n) /\ intent'[s] = intent[s]
    BY <1>1, <1>5 DEF Writes
  <1>8. \A x : x \in rivals'[u] <=> \E s \in Rpc : Writes(s, u, m) /\ x = intent[s]
    <2>1. rivals'[u] = UNION {Leaves(s) : s \in Late(u, m)}
      BY <1>1 DEF IInv, Shapes
    <2>2. \A x : x \in rivals'[u] <=> \E s \in Late(u, m) : x \in Leaves(s)
      BY <2>1, Zenon
    <2>3. \A s : s \in Late(u, m) /\ ask[s].op # "get" <=> s \in Rpc /\ Writes(s, u, m)
      BY DEF Late, Writes
    <2>4. \A s, x : x \in Leaves(s) <=> ask[s].op # "get" /\ x = intent[s]
      BY DEF Leaves
    <2> QED
      BY <2>2, <2>3, <2>4, Zenon
  <1>9. rivals'[u] \subseteq may[<<u, m>>]
    BY <1>8 DEF IInv, KeyOK
  <1>10. Shapes'
    <2>1. ask' \in [Rpc -> Server!Asks \cup {None}]
      BY <1>0 DEF IInv, Shapes, Proper
    <2>2. may' \in [Users \X Metas -> SUBSET (Records \cup {None})]
      <3>1. <<u, m>> \in Users \X Metas
        OBVIOUS
      <3>2. may'[<<u, m>>] \in SUBSET (Records \cup {None})
        BY <3>1, <1>4, <1>6 DEF IInv, Shapes
      <3> QED
        BY <3>1, <3>2, <1>1 DEF IInv, Shapes
    <2>3. rivals' \in [Users -> SUBSET (Records \cup {None})]
      <3>1. rivals'[u] \in SUBSET (Records \cup {None})
        BY <1>9 DEF IInv, Shapes
      <3> QED
        BY <3>1, <1>1 DEF IInv, Shapes
    <2>4. intent' \in [Rpc -> Records \cup {None}]
      BY <1>0, <1>4 DEF IInv, Shapes
    <2> QED
      BY <1>0, <1>1, <2>1, <2>2, <2>3, <2>4 DEF IInv, Shapes
  <1>11. ASSUME NEW s \in Rpc PROVE CallOK(s)'
    <2>1. CASE s = r
      BY <2>1, <1>2, <1>5 DEF CallOK, Proper
    <2>2. CASE s # r
      BY <2>2, <1>1, <1>5, CallFrame DEF IInv, CallOK
    <2> QED
      BY <2>1, <2>2
  <1>12. ASSUME NEW w \in Users, NEW n \in Metas PROVE KeyOK(w, n)'
    <2>1. CASE <<w, n>> = <<u, m>>
      <3>1. KeyOK(u, m)
        BY DEF IInv
      <3>2. may[<<u, m>>] \subseteq may'[<<u, m>>]
        BY <1>6
      <3>3. may'[<<u, m>>] \subseteq Sendable(m[1]) \cup {None}
        BY <3>1, <1>4, <1>6 DEF KeyOK
      <3>4. Told(m, vault'[<<u, m>>], may'[<<u, m>>])
        BY <3>1, <3>2, <1>1, ToldMore DEF KeyOK
      <3>5. ASSUME NEW s \in Rpc, Writes(s, u, m)' PROVE intent'[s] \in may'[<<u, m>>]
        BY <3>1, <3>2, <3>5, <1>5, <1>6, <1>7 DEF KeyOK
      <3> QED
        BY <2>1, <3>3, <3>4, <3>5 DEF KeyOK
    <2>2. CASE <<w, n>> # <<u, m>>
      <3>1. \A s \in Rpc : Writes(s, w, n)' => Writes(s, w, n) /\ intent'[s] = intent[s]
        BY <2>2, <1>7
      <3>2. may'[<<w, n>>] = may[<<w, n>>] /\ vault'[<<w, n>>] = vault[<<w, n>>]
        BY <2>2, <1>1, <1>6
      <3>3. KeyOK(w, n)
        BY DEF IInv
      <3> QED
        BY <3>1, <3>2, <3>3, KeyFrame
    <2> QED
      BY <2>1, <2>2
  <1>13. ASSUME NEW w \in Users PROVE UserOK(w)'
    <2>1. CASE w = u
      <3>1. stage'[u] = "waiting" /\ mine'[u] = r /\ read'[u] = None
        BY <1>0, <1>1 DEF IInv, Shapes
      <3>2. rivals'[u] \subseteq may'[<<u, m>>]
        BY <1>6, <1>9
      <3>3. ASSUME NEW s \in Rpc \ {r}, Writes(s, u, m)' PROVE intent'[s] \in rivals'[u]
        BY <3>3, <1>5, <1>7, <1>8
      <3>4. WaitOK(u, r)'
        BY <3>1, <3>2, <3>3, <1>1, <1>2, <1>5 DEF WaitOK
      <3> QED
        BY <2>1, <3>1, <3>4, <1>1 DEF IInv, UserOK
    <2>2. CASE w # u
      <3>1. PICK s, n : s = mine[w] /\ n = ask[s].meta
        OBVIOUS
      <3>2. /\ stage'[w] = stage[w] /\ mine'[w] = mine[w]
            /\ read'[w] = read[w] /\ rivals'[w] = rivals[w]
        BY <2>2, <1>0, <1>1 DEF IInv, Shapes
      <3>3. stage[w] = "waiting" => s \in Rpc \ {r} /\ n \in Metas
        BY <3>1, <1>0 DEF IInv, UserOK, WaitOK, CallOK
      <3>4. \A t \in Rpc : Writes(t, w, n)' => Writes(t, w, n) /\ intent'[t] = intent[t]
        BY <2>2, <1>7
      <3>5. stage[w] = "waiting" =>
              /\ ask'[s] = ask[s] /\ answer'[s] = answer[s] /\ intent'[s] = intent[s]
              /\ may'[<<w, n>>] = may[<<w, n>>] /\ vault'[<<w, n>>] = vault[<<w, n>>]
        BY <2>2, <3>3, <1>1, <1>5, <1>6
      <3>6. UserOK(w) /\ token'[w] = token[w] /\ login'[w] = login[w]
        BY <1>1 DEF IInv
      <3> QED
        BY <3>1, <3>2, <3>4, <3>5, <3>6, UserFrame
    <2> QED
      BY <2>1, <2>2
  <1>14. NothingForNobody'
    BY <1>1 DEF IInv, NothingForNobody
  <1> QED
    BY <1>10, <1>11, <1>12, <1>13, <1>14, Parts4

-----------------------------------------------------------------------------
(* The server's work                                                        *)

(* What a request does to the cell of its key, at one instant or not at all.*)
LEMMA WorkEffect ==
    ASSUME IInv, NEW r \in Rpc, Work(r), NEW u, NEW m, u = ask[r].login, m = ask[r].meta
    PROVE  /\ u \in Users /\ m \in Metas
           /\ ask[r] # None /\ answer[r] = None /\ answer'[r] # None
           /\ vault' \in [Server!Keys -> Ciphers \cup {None}]
           /\ answer' \in [Rpc -> Answers \cup {None}]
           /\ \A s \in Rpc \ {r} : answer'[s] = answer[s]
           /\ \A k \in Server!Keys : k # <<u, m>> => vault'[k] = vault[k]
           /\ \/ vault' = vault
              \/ ask[r].op # "get" /\ Told(m, vault'[<<u, m>>], {intent[r]})
           /\ answer'[r].ok /\ ask[r].op # "get" => Told(m, vault'[<<u, m>>], {intent[r]})
           /\ answer'[r].ok /\ ask[r].op = "get" =>
                /\ vault' = vault
                /\ vault[<<u, m>>] # None
                /\ answer'[r].data = vault[<<u, m>>]
  <1>1. ask[r] # None /\ answer[r] = None
    BY DEF Work, Server!Perform, Server!Fail, Server!InProgress
  <1>2. /\ u \in Users /\ m \in Metas
        /\ ask[r].op \in {"save", "edit", "get", "delete"}
        /\ ask[r].op \in {"save", "edit"} =>
            intent[r] \in Sendable(m[1]) /\ ask[r].value = Seal(m[1], intent[r])
        /\ ask[r].op = "delete" => intent[r] = None
    BY <1>1 DEF IInv, CallOK
  <1>3. Server!Key(ask[r]) = <<u, m>> /\ <<u, m>> \in Server!Keys
    BY <1>2, KeysAre DEF Server!Key
  <1>4. Server!Error \in Answers /\ Server!Error.ok = FALSE
    BY DEF Server!Error, Answers
  <1>5. CASE Server!Fail(r)
    <2>1. vault' = vault /\ answer' = [answer EXCEPT ![r] = Server!Error]
      BY <1>5 DEF Server!Fail
    <2>2. /\ answer'[r] = Server!Error
          /\ \A s \in Rpc \ {r} : answer'[s] = answer[s]
          /\ answer' \in [Rpc -> Answers \cup {None}]
      BY <2>1, <1>4 DEF IInv, Shapes
    <2>3. vault' \in [Server!Keys -> Ciphers \cup {None}]
      BY <2>1 DEF IInv, Shapes
    <2>4. answer'[r] # None
      BY <2>2, <1>4, NotNone
    <2> QED
      BY <1>1, <1>2, <1>4, <2>1, <2>2, <2>3, <2>4
  <1>6. CASE Server!Perform(r)
    <2>1. /\ Server!Permitted(ask[r])
          /\ vault' = Server!After(ask[r])
          /\ \/ answer' = [answer EXCEPT ![r] = Server!Result(ask[r])]
             \/ answer' = [answer EXCEPT ![r] = Server!Error]
      BY <1>6 DEF Server!Perform
    <2>2. PICK a : a \in {Server!Result(ask[r]), Server!Error}
                   /\ answer' = [answer EXCEPT ![r] = a]
      BY <2>1
    <2>3. vault[<<u, m>>] \in Ciphers \cup {None}
      BY <1>3 DEF IInv, Shapes
    <2>4. Server!Result(ask[r]) \in Answers
      BY <1>3, <2>3 DEF Server!Result, Server!Ok, Answers
    <2>5. a \in Answers /\ a # None
      BY <2>2, <2>4, <1>4, NotNone
    <2>6. /\ answer'[r] = a
          /\ \A s \in Rpc \ {r} : answer'[s] = answer[s]
          /\ answer' \in [Rpc -> Answers \cup {None}]
      BY <2>2, <2>5 DEF IInv, Shapes
    <2>7. CASE ask[r].op \in {"save", "edit"}
      <3>1. vault' = [vault EXCEPT ![<<u, m>>] = Seal(m[1], intent[r])]
        BY <2>1, <2>7, <1>2, <1>3 DEF Server!After
      <3>2. Seal(m[1], intent[r]) \in Ciphers
        BY <2>7, <1>2, KeysAre, SealIsCipher
      <3>3. /\ vault' \in [Server!Keys -> Ciphers \cup {None}]
            /\ vault'[<<u, m>>] = Seal(m[1], intent[r])
            /\ \A k \in Server!Keys : k # <<u, m>> => vault'[k] = vault[k]
        BY <3>1, <3>2, <1>3 DEF IInv, Shapes
      <3>4. Told(m, vault'[<<u, m>>], {intent[r]})
        BY <2>7, <3>3, <1>2, ToldSealed
      <3> QED
        BY <1>1, <1>2, <2>5, <2>6, <2>7, <3>3, <3>4
    <2>8. CASE ask[r].op = "delete"
      <3>1. vault' = [vault EXCEPT ![<<u, m>>] = None]
        BY <2>1, <2>8, <1>3 DEF Server!After
      <3>2. /\ vault' \in [Server!Keys -> Ciphers \cup {None}]
            /\ vault'[<<u, m>>] = None
            /\ \A k \in Server!Keys : k # <<u, m>> => vault'[k] = vault[k]
        BY <3>1, <1>3 DEF IInv, Shapes
      <3>3. Told(m, vault'[<<u, m>>], {intent[r]})
        BY <2>8, <3>2, <1>2 DEF Told
      <3> QED
        BY <1>1, <1>2, <2>5, <2>6, <2>8, <3>2, <3>3
    <2>9. CASE ask[r].op = "get"
      <3>1. vault' = vault /\ vault[<<u, m>>] # None
        BY <2>1, <2>9, <1>3 DEF Server!After, Server!Permitted
      <3>2. Server!Result(ask[r]).data = vault[<<u, m>>]
        BY <2>9, <1>3 DEF Server!Result, Server!Ok
      <3>3. answer'[r].ok => answer'[r].data = vault[<<u, m>>]
        BY <2>2, <2>6, <3>2, <1>4
      <3>4. vault' \in [Server!Keys -> Ciphers \cup {None}]
        BY <3>1 DEF IInv, Shapes
      <3> QED
        BY <1>1, <1>2, <2>5, <2>6, <2>9, <3>1, <3>3, <3>4
    <2> QED
      BY <2>7, <2>8, <2>9, <1>2
  <1> QED
    BY <1>5, <1>6 DEF Work

LEMMA WorkStep ==
    ASSUME IInv, NEW r \in Rpc, Work(r)
    PROVE  IInv'
  <1>0. PICK u, m : u = ask[r].login /\ m = ask[r].meta
    OBVIOUS
  <1>1. /\ u \in Users /\ m \in Metas
        /\ ask[r] # None /\ answer[r] = None /\ answer'[r] # None
        /\ vault' \in [Server!Keys -> Ciphers \cup {None}]
        /\ answer' \in [Rpc -> Answers \cup {None}]
        /\ \A s \in Rpc \ {r} : answer'[s] = answer[s]
        /\ \A k \in Server!Keys : k # <<u, m>> => vault'[k] = vault[k]
        /\ \/ vault' = vault
           \/ ask[r].op # "get" /\ Told(m, vault'[<<u, m>>], {intent[r]})
        /\ answer'[r].ok /\ ask[r].op # "get" => Told(m, vault'[<<u, m>>], {intent[r]})
        /\ answer'[r].ok /\ ask[r].op = "get" =>
             /\ vault' = vault
             /\ vault[<<u, m>>] # None
             /\ answer'[r].data = vault[<<u, m>>]
    BY <1>0, WorkEffect
  <1>2. /\ ask' = ask /\ stage' = stage /\ token' = token /\ login' = login /\ mine' = mine
        /\ intent' = intent /\ read' = read /\ may' = may /\ rivals' = rivals
    BY DEF Work, Server!Perform, Server!Fail, process, knowledge
  <1>3. \A s \in Rpc : \A w, n :
          Writes(s, w, n)' => Writes(s, w, n) /\ intent'[s] = intent[s]
    BY <1>1, <1>2 DEF Writes
  <1>4. ask[r].op # "get" => Writes(r, u, m)
    BY <1>0, <1>1 DEF Writes
  <1>5. Shapes'
    BY <1>1, <1>2 DEF IInv, Shapes
  <1>6. ASSUME NEW s \in Rpc PROVE CallOK(s)'
    BY <1>1, <1>2, CallFrame DEF IInv, CallOK
  <1>7. ASSUME NEW w \in Users, NEW n \in Metas PROVE KeyOK(w, n)'
    <2>0. KeyOK(w, n) /\ <<w, n>> \in Server!Keys
      BY KeysAre DEF IInv
    <2>1. CASE vault'[<<w, n>>] = vault[<<w, n>>]
      BY <2>0, <2>1, <1>2, <1>3, KeyFrame
    <2>2. CASE vault'[<<w, n>>] # vault[<<w, n>>]
      <3>1. w = u /\ n = m
        BY <2>0, <2>2, <1>1
      <3>2. ask[r].op # "get" /\ Told(m, vault'[<<u, m>>], {intent[r]})
        BY <2>2, <1>1
      <3>3. intent[r] \in may[<<u, m>>]
        BY <2>0, <3>1, <3>2, <1>4 DEF KeyOK
      <3>4. Told(m, vault'[<<u, m>>], may[<<u, m>>])
        BY <3>2, <3>3, ToldMore
      <3> QED
        BY <2>0, <3>1, <3>4, <1>2, <1>3 DEF KeyOK
    <2> QED
      BY <2>1, <2>2
  <1>8. ASSUME NEW w \in Users, stage[w] = "waiting" PROVE WaitOK(w, mine[w])'
    <2>1. PICK s, n : s = mine[w] /\ n = ask[s].meta
      OBVIOUS
    <2>2. WaitOK(w, s)
      BY <2>1, <1>8 DEF IInv, UserOK
    <2>3. s \in Rpc /\ n \in Metas /\ ask[s].login = w
      BY <2>1, <2>2 DEF WaitOK, IInv, CallOK
    <2>4. \A t \in Rpc \ {s} : Writes(t, w, n)' => intent'[t] \in rivals'[w]
      BY <2>1, <2>2, <1>2, <1>3 DEF WaitOK
    <2>5. ASSUME answer'[s] # None, answer'[s].ok
          PROVE  /\ Told(n, vault'[<<w, n>>], Known(w, s)' \cup rivals[w])
                 /\ ask[s].op = "get" =>
                      \E v \in may[<<w, n>>] \ {None} : answer'[s].data = Seal(n[1], v)
      <3>1. CASE s = r
        <4>1. w = u /\ n = m
          BY <2>1, <2>3, <3>1, <1>0
        <4>2. CASE ask[r].op # "get"
          <5>1. Known(w, s)' = {intent[r]}
            BY <3>1, <4>2, <1>2 DEF Known
          <5>2. Told(m, vault'[<<u, m>>], {intent[r]})
            BY <2>5, <3>1, <4>2, <1>1
          <5> QED
            BY <3>1, <4>1, <4>2, <5>1, <5>2, ToldMore
        <4>3. CASE ask[r].op = "get"
          <5>1. /\ vault' = vault /\ vault[<<u, m>>] # None
                /\ answer'[r].data = vault[<<u, m>>]
            BY <2>5, <3>1, <4>3, <1>1
          <5>2. Told(m, vault[<<u, m>>], may[<<u, m>>])
            BY <1>1 DEF IInv, KeyOK
          <5>3. PICK v \in may[<<u, m>>] \ {None} : vault[<<u, m>>] = Seal(m[1], v)
            BY <5>1, <5>2 DEF Told
          <5>4. Known(w, s)' = {x \in may[<<u, m>>] \ {None} : Seal(m[1], x) = answer'[r].data}
            BY <3>1, <4>1, <4>3, <2>1, <1>2 DEF Known
          <5>5. v \in Known(w, s)'
            BY <5>1, <5>3, <5>4
          <5>6. Told(m, vault'[<<u, m>>], Known(w, s)' \cup rivals[w])
            BY <5>1, <5>3, <5>5 DEF Told
          <5> QED
            BY <4>1, <3>1, <5>1, <5>3, <5>6
        <4> QED
          BY <4>2, <4>3
      <3>2. CASE s # r
        <4>1. answer'[s] = answer[s]
          BY <3>2, <2>3, <1>1
        <4>2. Known(w, s)' = Known(w, s)
          BY <4>1, <1>2 DEF Known
        <4>3. Told(n, vault[<<w, n>>], Known(w, s) \cup rivals[w])
          BY <4>1, <2>1, <2>2, <2>5 DEF WaitOK
        <4>4. Told(n, vault'[<<w, n>>], Known(w, s) \cup rivals[w])
          <5>1. CASE vault'[<<w, n>>] = vault[<<w, n>>]
            BY <4>3, <5>1
          <5>2. CASE vault'[<<w, n>>] # vault[<<w, n>>]
            <6>1. w = u /\ n = m
              BY <5>2, <2>3, KeysAre, <1>1
            <6>2. ask[r].op # "get" /\ Told(m, vault'[<<u, m>>], {intent[r]})
              BY <5>2, <1>1
            <6>3. intent[r] \in rivals[w]
              BY <6>1, <6>2, <3>2, <1>4, <2>1, <2>2 DEF WaitOK
            <6> QED
              BY <6>1, <6>2, <6>3, ToldMore
          <5> QED
            BY <5>1, <5>2
        <4>5. ask[s].op = "get" =>
                \E v \in may[<<w, n>>] \ {None} : answer'[s].data = Seal(n[1], v)
          BY <4>1, <2>1, <2>2, <2>5 DEF WaitOK
        <4> QED
          BY <4>2, <4>4, <4>5
      <3> QED
        BY <3>1, <3>2
    <2>6. WaitOK(w, s)'
      BY <2>1, <2>2, <2>4, <2>5, <1>2 DEF WaitOK
    <2> QED
      BY <2>1, <2>6, <1>2
  <1>9. ASSUME NEW w \in Users PROVE UserOK(w)'
    BY <1>2, <1>8 DEF IInv, UserOK
  <1>10. NothingForNobody'
    BY <1>1, KeysAre DEF IInv, NothingForNobody
  <1> QED
    BY <1>5, <1>6, <1>7, <1>9, <1>10, Parts4

-----------------------------------------------------------------------------
(* Answers                                                                  *)

(* What the answer makes of the fields read and of what u expects.          *)
LEMMA ReceiveEffect ==
    ASSUME IInv, NEW u \in Users, Receive(u), NEW r, NEW m, r = mine[u], m = ask[r].meta
    PROVE  /\ WaitOK(u, r) /\ r \in Rpc /\ m \in Metas
           /\ \A w \in Users \ {u} : read'[w] = read[w]
           /\ DOMAIN read' = Users
           /\ read'[u] # None => \E v \in may[<<u, m>>] : Matches(read'[u], v)
           /\ \/ may' = may
              \/ \E S : /\ may' = [may EXCEPT ![<<u, m>>] = S \cup rivals[u]]
                        /\ S \subseteq Sendable(m[1]) \cup {None}
                        /\ Told(m, vault[<<u, m>>], S \cup rivals[u])
  <1> DEFINE kind == m[1]
             opened == IF answer[r].ok /\ ask[r].op = "get" THEN Open(kind, answer[r].data)
                                                            ELSE Error
             S == IF ask[r].op # "get" THEN {intent[r]}
                  ELSE {v \in may[<<u, m>>] : Matches(opened.fields, v)}
  <1>1. stage[u] = "waiting"
    BY DEF Receive
  <1>2. WaitOK(u, r)
    BY <1>1 DEF IInv, UserOK
  <1>3. r \in Rpc /\ m \in Metas /\ kind \in Kinds /\ KeyOK(u, m)
    BY <1>2, KeysAre DEF WaitOK, IInv, CallOK
  <1>4. /\ read' = [read EXCEPT ![u] = IF opened.ok THEN opened.fields ELSE None]
        /\ may' = IF answer[r].ok /\ (ask[r].op = "get" => opened.ok)
                  THEN [may EXCEPT ![<<u, m>>] = S \cup rivals[u]]
                  ELSE may
        /\ answer[r] # None
    BY DEF Receive, Server!End
  <1>5. ASSUME answer[r].ok, ask[r].op = "get"
        PROVE  \E v \in may[<<u, m>>] \ {None} :
                 /\ answer[r].data = Seal(kind, v)
                 /\ opened.ok /\ Matches(opened.fields, v)
    <2>1. PICK v \in may[<<u, m>>] \ {None} : answer[r].data = Seal(kind, v)
      BY <1>2, <1>4, <1>5 DEF WaitOK
    <2>2. v \in Sendable(kind)
      BY <1>3 DEF KeyOK
    <2>3. opened = Open(kind, Seal(kind, v))
      BY <1>5, <2>1
    <2> HIDE DEF opened, kind
    <2> QED
      BY <2>1, <2>2, <2>3, <1>3, OpensToItself
  <1>6. ~ (answer[r].ok /\ ask[r].op = "get") => ~ opened.ok
    BY DEF Error
  <1>7. S \subseteq Sendable(kind) \cup {None}
    <2>1. CASE ask[r].op # "get"
      <3>1. intent[r] \in Sendable(kind) \cup {None}
        BY <2>1, <1>2, <1>3 DEF WaitOK, IInv, CallOK
      <3> QED
        BY <2>1, <3>1
    <2>2. CASE ask[r].op = "get"
      BY <2>2, <1>3 DEF KeyOK
    <2> QED
      BY <2>1, <2>2
  <1>8. ASSUME answer[r].ok PROVE Told(m, vault[<<u, m>>], S \cup rivals[u])
    <2>1. Told(m, vault[<<u, m>>], Known(u, r) \cup rivals[u])
      BY <1>2, <1>4, <1>8 DEF WaitOK
    <2>2. Known(u, r) \subseteq S
      <3>1. CASE ask[r].op # "get"
        BY <3>1 DEF Known
      <3>2. CASE ask[r].op = "get"
        <4>1. ASSUME NEW v \in may[<<u, m>>] \ {None}, Seal(kind, v) = answer[r].data
              PROVE  Matches(opened.fields, v)
          <5>1. v \in Sendable(kind)
            BY <1>3 DEF KeyOK
          <5>2. opened = Open(kind, Seal(kind, v))
            BY <1>8, <3>2, <4>1
          <5> HIDE DEF opened, kind
          <5> QED
            BY <5>1, <5>2, <1>3, OpensToItself
        <4>2. Known(u, r) = {v \in may[<<u, m>>] \ {None} : Seal(kind, v) = answer[r].data}
          BY <3>2 DEF Known
        <4> HIDE DEF opened, kind
        <4> QED
          BY <3>2, <4>1, <4>2
      <3> QED
        BY <3>1, <3>2
    <2>3. Known(u, r) \cup rivals[u] \subseteq S \cup rivals[u]
      BY <2>2
    <2> HIDE DEF S
    <2> QED
      BY <2>1, <2>3, ToldMore
  <1> HIDE DEF opened, S
  <1>9. read'[u] = (IF opened.ok THEN opened.fields ELSE None)
        /\ (\A w \in Users \ {u} : read'[w] = read[w]) /\ DOMAIN read' = Users
    BY <1>4 DEF IInv, Shapes
  <1>10. read'[u] # None => \E v \in may[<<u, m>>] : Matches(read'[u], v)
    BY <1>5, <1>6, <1>9
  <1>11. may' # may => answer[r].ok /\ may' = [may EXCEPT ![<<u, m>>] = S \cup rivals[u]]
    BY <1>4
  <1> QED
    BY <1>2, <1>3, <1>7, <1>8, <1>9, <1>10, <1>11

LEMMA ReceiveStep ==
    ASSUME IInv, NEW u \in Users, Receive(u)
    PROVE  IInv'
  <1>0. PICK r, m : r = mine[u] /\ m = ask[r].meta
    OBVIOUS
  <1>1. /\ WaitOK(u, r) /\ r \in Rpc /\ m \in Metas
        /\ \A w \in Users \ {u} : read'[w] = read[w]
        /\ DOMAIN read' = Users
        /\ \/ may' = may
           \/ \E S : /\ may' = [may EXCEPT ![<<u, m>>] = S \cup rivals[u]]
                     /\ S \subseteq Sendable(m[1]) \cup {None}
                     /\ Told(m, vault[<<u, m>>], S \cup rivals[u])
    BY <1>0, ReceiveEffect
  <1>2. Server!End(r) /\ intent' = [intent EXCEPT ![r] = None]
    BY <1>0 DEF Receive
  <1>3. /\ stage' = [stage EXCEPT ![u] = "ready"]
        /\ mine' = [mine EXCEPT ![u] = None]
        /\ rivals' = [rivals EXCEPT ![u] = {}]
        /\ token' = token /\ login' = login
    BY DEF Receive
  <1>4. /\ vault' = vault
        /\ ask' \in [Rpc -> Server!Asks \cup {None}]
        /\ answer' \in [Rpc -> Answers \cup {None}]
        /\ intent' \in [Rpc -> Records \cup {None}]
        /\ \A s \in Rpc : CallOK(s)'
        /\ \A s \in Rpc \ {r} : ask'[s] = ask[s] /\ answer'[s] = answer[s]
        /\ \A s \in Rpc \ {r} : intent'[s] = intent[s]
    BY <1>1, <1>2, EndEffect
  <1>5. \A s \in Rpc : \A w, n :
          Writes(s, w, n)' => s # r /\ Writes(s, w, n) /\ intent'[s] = intent[s]
    BY <1>1, <1>2, EndEffect
  <1>6. \A w \in Users, n \in Metas : <<w, n>> # <<u, m>> => may'[<<w, n>>] = may[<<w, n>>]
    BY <1>1 DEF IInv, Shapes
  <1>7. /\ rivals[u] \subseteq may[<<u, m>>]
        /\ \A s \in Rpc \ {r} : Writes(s, u, m) => intent[s] \in rivals[u]
    BY <1>0, <1>1 DEF WaitOK
  <1>8. KeyOK(u, m)
    BY <1>1 DEF IInv
  <1>9. KeyOK(u, m)' /\ may' \in [Users \X Metas -> SUBSET (Records \cup {None})]
    <2>1. CASE may' = may
      <3>1. KeyOK(u, m)'
        BY <2>1, <1>1, <1>4, <1>5, <1>8, KeyFrame
      <3> QED
        BY <2>1, <3>1 DEF IInv, Shapes
    <2>2. CASE may' # may
      <3>1. PICK S : /\ may' = [may EXCEPT ![<<u, m>>] = S \cup rivals[u]]
                     /\ S \subseteq Sendable(m[1]) \cup {None}
                     /\ Told(m, vault[<<u, m>>], S \cup rivals[u])
        BY <2>2, <1>1
      <3>2. may'[<<u, m>>] = S \cup rivals[u]
        BY <3>1, <1>1 DEF IInv, Shapes
      <3>3. may'[<<u, m>>] \subseteq Sendable(m[1]) \cup {None}
        BY <3>1, <3>2, <1>7, <1>8 DEF KeyOK
      <3>4. \A s \in Rpc : Writes(s, u, m)' => intent'[s] \in may'[<<u, m>>]
        BY <3>2, <1>5, <1>7
      <3>5. KeyOK(u, m)'
        BY <3>1, <3>2, <3>3, <3>4, <1>4 DEF KeyOK
      <3>6. may'[<<u, m>>] \in SUBSET (Records \cup {None})
        BY <3>3, <1>1, KeysAre, SealIsCipher
      <3>7. may' \in [Users \X Metas -> SUBSET (Records \cup {None})]
        BY <3>1, <3>2, <3>6 DEF IInv, Shapes
      <3> QED
        BY <3>5, <3>7
    <2> QED
      BY <2>1, <2>2
  <1>10. Shapes'
    BY <1>1, <1>3, <1>4, <1>9 DEF IInv, Shapes
  <1>11. ASSUME NEW w \in Users, NEW n \in Metas PROVE KeyOK(w, n)'
    <2>1. CASE <<w, n>> = <<u, m>>
      BY <2>1, <1>9
    <2>2. CASE <<w, n>> # <<u, m>>
      <3>1. may'[<<w, n>>] = may[<<w, n>>] /\ KeyOK(w, n)
        BY <2>2, <1>6 DEF IInv
      <3> QED
        BY <3>1, <1>4, <1>5, KeyFrame
    <2> QED
      BY <2>1, <2>2
  <1>12. ASSUME NEW w \in Users PROVE UserOK(w)'
    <2>1. CASE w = u
      BY <2>1, <1>3 DEF IInv, Shapes, UserOK
    <2>2. CASE w # u
      <3>1. PICK s, n : s = mine[w] /\ n = ask[s].meta
        OBVIOUS
      <3>2. /\ stage'[w] = stage[w] /\ mine'[w] = mine[w] /\ rivals'[w] = rivals[w]
            /\ read'[w] = read[w] /\ token'[w] = token[w] /\ login'[w] = login[w]
        BY <2>2, <1>1, <1>3 DEF IInv, Shapes
      <3>3. UserOK(w)
        BY DEF IInv
      <3>4. stage[w] = "waiting" => s \in Rpc \ {r} /\ n \in Metas
        BY <2>2, <3>1, <3>3, <1>0, <1>1 DEF IInv, UserOK, WaitOK, CallOK
      <3>5. stage[w] = "waiting" =>
              /\ ask'[s] = ask[s] /\ answer'[s] = answer[s] /\ intent'[s] = intent[s]
              /\ may'[<<w, n>>] = may[<<w, n>>] /\ vault'[<<w, n>>] = vault[<<w, n>>]
        BY <2>2, <3>4, <1>4, <1>6
      <3>6. \A t \in Rpc : Writes(t, w, n)' => Writes(t, w, n) /\ intent'[t] = intent[t]
        BY <1>5
      <3> QED
        BY <3>1, <3>2, <3>3, <3>5, <3>6, UserFrame
    <2> QED
      BY <2>1, <2>2
  <1>13. NothingForNobody'
    BY <1>4 DEF IInv, NothingForNobody
  <1> QED
    BY <1>4, <1>10, <1>11, <1>12, <1>13, Parts4

-----------------------------------------------------------------------------
(* Every behaviour                                                          *)

LEMMA InitIInv == Init => IInv
  <1> SUFFICES ASSUME Init PROVE IInv
    OBVIOUS
  <1>1. Shapes
    BY DEF Init, Server!Init, Shapes, Tokens, Placeholder
  <1>2. \A r \in Rpc : CallOK(r)
    BY DEF Init, Server!Init, CallOK
  <1>3. ASSUME NEW u \in Users, NEW m \in Metas PROVE KeyOK(u, m)
    <2>1. may[<<u, m>>] = {None} /\ vault[<<u, m>>] = None
      BY KeysAre DEF Init, Server!Init
    <2>2. \A r \in Rpc : ~ Writes(r, u, m)
      BY DEF Init, Server!Init, Writes
    <2> QED
      BY <2>1, <2>2 DEF KeyOK, Told
  <1>4. \A u \in Users : UserOK(u)
    BY DEF Init, UserOK, Placeholder
  <1>5. NothingForNobody
    BY KeysAre DEF Init, Server!Init, NothingForNobody
  <1> QED
    BY <1>1, <1>2, <1>3, <1>4, <1>5 DEF IInv

(* Every command sends a request of its own user, or nothing.               *)
LEMMA CommandStep ==
    ASSUME IInv, NEW u \in Users, NEW p \in Places, Command(u, p)
    PROVE  IInv'
  <1>1. Pass(p) \in Metas /\ Card(p) \in Metas /\ Pass(p)[1] = "pair" /\ Card(p)[1] = "card"
    BY DEF Metas, Kinds, Pass, Card
  <1>2. ASSUME NEW m, NEW q, NEW v, Send(u, m, q, v) PROVE login[u] = u
    BY <1>2 DEF Send, Admitted, IInv, UserOK
  <1>3. ASSUME NEW m \in Metas, NEW v \in Sendable(m[1]), NEW op \in {"save", "edit"},
               Send(u, m, WithValue(u, op, m, v), v)
        PROVE  IInv'
    <2>1. login[u] = u
      BY <1>2, <1>3
    <2>2. Seal(m[1], v) \in Ciphers
      BY KeysAre, SealIsCipher
    <2>3. Proper(WithValue(u, op, m, v), v)
      BY <2>1, <2>2 DEF WithValue, Proper, Server!Asks
    <2>4. WithValue(u, op, m, v).login = u /\ WithValue(u, op, m, v).meta = m
      BY <2>1 DEF WithValue
    <2> QED
      BY <1>3, <2>3, <2>4, SendStep
  <1>4. ASSUME NEW m \in Metas, NEW op \in {"get", "delete"},
               Send(u, m, Request(u, op, m), None)
        PROVE  IInv'
    <2>1. login[u] = u
      BY <1>2, <1>4
    <2>2. Proper(Request(u, op, m), None)
      BY <2>1 DEF Request, Proper, Server!Asks
    <2>3. Request(u, op, m).login = u /\ Request(u, op, m).meta = m
      BY <2>1 DEF Request
    <2> QED
      BY <1>4, <2>2, <2>3, SendStep
  <1>5. ASSUME NEW v \in Pairs, SavePass(u, p, v) \/ EditPass(u, p, v) PROVE IInv'
    <2>1. v \in Sendable(Pass(p)[1])
      BY <1>1 DEF Sendable
    <2> QED
      BY <1>1, <1>3, <1>5, <2>1 DEF SavePass, EditPass
  <1>6. ASSUME NEW v \in Cards, SaveCard(u, p, v) \/ EditCard(u, p, v) PROVE IInv'
    <2>1. v \in Sendable(Card(p)[1])
      BY <1>1, <1>6 DEF Sendable, SaveCard, EditCard
    <2> QED
      BY <1>1, <1>3, <1>6, <2>1 DEF SaveCard, EditCard
  <1>7. CASE GetPass(u, p) \/ DeletePass(u, p)
    BY <1>1, <1>4, <1>7 DEF GetPass, DeletePass
  <1>8. CASE GetCard(u, p) \/ DeleteCard(u, p)
    BY <1>1, <1>4, <1>8 DEF GetCard, DeleteCard
  <1> QED
    BY <1>5, <1>6, <1>7, <1>8 DEF Command

LEMMA StutterStep == IInv /\ UNCHANGED vars => IInv'
  <1> SUFFICES ASSUME IInv, UNCHANGED vars PROVE IInv'
    OBVIOUS
  <1>1. /\ vault' = vault /\ ask' = ask /\ answer' = answer /\ stage' = stage
        /\ token' = token /\ login' = login /\ mine' = mine /\ intent' = intent
        /\ read' = read /\ may' = may /\ rivals' = rivals
    BY DEF vars, server, process, knowledge
  <1>2. Shapes'
    BY <1>1 DEF IInv, Shapes
  <1>3. ASSUME NEW u \in Users PROVE UserOK(u)'
    <2>1. PICK r, m : r = mine[u] /\ m = ask[r].meta
      OBVIOUS
    <2>2. \A s \in Rpc : Writes(s, u, m)' => Writes(s, u, m)
      BY <1>1 DEF Writes
    <2> QED
      BY <1>1, <2>1, <2>2, UserFrame DEF IInv
  <1>4. CASE Users = {}
    <2>1. ASSUME NEW r \in Rpc PROVE CallOK(r)'
      BY <1>1, CallFrame DEF IInv, CallOK
    <2>2. NothingForNobody'
      BY <1>1 DEF IInv, NothingForNobody
    <2> QED
      BY <1>2, <1>4, <2>1, <2>2, Parts4
  <1>5. CASE Users # {}
    <2>1. PICK u \in Users : TRUE
      BY <1>5
    <2> QED
      BY <1>1, <1>2, <1>3, <2>1, AloneStep DEF server
  <1> QED
    BY <1>4, <1>5

LEMMA StepIInv == IInv /\ [Next]_vars => IInv'
  <1> SUFFICES ASSUME IInv, [Next]_vars PROVE IInv'
    OBVIOUS
  <1>1. ASSUME NEW u \in Users, Authenticate(u) \/ Expire(u) \/ Leave(u) \/ Receive(u)
        PROVE  IInv'
    BY <1>1, AuthenticateStep, ExpireStep, LeaveStep, ReceiveStep
  <1>2. ASSUME NEW u \in Users, NEW p \in Places, Command(u, p) PROVE IInv'
    BY <1>2, CommandStep
  <1>3. ASSUME NEW r \in Rpc, Work(r) \/ Discard(r) PROVE IInv'
    BY <1>3, WorkStep, DiscardStep
  <1>4. CASE Crash
    BY <1>4, CrashStep
  <1>5. CASE UNCHANGED vars
    BY <1>5, StutterStep
  <1> QED
    BY <1>1, <1>2, <1>3, <1>4, <1>5 DEF Next

LEMMA Invariance == Spec => []IInv
  BY InitIInv, StepIInv, PTL DEF Spec

LEMMA SendableTyped ==
    ASSUME NEW kind \in Kinds
    PROVE  Sendable(kind) \subseteq Typed(kind)
  BY DEF Sendable, Typed, Kinds

(* The variables of client and server have their types.                     *)
THEOREM TypeCorrect == Spec => []TypeOK
  <1>1. IInv => TypeOK
    <2> SUFFICES ASSUME IInv PROVE TypeOK
      OBVIOUS
    <2>1. \A r \in Rpc : ask[r] # None => ask[r].login \in Users /\ ask[r].meta \in Metas
      BY DEF IInv, CallOK
    <2>2. \A r \in Rpc : answer[r] # None => ask[r] # None
      BY DEF IInv, CallOK
    <2>3. ASSUME NEW k \in Users \X Metas PROVE may[k] \subseteq Typed(k[2][1]) \cup {None}
      <3>1. PICK u \in Users, m \in Metas : k = <<u, m>>
        OBVIOUS
      <3>2. may[<<u, m>>] \subseteq Sendable(m[1]) \cup {None}
        BY DEF IInv, KeyOK
      <3>3. Sendable(m[1]) \subseteq Typed(m[1])
        BY KeysAre, SendableTyped
      <3> QED
        BY <3>1, <3>2, <3>3
    <2>4. \A r \in Rpc : intent[r] = None \/ intent[r] \in Records
      BY DEF IInv, Shapes
    <2> QED
      BY <2>1, <2>2, <2>3, <2>4 DEF IInv, Shapes, TypeOK
  <1> QED
    BY <1>1, Invariance, PTL

(* What the server keeps for a user is always what SavePass, EditPass,      *)
(* SaveCard, EditCard and their deletes have told the user to expect.       *)
THEOREM UsersKnow == Spec => []StoreAsTold
  <1>1. IInv => StoreAsTold
    BY DEF IInv, KeyOK, Told, StoreAsTold
  <1> QED
    BY <1>1, Invariance, PTL

(* Clients without a login, whose token AuthInterceptor refuses, store      *)
(* nothing.                                                                 *)
THEOREM NobodyStores == Spec => []NothingForNobody
  <1>1. IInv => NothingForNobody
    BY DEF IInv
  <1> QED
    BY <1>1, Invariance, PTL

(* GetPass and GetCard show a user only records that may be there.          *)
THEOREM ReadsAreTrue == Spec => ReadsWhatWasSaved
  <1> DEFINE True(u) == stage[u] = "waiting" /\ stage'[u] = "ready" /\ read'[u] # None =>
                            \E v \in may[<<u, ask[mine[u]].meta>>] : Matches(read'[u], v)
  <1>1. ASSUME IInv, [Next]_vars, NEW u \in Users PROVE True(u)
    <2> SUFFICES ASSUME stage[u] = "waiting", stage'[u] = "ready", read'[u] # None
                 PROVE  \E v \in may[<<u, ask[mine[u]].meta>>] : Matches(read'[u], v)
      OBVIOUS
    <2>1. read[u] = None
      BY <1>1 DEF IInv, UserOK, WaitOK
    <2>2. CASE Receive(u)
      <3>1. PICK r, m : r = mine[u] /\ m = ask[r].meta
        OBVIOUS
      <3>2. \E v \in may[<<u, m>>] : Matches(read'[u], v)
        BY <1>1, <2>2, <3>1, ReceiveEffect
      <3> QED
        BY <3>1, <3>2
    <2>3. ASSUME NEW w \in Users \ {u},
                 Authenticate(w) \/ Expire(w) \/ Leave(w) \/ Receive(w)
          PROVE  stage'[u] = stage[u]
      BY <1>1, <2>3 DEF IInv, Shapes, Authenticate, Expire, Leave, Receive
    <2>4. CASE Authenticate(u) \/ Expire(u) \/ Leave(u)
      BY <1>1, <2>4 DEF IInv, Shapes, Authenticate, Expire, Leave
    <2>5. ASSUME NEW w \in Users, NEW m, NEW q, NEW v, Send(w, m, q, v)
          PROVE  stage'[u] = stage[u] \/ stage'[u] = "waiting"
      BY <1>1, <2>5 DEF IInv, Shapes, Send
    <2>6. ASSUME NEW w \in Users, NEW p \in Places, Command(w, p)
          PROVE  stage'[u] = stage[u] \/ stage'[u] = "waiting"
      BY <2>5, <2>6 DEF Command, SavePass, EditPass, GetPass, DeletePass,
                        SaveCard, EditCard, GetCard, DeleteCard
    <2>7. ASSUME NEW r \in Rpc, Work(r) \/ Discard(r) PROVE stage'[u] = stage[u]
      BY <2>7 DEF Work, Discard, process
    <2>8. CASE Crash \/ UNCHANGED vars
      BY <2>1, <2>8 DEF Crash, vars, knowledge
    <2> QED
      BY <1>1, <2>2, <2>3, <2>4, <2>6, <2>7, <2>8 DEF Next
  <1>2. IInv /\ [Next]_vars => [\A u \in Users : True(u)]_vars
    BY <1>1
  <1> QED
    BY <1>2, Invariance, PTL DEF Spec, ReadsWhatWasSaved

(* Every card in the table has a number whose last digit is the check digit *)
(* of ISO/IEC 7812: of what reaches the server, by SaveCard and EditCard,   *)
(* with whatever errors, crashes and late calls, all passed Luhn's check.   *)
THEOREM CardsInTableAreValid == Spec => []StoredCardsValid
  <1>1. IInv => StoredCardsValid
    <2> SUFFICES ASSUME IInv, NEW u \in Users, NEW p \in Places,
                        vault[<<u, <<"card", p>>>>] # None
                 PROVE  IsCardNumber(DecryptCard(vault[<<u, <<"card", p>>>>]).fields[1])
      BY DEF StoredCardsValid
    <2> DEFINE m == <<"card", p>>
               x == vault[<<u, m>>]
    <2>1. m \in Metas /\ m[1] = "card"
      BY DEF Metas, Kinds
    <2> HIDE DEF m
    <2>2. Told(m, x, may[<<u, m>>]) /\ may[<<u, m>>] \subseteq Sendable("card") \cup {None}
      BY <2>1 DEF IInv, KeyOK
    <2>3. x # None
      BY DEF m
    <2>4. PICK v \in Sendable("card") : x = Seal("card", v)
      BY <2>1, <2>2, <2>3 DEF Told
    <2>5. v \in String \X String \X String /\ CardAccepted(v[1])
      BY <2>4, ClientAssumption DEF Sendable
    <2>6. v[1] \in String /\ v[2] \in String /\ v[3] \in String
      BY <2>5
    <2>7. DecryptCard(CryptoCard(v[1], v[2], v[3])).fields[1] = v[1]
      BY <2>5, <2>6, CardComesBack
    <2>8. DecryptCard(x).fields[1] = v[1]
      BY <2>4, <2>7 DEF Seal
    <2>9. IsCardNumber(v[1])
      BY <2>5, <2>6, AcceptedAreCardNumbers DEF CardAccepted, String
    <2> QED
      BY <2>8, <2>9 DEF m
  <1> QED
    BY <1>1, Invariance, PTL
=============================================================================
