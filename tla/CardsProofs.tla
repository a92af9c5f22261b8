----------------------------- MODULE CardsProofs -----------------------------
(* Proofs about Cards for every number of handlers, users, metadata and     *)
(* ciphertexts, every table and every fault, clients not being synchronous. *)
EXTENDS Cards, TLAPS

(* The inductive invariant: duplicates are kept out by single statements,   *)
(* so nothing needs to be said of the calls in progress.                    *)
IInv == TypeOK /\ NoDuplicates

(* What a member of Requests carries, by operation.                         *)
LEMMA RequestFields ==
    ASSUME NEW q \in Requests
    PROVE  /\ q # None
           /\ q.op \in {"save", "edit", "get", "delete", "purge"}
           /\ q.login \in Logins
           /\ q.op # "purge" => q.meta \in Metas
           /\ q.op \in {"save", "edit"} => q.value \in Ciphers
BY NoneAssumption DEF Requests

LEMMA RunningFacts ==
    ASSUME TypeOK, NEW r \in Rpc, NEW op, Running(r, op)
    PROVE  call[r] \in Requests /\ call[r].op = op /\ call[r].login \in Logins
           /\ call[r] # None /\ reply[r] = None
BY RequestFields DEF Running, TypeOK

(* An answer keeps the types of calls and replies.                          *)
LEMMA AnswerTypes ==
    ASSUME TypeOK, NEW r \in Rpc, NEW ok \in BOOLEAN,
           NEW data \in Ciphers \cup {None}, Answer(r, ok, data)
    PROVE  call' \in [Rpc -> Requests \cup {None}] /\ reply' \in [Rpc -> Replies \cup {None}]
<1>1. [ok |-> ok, data |-> data] \in Replies
  BY DEF Replies
<1> QED  BY <1>1 DEF Answer, TypeOK

(* NoDuplicates, as a fact about rows.                                      *)
Separate(rows) ==
    \A c, d \in rows : c.c_login = d.c_login /\ c.c_metadata = d.c_metadata => c = d

(* A failed statement, and one whose rows have the invariant.               *)
LEMMA FailIInv ==
    ASSUME IInv, NEW r \in Rpc, Fail(r)
    PROVE  IInv'
<1>1. Answer(r, FALSE, None) /\ cards' = cards /\ TypeOK
  BY DEF Fail, IInv
<1>2. TypeOK'
  BY <1>1, AnswerTypes DEF TypeOK
<1>3. NoDuplicates'
  BY <1>1 DEF IInv, NoDuplicates, RowsAt
<1> QED  BY <1>2, <1>3 DEF IInv

LEMMA ChangeIInv ==
    ASSUME IInv, NEW r \in Rpc, NEW rows \in SUBSET Row, Change(r, rows),
           Separate(rows)
    PROVE  IInv'
<1>1. PICK ok \in BOOLEAN : Answer(r, ok, None)
  BY DEF Change
<1>2. TypeOK'
  BY <1>1, AnswerTypes DEF Change, IInv, TypeOK
<1>3. NoDuplicates'
  BY DEF Change, Separate, NoDuplicates, RowsAt
<1> QED  BY <1>2, <1>3 DEF IInv

LEMMA NewRowType ==
    ASSUME NEW q \in Requests, q.op \in {"save", "edit"}
    PROVE  /\ NewRow(q) \in Row
           /\ NewRow(q).c_login = q.login /\ NewRow(q).c_metadata = q.meta
BY RequestFields DEF NewRow, Row

LEMMA OneRow == IInv => Separate(cards)
<1> SUFFICES ASSUME IInv, NEW c \in cards, NEW d \in cards,
                    c.c_login = d.c_login, c.c_metadata = d.c_metadata
             PROVE  c = d
  BY DEF Separate
<1>1. c.c_login \in Logins /\ c.c_metadata \in Metas
  BY DEF IInv, TypeOK, Row
<1> QED  BY <1>1 DEF IInv, NoDuplicates, RowsAt

(* A row under a key that no other row has keeps rows separate.             *)
LEMMA AddSeparate ==
    ASSUME NEW rows, Separate(rows), NEW new,
           \A c \in rows : ~(c.c_login = new.c_login /\ c.c_metadata = new.c_metadata)
    PROVE  Separate(rows \cup {new})
BY DEF Separate

-----------------------------------------------------------------------------
(* One lemma per action.                                                    *)

LEMMA InitIInv == Init => IInv
BY DEF Init, IInv, TypeOK, NoDuplicates, RowsAt

LEMMA CallIInv ==
    ASSUME IInv, NEW r \in Rpc, NEW q \in Requests, Call(r, q)
    PROVE  IInv'
BY DEF Call, IInv, TypeOK, NoDuplicates, RowsAt

LEMMA ReturnIInv ==
    ASSUME IInv, NEW r \in Rpc, Return(r)
    PROVE  IInv'
BY DEF Return, IInv, TypeOK, NoDuplicates, RowsAt

LEMMA InsertIInv ==
    ASSUME IInv, NEW r \in Rpc, Insert(r)
    PROVE  IInv'
<1> USE DEF Insert
<1>1. call[r] \in Requests /\ call[r].op = "save"
  BY RunningFacts DEF IInv
<1>2. CASE Hit(r) = {} /\ Change(r, cards \cup {NewRow(call[r])})
  <2> DEFINE rows == cards \cup {NewRow(call[r])}
  <2>1. rows \in SUBSET Row
    BY <1>1, NewRowType DEF IInv, TypeOK
  <2>2. \A c \in cards : ~(/\ c.c_login = NewRow(call[r]).c_login
                           /\ c.c_metadata = NewRow(call[r]).c_metadata)
    BY <1>1, <1>2, NewRowType DEF Hit, RowsAt
  <2>3. Separate(rows)
    BY <2>2, OneRow, AddSeparate
  <2> QED  BY <1>2, <2>1, <2>3, ChangeIInv
<1>3. CASE Fail(r)
  BY <1>3, FailIInv
<1> QED  BY <1>2, <1>3

LEMMA SelectIInv ==
    ASSUME IInv, NEW r \in Rpc, Select(r)
    PROVE  IInv'
<1> USE DEF Select
<1>1. ASSUME NEW c \in Hit(r), Answer(r, TRUE, c.c_cipherdata), UNCHANGED cards
      PROVE  IInv'
  <2>1. c.c_cipherdata \in Ciphers \cup {None}
    BY DEF Hit, RowsAt, IInv, TypeOK, Row
  <2>2. TypeOK'
    BY <1>1, <2>1, AnswerTypes DEF IInv, TypeOK
  <2>3. NoDuplicates'
    BY <1>1 DEF IInv, NoDuplicates, RowsAt
  <2> QED  BY <2>2, <2>3 DEF IInv
<1>2. CASE Fail(r)
  BY <1>2, FailIInv
<1> QED  BY <1>1, <1>2

LEMMA UpdateIInv ==
    ASSUME IInv, NEW r \in Rpc, Update(r)
    PROVE  IInv'
<1> USE DEF Update
<1>1. call[r] \in Requests /\ call[r].op = "edit"
  BY RunningFacts DEF IInv
<1>2. CASE Change(r, (cards \ Hit(r)) \cup {NewRow(call[r])})
  <2> DEFINE rows == (cards \ Hit(r)) \cup {NewRow(call[r])}
  <2>1. rows \in SUBSET Row
    BY <1>1, NewRowType DEF IInv, TypeOK
  <2>2. \A c \in cards \ Hit(r) : ~(/\ c.c_login = NewRow(call[r]).c_login
                                    /\ c.c_metadata = NewRow(call[r]).c_metadata)
    BY <1>1, NewRowType DEF Hit, RowsAt
  <2>3. Separate(cards \ Hit(r))
    BY OneRow DEF Separate
  <2>4. Separate(rows)
    BY <2>2, <2>3, AddSeparate
  <2> QED  BY <1>2, <2>1, <2>4, ChangeIInv
<1>3. CASE Fail(r)
  BY <1>3, FailIInv
<1> QED  BY <1>2, <1>3

(* Statements that only take rows away.                                     *)
LEMMA ShrinkIInv ==
    ASSUME IInv, NEW r \in Rpc, NEW rows \in SUBSET cards, Change(r, rows)
    PROVE  IInv'
<1>1. rows \in SUBSET Row
  BY DEF IInv, TypeOK
<1>2. Separate(rows)
  BY OneRow DEF Separate
<1> QED  BY <1>1, <1>2, ChangeIInv

LEMMA DeleteIInv ==
    ASSUME IInv, NEW r \in Rpc, Delete(r)
    PROVE  IInv'
<1> USE DEF Delete
<1>1. CASE Change(r, cards \ Hit(r))
  <2>1. cards \ Hit(r) \in SUBSET cards
    OBVIOUS
  <2> QED  BY <1>1, <2>1, ShrinkIInv
<1>2. CASE Fail(r)
  BY <1>2, FailIInv
<1> QED  BY <1>1, <1>2

LEMMA DeleteAllIInv ==
    ASSUME IInv, NEW r \in Rpc, DeleteAll(r)
    PROVE  IInv'
<1> USE DEF DeleteAll
<1>1. CASE Change(r, {c \in cards : c.c_login # call[r].login})
  <2>1. {c \in cards : c.c_login # call[r].login} \in SUBSET cards
    OBVIOUS
  <2> QED  BY <1>1, <2>1, ShrinkIInv
<1>2. CASE Fail(r)
  BY <1>2, FailIInv
<1> QED  BY <1>1, <1>2

LEMMA CrashIInv == IInv /\ Crash => IInv'
BY DEF Crash, IInv, TypeOK, NoDuplicates, RowsAt

LEMMA NextIInv == IInv /\ [Next]_vars => IInv'
<1> SUFFICES ASSUME IInv, [Next]_vars  PROVE IInv'
  OBVIOUS
<1>1. CASE UNCHANGED vars
  BY <1>1 DEF vars, IInv, TypeOK, NoDuplicates, RowsAt
<1>2. ASSUME NEW r \in Rpc, NEW q \in Requests, Call(r, q)  PROVE IInv'
  BY <1>2, CallIInv
<1>3. ASSUME NEW r \in Rpc, Step(r)  PROVE IInv'
  BY <1>3, InsertIInv, SelectIInv, UpdateIInv, DeleteIInv, DeleteAllIInv, ReturnIInv DEF Step
<1>4. CASE Crash
  BY <1>4, CrashIInv
<1> QED  BY <1>1, <1>2, <1>3, <1>4 DEF Next

(* The invariant holds in every behaviour of the card service.              *)
THEOREM Invariance == Spec => []IInv
BY InitIInv, NextIInv, PTL DEF Spec

(* Every variable keeps its type, on any table and whatever fails.          *)
THEOREM TypeCorrect == Spec => []TypeOK
<1>1. IInv => TypeOK
  BY DEF IInv
<1> QED  BY Invariance, <1>1, PTL

(* InsertCard, left to ON CONFLICT, needs no discipline of the clients: no  *)
(* login ever has two cards under one metadata, whatever the table is like. *)
THEOREM OneRowPerKey == Spec => []NoDuplicates
<1>1. IInv => NoDuplicates
  BY DEF IInv
<1> QED  BY Invariance, <1>1, PTL

-----------------------------------------------------------------------------
(* Refinement: the cards of a user are a map, changed at one instant.       *)

(* What the table does not allow counts as a fault of the database.         *)
Blames == Faults \cup (IF Expected THEN {} ELSE {"db"})

At(rows, l, m) == {c \in rows : c.c_login = l /\ c.c_metadata = m}

LEMMA ValueOne ==
    ASSUME NEW c
    PROVE  ValueIn({c}) = c.c_cipherdata
BY DEF ValueIn

LEMMA ValueNone == ValueIn({}) = None
BY DEF ValueIn

(* Without duplicates the map shows exactly the row at a key.               *)
LEMMA VaultAt ==
    ASSUME IInv, NEW l \in Logins, NEW m \in Metas
    PROVE  /\ RowsAt(l, m) = {} => Vault[<<l, m>>] = None
           /\ \A c \in RowsAt(l, m) : /\ Vault[<<l, m>>] = c.c_cipherdata
                                      /\ c.c_cipherdata # None
<1>1. Vault[<<l, m>>] = ValueIn(RowsAt(l, m))
  BY DEF Vault
<1>2. ASSUME NEW c \in RowsAt(l, m)
      PROVE  Vault[<<l, m>>] = c.c_cipherdata /\ c.c_cipherdata # None
  <2>1. RowsAt(l, m) = {c}
    BY DEF IInv, NoDuplicates
  <2>2. c.c_cipherdata \in Ciphers
    BY DEF RowsAt, IInv, TypeOK, Row
  <2> QED  BY <1>1, <2>1, <2>2, ValueOne, NoneAssumption
<1> QED  BY <1>1, <1>2, ValueNone

(* Keys whose rows stay keep their value.                                   *)
LEMMA VaultChange ==
    ASSUME NEW l \in Logins, NEW m \in Metas, NEW v,
           ValueIn(At(cards', l, m)) = v,
           \A x \in Logins, y \in Metas : <<x, y>> # <<l, m>> =>
               At(cards', x, y) = At(cards, x, y)
    PROVE  Vault' = [Vault EXCEPT ![<<l, m>>] = v]
<1>1. \A x \in Logins, y \in Metas : /\ Vault[<<x, y>>] = ValueIn(At(cards, x, y))
                                     /\ Vault'[<<x, y>>] = ValueIn(At(cards', x, y))
  BY DEF Vault, RowsAt, At
<1>2. ASSUME NEW k \in Logins \X Metas
      PROVE  Vault'[k] = IF k = <<l, m>> THEN v ELSE Vault[k]
  <2>1. PICK x \in Logins, y \in Metas : k = <<x, y>>
    OBVIOUS
  <2> QED  BY <1>1, <2>1
<1> QED  BY <1>2 DEF Vault

LEMMA SameVault == cards' = cards => Vault' = Vault
BY DEF Vault, RowsAt

LEMMA InitRefines == Init => Abstract!Init
<1> SUFFICES ASSUME Init  PROVE Abstract!Init
  OBVIOUS
<1>1. \A k \in Logins \X Metas : RowsAt(k[1], k[2]) = {}
  BY DEF Init, RowsAt
<1>2. Vault = [k \in Logins \X Metas |-> None]
  BY <1>1, ValueNone DEF Vault
<1> QED  BY <1>2 DEF Init, Abstract!Init, Abstract!Keys

LEMMA CallRefines ==
    ASSUME NEW r \in Rpc, NEW q \in Requests, Call(r, q)
    PROVE  Abstract!Begin(r)
<1>1. q \in Abstract!Asks
  BY DEF Requests, Abstract!Asks
<1> QED  BY <1>1, SameVault DEF Call, Abstract!Begin

LEMMA ReturnRefines ==
    ASSUME NEW r \in Rpc, Return(r)
    PROVE  Abstract!End(r)
BY SameVault DEF Return, Abstract!End

LEMMA CrashRefines == Crash => Abstract!Restart
BY SameVault DEF Crash, Fault, Abstract!Restart

(* A call that fails without effect, for a fault or because it had to.      *)
LEMMA FailRefines ==
    ASSUME NEW r \in Rpc, NEW op, Running(r, op), Fail(r),
           "db" \in Blames \/ ~Abstract!Permitted(call[r])
    PROVE  Abstract!Fail(r)
BY SameVault DEF Running, Fail, Answer, Blames, Abstract!Fail, Abstract!InProgress,
                 Abstract!Error

(* A call that takes effect, with or without its answer getting through.    *)
LEMMA PerformRefines ==
    ASSUME NEW r \in Rpc, NEW op, Running(r, op),
           Abstract!Permitted(call[r]),
           Vault' = Abstract!After(call[r]),
           NEW data, Abstract!Result(call[r]) = [ok |-> TRUE, data |-> data],
           Answer(r, TRUE, data) \/ (Fault("ack") /\ Answer(r, FALSE, None))
    PROVE  Abstract!Perform(r)
<1>1. Fault("ack") => "ack" \in Blames
  BY DEF Fault, Blames
<1> QED  BY <1>1 DEF Running, Answer, Blames, Abstract!Perform, Abstract!InProgress,
                     Abstract!Error

(* When a call on a key is permitted, and what it reads.                    *)
LEMMA KeyFacts ==
    ASSUME IInv, NEW r \in Rpc, NEW op \in {"save", "get", "edit", "delete"}, Running(r, op)
    PROVE  /\ call[r].op = op
           /\ call[r].login \in Logins /\ call[r].meta \in Metas
           /\ Abstract!Key(call[r]) = <<call[r].login, call[r].meta>>
           /\ Abstract!Permitted(call[r]) <=>
                IF op = "save" THEN Hit(r) = {} ELSE Hit(r) # {}
           /\ \A c \in Hit(r) : Vault[Abstract!Key(call[r])] = c.c_cipherdata
<1>1. call[r].op = op /\ call[r].login \in Logins /\ call[r].meta \in Metas
  BY RunningFacts, RequestFields DEF IInv
<1>2. /\ Hit(r) = {} => Vault[<<call[r].login, call[r].meta>>] = None
      /\ \A c \in Hit(r) : /\ Vault[<<call[r].login, call[r].meta>>] = c.c_cipherdata
                           /\ c.c_cipherdata # None
  BY <1>1, VaultAt DEF Hit
<1> QED  BY <1>1, <1>2 DEF Abstract!Key, Abstract!Permitted

(* On the table that the statements expect they all parse, and its key is   *)
(* the one that they keep anyway.                                           *)
LEMMA ExpectedParses ==
    ASSUME "db" \notin Blames, NEW r \in Rpc, NEW op, Running(r, op),
           op \in {"save", "get", "edit", "delete", "purge"}
    PROVE  Parses(call[r])
BY DEF Blames, Expected, Parses, Names, Record, Running

LEMMA ExpectedLegal ==
    ASSUME "db" \notin Blames, NEW rows, Separate(rows)
    PROVE  Legal(rows)
BY DEF Blames, Expected, Legal, Agree, Record, Separate

(* The statements that set the cipher text of one key.                      *)
LEMMA SetRefines ==
    ASSUME IInv, NEW r \in Rpc, NEW op \in {"save", "edit"}, Running(r, op),
           Change(r, (cards \ Hit(r)) \cup {NewRow(call[r])}),
           Abstract!Permitted(call[r])
    PROVE  Abstract!Perform(r)
<1> DEFINE l == call[r].login
           m == call[r].meta
<1>1. /\ call[r].op = op /\ l \in Logins /\ m \in Metas
      /\ Abstract!Key(call[r]) = <<l, m>>
  BY KeyFacts
<1>2. /\ cards' = (cards \ Hit(r)) \cup {NewRow(call[r])}
      /\ Answer(r, TRUE, None) \/ (Fault("ack") /\ Answer(r, FALSE, None))
  BY DEF Change
<1>3. At(cards', l, m) = {NewRow(call[r])}
  BY <1>2 DEF At, Hit, RowsAt, NewRow
<1>4. ValueIn(At(cards', l, m)) = call[r].value
  <2>1. ValueIn({NewRow(call[r])}) = NewRow(call[r]).c_cipherdata
    BY ValueOne
  <2> QED  BY <1>3, <2>1 DEF NewRow
<1>5. \A x \in Logins, y \in Metas : <<x, y>> # <<l, m>> =>
          At(cards', x, y) = At(cards, x, y)
  BY <1>2 DEF At, NewRow, Hit, RowsAt
<1>6. Vault' = [Vault EXCEPT ![<<l, m>>] = call[r].value]
  BY <1>1, <1>4, <1>5, VaultChange
<1>7. Vault' = Abstract!After(call[r])
  BY <1>1, <1>6 DEF Abstract!After
<1>8. Abstract!Result(call[r]) = [ok |-> TRUE, data |-> None]
  BY <1>1 DEF Abstract!Result, Abstract!Ok
<1> QED  BY <1>2, <1>7, <1>8, PerformRefines

LEMMA InsertRefines ==
    ASSUME IInv, NEW r \in Rpc, Insert(r)
    PROVE  Abstract!Fail(r) \/ Abstract!Perform(r)
<1> DEFINE new == cards \cup {NewRow(call[r])}
           fits == Parses(call[r]) /\ Hit(r) = {} /\ Legal(new)
<1>1. Running(r, "save") /\ call[r] \in Requests /\ call[r].op = "save"
  BY RunningFacts DEF Insert, IInv
<1>2. Abstract!Permitted(call[r]) <=> Hit(r) = {}
  BY <1>1, KeyFacts
<1>3. CASE fits /\ Change(r, new)
  <2>1. new = (cards \ Hit(r)) \cup {NewRow(call[r])}
    BY <1>3
  <2> QED  BY <1>1, <1>2, <1>3, <2>1, SetRefines
<1>4. CASE (~fits \/ Fault("db")) /\ Fail(r)
  <2>1. ASSUME "db" \notin Blames, Hit(r) = {}  PROVE fits
    <3>1. \A c \in cards : ~(/\ c.c_login = NewRow(call[r]).c_login
                             /\ c.c_metadata = NewRow(call[r]).c_metadata)
      BY <1>1, <2>1, NewRowType DEF Hit, RowsAt
    <3>2. Separate(new)
      BY <3>1, OneRow, AddSeparate
    <3> QED  BY <1>1, <2>1, <3>2, ExpectedParses, ExpectedLegal
  <2>2. Fault("db") => "db" \in Blames
    BY DEF Fault, Blames
  <2>3. "db" \in Blames \/ ~Abstract!Permitted(call[r])
    BY <1>2, <1>4, <2>1, <2>2
  <2> QED  BY <1>1, <1>4, <2>3, FailRefines
<1> QED  BY <1>3, <1>4 DEF Insert

LEMMA UpdateRefines ==
    ASSUME IInv, NEW r \in Rpc, Update(r)
    PROVE  Abstract!Fail(r) \/ Abstract!Perform(r)
<1> DEFINE new == (cards \ Hit(r)) \cup {NewRow(call[r])}
           fits == /\ Parses(call[r])
                   /\ Hit(r) # {}
                   /\ \A c, d \in Hit(r) : c = d
                   /\ Legal(new)
<1>1. Running(r, "edit") /\ call[r] \in Requests /\ call[r].op = "edit"
  BY RunningFacts DEF Update, IInv
<1>2. Abstract!Permitted(call[r]) <=> Hit(r) # {}
  BY <1>1, KeyFacts
<1>3. CASE fits /\ Change(r, new)
  BY <1>1, <1>2, <1>3, SetRefines
<1>4. CASE (~fits \/ Fault("db")) /\ Fail(r)
  <2>1. ASSUME "db" \notin Blames, Hit(r) # {}  PROVE fits
    <3>1. \A c \in cards \ Hit(r) : ~(/\ c.c_login = NewRow(call[r]).c_login
                                      /\ c.c_metadata = NewRow(call[r]).c_metadata)
      BY <1>1, NewRowType DEF Hit, RowsAt
    <3>2. Separate(cards \ Hit(r))
      BY OneRow DEF Separate
    <3>3. Separate(new)
      BY <3>1, <3>2, AddSeparate
    <3>4. \A c, d \in Hit(r) : c = d
      BY <1>1, KeyFacts DEF IInv, NoDuplicates, Hit
    <3> QED  BY <1>1, <2>1, <3>3, <3>4, ExpectedParses, ExpectedLegal
  <2>2. Fault("db") => "db" \in Blames
    BY DEF Fault, Blames
  <2>3. "db" \in Blames \/ ~Abstract!Permitted(call[r])
    BY <1>2, <1>4, <2>1, <2>2
  <2> QED  BY <1>1, <1>4, <2>3, FailRefines
<1> QED  BY <1>3, <1>4 DEF Update

LEMMA SelectRefines ==
    ASSUME IInv, NEW r \in Rpc, Select(r)
    PROVE  Abstract!Fail(r) \/ Abstract!Perform(r)
<1>1. Running(r, "get") /\ call[r].op = "get"
  BY RunningFacts DEF Select, IInv
<1>2. Abstract!Permitted(call[r]) <=> Hit(r) # {}
  BY <1>1, KeyFacts
<1>3. ASSUME NEW c \in Hit(r), Answer(r, TRUE, c.c_cipherdata), UNCHANGED cards
      PROVE  Abstract!Perform(r)
  <2>1. Abstract!Permitted(call[r]) /\ Vault[Abstract!Key(call[r])] = c.c_cipherdata
    BY <1>1, <1>2, KeyFacts
  <2>2. Vault' = Abstract!After(call[r])
    BY <1>1, <1>3, SameVault DEF Abstract!After
  <2>3. Abstract!Result(call[r]) = [ok |-> TRUE, data |-> c.c_cipherdata]
    BY <1>1, <2>1 DEF Abstract!Result, Abstract!Ok
  <2> QED  BY <1>1, <1>3, <2>1, <2>2, <2>3, PerformRefines
<1>4. CASE (~Parses(call[r]) \/ Hit(r) = {} \/ Fault("db")) /\ Fail(r)
  <2>1. "db" \in Blames \/ ~Abstract!Permitted(call[r])
    BY <1>1, <1>2, <1>4, ExpectedParses DEF Fault, Blames
  <2> QED  BY <1>1, <1>4, <2>1, FailRefines
<1> QED  BY <1>3, <1>4 DEF Select

LEMMA DeleteRefines ==
    ASSUME IInv, NEW r \in Rpc, Delete(r)
    PROVE  Abstract!Fail(r) \/ Abstract!Perform(r)
<1> DEFINE l == call[r].login
           m == call[r].meta
<1>1. Running(r, "delete") /\ call[r].op = "delete"
  BY RunningFacts DEF Delete, IInv
<1>2. /\ Abstract!Permitted(call[r]) <=> Hit(r) # {}
      /\ l \in Logins /\ m \in Metas /\ Abstract!Key(call[r]) = <<l, m>>
  BY <1>1, KeyFacts
<1>3. CASE Parses(call[r]) /\ Hit(r) # {} /\ Change(r, cards \ Hit(r))
  <2>1. /\ cards' = cards \ Hit(r)
        /\ Answer(r, TRUE, None) \/ (Fault("ack") /\ Answer(r, FALSE, None))
    BY <1>3 DEF Change
  <2>2. At(cards', l, m) = {}
    BY <2>1 DEF At, Hit, RowsAt
  <2>3. ValueIn(At(cards', l, m)) = None
    BY <2>2, ValueNone
  <2>4. \A x \in Logins, y \in Metas : <<x, y>> # <<l, m>> =>
            At(cards', x, y) = At(cards, x, y)
    BY <2>1 DEF At, Hit, RowsAt
  <2>5. Vault' = [Vault EXCEPT ![<<l, m>>] = None]
    BY <1>2, <2>3, <2>4, VaultChange
  <2>6. Vault' = Abstract!After(call[r])
    BY <1>1, <1>2, <2>5 DEF Abstract!After
  <2>7. Abstract!Result(call[r]) = [ok |-> TRUE, data |-> None]
    BY <1>1 DEF Abstract!Result, Abstract!Ok
  <2> QED  BY <1>1, <1>2, <1>3, <2>1, <2>6, <2>7, PerformRefines
<1>4. CASE /\ ~(Parses(call[r]) /\ Hit(r) # {}) \/ Fault("db")
           /\ Fail(r)
  <2>1. "db" \in Blames \/ ~Abstract!Permitted(call[r])
    BY <1>1, <1>2, <1>4, ExpectedParses DEF Fault, Blames
  <2> QED  BY <1>1, <1>4, <2>1, FailRefines
<1> QED  BY <1>3, <1>4 DEF Delete

LEMMA DeleteAllRefines ==
    ASSUME IInv, NEW r \in Rpc, DeleteAll(r)
    PROVE  Abstract!Fail(r) \/ Abstract!Perform(r)
<1> DEFINE kept == {c \in cards : c.c_login # call[r].login}
<1>1. Running(r, "purge") /\ call[r].op = "purge" /\ Abstract!Permitted(call[r])
  BY RunningFacts DEF DeleteAll, IInv, Abstract!Permitted
<1>2. CASE Parses(call[r]) /\ Change(r, kept)
  <2>1. /\ cards' = kept
        /\ Answer(r, TRUE, None) \/ (Fault("ack") /\ Answer(r, FALSE, None))
    BY <1>2 DEF Change
  <2>2. ASSUME NEW k \in Logins \X Metas
        PROVE  Vault'[k] = IF k[1] = call[r].login THEN None ELSE Vault[k]
    <3>1. CASE k[1] = call[r].login
      <4>1. RowsAt(k[1], k[2])' = {}
        BY <2>1, <3>1 DEF RowsAt
      <4> QED  BY <3>1, <4>1, ValueNone DEF Vault
    <3>2. CASE k[1] # call[r].login
      <4>1. RowsAt(k[1], k[2])' = RowsAt(k[1], k[2])
        BY <2>1, <3>2 DEF RowsAt
      <4> QED  BY <3>2, <4>1 DEF Vault
    <3> QED  BY <3>1, <3>2
  <2>3. Vault' = Abstract!After(call[r])
    BY <1>1, <2>2 DEF Vault, Abstract!After, Abstract!Keys
  <2>4. Abstract!Result(call[r]) = [ok |-> TRUE, data |-> None]
    BY <1>1 DEF Abstract!Result, Abstract!Ok
  <2> QED  BY <1>1, <2>1, <2>3, <2>4, PerformRefines
<1>3. CASE (~Parses(call[r]) \/ Fault("db")) /\ Fail(r)
  <2>1. "db" \in Blames
    BY <1>1, <1>3, ExpectedParses DEF Fault, Blames
  <2> QED  BY <1>1, <1>3, <2>1, FailRefines
<1> QED  BY <1>2, <1>3 DEF DeleteAll

LEMMA NextRefines == IInv /\ [Next]_vars => [Abstract!Next]_(Abstract!avars)
<1> SUFFICES ASSUME IInv, [Next]_vars
             PROVE  Abstract!Next \/ UNCHANGED Abstract!avars
  OBVIOUS
<1>1. CASE UNCHANGED vars
  BY <1>1, SameVault DEF vars, Abstract!avars
<1>2. ASSUME NEW r \in Rpc, NEW q \in Requests, Call(r, q)
      PROVE  Abstract!Next
  BY <1>2, CallRefines DEF Abstract!Next
<1>3. ASSUME NEW r \in Rpc, Step(r)
      PROVE  Abstract!Next
  BY <1>3, InsertRefines, SelectRefines, UpdateRefines, DeleteRefines, DeleteAllRefines,
     ReturnRefines DEF Step, Abstract!Next
<1>4. CASE Crash
  BY <1>4, CrashRefines DEF Abstract!Next
<1> QED  BY <1>1, <1>2, <1>3, <1>4 DEF Next

(* For any number of clients the card service is a RecordStore: at most one *)
(* card per user and metadata, and every call takes effect at one instant   *)
(* or not at all; on a table other than the expected one calls may fail.    *)
THEOREM Refinement == Spec => IsRecordStore
BY Invariance, InitRefines, NextRefines, PTL DEF Spec, IsRecordStore, Abstract!Spec
=============================================================================
