--------------------------- MODULE PasswordsProofs ---------------------------
(* Proofs about Passwords for every number of handlers, users, metadata and *)
(* ciphertexts, for clients that call at will and with every fault.         *)
EXTENDS Passwords, TLAPS

(* What a member of Requests carries, by operation.                         *)
LEMMA RequestFields ==
    ASSUME NEW q \in Requests
    PROVE  /\ q # None
           /\ q.op \in {"save", "edit", "get", "delete", "purge"}
           /\ q.login \in Logins
           /\ q.op # "purge" => q.meta \in Metas
           /\ q.op \in {"save", "edit"} => q.value \in Pairs
BY NoneAssumption DEF Requests

(* Which operations are possible at a statement.                            *)
LEMMA StageFacts ==
    ASSUME IInv, NEW r \in Rpc, pc[r] # "idle"
    PROVE  /\ call[r] \in Requests
           /\ pc[r] \in {"exist", "insert"} => call[r].op = "save"
           /\ pc[r] = "update" => call[r].op = "edit"
           /\ pc[r] = "select" => call[r].op = "get"
           /\ pc[r] = "delete" => call[r].op = "delete"
           /\ pc[r] = "deleteAll" => call[r].op = "purge"
           /\ pc[r] = "late" => call[r].op # "get" /\ Fault("late")
           /\ pc[r] # "done" => reply[r] = None
           /\ pc[r] = "done" => reply[r] # None
BY RequestFields DEF IInv, TypeOK, OnStage, Stages

LEMMA IdleFacts ==
    ASSUME IInv, NEW r \in Rpc, pc[r] = "idle"
    PROVE  call[r] = None /\ reply[r] = None
<1>1. ASSUME call[r] \in Requests  PROVE "idle" \notin Stages[call[r].op]
  BY <1>1, RequestFields DEF Stages
<1> QED  BY <1>1 DEF IInv, TypeOK, OnStage

(* A call whose statement is under way.                                     *)
LEMMA RunsFacts ==
    ASSUME IInv, NEW r \in Rpc, NEW op, NEW label \in Changing, Runs(r, op, label)
    PROVE  /\ call[r] \in Requests /\ call[r] # None /\ call[r].op = op
           /\ reply[r] = None /\ pc[r] \notin {"idle", "done", "exist", "select"}
BY StageFacts, RequestFields DEF IInv, TypeOK, OnStage, Runs, Changing

(* The typed, staged part of the invariant, which answers keep.             *)
Labels == {"idle", "done", "exist", "select", "late"} \cup Changing
Control == /\ pc \in [Rpc -> Labels]
           /\ call \in [Rpc -> Requests \cup {None}]
           /\ reply \in [Rpc -> Replies \cup {None}]
           /\ OnStage

(* Handler r has answered, and nothing else has moved but tables.           *)
Answered(r) == /\ call' = call
               /\ pc'[r] = "done"
               /\ \A s \in Rpc \ {r} : pc'[s] = pc[s]

LEMMA AnswerControl ==
    ASSUME IInv, NEW r \in Rpc, pc[r] # "idle", NEW ok \in BOOLEAN,
           NEW data \in Pairs \cup {None}, Answer(r, ok, data)
    PROVE  Control' /\ Answered(r)
<1> USE DEF Answer, Labels
<1>1. call[r] \in Requests /\ call[r] # None /\ "done" \in Stages[call[r].op]
  BY StageFacts, RequestFields DEF Stages
<1>2. [ok |-> ok, data |-> data] \in Replies /\ [ok |-> ok, data |-> data] # None
  BY NoneAssumption DEF Replies
<1>3. /\ pc' \in [Rpc -> Labels]
      /\ Answered(r)
      /\ reply' \in [Rpc -> Replies \cup {None}]
  BY <1>2 DEF IInv, TypeOK, Answered
<1>4. OnStage'
  BY <1>1, <1>2, <1>3 DEF IInv, TypeOK, OnStage, Answered
<1> QED  BY <1>3, <1>4 DEF Control, IInv, TypeOK, Answered

LEMMA EndControl ==
    ASSUME IInv, NEW r \in Rpc, pc[r] # "idle", Succeed(r) \/ Fail(r)
    PROVE  Control' /\ Answered(r)
BY AnswerControl DEF Succeed, Fail

(* What is left of the invariant: the rows and the races.                   *)
Data == /\ passwords \in SUBSET Row /\ raced \in SUBSET (Logins \X Metas)
        /\ InTransit /\ CheckStands /\ OneRowUnlessRaced

LEMMA Join == Control' /\ Data' => IInv'
BY DEF Control, Data, IInv, TypeOK, Labels

(* CheckStands, handler by handler.                                         *)
Stands(r) == /\ Hit(r) = {}
             /\ \A s \in Rpc \ {r} : Inserting(s) => Key(call[s]) # Key(call[r])

LEMMA StandsFacts ==
    CheckStands <=> \A r \in Rpc : Inserting(r) /\ Key(call[r]) \notin raced => Stands(r)
BY DEF CheckStands, Stands, InsertsAt

LEMMA StandsPrime ==
    CheckStands' <=> (\A r \in Rpc : Inserting(r) /\ Key(call[r]) \notin raced => Stands(r))'
BY DEF CheckStands, Stands, InsertsAt

(* An answer that leaves the table, or takes rows from it and ends races    *)
(* where no row and no INSERT is left.                                      *)
LEMMA ShrinkData ==
    ASSUME IInv, NEW r \in Rpc, pc[r] # "idle", Answered(r),
           passwords' \subseteq passwords, raced' \subseteq raced,
           \A k \in raced \ raced' :
               /\ \A p \in passwords' : <<p.login, p.meta>> # k
               /\ \A s \in Rpc : Inserting(s) => Key(call[s]) # k
    PROVE  Data'
<1> USE DEF Answered
<1>1. passwords' \in SUBSET Row /\ raced' \in SUBSET (Logins \X Metas)
  BY DEF IInv, TypeOK
<1>2. InTransit'
  BY DEF IInv, TypeOK, InTransit, Carries
<1>3. CheckStands'
  <2> SUFFICES ASSUME NEW s \in Rpc, Inserting(s)', Key(call'[s]) \notin raced'
               PROVE  Stands(s)'
    BY StandsPrime
  <2>1. s # r /\ Inserting(s) /\ \A t \in Rpc : Inserting(t)' => Inserting(t)
    BY DEF Inserting
  <2>2. Key(call[s]) \notin raced
    BY <2>1
  <2>3. Stands(s)
    BY <2>1, <2>2, StandsFacts DEF IInv
  <2> QED  BY <2>1, <2>3 DEF Stands, Hit, RowsAt
<1>4. OneRowUnlessRaced'
  <2> SUFFICES ASSUME NEW l \in Logins, NEW m \in Metas, <<l, m>> \notin raced',
                      NEW p \in RowsAt(l, m)', NEW q \in RowsAt(l, m)'
               PROVE  p = q
    BY DEF OneRowUnlessRaced
  <2>1. p \in RowsAt(l, m) /\ q \in RowsAt(l, m) /\ p \in passwords'
    BY DEF RowsAt
  <2>2. <<l, m>> \notin raced
    BY <2>1 DEF RowsAt
  <2> QED  BY <2>1, <2>2 DEF IInv, OneRowUnlessRaced
<1> QED  BY <1>1, <1>2, <1>3, <1>4 DEF Data

(* Steps in which no INSERT starts or ends and no row appears or goes.      *)
LEMMA QuietData ==
    ASSUME IInv, UNCHANGED <<passwords, raced>>,
           \A s \in Rpc : Inserting(s)' => Inserting(s) /\ call'[s] = call[s]
    PROVE  CheckStands' /\ OneRowUnlessRaced'
<1>1. CheckStands'
  <2> SUFFICES ASSUME NEW s \in Rpc, Inserting(s)', Key(call'[s]) \notin raced'
               PROVE  Stands(s)'
    BY StandsPrime
  <2>1. Stands(s)
    BY StandsFacts DEF IInv
  <2> QED  BY <2>1 DEF Stands, Hit, RowsAt
<1>2. OneRowUnlessRaced'
  BY DEF IInv, OneRowUnlessRaced, RowsAt
<1> QED  BY <1>1, <1>2

-----------------------------------------------------------------------------
(* One lemma per action.                                                    *)

LEMMA InitIInv == Init => IInv
BY DEF Init, IInv, TypeOK, OnStage, InTransit, Carries, CheckStands, Inserting,
       OneRowUnlessRaced, RowsAt

LEMMA CallIInv ==
    ASSUME IInv, NEW r \in Rpc, NEW q \in Requests, Call(r, q)
    PROVE  IInv'
<1> USE DEF Call
<1>1. q # None /\ call[r] = None /\ reply[r] = None
  BY RequestFields, IdleFacts
<1>2. /\ FirstLabel[q.op] \in Stages[q.op] \ {"idle", "done", "insert", "late"}
      /\ FirstLabel[q.op] \in {"exist", "select", "update", "delete", "deleteAll"}
  BY RequestFields DEF FirstLabel, Stages
<1>3. TypeOK'
  BY <1>2 DEF IInv, TypeOK, Changing
<1>4. OnStage'
  BY <1>1, <1>2 DEF IInv, TypeOK, OnStage
<1>5. /\ \A s \in Rpc \ {r} : pc'[s] = pc[s] /\ call'[s] = call[s]
      /\ call'[r] = q /\ pc'[r] = FirstLabel[q.op]
  BY DEF IInv, TypeOK
<1>6. InTransit'
  <2>1. ASSUME q.op \in {"save", "edit"}
        PROVE  /\ \A p \in passwords : p.pair # q.value
               /\ \A s \in Rpc \ {r} : Carries(s) => call[s].value # q.value
    BY <2>1 DEF Fresh, Carries
  <2> QED  BY <1>5, <2>1 DEF IInv, InTransit, Carries
<1>7. CheckStands' /\ OneRowUnlessRaced'
  BY <1>2, <1>5, QuietData DEF Inserting
<1> QED  BY <1>3, <1>4, <1>6, <1>7 DEF IInv

LEMMA ReturnIInv ==
    ASSUME IInv, NEW r \in Rpc, Return(r)
    PROVE  IInv'
<1> USE DEF Return
<1>1. TypeOK' /\ OnStage'
  BY DEF IInv, TypeOK, OnStage
<1>2. InTransit'
  BY DEF IInv, TypeOK, InTransit, Carries
<1>3. CheckStands' /\ OneRowUnlessRaced'
  BY QuietData DEF Inserting, IInv, TypeOK
<1> QED  BY <1>1, <1>2, <1>3 DEF IInv

(* A statement that outlives its call is still the statement of that call.  *)
LEMMA TimeOutIInv ==
    ASSUME IInv, NEW r \in Rpc, TimeOut(r)
    PROVE  IInv'
<1> USE DEF TimeOut
<1>1. TypeOK'
  BY DEF IInv, TypeOK
<1>2. /\ call[r] \in Requests /\ call[r] # None /\ reply[r] = None
      /\ "late" \in Stages[call[r].op]
  BY StageFacts, RequestFields DEF Changing, Stages
<1>3. OnStage'
  BY <1>2 DEF IInv, TypeOK, OnStage
<1>4. InTransit'
  BY DEF IInv, TypeOK, InTransit, Carries, Changing
<1>5. CheckStands' /\ OneRowUnlessRaced'
  <2>1. pc[r] = "insert" <=> call[r].op = "save"
    BY StageFacts DEF Changing
  <2> QED  BY <2>1, QuietData DEF Inserting, IInv, TypeOK
<1> QED  BY <1>1, <1>3, <1>4, <1>5 DEF IInv

LEMMA CrashIInv == IInv /\ Crash => IInv'
<1> SUFFICES ASSUME IInv, Crash  PROVE IInv'
  OBVIOUS
<1>1. PICK left \in SUBSET {r \in Rpc : Fault("late") /\ pc[r] \in Changing \cup {"late"}} :
        /\ pc' = [r \in Rpc |-> IF r \in left THEN "late" ELSE "idle"]
        /\ call' = [r \in Rpc |-> IF r \in left THEN call[r] ELSE None]
  BY DEF Crash
<1>2. reply' = [r \in Rpc |-> None] /\ UNCHANGED <<passwords, raced>>
  BY DEF Crash
<1>3. ASSUME NEW r \in left
      PROVE  /\ r \in Rpc /\ call[r] \in Requests /\ call[r] # None
             /\ "late" \in Stages[call[r].op]
             /\ pc[r] \notin {"idle", "done", "exist", "select"}
             /\ Inserting(r) <=> call[r].op = "save"
  BY StageFacts, RequestFields DEF Changing, Stages, Inserting
<1>4. TypeOK'
  BY <1>1, <1>2 DEF IInv, TypeOK
<1>5. OnStage'
  BY <1>1, <1>2, <1>3 DEF OnStage
<1>6. InTransit'
  BY <1>1, <1>2, <1>3 DEF IInv, InTransit, Carries
<1>7. CheckStands' /\ OneRowUnlessRaced'
  <2>1. ASSUME NEW s \in Rpc, Inserting(s)'
        PROVE  Inserting(s) /\ call'[s] = call[s]
    BY <1>1, <1>3, <2>1 DEF Inserting
  <2> QED  BY <1>2, <2>1, QuietData
<1> QED  BY <1>4, <1>5, <1>6, <1>7 DEF IInv

(* A failed call: the form of every error path.                             *)
LEMMA FailIInv ==
    ASSUME IInv, NEW r \in Rpc, pc[r] # "idle", Fail(r), UNCHANGED <<passwords, raced>>
    PROVE  IInv'
<1>1. Control' /\ Answered(r)
  BY EndControl
<1>2. Data'
  BY <1>1, ShrinkData
<1> QED  BY <1>1, <1>2, Join

LEMMA ExistIInv ==
    ASSUME IInv, NEW r \in Rpc, Exist(r)
    PROVE  IInv'
<1> USE DEF Exist
<1>1. CASE Fail(r) /\ UNCHANGED raced
  BY <1>1, FailIInv
<1>2. CASE /\ Hit(r) = {} /\ pc' = [pc EXCEPT ![r] = "insert"]
           /\ raced' = raced \cup {k \in {Key(call[r])} : InsertsAt(k) # {}}
           /\ UNCHANGED <<call, reply>>
  <2>1. /\ call[r] \in Requests /\ call[r].op = "save" /\ call[r] # None
        /\ reply[r] = None /\ Key(call[r]) \in Logins \X Metas
    BY StageFacts, RequestFields DEF Key
  <2>2. TypeOK'
    BY <1>2, <2>1 DEF IInv, TypeOK, Changing
  <2>3. OnStage'
    BY <1>2, <2>1 DEF IInv, TypeOK, OnStage, Stages
  <2>4. InTransit'
    BY <1>2 DEF IInv, TypeOK, InTransit, Carries
  <2>5. CheckStands'
    <3> SUFFICES ASSUME NEW s \in Rpc, Inserting(s)', Key(call'[s]) \notin raced'
                 PROVE  Stands(s)'
      BY StandsPrime
    <3>1. /\ \A t \in Rpc \ {r} : Inserting(t)' <=> Inserting(t)
          /\ Inserting(r)' /\ ~Inserting(r)
      BY <1>2 DEF Inserting, IInv, TypeOK
    <3>2. CASE s = r
      <4>1. \A t \in Rpc : Inserting(t) => Key(call[t]) # Key(call[r])
        BY <1>2, <3>2 DEF InsertsAt
      <4> QED  BY <1>2, <3>1, <3>2, <4>1 DEF Stands, Hit, RowsAt
    <3>3. CASE s # r
      <4>1. Stands(s) /\ Inserting(s)
        BY <1>2, <3>1, <3>3, StandsFacts DEF IInv
      <4>2. Key(call[r]) # Key(call[s])
        BY <1>2, <4>1 DEF InsertsAt
      <4> QED  BY <1>2, <3>1, <3>3, <4>1, <4>2 DEF Stands, Hit, RowsAt
    <3> QED  BY <3>2, <3>3
  <2>6. OneRowUnlessRaced'
    BY <1>2 DEF IInv, OneRowUnlessRaced, RowsAt
  <2> QED  BY <2>2, <2>3, <2>4, <2>5, <2>6 DEF IInv
<1> QED  BY <1>1, <1>2

(* The end of a statement without effect.                                   *)
LEMMA NothingIInv ==
    ASSUME IInv, NEW r \in Rpc, pc[r] # "idle", NEW fits, ComesToNothing(r, fits)
    PROVE  IInv'
BY FailIInv DEF ComesToNothing

(* The only step that makes a row under another key: where no saves have    *)
(* raced, its check stands, and no other INSERT is under way.               *)
LEMMA InsertIInv ==
    ASSUME IInv, NEW r \in Rpc, Insert(r)
    PROVE  IInv'
<1> USE DEF Insert
<1> DEFINE row == NewRow(call[r])
<1>1. /\ call[r] \in Requests /\ call[r].op = "save" /\ pc[r] # "idle" /\ pc[r] # "done"
      /\ call[r].login \in Logins /\ call[r].meta \in Metas /\ call[r].value \in Pairs
      /\ Inserting(r)
  BY RunsFacts, RequestFields DEF Changing, Inserting, Runs
<1>2. CASE ComesToNothing(r, KeyFree(row, passwords))
  BY <1>1, <1>2, NothingIInv
<1>3. CASE passwords' = passwords \cup {row} /\ TakesEffect(r) /\ UNCHANGED raced
  <2>1. Control' /\ Answered(r)
    BY <1>1, <1>3, EndControl DEF TakesEffect
  <2>2. /\ row \in Row /\ row.login = call[r].login /\ row.meta = call[r].meta
        /\ row.pair = call[r].value
    BY <1>1 DEF NewRow, Row
  <2> HIDE DEF row
  <2>3. Key(call[r]) \notin raced => Stands(r)
    BY <1>1, StandsFacts DEF IInv
  <2>4. OneRowUnlessRaced'
    BY <1>3, <2>2, <2>3 DEF IInv, OneRowUnlessRaced, Stands, Hit, RowsAt, Key
  <2>5. CheckStands'
    <3> SUFFICES ASSUME NEW s \in Rpc, Inserting(s)', Key(call'[s]) \notin raced'
                 PROVE  Stands(s)'
      BY StandsPrime
    <3>1. s # r /\ Inserting(s) /\ \A t \in Rpc : Inserting(t)' => Inserting(t)
      BY <2>1 DEF Inserting, Answered
    <3>2. Stands(s) /\ Key(call[r]) # Key(call[s])
      BY <1>1, <1>3, <2>1, <3>1, StandsFacts DEF IInv, Stands, Answered
    <3> QED  BY <1>3, <2>1, <2>2, <3>1, <3>2 DEF Stands, Hit, RowsAt, Key, Answered
  <2>6. InTransit'
    BY <1>1, <1>3, <2>1, <2>2 DEF IInv, InTransit, Carries, Answered
  <2>7. Data'
    BY <1>3, <2>2, <2>4, <2>5, <2>6 DEF Data, IInv, TypeOK
  <2> QED  BY <2>1, <2>7, Join
<1> QED  BY <1>2, <1>3

LEMMA SelectIInv ==
    ASSUME IInv, NEW r \in Rpc, Select(r)
    PROVE  IInv'
<1> USE DEF Select
<1>1. CASE Fail(r)
  BY <1>1, FailIInv
<1>2. ASSUME NEW p \in Hit(r), Answer(r, TRUE, p.pair)
      PROVE  IInv'
  <2>1. p.pair \in Pairs
    BY DEF Hit, RowsAt, IInv, TypeOK, Row
  <2>2. Control' /\ Answered(r)
    BY <1>2, <2>1, AnswerControl
  <2>3. Data'
    BY <2>2, ShrinkData
  <2> QED  BY <2>2, <2>3, Join
<1> QED  BY <1>1, <1>2

LEMMA UpdateIInv ==
    ASSUME IInv, NEW r \in Rpc, Update(r)
    PROVE  IInv'
<1> USE DEF Update
<1> DEFINE row == NewRow(call[r])
<1>1. /\ call[r] \in Requests /\ call[r].op = "edit" /\ pc[r] # "idle" /\ pc[r] # "done"
      /\ call[r].login \in Logins /\ call[r].meta \in Metas /\ call[r].value \in Pairs
  BY RunsFacts, RequestFields DEF Changing
<1>2. ASSUME NEW fits, ComesToNothing(r, fits)
      PROVE  IInv'
  BY <1>1, <1>2, NothingIInv
<1>3. CASE /\ passwords' = (passwords \ Hit(r)) \cup {row} /\ Hit(r) # {}
           /\ TakesEffect(r) /\ UNCHANGED raced
  <2>1. Control' /\ Answered(r)
    BY <1>1, <1>3, EndControl DEF TakesEffect
  <2>2. /\ row \in Row /\ row.login = call[r].login /\ row.meta = call[r].meta
        /\ row.pair = call[r].value
    BY <1>1 DEF NewRow, Row
  <2> HIDE DEF row
  <2>3. OneRowUnlessRaced'
    BY <1>3, <2>2 DEF IInv, OneRowUnlessRaced, Hit, RowsAt
  <2>4. CheckStands'
    <3> SUFFICES ASSUME NEW s \in Rpc, Inserting(s)', Key(call'[s]) \notin raced'
                 PROVE  Stands(s)'
      BY StandsPrime
    <3>1. s # r /\ Inserting(s) /\ \A t \in Rpc : Inserting(t)' => Inserting(t)
      BY <2>1 DEF Inserting, Answered
    <3>2. Stands(s) /\ call'[s] = call[s]
      BY <1>3, <2>1, <3>1, StandsFacts DEF IInv, Answered
    <3> QED  BY <1>3, <2>1, <2>2, <3>1, <3>2 DEF Stands, Hit, RowsAt, Answered
  <2>5. InTransit'
    BY <1>1, <1>3, <2>1, <2>2 DEF IInv, InTransit, Carries, Answered
  <2>6. Data'
    BY <1>3, <2>2, <2>3, <2>4, <2>5 DEF Data, IInv, TypeOK
  <2> QED  BY <2>1, <2>6, Join
<1> QED  BY <1>2, <1>3

LEMMA DeleteIInv ==
    ASSUME IInv, NEW r \in Rpc, Delete(r)
    PROVE  IInv'
<1> USE DEF Delete
<1>1. pc[r] # "idle" /\ Key(call[r]) = <<call[r].login, call[r].meta>>
  BY RunsFacts DEF Changing, Key
<1>2. CASE ComesToNothing(r, Hit(r) # {})
  BY <1>1, <1>2, NothingIInv
<1>3. CASE Erase(r, Hit(r), {Key(call[r])})
  <2>1. Control' /\ Answered(r)
    BY <1>1, <1>3, EndControl DEF Erase, TakesEffect
  <2>2. \A k \in raced \ raced' :
            /\ \A p \in passwords' : <<p.login, p.meta>> # k
            /\ \A s \in Rpc : Inserting(s) => Key(call[s]) # k
    BY <1>1, <1>3 DEF Erase, InsertsAt, Hit, RowsAt
  <2>3. Data'
    BY <1>1, <1>3, <2>1, <2>2, ShrinkData DEF Erase
  <2> QED  BY <2>1, <2>3, Join
<1> QED  BY <1>2, <1>3

LEMMA DeleteAllIInv ==
    ASSUME IInv, NEW r \in Rpc, DeleteAll(r)
    PROVE  IInv'
<1> USE DEF DeleteAll
<1> DEFINE l == call[r].login
<1>1. pc[r] # "idle"
  BY RunsFacts DEF Changing
<1>2. CASE ComesToNothing(r, TRUE)
  BY <1>1, <1>2, NothingIInv
<1>3. CASE Erase(r, {p \in passwords : p.login = l}, {l} \X Metas)
  <2>1. Control' /\ Answered(r)
    BY <1>1, <1>3, EndControl DEF Erase, TakesEffect
  <2>2. \A k \in raced \ raced' :
            /\ \A p \in passwords' : <<p.login, p.meta>> # k
            /\ \A s \in Rpc : Inserting(s) => Key(call[s]) # k
    BY <1>3 DEF Erase, InsertsAt
  <2>3. Data'
    BY <1>1, <1>3, <2>1, <2>2, ShrinkData DEF Erase
  <2> QED  BY <2>1, <2>3, Join
<1> QED  BY <1>2, <1>3

-----------------------------------------------------------------------------
LEMMA Inductive == IInv /\ [Next]_vars => IInv'
<1> SUFFICES ASSUME IInv, [Next]_vars  PROVE IInv'
  OBVIOUS
<1>1. CASE UNCHANGED vars
  BY <1>1 DEF vars, IInv, TypeOK, OnStage, InTransit, Carries, CheckStands, Inserting,
              InsertsAt, OneRowUnlessRaced, Hit, RowsAt
<1>2. ASSUME NEW r \in Rpc, NEW q \in Requests, Call(r, q)
      PROVE  IInv'
  BY <1>2, CallIInv
<1>3. ASSUME NEW r \in Rpc, Step(r)
      PROVE  IInv'
  BY <1>3, ExistIInv, InsertIInv, SelectIInv, UpdateIInv, DeleteIInv, DeleteAllIInv,
     TimeOutIInv, ReturnIInv DEF Step
<1>4. CASE Crash
  BY <1>4, CrashIInv
<1> QED  BY <1>1, <1>2, <1>3, <1>4 DEF Next

(* The inductive invariant holds always, for any clients and every fault.   *)
THEOREM Invariance == Spec => []IInv
<1>1. IInv /\ [Next]_vars => IInv'
  BY Inductive
<1> QED  BY <1>1, InitIInv, PTL DEF Spec

(* Every variable keeps its type.                                           *)
THEOREM TypeCorrect == Spec => []TypeOK
<1>1. IInv => TypeOK
  BY DEF IInv
<1> QED  BY <1>1, Invariance, PTL

(* However many clients a user runs, whatever fails in between and however  *)
(* late an INSERT commits: two rows under one key come only from INSERTs    *)
(* that were under way at once, and the next deletion ends it.              *)
THEOREM OneRowPerKey == Spec => []OneRowUnlessRaced
<1>1. IInv => OneRowUnlessRaced
  BY DEF IInv
<1> QED  BY <1>1, Invariance, PTL

-----------------------------------------------------------------------------
(* Refinement of PasswordStore.                                             *)

(* The rows of a table under a key.                                         *)
At(P, l, m) == {p \in P : p.login = l /\ p.meta = m}

(* Keys whose rows stay keep their values.                                  *)
LEMMA KeptChange ==
    ASSUME NEW l \in Logins, NEW m \in Metas, NEW S,
           PairsOf(At(passwords', l, m)) = S,
           \A x \in Logins, y \in Metas : <<x, y>> # <<l, m>> =>
               At(passwords', x, y) = At(passwords, x, y)
    PROVE  Kept' = [Kept EXCEPT ![<<l, m>>] = S]
<1>1. ASSUME NEW k \in Logins \X Metas
      PROVE  Kept'[k] = IF k = <<l, m>> THEN S ELSE Kept[k]
  <2>1. /\ k = <<k[1], k[2]>> /\ k[1] \in Logins /\ k[2] \in Metas
        /\ Kept'[k] = PairsOf(At(passwords', k[1], k[2]))
        /\ Kept[k] = PairsOf(At(passwords, k[1], k[2]))
    BY DEF Kept, RowsAt, At
  <2>2. CASE k = <<l, m>>
    BY <2>1, <2>2
  <2>3. CASE k # <<l, m>>
    <3>1. At(passwords', k[1], k[2]) = At(passwords, k[1], k[2])
      BY <2>1, <2>3
    <3> QED  BY <2>1, <2>3, <3>1
  <2> QED  BY <2>2, <2>3
<1> QED  BY <1>1 DEF Kept

LEMMA SameKept == passwords' = passwords => Kept' = Kept
BY DEF Kept, RowsAt

LEMMA StoreInit == Init => Store!Init
<1> SUFFICES ASSUME Init  PROVE Store!Init
  OBVIOUS
<1>1. Kept = [k \in Logins \X Metas |-> {}]
  BY DEF Init, Kept, RowsAt, PairsOf
<1> QED  BY <1>1 DEF Init, Store!Init, Store!Keys

LEMMA StoreCall ==
    ASSUME IInv, NEW r \in Rpc, NEW q \in Requests, Call(r, q)
    PROVE  Store!Begin(r)
<1>1. q \in Store!Asks
  BY DEF Requests, Store!Asks
<1> QED  BY <1>1, IdleFacts, SameKept DEF Call, Store!Begin

LEMMA StoreReturn ==
    ASSUME IInv, NEW r \in Rpc, Return(r)
    PROVE  Store!End(r)
BY StageFacts, SameKept DEF Return, Store!End

LEMMA StoreTimeOut ==
    ASSUME NEW r \in Rpc, TimeOut(r)
    PROVE  UNCHANGED Store!avars
BY SameKept DEF TimeOut, Store!avars

LEMMA StoreCrash == IInv /\ Crash => Store!Restart
<1> SUFFICES ASSUME IInv, Crash  PROVE Store!Restart
  OBVIOUS
<1>1. PICK left \in SUBSET {r \in Rpc : Fault("late") /\ pc[r] \in Changing \cup {"late"}} :
        call' = [r \in Rpc |-> IF r \in left THEN call[r] ELSE None]
  BY DEF Crash
<1>2. ASSUME NEW r \in left
      PROVE  r \in Rpc /\ Store!InProgress(r) /\ "late" \in Faults
  BY StageFacts, RequestFields DEF Changing, Store!InProgress, Fault
<1>3. left \in SUBSET {r \in Rpc : Store!InProgress(r) /\ "late" \in Faults}
  BY <1>2
<1> QED  BY <1>1, <1>3, SameKept DEF Crash, Fault, Store!Restart

(* A call that fails without effect, for a fault or because it had to.      *)
LEMMA StoreFail ==
    ASSUME IInv, NEW r \in Rpc, pc[r] \notin {"idle", "done"}, Fail(r),
           UNCHANGED <<passwords, raced>>,
           \/ Fault("db") \/ pc[r] = "late"
           \/ ~Store!Permitted(call[r]) \/ Store!TooLate(call[r])
    PROVE  Store!Fail(r)
<1>1. /\ call[r] # None /\ reply[r] = None
      /\ \/ "db" \in Faults \/ "late" \in Faults
         \/ ~Store!Permitted(call[r]) \/ Store!TooLate(call[r])
  BY StageFacts, RequestFields DEF Fault
<1> QED  BY <1>1, SameKept DEF Fail, Answer, Store!Fail, Store!InProgress, Store!Error

LEMMA StoreNothing ==
    ASSUME IInv, NEW r \in Rpc, pc[r] \notin {"idle", "done"}, NEW fits,
           ComesToNothing(r, fits), fits \/ ~Store!Permitted(call[r])
    PROVE  Store!Fail(r)
BY StoreFail DEF ComesToNothing

(* A call that takes effect; its client gets the answer or an error, or has *)
(* had an error before.                                                     *)
LEMMA StorePerform ==
    ASSUME IInv, NEW r \in Rpc, pc[r] \notin {"idle", "done"},
           Store!Permitted(call[r]),
           Kept' = Store!After(call[r]),
           NEW over \in SUBSET Store!Emptied(call[r]), raced' = raced \ over,
           NEW data, [ok |-> TRUE, data |-> data] \in Store!Results(call[r]),
           Answer(r, TRUE, data) \/ ((pc[r] = "late" \/ Fault("ack")) /\ Fail(r))
    PROVE  Store!Perform(r)
<1>1. call[r] # None /\ reply[r] = None
  BY StageFacts, RequestFields
<1>2. pc[r] = "late" \/ Fault("ack") => "ack" \in Faults \/ "late" \in Faults
  BY StageFacts DEF Fault
<1>3. UNCHANGED call /\ \E result \in Store!Results(call[r])
                     \cup {e \in {Store!Error} : "ack" \in Faults \/ "late" \in Faults} :
          reply' = [reply EXCEPT ![r] = result]
  BY <1>2 DEF Answer, Fail, Store!Error
<1> QED  BY <1>1, <1>3 DEF Store!Perform, Store!InProgress

(* The values under the key of a request, for all calls but DeleteUser's.   *)
LEMMA KeptFacts ==
    ASSUME IInv, NEW r \in Rpc, pc[r] # "idle", call[r].op # "purge"
    PROVE  /\ call[r].login \in Logins /\ call[r].meta \in Metas
           /\ Store!KeyOf(call[r]) = <<call[r].login, call[r].meta>>
           /\ Key(call[r]) = <<call[r].login, call[r].meta>>
           /\ Kept[<<call[r].login, call[r].meta>>] = PairsOf(Hit(r))
           /\ Hit(r) \subseteq Row
           /\ Kept[<<call[r].login, call[r].meta>>] = {} <=> Hit(r) = {}
           /\ \A p \in Hit(r) : p.pair \in Kept[<<call[r].login, call[r].meta>>]
<1>1. call[r].login \in Logins /\ call[r].meta \in Metas
  BY StageFacts, RequestFields
<1>2. PairsOf(Hit(r)) = {} <=> Hit(r) = {}
  BY DEF PairsOf
<1>3. \A p \in Hit(r) : p.pair \in PairsOf(Hit(r))
  BY DEF PairsOf
<1>4. Kept[<<call[r].login, call[r].meta>>] = PairsOf(Hit(r))
  BY <1>1 DEF Kept, Hit
<1> QED  BY <1>1, <1>2, <1>3, <1>4 DEF Store!KeyOf, Key, Hit, RowsAt, IInv, TypeOK

(* IsExist finds the key free while another INSERT there is under way: that *)
(* is the race; otherwise nothing has happened yet.                         *)
LEMMA StoreExist ==
    ASSUME IInv, NEW r \in Rpc, Exist(r)
    PROVE  Store!Fail(r) \/ (\E k \in Store!Keys : Store!Race(k)) \/ UNCHANGED Store!avars
<1> USE DEF Exist
<1>1. /\ call[r].op = "save" /\ pc[r] = "exist" /\ call[r] \in Requests
      /\ call[r] # None /\ reply[r] = None
  BY StageFacts, RequestFields
<1>2. CASE Fail(r) /\ UNCHANGED raced /\ (Hit(r) # {} \/ Fault("db"))
  <2>1. Hit(r) # {} => Store!TooLate(call[r])
    BY <1>1, KeptFacts DEF Store!TooLate
  <2> QED  BY <1>1, <1>2, <2>1, StoreFail
<1>3. CASE /\ raced' = raced \cup {k \in {Key(call[r])} : InsertsAt(k) # {}}
           /\ UNCHANGED <<call, reply>>
  <2> DEFINE k == Key(call[r])
  <2>1. CASE InsertsAt(k) = {}
    BY <1>3, <2>1, SameKept DEF Store!avars
  <2>2. CASE InsertsAt(k) # {}
    <3>1. PICK s \in Rpc : Inserting(s) /\ Key(call[s]) = k
      BY <2>2 DEF InsertsAt
    <3>2. s # r /\ call[s] \in Requests /\ call[s] # None /\ call[s].op = "save"
          /\ reply[s] = None
      BY <1>1, <3>1, StageFacts, RequestFields DEF Inserting
    <3>3. Store!Saving(r, k) /\ Store!Saving(s, k)
      BY <1>1, <3>1, <3>2 DEF Store!Saving, Store!InProgress, Store!KeyOf, Key
    <3>4. raced' = raced \cup {k} /\ k \in Store!Keys
      BY <1>1, <1>3, <2>2, RequestFields DEF Key, Store!Keys
    <3>5. Store!Race(k)
      BY <1>3, <3>2, <3>3, <3>4, SameKept DEF Store!Race
    <3> QED  BY <3>4, <3>5
  <2> QED  BY <2>1, <2>2
<1> QED  BY <1>2, <1>3

LEMMA StoreInsert ==
    ASSUME IInv, NEW r \in Rpc, Insert(r)
    PROVE  Store!Fail(r) \/ Store!Perform(r)
<1> USE DEF Insert
<1> DEFINE l == call[r].login
           m == call[r].meta
<1>1. /\ call[r].op = "save" /\ pc[r] \notin {"idle", "done"} /\ pc[r] # "exist"
      /\ call[r] \in Requests /\ Inserting(r)
  BY RunsFacts DEF Changing, Inserting, Runs
<1>2. KeyFree(NewRow(call[r]), passwords)
  BY <1>1 DEF IInv, InTransit, Carries, KeyFree, NewRow
<1>3. CASE ComesToNothing(r, KeyFree(NewRow(call[r]), passwords))
  BY <1>1, <1>2, <1>3, StoreNothing
<1>4. CASE passwords' = passwords \cup {NewRow(call[r])} /\ TakesEffect(r) /\ UNCHANGED raced
  <2>1. /\ l \in Logins /\ m \in Metas /\ Store!KeyOf(call[r]) = <<l, m>>
        /\ Key(call[r]) = <<l, m>>
        /\ Kept[<<l, m>>] = PairsOf(Hit(r))
    BY <1>1, KeptFacts
  <2>2. PairsOf(At(passwords', l, m)) = Kept[<<l, m>>] \cup {call[r].value}
    <3>1. At(passwords', l, m) = Hit(r) \cup {NewRow(call[r])} /\ NewRow(call[r]).pair = call[r].value
      BY <1>4 DEF At, RowsAt, Hit, NewRow
    <3> QED  BY <2>1, <3>1 DEF PairsOf
  <2>3. \A x \in Logins, y \in Metas : <<x, y>> # <<l, m>> => At(passwords', x, y) = At(passwords, x, y)
    BY <1>4 DEF At, NewRow
  <2>4. Kept' = [Kept EXCEPT ![<<l, m>>] = Kept[<<l, m>>] \cup {call[r].value}]
    BY <2>1, <2>2, <2>3, KeptChange
  <2>5. Kept' = Store!After(call[r])
    BY <1>1, <2>1, <2>4 DEF Store!After
  <2>6. Store!Permitted(call[r])
    <3>1. <<l, m>> \notin raced => Hit(r) = {}
      BY <1>1, <2>1 DEF IInv, CheckStands
    <3> QED  BY <1>1, <2>1, <3>1 DEF Store!Permitted, PairsOf
  <2>7. [ok |-> TRUE, data |-> None] \in Store!Results(call[r])
    BY <1>1 DEF Store!Results, Store!Ok
  <2>8. raced' = raced \ {}
    BY <1>4
  <2> QED  BY <1>1, <1>4, <2>5, <2>6, <2>7, <2>8, StorePerform DEF TakesEffect, Succeed
<1> QED  BY <1>3, <1>4

LEMMA StoreSelect ==
    ASSUME IInv, NEW r \in Rpc, Select(r)
    PROVE  Store!Fail(r) \/ Store!Perform(r)
<1> USE DEF Select
<1>1. call[r].op = "get" /\ pc[r] = "select"
  BY StageFacts
<1>2. CASE Fail(r) /\ (Hit(r) = {} \/ Fault("db"))
  <2>1. Hit(r) = {} => ~Store!Permitted(call[r])
    BY <1>1, KeptFacts DEF Store!Permitted
  <2> QED  BY <1>1, <1>2, <2>1, StoreFail
<1>3. ASSUME NEW p \in Hit(r), Answer(r, TRUE, p.pair)
      PROVE  Store!Perform(r)
  <2>1. Store!Permitted(call[r]) /\ p.pair \in Kept[Store!KeyOf(call[r])]
    BY <1>1, KeptFacts DEF Store!Permitted
  <2>2. Kept' = Store!After(call[r])
    BY <1>1, SameKept DEF Store!After
  <2>3. [ok |-> TRUE, data |-> p.pair] \in Store!Results(call[r])
    BY <1>1, <2>1 DEF Store!Results, Store!Ok
  <2>4. raced' = raced \ {}
    OBVIOUS
  <2> QED  BY <1>1, <1>3, <2>1, <2>2, <2>3, <2>4, StorePerform
<1> QED  BY <1>2, <1>3

LEMMA StoreUpdate ==
    ASSUME IInv, NEW r \in Rpc, Update(r)
    PROVE  Store!Fail(r) \/ Store!Perform(r)
<1> USE DEF Update
<1> DEFINE l == call[r].login
           m == call[r].meta
           new == NewRow(call[r])
           fits == /\ Hit(r) # {}
                   /\ \A p, q \in Hit(r) : p = q
                   /\ KeyFree(new, passwords \ Hit(r))
<1>1. /\ call[r].op = "edit" /\ pc[r] \notin {"idle", "done"} /\ call[r] \in Requests
  BY RunsFacts DEF Changing
<1>2. KeyFree(new, passwords \ Hit(r))
  BY <1>1 DEF IInv, InTransit, Carries, KeyFree, NewRow
<1>3. /\ l \in Logins /\ m \in Metas /\ Store!KeyOf(call[r]) = <<l, m>>
      /\ Kept[<<l, m>>] = PairsOf(Hit(r)) /\ Hit(r) \subseteq Row
  BY <1>1, KeptFacts
<1>4. fits <=> Store!Permitted(call[r])
  <2>1. ASSUME NEW p \in Hit(r), NEW q \in Hit(r), p.pair = q.pair
        PROVE  p = q
    BY <1>3, <2>1 DEF Hit, RowsAt, Row
  <2>2. fits <=> \E v \in Pairs : PairsOf(Hit(r)) = {v}
    <3>1. \A p \in Hit(r) : p.pair \in Pairs
      BY <1>3 DEF Row
    <3>2. fits => \E v \in Pairs : PairsOf(Hit(r)) = {v}
      BY <3>1 DEF PairsOf
    <3>3. (\E v \in Pairs : PairsOf(Hit(r)) = {v}) => fits
      BY <1>2, <2>1 DEF PairsOf
    <3> QED  BY <3>2, <3>3
  <2> QED  BY <1>1, <1>3, <2>2 DEF Store!Permitted
<1> HIDE DEF fits
<1>5. CASE ComesToNothing(r, fits)
  BY <1>1, <1>4, <1>5, StoreNothing
<1>6. CASE /\ fits /\ passwords' = (passwords \ Hit(r)) \cup {new}
           /\ TakesEffect(r) /\ UNCHANGED raced
  <2>1. PairsOf(At(passwords', l, m)) = {call[r].value}
    <3>1. At(passwords', l, m) = {new} /\ new.pair = call[r].value
      BY <1>6 DEF At, RowsAt, Hit, NewRow
    <3> QED  BY <3>1 DEF PairsOf
  <2>2. \A x \in Logins, y \in Metas : <<x, y>> # <<l, m>> => At(passwords', x, y) = At(passwords, x, y)
    BY <1>6 DEF At, RowsAt, Hit, NewRow
  <2>3. Kept' = [Kept EXCEPT ![<<l, m>>] = {call[r].value}]
    BY <1>3, <2>1, <2>2, KeptChange
  <2>4. Kept' = Store!After(call[r])
    BY <1>1, <1>3, <2>3 DEF Store!After
  <2>5. [ok |-> TRUE, data |-> None] \in Store!Results(call[r])
    BY <1>1 DEF Store!Results, Store!Ok
  <2>6. raced' = raced \ {}
    BY <1>6
  <2> QED  BY <1>1, <1>4, <1>6, <2>4, <2>5, <2>6, StorePerform DEF TakesEffect, Succeed
<1>7. ComesToNothing(r, fits) \/ ( /\ fits /\ passwords' = (passwords \ Hit(r)) \cup {new}
                                  /\ TakesEffect(r) /\ UNCHANGED raced )
  BY DEF fits
<1> QED  BY <1>5, <1>6, <1>7

(* A deletion ends the races under those of its keys without an INSERT.     *)
LEMMA StoreDelete ==
    ASSUME IInv, NEW r \in Rpc, Delete(r)
    PROVE  Store!Fail(r) \/ Store!Perform(r)
<1> USE DEF Delete
<1> DEFINE l == call[r].login
           m == call[r].meta
           over == {k \in {Key(call[r])} : InsertsAt(k) = {}}
<1>1. /\ call[r].op = "delete" /\ pc[r] \notin {"idle", "done"} /\ call[r] \in Requests
  BY RunsFacts DEF Changing
<1>2. /\ l \in Logins /\ m \in Metas /\ Store!KeyOf(call[r]) = <<l, m>>
      /\ Key(call[r]) = <<l, m>>
      /\ Kept[<<l, m>>] = PairsOf(Hit(r))
  BY <1>1, KeptFacts
<1>3. Hit(r) # {} <=> Store!Permitted(call[r])
  BY <1>1, <1>2 DEF Store!Permitted, PairsOf
<1>4. CASE ComesToNothing(r, Hit(r) # {})
  BY <1>1, <1>3, <1>4, StoreNothing
<1>5. CASE Hit(r) # {} /\ Erase(r, Hit(r), {Key(call[r])})
  <2>1. passwords' = passwords \ Hit(r) /\ raced' = raced \ over /\ TakesEffect(r)
    BY <1>5 DEF Erase
  <2>2. PairsOf(At(passwords', l, m)) = {}
    BY <2>1 DEF At, RowsAt, Hit, PairsOf
  <2>3. \A x \in Logins, y \in Metas : <<x, y>> # <<l, m>> => At(passwords', x, y) = At(passwords, x, y)
    BY <2>1 DEF At, RowsAt, Hit
  <2>4. Kept' = [Kept EXCEPT ![<<l, m>>] = {}]
    BY <1>2, <2>2, <2>3, KeptChange
  <2>5. Kept' = Store!After(call[r])
    BY <1>1, <1>2, <2>4 DEF Store!After
  <2>6. [ok |-> TRUE, data |-> None] \in Store!Results(call[r])
    BY <1>1 DEF Store!Results, Store!Ok
  <2>7. over \in SUBSET Store!Emptied(call[r])
    BY <1>1, <1>2 DEF Store!Emptied
  <2> HIDE DEF over
  <2> QED  BY <1>1, <1>3, <1>5, <2>1, <2>5, <2>6, <2>7, StorePerform DEF TakesEffect, Succeed
<1> QED  BY <1>4, <1>5

LEMMA StoreDeleteAll ==
    ASSUME IInv, NEW r \in Rpc, DeleteAll(r)
    PROVE  Store!Fail(r) \/ Store!Perform(r)
<1> USE DEF DeleteAll
<1> DEFINE l == call[r].login
           over == {k \in {l} \X Metas : InsertsAt(k) = {}}
<1>1. /\ call[r].op = "purge" /\ pc[r] \notin {"idle", "done"}
      /\ Store!Permitted(call[r])
  <2>1. call[r].op = "purge" /\ pc[r] \notin {"idle", "done"}
    BY RunsFacts DEF Changing
  <2> QED  BY <2>1 DEF Store!Permitted
<1>2. CASE ComesToNothing(r, TRUE)
  BY <1>1, <1>2, StoreNothing
<1>3. CASE Erase(r, {p \in passwords : p.login = l}, {l} \X Metas)
  <2>1. /\ passwords' = passwords \ {p \in passwords : p.login = l}
        /\ raced' = raced \ over /\ TakesEffect(r)
    BY <1>3 DEF Erase
  <2>2. ASSUME NEW k \in Logins \X Metas
        PROVE  Kept'[k] = IF k[1] = l THEN {} ELSE Kept[k]
    <3>1. RowsAt(k[1], k[2])' = IF k[1] = l THEN {} ELSE RowsAt(k[1], k[2])
      BY <2>1 DEF RowsAt
    <3> QED  BY <3>1 DEF Kept, PairsOf
  <2>3. Kept' = Store!After(call[r])
    BY <1>1, <2>2 DEF Kept, Store!After, Store!Keys
  <2>4. [ok |-> TRUE, data |-> None] \in Store!Results(call[r])
    BY <1>1 DEF Store!Results, Store!Ok
  <2>5. over \in SUBSET Store!Emptied(call[r])
    BY <1>1 DEF Store!Emptied
  <2> HIDE DEF over
  <2> QED  BY <1>1, <2>1, <2>3, <2>4, <2>5, StorePerform DEF TakesEffect, Succeed
<1> QED  BY <1>2, <1>3

LEMMA StoreNext == IInv /\ [Next]_vars => [Store!Next]_(Store!avars)
<1> SUFFICES ASSUME IInv, [Next]_vars
             PROVE  Store!Next \/ UNCHANGED Store!avars
  OBVIOUS
<1>1. CASE UNCHANGED vars
  BY <1>1, SameKept DEF vars, Store!avars
<1>2. ASSUME NEW r \in Rpc, NEW q \in Requests, Call(r, q)
      PROVE  Store!Next
  BY <1>2, StoreCall DEF Store!Next
<1>3. ASSUME NEW r \in Rpc, Step(r)
      PROVE  Store!Next \/ UNCHANGED Store!avars
  BY <1>3, StoreExist, StoreInsert, StoreSelect, StoreUpdate, StoreDelete,
     StoreDeleteAll, StoreTimeOut, StoreReturn DEF Step, Store!Next
<1>4. CASE Crash
  BY <1>4, StoreCrash DEF Store!Next
<1> QED  BY <1>1, <1>2, <1>3, <1>4 DEF Next

(* For any clients and every fault, late statements included, the password  *)
(* service is a PasswordStore: every call, the two-step save included, acts *)
(* at one instant or not at all, and a user has several values under one    *)
(* metadata only where saves have raced.                                    *)
THEOREM Refinement == Spec => IsPasswordStore
<1> QED  BY Invariance, StoreInit, StoreNext, PTL DEF Spec, IsPasswordStore, Store!Spec

-----------------------------------------------------------------------------
(* Without races and late statements: refinement of RecordStore.            *)

(* Then two rows never answer to one key, and an INSERT finds its key free. *)
LEMMA OrderlyFacts ==
    ASSUME IInv, Orderly
    PROVE  /\ \A l \in Logins, m \in Metas : \A p, q \in RowsAt(l, m) : p = q
           /\ \A r \in Rpc : pc[r] = "insert" => Hit(r) = {}
           /\ \A r \in Rpc : pc[r] # "late"
BY DEF IInv, Orderly, OneRowUnlessRaced, CheckStands, Inserting

LEMMA ValueFacts ==
    /\ ValueIn({}) = None
    /\ \A p : ValueIn({p}) = p.pair
BY DEF ValueIn

(* The map shows exactly the row at a key.                                  *)
LEMMA VaultAt ==
    ASSUME IInv, Orderly, NEW l \in Logins, NEW m \in Metas
    PROVE  /\ RowsAt(l, m) = {} => Vault[<<l, m>>] = None
           /\ \A p \in RowsAt(l, m) : Vault[<<l, m>>] = p.pair /\ p.pair # None
<1>1. Vault[<<l, m>>] = ValueIn(RowsAt(l, m))
  BY DEF Vault
<1>2. ASSUME NEW p \in RowsAt(l, m)
      PROVE  Vault[<<l, m>>] = p.pair /\ p.pair # None
  <2>1. RowsAt(l, m) = {p}
    BY OrderlyFacts
  <2>2. p.pair \in Pairs
    BY DEF RowsAt, IInv, TypeOK, Row
  <2> QED  BY <1>1, <2>1, <2>2, ValueFacts, NoneAssumption
<1> QED  BY <1>1, <1>2, ValueFacts

(* Keys whose rows stay keep their value.                                   *)
LEMMA VaultChange ==
    ASSUME NEW l \in Logins, NEW m \in Metas, NEW v,
           ValueIn(At(passwords', l, m)) = v,
           \A x \in Logins, y \in Metas : <<x, y>> # <<l, m>> =>
               At(passwords', x, y) = At(passwords, x, y)
    PROVE  Vault' = [Vault EXCEPT ![<<l, m>>] = v]
<1>1. ASSUME NEW k \in Logins \X Metas
      PROVE  Vault'[k] = IF k = <<l, m>> THEN v ELSE Vault[k]
  <2>1. /\ k = <<k[1], k[2]>> /\ k[1] \in Logins /\ k[2] \in Metas
        /\ Vault'[k] = ValueIn(At(passwords', k[1], k[2]))
        /\ Vault[k] = ValueIn(At(passwords, k[1], k[2]))
    BY DEF Vault, RowsAt, At
  <2>2. CASE k = <<l, m>>
    BY <2>1, <2>2
  <2>3. CASE k # <<l, m>>
    <3>1. At(passwords', k[1], k[2]) = At(passwords, k[1], k[2])
      BY <2>1, <2>3
    <3> QED  BY <2>1, <2>3, <3>1
  <2> QED  BY <2>2, <2>3
<1> QED  BY <1>1 DEF Vault

LEMMA SameVault == passwords' = passwords => Vault' = Vault
BY DEF Vault, RowsAt

LEMMA CallRefines ==
    ASSUME IInv, NEW r \in Rpc, NEW q \in Requests, Call(r, q)
    PROVE  Abstract!Begin(r)
<1>1. q \in Abstract!Asks
  BY DEF Requests, Abstract!Asks
<1> QED  BY <1>1, IdleFacts, SameVault DEF Call, Abstract!Begin

LEMMA ReturnRefines ==
    ASSUME IInv, NEW r \in Rpc, Return(r)
    PROVE  Abstract!End(r)
BY StageFacts, SameVault DEF Return, Abstract!End

LEMMA CrashRefines == Orderly' /\ Crash => Abstract!Restart
<1> SUFFICES ASSUME Orderly', Crash  PROVE Abstract!Restart
  OBVIOUS
<1>1. PICK left \in SUBSET {r \in Rpc : Fault("late") /\ pc[r] \in Changing \cup {"late"}} :
        /\ pc' = [r \in Rpc |-> IF r \in left THEN "late" ELSE "idle"]
        /\ call' = [r \in Rpc |-> IF r \in left THEN call[r] ELSE None]
  BY DEF Crash
<1>2. \A r \in Rpc : r \notin left
  BY <1>1 DEF Orderly
<1>3. call' = [r \in Rpc |-> None]
  BY <1>1, <1>2
<1> QED  BY <1>3, SameVault DEF Crash, Fault, Abstract!Restart

(* A call that fails without effect, for a fault or because it had to.      *)
LEMMA FailRefines ==
    ASSUME IInv, NEW r \in Rpc, pc[r] \notin {"idle", "done"}, Fail(r),
           UNCHANGED passwords,
           Fault("db") \/ ~Abstract!Permitted(call[r])
    PROVE  Abstract!Fail(r)
<1>1. /\ call[r] # None /\ reply[r] = None
      /\ "db" \in Faults \ {"late"} \/ ~Abstract!Permitted(call[r])
  BY StageFacts, RequestFields DEF Fault
<1> QED  BY <1>1, SameVault DEF Fail, Answer, Abstract!Fail, Abstract!InProgress, Abstract!Error

LEMMA NothingRefines ==
    ASSUME IInv, NEW r \in Rpc, pc[r] \notin {"idle", "done", "late"}, NEW fits,
           ComesToNothing(r, fits), fits \/ ~Abstract!Permitted(call[r])
    PROVE  Abstract!Fail(r)
BY FailRefines DEF ComesToNothing

(* A call that takes effect, with or without its answer getting through.    *)
LEMMA PerformRefines ==
    ASSUME IInv, NEW r \in Rpc, pc[r] \notin {"idle", "done", "late"},
           Abstract!Permitted(call[r]),
           Vault' = Abstract!After(call[r]),
           NEW data, Abstract!Result(call[r]) = [ok |-> TRUE, data |-> data],
           Answer(r, TRUE, data) \/ (Fault("ack") /\ Fail(r))
    PROVE  Abstract!Perform(r)
<1>1. call[r] # None /\ reply[r] = None
  BY StageFacts, RequestFields
<1>2. Fault("ack") => "ack" \in Faults \ {"late"}
  BY DEF Fault
<1> QED  BY <1>1, <1>2
            DEF Fail, Answer, Abstract!Perform, Abstract!InProgress, Abstract!Error

(* A statement that runs in time and takes effect.                          *)
LEMMA EffectRefines ==
    ASSUME IInv, NEW r \in Rpc, pc[r] \notin {"idle", "done", "late"},
           call[r].op # "get", TakesEffect(r),
           Abstract!Permitted(call[r]),
           Vault' = Abstract!After(call[r])
    PROVE  Abstract!Perform(r)
<1>1. Abstract!Result(call[r]) = [ok |-> TRUE, data |-> None]
  BY DEF Abstract!Result, Abstract!Ok
<1> QED  BY <1>1, PerformRefines DEF TakesEffect, Succeed

(* The key of a request with metadata, and when its call is permitted.      *)
LEMMA KeyFacts ==
    ASSUME IInv, Orderly, NEW r \in Rpc, pc[r] # "idle", call[r].op # "purge"
    PROVE  /\ call[r].login \in Logins /\ call[r].meta \in Metas
           /\ Abstract!Key(call[r]) = <<call[r].login, call[r].meta>>
           /\ Abstract!Permitted(call[r]) <=>
                IF call[r].op = "save" THEN Hit(r) = {} ELSE Hit(r) # {}
           /\ \A p \in Hit(r) : Vault[Abstract!Key(call[r])] = p.pair
<1>1. call[r].login \in Logins /\ call[r].meta \in Metas
  BY StageFacts, RequestFields
<1>2. /\ Hit(r) = {} => Vault[<<call[r].login, call[r].meta>>] = None
      /\ \A p \in Hit(r) : /\ Vault[<<call[r].login, call[r].meta>>] = p.pair
                           /\ p.pair # None
  BY <1>1, VaultAt DEF Hit
<1> QED  BY <1>1, <1>2 DEF Abstract!Key, Abstract!Permitted

LEMMA ExistRefines ==
    ASSUME IInv, Orderly, NEW r \in Rpc, Exist(r)
    PROVE  Abstract!Fail(r) \/ UNCHANGED Abstract!avars
<1> USE DEF Exist
<1>1. CASE Fail(r) /\ (Hit(r) # {} \/ Fault("db"))
  <2>1. Fault("db") \/ ~Abstract!Permitted(call[r])
    BY <1>1, StageFacts, KeyFacts
  <2> QED  BY <1>1, <2>1, FailRefines
<1>2. CASE UNCHANGED <<passwords, call, reply>>
  BY <1>2, SameVault DEF Abstract!avars
<1> QED  BY <1>1, <1>2

LEMMA InsertRefines ==
    ASSUME IInv, Orderly, NEW r \in Rpc, Insert(r)
    PROVE  Abstract!Fail(r) \/ Abstract!Perform(r)
<1> USE DEF Insert
<1> DEFINE l == call[r].login
           m == call[r].meta
<1>1. /\ call[r].op = "save" /\ pc[r] = "insert" /\ Hit(r) = {}
      /\ l \in Logins /\ m \in Metas
  BY RunsFacts, RequestFields, OrderlyFacts DEF Runs, Changing
<1>2. KeyFree(NewRow(call[r]), passwords)
  BY <1>1 DEF IInv, InTransit, Carries, KeyFree, NewRow
<1>3. CASE ComesToNothing(r, KeyFree(NewRow(call[r]), passwords))
  BY <1>1, <1>2, <1>3, NothingRefines
<1>4. CASE passwords' = passwords \cup {NewRow(call[r])} /\ TakesEffect(r)
  <2>1. At(passwords', l, m) = {NewRow(call[r])}
    BY <1>1, <1>4 DEF At, Hit, RowsAt, NewRow
  <2>2. ValueIn(At(passwords', l, m)) = call[r].value
    BY <2>1, ValueFacts DEF NewRow
  <2>3. \A x \in Logins, y \in Metas : <<x, y>> # <<l, m>> =>
            At(passwords', x, y) = At(passwords, x, y)
    BY <1>4 DEF At, NewRow
  <2>4. Vault' = [Vault EXCEPT ![<<l, m>>] = call[r].value]
    BY <1>1, <2>2, <2>3, VaultChange
  <2>5. Abstract!Permitted(call[r]) /\ Abstract!Key(call[r]) = <<l, m>>
    BY <1>1, KeyFacts
  <2>6. Vault' = Abstract!After(call[r])
    BY <1>1, <2>4, <2>5 DEF Abstract!After
  <2> QED  BY <1>1, <1>4, <2>5, <2>6, EffectRefines
<1> QED  BY <1>3, <1>4

LEMMA SelectRefines ==
    ASSUME IInv, Orderly, NEW r \in Rpc, Select(r)
    PROVE  Abstract!Fail(r) \/ Abstract!Perform(r)
<1> USE DEF Select
<1>1. call[r].op = "get" /\ pc[r] = "select"
  BY StageFacts
<1>2. CASE Fail(r) /\ (Hit(r) = {} \/ Fault("db"))
  <2>1. Fault("db") \/ ~Abstract!Permitted(call[r])
    BY <1>1, <1>2, KeyFacts
  <2> QED  BY <1>1, <1>2, <2>1, FailRefines
<1>3. ASSUME NEW p \in Hit(r), Answer(r, TRUE, p.pair)
      PROVE  Abstract!Perform(r)
  <2>1. Abstract!Permitted(call[r]) /\ Vault[Abstract!Key(call[r])] = p.pair
    BY <1>1, KeyFacts
  <2>2. Vault' = Abstract!After(call[r])
    BY <1>1, SameVault DEF Abstract!After
  <2>3. Abstract!Result(call[r]) = [ok |-> TRUE, data |-> p.pair]
    BY <1>1, <2>1 DEF Abstract!Result, Abstract!Ok
  <2> QED  BY <1>1, <1>3, <2>1, <2>2, <2>3, PerformRefines
<1> QED  BY <1>2, <1>3

LEMMA UpdateRefines ==
    ASSUME IInv, Orderly, NEW r \in Rpc, Update(r)
    PROVE  Abstract!Fail(r) \/ Abstract!Perform(r)
<1> USE DEF Update
<1> DEFINE l == call[r].login
           m == call[r].meta
           new == NewRow(call[r])
           fits == /\ Hit(r) # {}
                   /\ \A p, q \in Hit(r) : p = q
                   /\ KeyFree(new, passwords \ Hit(r))
<1>1. /\ call[r].op = "edit" /\ pc[r] = "update" /\ l \in Logins /\ m \in Metas
  BY RunsFacts, RequestFields, OrderlyFacts DEF Runs, Changing
<1>2. fits <=> Hit(r) # {}
  BY <1>1, OrderlyFacts DEF Hit, IInv, InTransit, Carries, KeyFree, NewRow
<1>3. Abstract!Permitted(call[r]) <=> Hit(r) # {}
  BY <1>1, KeyFacts
<1> HIDE DEF fits
<1>4. CASE ComesToNothing(r, fits)
  BY <1>1, <1>2, <1>3, <1>4, NothingRefines
<1>5. CASE fits /\ passwords' = (passwords \ Hit(r)) \cup {new} /\ TakesEffect(r)
  <2>1. At(passwords', l, m) = {new}
    BY <1>5 DEF At, Hit, RowsAt, NewRow
  <2>2. ValueIn(At(passwords', l, m)) = call[r].value
    BY <2>1, ValueFacts DEF NewRow
  <2>3. \A x \in Logins, y \in Metas : <<x, y>> # <<l, m>> =>
            At(passwords', x, y) = At(passwords, x, y)
    BY <1>5 DEF At, NewRow, Hit, RowsAt
  <2>4. Vault' = [Vault EXCEPT ![<<l, m>>] = call[r].value]
    BY <1>1, <2>2, <2>3, VaultChange
  <2>5. Abstract!Key(call[r]) = <<l, m>>
    BY <1>1, KeyFacts
  <2>6. Vault' = Abstract!After(call[r])
    BY <1>1, <2>4, <2>5 DEF Abstract!After
  <2> QED  BY <1>1, <1>2, <1>3, <1>5, <2>6, EffectRefines
<1>6. \/ ComesToNothing(r, fits)
      \/ fits /\ passwords' = (passwords \ Hit(r)) \cup {new} /\ TakesEffect(r)
  BY DEF fits
<1> QED  BY <1>4, <1>5, <1>6

LEMMA DeleteRefines ==
    ASSUME IInv, Orderly, NEW r \in Rpc, Delete(r)
    PROVE  Abstract!Fail(r) \/ Abstract!Perform(r)
<1> USE DEF Delete
<1> DEFINE l == call[r].login
           m == call[r].meta
<1>1. /\ call[r].op = "delete" /\ pc[r] = "delete" /\ l \in Logins /\ m \in Metas
  BY RunsFacts, RequestFields, OrderlyFacts DEF Runs, Changing
<1>2. Abstract!Permitted(call[r]) <=> Hit(r) # {}
  BY <1>1, KeyFacts
<1>3. CASE ComesToNothing(r, Hit(r) # {})
  BY <1>1, <1>2, <1>3, NothingRefines
<1>4. CASE Hit(r) # {} /\ Erase(r, Hit(r), {Key(call[r])})
  <2>1. passwords' = passwords \ Hit(r) /\ TakesEffect(r)
    BY <1>4 DEF Erase
  <2>2. At(passwords', l, m) = {}
    BY <2>1 DEF At, Hit, RowsAt
  <2>3. ValueIn(At(passwords', l, m)) = None
    BY <2>2, ValueFacts
  <2>4. \A x \in Logins, y \in Metas : <<x, y>> # <<l, m>> =>
            At(passwords', x, y) = At(passwords, x, y)
    BY <2>1 DEF At, Hit, RowsAt
  <2>5. Vault' = [Vault EXCEPT ![<<l, m>>] = None]
    BY <1>1, <2>3, <2>4, VaultChange
  <2>6. Abstract!Key(call[r]) = <<l, m>>
    BY <1>1, KeyFacts
  <2>7. Vault' = Abstract!After(call[r])
    BY <1>1, <2>5, <2>6 DEF Abstract!After
  <2> QED  BY <1>1, <1>2, <1>4, <2>1, <2>7, EffectRefines
<1> QED  BY <1>3, <1>4

LEMMA DeleteAllRefines ==
    ASSUME IInv, Orderly, NEW r \in Rpc, DeleteAll(r)
    PROVE  Abstract!Fail(r) \/ Abstract!Perform(r)
<1> USE DEF DeleteAll
<1> DEFINE l == call[r].login
<1>1. call[r].op = "purge" /\ pc[r] = "deleteAll"
  BY RunsFacts, OrderlyFacts DEF Runs, Changing
<1>2. Abstract!Permitted(call[r])
  BY <1>1 DEF Abstract!Permitted
<1>3. CASE ComesToNothing(r, TRUE)
  BY <1>1, <1>3, NothingRefines
<1>4. CASE Erase(r, {p \in passwords : p.login = l}, {l} \X Metas)
  <2>1. passwords' = passwords \ {p \in passwords : p.login = l} /\ TakesEffect(r)
    BY <1>4 DEF Erase
  <2>2. ASSUME NEW k \in Logins \X Metas
        PROVE  Vault'[k] = IF k[1] = l THEN None ELSE Vault[k]
    <3>1. RowsAt(k[1], k[2])' = IF k[1] = l THEN {} ELSE RowsAt(k[1], k[2])
      BY <2>1 DEF RowsAt
    <3> QED  BY <3>1, ValueFacts DEF Vault
  <2>3. Vault' = Abstract!After(call[r])
    BY <1>1, <2>2 DEF Vault, Abstract!After, Abstract!Keys
  <2> QED  BY <1>1, <1>2, <2>1, <2>3, EffectRefines
<1> QED  BY <1>3, <1>4

LEMMA OrderlyNext ==
    IInv /\ [Next]_vars => (Orderly /\ Orderly' => [Abstract!Next]_(Abstract!avars))
<1> SUFFICES ASSUME IInv, Orderly, Orderly', [Next]_vars
             PROVE  Abstract!Next \/ UNCHANGED Abstract!avars
  OBVIOUS
<1>1. CASE UNCHANGED vars
  BY <1>1, SameVault DEF vars, Abstract!avars
<1>2. ASSUME NEW r \in Rpc, NEW q \in Requests, Call(r, q)
      PROVE  Abstract!Next
  BY <1>2, CallRefines DEF Abstract!Next
<1>3. ASSUME NEW r \in Rpc, Step(r)
      PROVE  Abstract!Next \/ UNCHANGED Abstract!avars
  <2>1. ~TimeOut(r)
    BY DEF TimeOut, Orderly, IInv, TypeOK
  <2> QED  BY <1>3, <2>1, ExistRefines, InsertRefines, SelectRefines, UpdateRefines,
           DeleteRefines, DeleteAllRefines, ReturnRefines DEF Step, Abstract!Next
<1>4. CASE Crash
  BY <1>4, CrashRefines DEF Abstract!Next
<1> QED  BY <1>1, <1>2, <1>3, <1>4 DEF Next

(* While no saves race and no statement is late, the password service acts  *)
(* as a RecordStore, for any number of clients of a user: one value under   *)
(* each metadata, and every call acts at one instant or not at all.         *)
THEOREM OrderlyRefinement == Spec => RecordStoreWhenOrderly
<1>1. Spec => []IInv
  BY Invariance
<1>2. IInv /\ [Next]_vars => [Orderly /\ Orderly' => [Abstract!Next]_(Abstract!avars)]_vars
  BY OrderlyNext
<1> QED  BY <1>1, <1>2, PTL DEF Spec, RecordStoreWhenOrderly
=============================================================================
