---------------------------- MODULE AccountProofs ----------------------------
(* Proofs about Account for every number of handlers, users and stores, for *)
(* clients that call at will and with every fault.                          *)
EXTENDS Account, TLAPS

(* User l has nothing in any store.                                         *)
Empty(l) == \A s \in Stores : l \notin data[s]

(* Which requests are at which step.                                        *)
OnStage(r) ==
    /\ pc[r] = "idle" <=> call[r] = None
    /\ pc[r] \in {"exist", "insert"} => call[r].op = "register" /\ call[r].pass \in Passes
    /\ pc[r] = "select" => call[r].op \in {"login", "hash"}
    /\ pc[r] = "update" => call[r].op = "edit" /\ call[r].pass \in Passes
    /\ pc[r] \in {"purge", "deleteUser"} => call[r].op = "delete"
    /\ pc[r] = "write" => call[r].op \in {"put", "drop"}

(* Nothing under way can change what handler r's call depends on.           *)
Alone(r) ==
    /\ \A h \in Rpc \ {r} : pc[h] # "idle" => ~Disturbs(call[h], call[r])
    /\ \A q \in late : ~Disturbs(q, call[r])

(* What such a call has seen and done is still so: a login found free is    *)
(* free, stores that were emptied are empty, a password that was confirmed  *)
(* opens the account.                                                       *)
Sound(r) ==
    LET l == call[r].login IN
    /\ pc[r] = "insert" => hash[l] = None
    /\ pc[r] = "purge" => \A s \in Stores \ left[r] : l \notin data[s]
    /\ pc[r] = "deleteUser" => Empty(l)
    /\ Emptied(r)
    /\ pc[r] = "update" /\ belief[l] # None => hash[l] # None
    /\ pc[r] = "done" /\ reply[r] = "ok" =>
        /\ call[r].op \in {"register", "login"} => Opens(call[r].pass, hash[l])
        /\ call[r].op = "edit" /\ belief[l] # None => Opens(call[r].pass, hash[l])

Handler(r) == OnStage(r) /\ (pc[r] # "idle" /\ r \notin disturbed => Alone(r) /\ Sound(r))

(* A statement that can be late, and that it is none which changes the      *)
(* account of user l.                                                       *)
Tail(q) ==
    /\ q \in Requests /\ q.op \notin {"login", "hash"}
    /\ q.op \in {"register", "edit"} => q.pass \in Passes
Clear(l) == \A q \in late : q.login = l => q.op \notin {"edit", "delete"}

Sure(l) == belief[l] # None /\ ~InDoubt(l) => Opens(belief[l], hash[l]) /\ Clear(l)

IInv ==
    /\ TypeOK
    /\ \A q \in late : Tail(q)
    /\ \A r \in Rpc : Handler(r)
    /\ \A l \in Logins : Sure(l)

-----------------------------------------------------------------------------
(* What a member of Requests carries, by operation.                         *)
LEMMA RequestFields ==
    ASSUME NEW q \in Requests
    PROVE  /\ q # None
           /\ q.op \in {"register", "login", "edit", "hash", "delete", "put", "drop"}
           /\ q.login \in Logins
           /\ q.op \in {"register", "login", "edit"} => q.pass \in Passes \cup {LongPass}
           /\ q.op \in {"put", "drop"} => q.store \in Stores
  BY NoneAssumption DEF Requests

LEMMA DroppingIsTail ==
    ASSUME NEW l \in Logins, NEW s \in Stores
    PROVE  Tail(Dropping(l, s)) /\ Dropping(l, s).login = l /\ Dropping(l, s).op = "drop"
  BY DEF Dropping, Tail, Requests

LEMMA Serving ==
    ASSUME IInv, NEW r \in Rpc, pc[r] # "idle"
    PROVE  call[r] \in Requests /\ call[r].login \in Logins
  <1>1. call[r] \in Requests
    BY DEF IInv, TypeOK, Handler, OnStage
  <1> QED
    BY <1>1, RequestFields

(* What the statement of a request, or a purge, may do to the tables.       *)
Effect(c) ==
    /\ hash' = hash \/ hash' = Changed(c)
    /\ \/ data' = data \/ data' = Written(c)
       \/ c.op = "delete" /\ \E s \in Stores : data' = [data EXCEPT ![s] = @ \ {c.login}]

LEMMA EffectType ==
    ASSUME TypeOK, NEW c, Tail(c), Effect(c)
    PROVE  hash' \in [Logins -> Passes \cup {None}] /\ data' \in [Stores -> SUBSET Logins]
  <1>1. c.login \in Logins /\ (c.op \in {"put", "drop"} => c.store \in Stores)
    BY RequestFields DEF Tail
  <1>2. hash' \in [Logins -> Passes \cup {None}]
    BY <1>1 DEF Effect, Changed, TypeOK, Tail
  <1>3. data' \in [Stores -> SUBSET Logins]
    BY <1>1 DEF Effect, Written, TypeOK
  <1> QED
    BY <1>2, <1>3

(* How little of what a call depends on is changed by requests that do not  *)
(* disturb it: the account of a login that was free may appear, unless the  *)
(* call is a RegisterUser or DeleteUser itself.                             *)
Spared(o) ==
    /\ \/ hash'[o.login] = hash[o.login]
       \/ hash[o.login] = None /\ o.op \notin {"register", "delete"}
    /\ o.op = "delete" => \A s \in Stores : o.login \in data'[s] => o.login \in data[s]

LEMMA EffectSpares ==
    ASSUME TypeOK, NEW c, Tail(c), Effect(c), NEW o \in Requests, ~Disturbs(c, o)
    PROVE  Spared(o)
  <1>1. /\ c.login \in Logins /\ (c.op \in {"put", "drop"} => c.store \in Stores)
        /\ c.op \in {"register", "edit", "delete", "put", "drop"}
        /\ o.login \in Logins
    BY RequestFields DEF Tail
  <1>2. CASE c.login # o.login
    <2>1. hash'[o.login] = hash[o.login]
      BY <1>1, <1>2 DEF Effect, Changed, TypeOK
    <2>2. \A s \in Stores : o.login \in data'[s] => o.login \in data[s]
      BY <1>1, <1>2 DEF Effect, Written, TypeOK
    <2> QED
      BY <2>1, <2>2 DEF Spared
  <1>3. CASE c.login = o.login
    <2>1. /\ c.op \notin {"edit", "delete"}
          /\ c.op = "register" => o.op \notin {"register", "delete"}
          /\ c.op \in {"put", "drop"} => o.op # "delete"
      BY <1>3 DEF Disturbs
    <2>2. \/ hash'[o.login] = hash[o.login]
          \/ hash[o.login] = None /\ o.op \notin {"register", "delete"}
      BY <1>1, <1>3, <2>1 DEF Effect, Changed, TypeOK
    <2>3. o.op = "delete" => data' = data
      BY <1>1, <2>1 DEF Effect, Written
    <2> QED
      BY <2>2, <2>3 DEF Spared
  <1> QED
    BY <1>2, <1>3

(* Only an EditUser or DeleteUser changes an account that exists.           *)
LEMMA EffectKeeps ==
    ASSUME TypeOK, NEW c, Tail(c), Effect(c), NEW l \in Logins, hash[l] # None,
           c.login = l => c.op \notin {"edit", "delete"}
    PROVE  hash'[l] = hash[l]
  <1>1. c.login \in Logins
    BY RequestFields DEF Tail
  <1> QED
    BY <1>1 DEF Effect, Changed, TypeOK

(* A call that is spared stays sound.                                       *)
LEMMA SoundStays ==
    ASSUME NEW r \in Rpc, Sound(r), Spared(call[r]),
           pc'[r] = pc[r], call'[r] = call[r], left'[r] = left[r], reply'[r] = reply[r],
           call[r].op = "edit" =>
               belief'[call[r].login] = belief[call[r].login] \/ belief'[call[r].login] = None,
           OnStage(r), pc[r] # "idle"
    PROVE  Sound(r)'
  <1> DEFINE l == call[r].login
  <1>1. /\ pc[r] = "insert" => hash'[l] = None
        /\ pc[r] = "purge" => \A s \in Stores \ left[r] : l \notin data'[s]
        /\ pc[r] = "deleteUser" => \A s \in Stores : l \notin data'[s]
    BY DEF Sound, Spared, OnStage, Empty
  <1>2. pc[r] = "done" /\ reply[r] = "ok" /\ call[r].op = "delete" =>
            hash'[l] = None /\ \A s \in Stores : l \notin data'[s]
    BY DEF Sound, Spared, Emptied
  <1>3. pc[r] = "update" /\ belief'[l] # None => hash'[l] # None
    BY DEF Sound, Spared, OnStage
  <1>4. pc[r] = "done" /\ reply[r] = "ok" =>
            /\ call[r].op \in {"register", "login"} => Opens(call[r].pass, hash'[l])
            /\ call[r].op = "edit" /\ belief'[l] # None => Opens(call[r].pass, hash'[l])
    BY DEF Sound, Spared, Opens
  <1> QED
    BY <1>1, <1>2, <1>3, <1>4 DEF Sound, Empty, Emptied, Opens

-----------------------------------------------------------------------------
(* A step of handler r in a call, before its answer.                        *)
Works(r) ==
    /\ call' = call /\ UNCHANGED client
    /\ \E label \in Labels \ {"idle"} : pc' = [pc EXCEPT ![r] = label]
    /\ reply' = reply \/ \E what \in {"ok", "error"} : reply' = [reply EXCEPT ![r] = what]
    /\ left' = left \/ \E S \in SUBSET Stores : left' = [left EXCEPT ![r] = S]
    /\ (hash' = hash /\ data' = data) \/ (Tail(call[r]) /\ Effect(call[r]))
    /\ \/ Smooth
       \/ /\ disturbed' = disturbed \cup {r}
          /\ \/ UNCHANGED late
             \/ \E q : /\ Tail(q) /\ late' = late \cup {q}
                       /\ \/ q = call[r]
                          \/ /\ call[r].op = "delete"
                             /\ q.op = "drop" /\ q.login = call[r].login

(* Of such a step it remains to see that the request is at one of its       *)
(* stages and, if it has not been disturbed, still sound.                   *)
LEMMA Work ==
    ASSUME IInv, NEW r \in Rpc, pc[r] # "idle", Works(r), OnStage(r)',
           Smooth /\ r \notin disturbed => Sound(r)'
    PROVE  IInv'
  <1>1. TypeOK /\ call[r] \in Requests
    BY Serving DEF IInv
  <1>2. /\ pc' \in [Rpc -> Labels] /\ pc'[r] # "idle"
        /\ reply' \in [Rpc -> {"ok", "error", None}]
        /\ left' \in [Rpc -> SUBSET Stores]
        /\ \A h \in Rpc \ {r} : pc'[h] = pc[h] /\ reply'[h] = reply[h] /\ left'[h] = left[h]
    <2>1. pc' \in [Rpc -> Labels] /\ pc'[r] # "idle" /\ \A h \in Rpc \ {r} : pc'[h] = pc[h]
      BY <1>1 DEF Works, TypeOK
    <2>2. reply' \in [Rpc -> {"ok", "error", None}] /\ \A h \in Rpc \ {r} : reply'[h] = reply[h]
      BY <1>1 DEF Works, TypeOK
    <2>3. left' \in [Rpc -> SUBSET Stores] /\ \A h \in Rpc \ {r} : left'[h] = left[h]
      BY <1>1 DEF Works, TypeOK
    <2> QED
      BY <2>1, <2>2, <2>3
  <1>3. /\ call' = call /\ session' = session /\ belief' = belief
        /\ disturbed \subseteq disturbed' /\ disturbed' \subseteq Rpc
    BY <1>1 DEF Works, client, Smooth, TypeOK
  <1>4. hash' \in [Logins -> Passes \cup {None}] /\ data' \in [Stores -> SUBSET Logins]
    <2>1. CASE hash' = hash /\ data' = data
      BY <1>1, <2>1 DEF TypeOK
    <2>2. CASE Tail(call[r]) /\ Effect(call[r])
      BY <1>1, <2>2, EffectType
    <2> QED
      BY <2>1, <2>2 DEF Works
  <1>5. \A q \in late' : q \in late \/ (Tail(q) /\ q.login = call[r].login
                                        /\ (q = call[r] \/ (q.op = "drop" /\ call[r].op = "delete")))
    BY DEF Works, Smooth
  <1>6. late' \subseteq Requests /\ \A q \in late' : Tail(q)
    BY <1>1, <1>5 DEF IInv, TypeOK, Tail
  <1>7. TypeOK'
    BY <1>1, <1>2, <1>3, <1>4, <1>6 DEF TypeOK
  <1>8. ASSUME NEW h \in Rpc \ {r} PROVE Handler(h)'
    <2>1. Handler(h) /\ OnStage(h)
      BY DEF IInv, Handler
    <2>2. OnStage(h)'
      BY <1>2, <1>3, <2>1 DEF OnStage
    <2>3. ASSUME pc'[h] # "idle", h \notin disturbed' PROVE Alone(h)' /\ Sound(h)'
      <3>1. Alone(h) /\ Sound(h) /\ pc[h] # "idle" /\ call[h] \in Requests
        BY <1>2, <1>3, <2>1, <2>3, Serving DEF Handler
      <3>2. ~Disturbs(call[r], call[h])
        BY <3>1 DEF Alone
      <3>3. \A q \in late' : ~Disturbs(q, call[h])
        BY <1>5, <3>1, <3>2 DEF Alone, Disturbs
      <3>4. Alone(h)'
        BY <1>2, <1>3, <3>1, <3>2, <3>3 DEF Alone, Disturbs
      <3>5. Spared(call[h])
        <4>1. CASE hash' = hash /\ data' = data
          BY <4>1 DEF Spared
        <4>2. CASE Tail(call[r]) /\ Effect(call[r])
          BY <1>1, <3>1, <3>2, <4>2, EffectSpares
        <4> QED
          BY <4>1, <4>2 DEF Works
      <3>6. Sound(h)'
        BY <1>2, <1>3, <2>1, <3>1, <3>5, SoundStays
      <3> QED
        BY <3>4, <3>6
    <2> QED
      BY <2>2, <2>3 DEF Handler
  <1>9. Handler(r)'
    <2>1. ASSUME r \notin disturbed' PROVE Alone(r)' /\ Sound(r)'
      <3>1. Smooth /\ r \notin disturbed
        BY <1>3, <2>1 DEF Works
      <3>2. Alone(r)
        BY <3>1 DEF IInv, Handler
      <3> QED
        BY <1>2, <1>3, <3>1, <3>2 DEF Alone, Disturbs, Smooth
    <2> QED
      BY <2>1 DEF Handler
  <1>10. ASSUME NEW l \in Logins PROVE Sure(l)'
    <2>1. InDoubt(l)' <=> InDoubt(l)
      BY <1>2, <1>3 DEF InDoubt, Busy
    <2> SUFFICES ASSUME belief[l] # None, ~InDoubt(l)
                 PROVE  Opens(belief[l], hash'[l]) /\ Clear(l)'
      BY <1>3, <2>1 DEF Sure, Opens
    <2>2. Opens(belief[l], hash[l]) /\ Clear(l)
      BY DEF IInv, Sure
    <2>3. call[r].login = l => call[r].op \notin {"edit", "delete"}
      BY DEF InDoubt, Busy
    <2>4. hash'[l] = hash[l]
      <3>1. CASE hash' = hash
        BY <3>1
      <3>2. CASE Tail(call[r]) /\ Effect(call[r])
        BY <1>1, <2>2, <2>3, <3>2, EffectKeeps DEF Opens
      <3> QED
        BY <3>1, <3>2 DEF Works
    <2>5. Clear(l)'
      BY <1>5, <2>2, <2>3 DEF Clear
    <2> QED
      BY <2>2, <2>4, <2>5
  <1> QED
    BY <1>6, <1>7, <1>8, <1>9, <1>10 DEF IInv

(* What a handler that is through with a statement has set.                 *)
LEMMA Answered ==
    ASSUME TypeOK, NEW r \in Rpc, NEW what \in {"ok", "error"}, Answer(r, what)
    PROVE  pc'[r] = "done" /\ reply'[r] = what
  BY DEF TypeOK, Answer

LEMMA Gone ==
    ASSUME TypeOK, NEW r \in Rpc, NEW label \in Labels, Goto(r, label)
    PROVE  pc'[r] = label /\ reply' = reply
  BY DEF TypeOK, Goto

(* The control part of a step that ends the call.                           *)
Over(r) == /\ \E label \in Labels \ {"idle"} : pc' = [pc EXCEPT ![r] = label]
           /\ \E what \in {"ok", "error"} : reply' = [reply EXCEPT ![r] = what]

LEMMA AnswerOver ==
    ASSUME NEW r \in Rpc, NEW what \in {"ok", "error"}, Answer(r, what)
    PROVE  Over(r)
  BY DEF Answer, Over, Labels

(* A statement that goes as it should, or not.                              *)
Meets(r, q) ==
    \/ Smooth
    \/ /\ disturbed' = disturbed \cup {r}
       /\ UNCHANGED late \/ late' = late \cup {q}

LEMMA FaultMeets ==
    ASSUME NEW r \in Rpc, NEW q, NEW kind,
           Smooth \/ Fault(r, kind) \/ NoEffect(r, q)
    PROVE  Meets(r, q)
  BY DEF Meets, Fault, NoEffect, LeftBehind, Struck, Smooth

(* The last step of a statement that ends the call: what Ends and Fails set. *)
LEMMA Ending ==
    ASSUME TypeOK, NEW r \in Rpc, Ends(r) \/ Fails(r)
    PROVE  /\ Over(r) /\ pc'[r] = "done" /\ reply'[r] \in {"ok", "error"}
           /\ Meets(r, call[r])
           /\ Fails(r) => reply'[r] = "error"
  <1>1. CASE Ends(r)
    <2>1. Over(r) /\ pc'[r] = "done" /\ reply'[r] \in {"ok", "error"}
      BY <1>1, Answered, AnswerOver DEF Ends
    <2>2. Meets(r, call[r])
      BY <1>1 DEF Ends, Meets, Fault, Struck
    <2>3. Fails(r) => reply'[r] = "error"
      BY Answered DEF Fails
    <2> QED
      BY <2>1, <2>2, <2>3
  <1>2. CASE Fails(r)
    BY <1>2, Answered, AnswerOver, FaultMeets DEF Fails
  <1> QED
    BY <1>1, <1>2

-----------------------------------------------------------------------------
(* One lemma per action.                                                    *)

LEMMA InitIInv == Init => IInv
  <1> SUFFICES ASSUME Init PROVE IInv
    OBVIOUS
  <1> USE DEF Init
  <1>1. TypeOK
    BY DEF TypeOK, Labels
  <1>2. ASSUME NEW r \in Rpc PROVE Handler(r)
    BY DEF Handler, OnStage
  <1>3. ASSUME NEW l \in Logins PROVE Sure(l)
    BY DEF Sure
  <1> QED
    BY <1>1, <1>2, <1>3 DEF IInv

LEMMA CallIInv ==
    ASSUME IInv, NEW r \in Rpc, NEW q \in Requests, Call(r, q)
    PROVE  IInv'
  <1> DEFINE l == q.login
  <1>1. /\ q # None /\ l \in Logins
        /\ q.op \in {"register", "login", "edit", "hash", "delete", "put", "drop"}
        /\ q.op \in {"register", "login", "edit"} => q.pass \in Passes \cup {LongPass}
    BY RequestFields
  <1>2. TypeOK /\ pc[r] = "idle" /\ Sure(l)
    BY <1>1 DEF Call, IInv
  <1>3. /\ call' = [call EXCEPT ![r] = q]
        /\ UNCHANGED <<hash, data, late, session, belief>>
        /\ \/ /\ Refused(q)
              /\ pc' = [pc EXCEPT ![r] = "done"] /\ reply' = [reply EXCEPT ![r] = "error"]
              /\ UNCHANGED left
           \/ /\ ~Refused(q)
              /\ pc' = [pc EXCEPT ![r] = FirstLabel[q.op]] /\ UNCHANGED reply
              /\ left' = [left EXCEPT ![r] = IF q.op = "delete" THEN Stores ELSE {}]
    BY DEF Call, Goto, Answer, client
  <1>4. /\ disturbed \subseteq disturbed' /\ disturbed' \subseteq Rpc
        /\ \A h \in Rpc : pc[h] # "idle" /\ Disturbs(q, call[h]) => h \in disturbed'
        /\ r \notin disturbed' =>
             /\ \A h \in Rpc : pc[h] # "idle" => ~Disturbs(call[h], q)
             /\ \A o \in late : ~Disturbs(o, q)
    BY <1>2 DEF Call, Busy, UnderWay, TypeOK
  <1>5. /\ FirstLabel[q.op] \in {"exist", "select", "update", "purge", "write"}
        /\ FirstLabel[q.op] = "exist" <=> q.op = "register"
        /\ FirstLabel[q.op] = "select" <=> q.op \in {"login", "hash"}
        /\ FirstLabel[q.op] = "update" <=> q.op = "edit"
        /\ FirstLabel[q.op] = "purge" <=> q.op = "delete"
        /\ FirstLabel[q.op] = "write" <=> q.op \in {"put", "drop"}
    BY <1>1 DEF FirstLabel
  <1>6. TypeOK'
    BY <1>2, <1>3, <1>4, <1>5 DEF TypeOK, Labels
  <1>7. /\ call'[r] = q /\ pc'[r] # "idle"
        /\ \A h \in Rpc \ {r} : /\ pc'[h] = pc[h] /\ call'[h] = call[h]
                                /\ left'[h] = left[h] /\ reply'[h] = reply[h]
    BY <1>2, <1>3, <1>5 DEF TypeOK
  <1>8. ASSUME NEW h \in Rpc \ {r} PROVE Handler(h)'
    <2>1. Handler(h)
      BY DEF IInv
    <2>2. OnStage(h)'
      BY <1>7, <2>1 DEF Handler, OnStage
    <2>3. ASSUME pc'[h] # "idle", h \notin disturbed' PROVE Alone(h)' /\ Sound(h)'
      <3>1. Alone(h) /\ Sound(h) /\ pc[h] # "idle" /\ ~Disturbs(q, call[h])
        BY <1>4, <1>7, <2>1, <2>3 DEF Handler
      <3>2. Alone(h)'
        BY <1>3, <1>7, <3>1 DEF Alone, Disturbs
      <3>3. Spared(call[h]) /\ OnStage(h)
        BY <1>3, <2>1 DEF Spared, Handler
      <3>4. Sound(h)'
        BY <1>3, <1>7, <3>1, <3>3, SoundStays
      <3> QED
        BY <3>2, <3>4
    <2> QED
      BY <2>2, <2>3 DEF Handler
  <1>9. Handler(r)'
    <2>1. ASSUME r \notin disturbed' PROVE Alone(r)'
      BY <1>3, <1>4, <1>7, <2>1 DEF Alone, Disturbs
    <2>2. CASE Refused(q)
      <3>1. pc'[r] = "done" /\ reply'[r] = "error"
        BY <2>2, <1>2, <1>3 DEF TypeOK
      <3>2. OnStage(r)' /\ Sound(r)'
        BY <3>1, <1>1, <1>7 DEF OnStage, Sound, Emptied
      <3> QED
        BY <2>1, <3>2 DEF Handler
    <2>3. CASE ~Refused(q)
      <3>1. pc'[r] = FirstLabel[q.op] /\ (q.op = "delete" => left'[r] = Stores)
        BY <2>3, <1>2, <1>3 DEF TypeOK
      <3>2. q.op \in {"register", "edit"} => q.pass \in Passes
        BY <2>3, <1>1 DEF Refused
      <3>3. OnStage(r)'
        BY <3>1, <3>2, <1>1, <1>5, <1>7 DEF OnStage
      <3>4. ASSUME r \notin disturbed' PROVE Sound(r)'
        <4>1. q.op = "edit" => ~InDoubt(l)
          BY <1>4, <3>4 DEF InDoubt, Busy, Disturbs
        <4>2. q.op = "edit" /\ belief[l] # None => hash[l] # None
          BY <1>2, <4>1 DEF Sure, Opens
        <4> QED
          BY <3>1, <4>2, <1>3, <1>5, <1>7 DEF Sound, Emptied
      <3> QED
        BY <2>1, <3>3, <3>4 DEF Handler
    <2> QED
      BY <2>2, <2>3
  <1>10. ASSUME NEW k \in Logins PROVE Sure(k)'
    <2>1. InDoubt(k) => InDoubt(k)'
      BY <1>2, <1>7 DEF InDoubt, Busy
    <2> QED
      BY <1>3, <2>1 DEF IInv, Sure, Opens, Clear
  <1> QED
    BY <1>3, <1>6, <1>8, <1>9, <1>10 DEF IInv

LEMMA ExistIInv ==
    ASSUME IInv, NEW r \in Rpc, Exist(r)
    PROVE  IInv'
  <1>1. /\ pc[r] = "exist" /\ call[r] \in Requests /\ call[r].login \in Logins
        /\ TypeOK /\ Handler(r) /\ OnStage(r)
    BY Serving DEF Exist, IInv, Handler
  <1>2. /\ call' = call /\ UNCHANGED <<hash, data, left, session, belief>>
        /\ \/ pc'[r] = "insert" /\ hash[call[r].login] = None
           \/ pc'[r] = "done" /\ reply'[r] = "error"
    BY <1>1, Answered, Gone DEF Exist, client, Labels
  <1>3. Works(r)
    <2>1. Smooth \/ (disturbed' = disturbed \cup {r} /\ UNCHANGED late)
      BY DEF Exist, Fault, Struck
    <2>2. \E label \in Labels \ {"idle"} : pc' = [pc EXCEPT ![r] = label]
      BY DEF Exist, Goto, Answer, Labels
    <2>3. reply' = reply \/ \E what \in {"ok", "error"} : reply' = [reply EXCEPT ![r] = what]
      BY DEF Exist, Goto, Answer
    <2> QED
      BY <1>2, <2>1, <2>2, <2>3 DEF Works, client
  <1>4. OnStage(r)'
    BY <1>1, <1>2 DEF OnStage
  <1>5. Sound(r)'
    BY <1>2 DEF Sound, Emptied
  <1> QED
    BY <1>1, <1>3, <1>4, <1>5, Work

LEMMA InsertIInv ==
    ASSUME IInv, NEW r \in Rpc, Insert(r)
    PROVE  IInv'
  <1>1. /\ pc[r] = "insert" /\ call[r] \in Requests /\ call[r].login \in Logins
        /\ TypeOK /\ Handler(r) /\ OnStage(r)
    BY Serving DEF Insert, IInv, Handler
  <1>2. /\ call' = call /\ UNCHANGED <<data, left, session, belief>>
        /\ pc'[r] = "done" /\ reply'[r] = "ok" /\ Over(r)
        /\ call[r].op = "register" /\ call[r].pass \in Passes
    BY <1>1, Answered, AnswerOver DEF Insert, client, OnStage
  <1>3. Tail(call[r])
    BY <1>1, <1>2 DEF Tail
  <1>4. Works(r)
    <2>1. Meets(r, call[r])
      BY FaultMeets DEF Insert
    <2>2. hash' = hash \/ hash' = Changed(call[r])
      BY DEF Insert
    <2> QED
      BY <1>2, <1>3, <2>1, <2>2 DEF Works, Over, Meets, Effect, client
  <1>5. OnStage(r)'
    BY <1>1, <1>2 DEF OnStage
  <1>6. ASSUME Smooth, r \notin disturbed PROVE Sound(r)'
    <2>1. Sound(r)
      BY <1>1, <1>6 DEF Handler
    <2>2. hash' = Changed(call[r])
      BY <1>6 DEF Insert, Smooth, NoEffect, Fault, LeftBehind, Struck
    <2>3. hash'[call[r].login] = call[r].pass
      BY <1>1, <1>2, <2>1, <2>2 DEF Sound, Changed, TypeOK
    <2>4. Opens(call[r].pass, call[r].pass)
      BY <1>2, AccountAssumption DEF Opens
    <2> QED
      BY <1>2, <2>3, <2>4 DEF Sound, Emptied, Opens
  <1> QED
    BY <1>1, <1>4, <1>5, <1>6, Work

LEMMA SelectIInv ==
    ASSUME IInv, NEW r \in Rpc, Select(r)
    PROVE  IInv'
  <1>1. /\ pc[r] = "select" /\ call[r] \in Requests /\ call[r].login \in Logins
        /\ TypeOK /\ Handler(r) /\ OnStage(r)
    BY Serving DEF Select, IInv, Handler
  <1> DEFINE fine == /\ hash[call[r].login] # None
                     /\ call[r].op = "login" => Matches(call[r])
             what == IF fine THEN "ok" ELSE "error"
  <1>2. /\ call' = call /\ UNCHANGED <<hash, data, left, session, belief>>
        /\ Answer(r, "error") \/ Answer(r, what)
        /\ Smooth \/ (disturbed' = disturbed \cup {r} /\ UNCHANGED late)
    BY DEF Select, client, Fault, Struck
  <1>3. /\ pc'[r] = "done" /\ reply'[r] \in {"ok", "error"} /\ Over(r)
        /\ reply'[r] = "ok" => fine
    BY <1>1, <1>2, Answered, AnswerOver
  <1>4. Works(r)
    BY <1>2, <1>3 DEF Works, Over, client
  <1>5. OnStage(r)'
    BY <1>1, <1>2, <1>3 DEF OnStage
  <1>6. Sound(r)'
    BY <1>1, <1>2, <1>3 DEF Sound, Emptied, OnStage, Matches, Opens
  <1> QED
    BY <1>1, <1>4, <1>5, <1>6, Work

LEMMA UpdateIInv ==
    ASSUME IInv, NEW r \in Rpc, Update(r)
    PROVE  IInv'
  <1>1. /\ pc[r] = "update" /\ call[r] \in Requests /\ call[r].login \in Logins
        /\ TypeOK /\ Handler(r) /\ OnStage(r)
    BY Serving DEF Update, IInv, Handler
  <1>2. /\ call' = call /\ UNCHANGED <<data, left, session, belief>>
        /\ pc'[r] = "done" /\ reply'[r] \in {"ok", "error"} /\ Over(r)
        /\ Meets(r, call[r])
        /\ call[r].op = "edit" /\ call[r].pass \in Passes
        /\ hash' = hash \/ hash' = Changed(call[r])
        /\ reply'[r] = "ok" => hash' = Changed(call[r])
    BY <1>1, Ending DEF Update, client, OnStage
  <1>3. Tail(call[r])
    BY <1>1, <1>2 DEF Tail
  <1>4. Works(r)
    BY <1>2, <1>3 DEF Works, Over, Meets, Effect, client
  <1>5. OnStage(r)'
    BY <1>1, <1>2 DEF OnStage
  <1>6. ASSUME r \notin disturbed PROVE Sound(r)'
    <2>1. Sound(r)
      BY <1>1, <1>6 DEF Handler
    <2>2. reply'[r] = "ok" /\ belief[call[r].login] # None => hash'[call[r].login] = call[r].pass
      BY <1>1, <1>2, <2>1 DEF Sound, Changed, TypeOK
    <2>3. Opens(call[r].pass, call[r].pass)
      BY <1>2, AccountAssumption DEF Opens
    <2> QED
      BY <1>2, <2>2, <2>3 DEF Sound, Emptied, Opens
  <1> QED
    BY <1>1, <1>4, <1>5, <1>6, Work

LEMMA PurgeIInv ==
    ASSUME IInv, NEW r \in Rpc, Purge(r)
    PROVE  IInv'
  <1>1. /\ pc[r] = "purge" /\ call[r] \in Requests /\ call[r].login \in Logins
        /\ TypeOK /\ Handler(r) /\ OnStage(r) /\ call[r].op = "delete"
    BY Serving DEF Purge, IInv, Handler, OnStage
  <1> DEFINE l == call[r].login
  <1>2. PICK s \in left[r] :
            /\ left' = [left EXCEPT ![r] = @ \ {s}]
            /\ Goto(r, IF left[r] = {s} THEN "deleteUser" ELSE "purge")
            /\ \/ /\ data' = [data EXCEPT ![s] = @ \ {l}]
                  /\ Smooth \/ Fault(r, "ack")
               \/ UNCHANGED data /\ NoEffect(r, Dropping(l, s))
    BY DEF Purge
  <1>3. /\ s \in Stores /\ left[r] \ {s} \in SUBSET Stores
        /\ left'[r] = left[r] \ {s}
        /\ left[r] \subseteq Stores
    BY <1>1, <1>2 DEF TypeOK
  <1>4. /\ call' = call /\ UNCHANGED <<hash, session, belief>>
        /\ pc'[r] = IF left[r] = {s} THEN "deleteUser" ELSE "purge"
        /\ reply' = reply
    BY <1>1, <1>2, Gone DEF Purge, client, Labels
  <1>5. Works(r)
    <2>1. \E label \in Labels \ {"idle"} : pc' = [pc EXCEPT ![r] = label]
      BY <1>2 DEF Goto, Labels
    <2>2. \E S \in SUBSET Stores : left' = [left EXCEPT ![r] = S]
      BY <1>2, <1>3
    <2>3. Tail(call[r]) /\ Effect(call[r])
      BY <1>1, <1>2, <1>3, <1>4 DEF Tail, Effect
    <2>4. Meets(r, Dropping(l, s))
      BY <1>2, FaultMeets
    <2>5. /\ Tail(Dropping(l, s)) /\ Dropping(l, s).op = "drop"
          /\ Dropping(l, s).login = l
      BY <1>1, <1>3, DroppingIsTail
    <2> QED
      BY <1>1, <1>4, <2>1, <2>2, <2>3, <2>4, <2>5 DEF Works, Meets, client
  <1>6. OnStage(r)'
    BY <1>1, <1>4 DEF OnStage
  <1>7. ASSUME Smooth, r \notin disturbed PROVE Sound(r)'
    <2>1. Sound(r)
      BY <1>1, <1>7 DEF Handler
    <2>2. data' = [data EXCEPT ![s] = @ \ {l}]
      BY <1>2, <1>7 DEF Smooth, NoEffect, Fault, LeftBehind, Struck
    <2>3. \A t \in Stores \ left'[r] : l \notin data'[t]
      BY <1>1, <1>3, <2>1, <2>2 DEF Sound, TypeOK
    <2>4. left[r] = {s} => left'[r] = {}
      BY <1>3
    <2> QED
      BY <1>4, <2>3, <2>4 DEF Sound, Emptied, Empty
  <1> QED
    BY <1>1, <1>5, <1>6, <1>7, Work

LEMMA DeleteUserIInv ==
    ASSUME IInv, NEW r \in Rpc, DeleteUser(r)
    PROVE  IInv'
  <1>1. /\ pc[r] = "deleteUser" /\ call[r] \in Requests /\ call[r].login \in Logins
        /\ TypeOK /\ Handler(r) /\ OnStage(r)
    BY Serving DEF DeleteUser, IInv, Handler
  <1>2. /\ call' = call /\ UNCHANGED <<data, left, session, belief>>
        /\ pc'[r] = "done" /\ reply'[r] \in {"ok", "error"} /\ Over(r)
        /\ Meets(r, call[r])
        /\ call[r].op = "delete"
        /\ hash' = hash \/ hash' = Changed(call[r])
        /\ reply'[r] = "ok" => hash' = Changed(call[r])
    BY <1>1, Ending DEF DeleteUser, client, OnStage
  <1>3. Tail(call[r])
    BY <1>1, <1>2 DEF Tail
  <1>4. Works(r)
    BY <1>2, <1>3 DEF Works, Over, Meets, Effect, client
  <1>5. OnStage(r)'
    BY <1>1, <1>2 DEF OnStage
  <1>6. ASSUME r \notin disturbed PROVE Sound(r)'
    <2>1. Sound(r)
      BY <1>1, <1>6 DEF Handler
    <2>2. reply'[r] = "ok" => hash'[call[r].login] = None
      BY <1>1, <1>2 DEF Changed, TypeOK
    <2> QED
      BY <1>1, <1>2, <2>1, <2>2 DEF Sound, Emptied, Empty
  <1> QED
    BY <1>1, <1>4, <1>5, <1>6, Work

LEMMA WriteIInv ==
    ASSUME IInv, NEW r \in Rpc, Write(r)
    PROVE  IInv'
  <1>1. /\ pc[r] = "write" /\ call[r] \in Requests /\ call[r].login \in Logins
        /\ TypeOK /\ Handler(r) /\ OnStage(r)
    BY Serving DEF Write, IInv, Handler
  <1>2. /\ call' = call /\ UNCHANGED <<hash, left, session, belief>>
        /\ pc'[r] = "done" /\ Over(r)
        /\ Meets(r, call[r])
        /\ call[r].op \in {"put", "drop"}
        /\ data' = data \/ data' = Written(call[r])
    BY <1>1, Ending DEF Write, client, OnStage
  <1>3. Tail(call[r])
    BY <1>1, <1>2 DEF Tail
  <1>4. Works(r)
    BY <1>2, <1>3 DEF Works, Over, Meets, Effect, client
  <1>5. OnStage(r)'
    BY <1>1, <1>2 DEF OnStage
  <1>6. Sound(r)'
    BY <1>2 DEF Sound, Emptied
  <1> QED
    BY <1>1, <1>4, <1>5, <1>6, Work

(* The caller learns the answer: only now a belief changes, and a call that *)
(* has not been disturbed confirms what the account is.                     *)
LEMMA ReturnIInv ==
    ASSUME IInv, NEW r \in Rpc, Return(r)
    PROVE  IInv'
  <1>0. call[r] \in Requests /\ call[r].login \in Logins
    BY Serving DEF Return
  <1> SUFFICES ASSUME NEW q \in Requests, NEW l \in Logins, q = call[r], l = q.login
               PROVE  IInv'
    BY <1>0
  <1>1. PICK ok \in BOOLEAN : Learns(r, q, ok) /\ (ok => reply[r] = "ok")
    BY DEF Return
  <1>2. /\ pc' = [pc EXCEPT ![r] = "idle"]
        /\ call' = [call EXCEPT ![r] = None]
        /\ left' = [left EXCEPT ![r] = {}]
        /\ reply' = [reply EXCEPT ![r] = None]
        /\ disturbed' = disturbed \ {r}
        /\ UNCHANGED <<hash, data, late>>
    BY DEF Return
  <1>3. /\ q.op \in {"register", "login", "edit", "hash", "delete", "put", "drop"}
        /\ q.op \in {"register", "login", "edit"} => q.pass \in Passes \cup {LongPass}
        /\ pc[r] = "done" /\ Handler(r) /\ TypeOK
    BY RequestFields DEF Return, IInv
  <1> DEFINE confirmed == /\ ok /\ r \notin disturbed
                          /\ \/ q.op \in {"register", "login"}
                             \/ q.op = "edit" /\ belief[l] # None
  <1>4. /\ belief' = IF confirmed THEN [belief EXCEPT ![l] = q.pass]
                     ELSE IF q.op \in {"edit", "delete"} THEN [belief EXCEPT ![l] = None]
                     ELSE belief
        /\ session' \subseteq Logins
    BY <1>1, <1>3 DEF Learns, TypeOK
  <1>5. /\ belief' \in [Logins -> Passes \cup {LongPass, None}]
        /\ \A k \in Logins \ {l} : belief'[k] = belief[k]
        /\ confirmed => belief'[l] = q.pass
        /\ ~confirmed => belief'[l] = IF q.op \in {"edit", "delete"} THEN None ELSE belief[l]
    BY <1>3, <1>4 DEF TypeOK
  <1>6. confirmed => Alone(r) /\ Opens(q.pass, hash[l])
    BY <1>1, <1>3 DEF Handler, Sound
  <1> HIDE DEF confirmed
  <1>7. TypeOK'
    BY <1>2, <1>3, <1>4, <1>5 DEF TypeOK, Labels
  <1>8. /\ pc'[r] = "idle" /\ call'[r] = None
        /\ \A h \in Rpc \ {r} : /\ pc'[h] = pc[h] /\ call'[h] = call[h]
                                /\ left'[h] = left[h] /\ reply'[h] = reply[h]
    BY <1>2, <1>3 DEF TypeOK
  <1>9. Handler(r)'
    BY <1>8 DEF Handler, OnStage
  <1>10. ASSUME NEW h \in Rpc \ {r} PROVE Handler(h)'
    <2>1. Handler(h)
      BY DEF IInv
    <2>2. OnStage(h)'
      BY <1>8, <2>1 DEF Handler, OnStage
    <2>3. ASSUME pc'[h] # "idle", h \notin disturbed' PROVE Alone(h)' /\ Sound(h)'
      <3>1. Alone(h) /\ Sound(h) /\ pc[h] # "idle" /\ OnStage(h) /\ call[h].login \in Logins
        BY <1>2, <1>8, <2>1, <2>3, Serving DEF Handler
      <3>2. Alone(h)'
        BY <1>2, <1>8, <3>1 DEF Alone, Disturbs
      <3>3. call[h].op = "edit" =>
              belief'[call[h].login] = belief[call[h].login] \/ belief'[call[h].login] = None
        <4>1. call[h].op = "edit" /\ call[h].login = l => ~confirmed
          BY <1>6, <3>1 DEF Alone, Disturbs
        <4> QED
          BY <1>5, <3>1, <4>1
      <3>4. Spared(call[h])
        BY <1>2 DEF Spared
      <3>5. Sound(h)'
        BY <1>8, <3>1, <3>3, <3>4, SoundStays
      <3> QED
        BY <3>2, <3>5
    <2> QED
      BY <2>2, <2>3 DEF Handler
  <1>11. ASSUME NEW k \in Logins PROVE Sure(k)'
    <2>0. Sure(k)
      BY DEF IInv
    <2>1. CASE k = l /\ confirmed
      <3>1. Clear(l)
        BY <1>6, <2>1 DEF Clear, Alone, Disturbs
      <3> QED
        BY <1>2, <1>5, <1>6, <2>1, <3>1 DEF Sure, Opens, Clear
    <2>2. CASE k = l /\ ~confirmed /\ q.op \in {"edit", "delete"}
      BY <1>5, <2>2 DEF Sure
    <2>3. CASE k # l \/ (~confirmed /\ q.op \notin {"edit", "delete"})
      <3>1. InDoubt(k)' <=> InDoubt(k)
        BY <1>8, <2>3 DEF InDoubt, Busy
      <3>2. belief'[k] = belief[k]
        BY <1>5, <2>3
      <3> QED
        BY <1>2, <2>0, <3>1, <3>2 DEF Sure, Opens, Clear
    <2> QED
      BY <2>1, <2>2, <2>3
  <1> QED
    BY <1>2, <1>7, <1>9, <1>10, <1>11 DEF IInv

(* A late statement touches nothing that a call without disturbance or a    *)
(* belief rests on.                                                         *)
LEMMA LandIInv ==
    ASSUME IInv, NEW q \in late, Land(q)
    PROVE  IInv'
  <1>1. TypeOK /\ Tail(q)
    BY DEF IInv
  <1>2. /\ UNCHANGED <<pc, call, left, reply, session, belief, disturbed>>
        /\ late' \subseteq late /\ Effect(q)
    BY DEF Land, client, Effect
  <1>3. TypeOK' /\ \A o \in late' : Tail(o)
    BY <1>1, <1>2, EffectType DEF IInv, TypeOK
  <1>4. ASSUME NEW h \in Rpc PROVE Handler(h)'
    <2>1. Handler(h) /\ OnStage(h)
      BY DEF IInv, Handler
    <2>2. ASSUME pc[h] # "idle", h \notin disturbed PROVE Alone(h)' /\ Sound(h)'
      <3>1. Alone(h) /\ Sound(h) /\ call[h] \in Requests /\ ~Disturbs(q, call[h])
        BY <2>1, <2>2, Serving DEF Handler, Alone
      <3>2. Spared(call[h])
        BY <1>1, <1>2, <3>1, EffectSpares
      <3>3. Sound(h)'
        BY <1>2, <2>1, <2>2, <3>1, <3>2, SoundStays
      <3> QED
        BY <1>2, <3>1, <3>3 DEF Alone, Disturbs
    <2> QED
      BY <1>2, <2>1, <2>2 DEF Handler, OnStage
  <1>5. ASSUME NEW l \in Logins PROVE Sure(l)'
    <2>1. InDoubt(l)' <=> InDoubt(l)
      BY <1>2 DEF InDoubt, Busy
    <2> SUFFICES ASSUME belief[l] # None, ~InDoubt(l)
                 PROVE  Opens(belief[l], hash'[l]) /\ Clear(l)'
      BY <1>2, <2>1 DEF Sure, Opens
    <2>2. Opens(belief[l], hash[l]) /\ Clear(l)
      BY DEF IInv, Sure
    <2>3. hash'[l] = hash[l]
      BY <1>1, <1>2, <2>2, EffectKeeps DEF Opens, Clear
    <2> QED
      BY <1>2, <2>2, <2>3 DEF Clear
  <1> QED
    BY <1>3, <1>4, <1>5 DEF IInv

LEMMA ExpireIInv ==
    ASSUME IInv, NEW l \in Logins, Expire(l)
    PROVE  IInv'
  <1> USE DEF Expire
  <1>1. TypeOK' /\ \A q \in late' : Tail(q)
    BY DEF IInv, TypeOK
  <1>2. ASSUME NEW r \in Rpc PROVE Handler(r)'
    BY DEF IInv, Handler, OnStage, Alone, Disturbs, Sound, Empty, Emptied, Opens
  <1>3. ASSUME NEW k \in Logins PROVE Sure(k)'
    BY DEF IInv, Sure, InDoubt, Busy, Opens, Clear
  <1> QED
    BY <1>1, <1>2, <1>3 DEF IInv

LEMMA CrashIInv ==
    ASSUME IInv, Crash
    PROVE  IInv'
  <1>1. TypeOK
    BY DEF IInv
  <1>2. /\ pc' = [r \in Rpc |-> "idle"] /\ call' = [r \in Rpc |-> None]
        /\ left' = [r \in Rpc |-> {}] /\ reply' = [r \in Rpc |-> None]
        /\ belief' = [l \in Logins |-> IF InDoubt(l) THEN None ELSE belief[l]]
        /\ disturbed' = {} /\ UNCHANGED <<hash, data, session>>
    BY DEF Crash
  <1>3. \A q \in late' : q \in late \/ \E r \in Rpc : q \in Running(r)
    BY DEF Crash
  <1>4. ASSUME NEW r \in Rpc, NEW q \in Running(r)
        PROVE  /\ Tail(q)
               /\ q.op \in {"edit", "delete"} => InDoubt(q.login)
    <2>1. pc[r] \in {"insert", "update", "deleteUser", "write", "purge"}
      BY DEF Running
    <2>2. call[r] \in Requests /\ call[r].login \in Logins /\ OnStage(r)
      BY <2>1, Serving DEF IInv, Handler
    <2>3. CASE pc[r] # "purge"
      <3>1. q = call[r]
        BY <2>1, <2>3 DEF Running
      <3>2. Tail(q)
        BY <2>1, <2>2, <2>3, <3>1 DEF OnStage, Tail
      <3> QED
        BY <2>1, <3>1, <3>2 DEF InDoubt, Busy
    <2>4. CASE pc[r] = "purge"
      <3>1. PICK s \in left[r] : q = Dropping(call[r].login, s)
        BY <2>4 DEF Running
      <3>2. s \in Stores
        BY <1>1 DEF TypeOK
      <3> QED
        BY <2>2, <3>1, <3>2, DroppingIsTail
    <2> QED
      BY <2>3, <2>4
  <1>5. \A q \in late' : Tail(q)
    BY <1>3, <1>4 DEF IInv
  <1>6. TypeOK'
    BY <1>1, <1>2, <1>5 DEF TypeOK, Labels, Tail
  <1>7. ASSUME NEW r \in Rpc PROVE Handler(r)'
    BY <1>2 DEF Handler, OnStage
  <1>8. ASSUME NEW l \in Logins PROVE Sure(l)'
    <2> SUFFICES ASSUME belief'[l] # None
                 PROVE  Opens(belief'[l], hash'[l]) /\ Clear(l)'
      BY DEF Sure
    <2>1. ~InDoubt(l) /\ belief'[l] = belief[l]
      BY <1>2
    <2>2. Opens(belief[l], hash[l]) /\ Clear(l)
      BY <2>1 DEF IInv, Sure
    <2>3. Clear(l)'
      BY <1>3, <1>4, <2>1, <2>2 DEF Clear
    <2> QED
      BY <1>2, <2>1, <2>2, <2>3
  <1> QED
    BY <1>5, <1>6, <1>7, <1>8 DEF IInv

LEMMA StepIInv == IInv /\ [Next]_vars => IInv'
  <1> SUFFICES ASSUME IInv, [Next]_vars PROVE IInv'
    OBVIOUS
  <1>1. CASE UNCHANGED vars
    <2> USE <1>1 DEF vars
    <2>1. TypeOK' /\ \A q \in late' : Tail(q)
      BY DEF IInv, TypeOK
    <2>2. ASSUME NEW r \in Rpc PROVE Handler(r)'
      BY DEF IInv, Handler, OnStage, Alone, Disturbs, Sound, Empty, Emptied, Opens
    <2>3. ASSUME NEW k \in Logins PROVE Sure(k)'
      BY DEF IInv, Sure, InDoubt, Busy, Opens, Clear
    <2> QED
      BY <2>1, <2>2, <2>3 DEF IInv
  <1>2. ASSUME NEW r \in Rpc, NEW q \in Requests, Call(r, q) PROVE IInv'
    BY <1>2, CallIInv
  <1>3. ASSUME NEW r \in Rpc, Step(r) PROVE IInv'
    BY <1>3, ExistIInv, InsertIInv, SelectIInv, UpdateIInv, PurgeIInv, DeleteUserIInv,
       WriteIInv, ReturnIInv DEF Step
  <1>4. ASSUME NEW q \in late, Land(q) PROVE IInv'
    BY <1>4, LandIInv
  <1>5. ASSUME NEW l \in Logins, Expire(l) PROVE IInv'
    BY <1>5, ExpireIInv
  <1>6. CASE Crash
    BY <1>6, CrashIInv
  <1> QED
    BY <1>1, <1>2, <1>3, <1>4, <1>5, <1>6 DEF Next

-----------------------------------------------------------------------------
(* The theorems                                                             *)

(* The inductive invariant holds for any clients and every fault.           *)
THEOREM Invariance == Spec => []IInv
  <1> QED
    BY StepIInv, InitIInv, PTL DEF Spec

(* Type correctness: no password that bcrypt rejects is ever stored.        *)
THEOREM TypeCorrect == Spec => []TypeOK
  <1>1. IInv => TypeOK
    BY DEF IInv
  <1> QED
    BY <1>1, Invariance, PTL

(* A DeleteUser without fault and conflicting call has emptied all stores   *)
(* when it answers, whatever was left behind before it.                     *)
THEOREM DeletesAll == Spec => []CleanDeleteLeavesNothing
  <1>1. ASSUME IInv, NEW r \in Rpc \ disturbed PROVE Emptied(r)
    <2>1. Handler(r)
      BY <1>1 DEF IInv
    <2> QED
      BY <1>1, <2>1 DEF Handler, Sound, Emptied
  <1>2. IInv => CleanDeleteLeavesNothing
    BY <1>1 DEF CleanDeleteLeavesNothing
  <1> QED
    BY <1>2, Invariance, PTL

(* A password that was confirmed opens the account until somebody asks for  *)
(* a change, whatever else happens.                                         *)
THEOREM ToldTheTruth == Spec => []BeliefsHold
  <1>1. IInv => BeliefsHold
    BY DEF IInv, Sure, BeliefsHold
  <1> QED
    BY <1>1, Invariance, PTL
=============================================================================
