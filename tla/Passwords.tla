------------------------------ MODULE Passwords ------------------------------
(***************************************************************************)
(* The password service of the goKeeper server: SavePassword, GetPassword, *)
(* EditPassword, DeletePassword (internal/service/grpc_server_password.go) *)
(* and the password part of DeleteUser over the table `passwords'.         *)
(*                                                                         *)
(* Every SQL statement is one atomic step.  Only SavePassword needs two: a *)
(* SELECT that looks for the record and an INSERT, without a transaction.  *)
(***************************************************************************)

CONSTANTS
    Rpc,     \* the handler goroutines that may run at the same time
    Logins,  \* values of PasswordData.login
    Metas,   \* values of PasswordData.metadata
    Pairs,   \* encrypted login/password pairs
    Faults,  \* what may go wrong, a subset of {"db", "ack", "late", "crash"}
    None     \* no request, no reply, no data

(* "db": a statement fails and changes nothing; "ack": it takes effect but  *)
(* the caller gets an error; "late": it outlasts its context, the caller    *)
(* gets an error and the statement may take effect at any later time;       *)
(* "crash": the process is killed.                                          *)
ASSUME PasswordsAssumption == Faults \subseteq {"db", "ack", "late", "crash"}

Row == [login : Logins, pair : Pairs, meta : Metas]
Requests ==
    [op : {"save", "edit"}, login : Logins, meta : Metas, value : Pairs]
    \cup [op : {"get", "delete"}, login : Logins, meta : Metas]
    \cup [op : {"purge"}, login : Logins]
Replies == [ok : BOOLEAN, data : Pairs \cup {None}]

(* The marker for nothing is no request, no reply and no pair.              *)
ASSUME NoneAssumption == None \notin Requests \cup Replies \cup Pairs

VARIABLES
    passwords,  \* the rows of table passwords
    pc,         \* pc[r]: "idle", the statement that handler r runs next, "done", or
                \* "late": r has answered with an error, its statement still runs
    call,       \* call[r]: the request that r serves
    reply       \* reply[r]: what r answers, known when its last statement is over

(* History: the keys under which two INSERTs have been under way at once,   *)
(* since they were last deleted.                                            *)
VARIABLE raced

vars == <<passwords, pc, call, reply, raced>>

Init ==
    /\ passwords = {}
    /\ pc = [r \in Rpc |-> "idle"]
    /\ call = [r \in Rpc |-> None]
    /\ reply = [r \in Rpc |-> None]
    /\ raced = {}

-----------------------------------------------------------------------------
Fault(kind) == kind \in Faults

(* Operators named Bad... are faulty variants that no definition uses; they  *)
(* serve to show that a property notices the fault (README, "Mutants").      *)
BadHit(r) == {p \in passwords : p.meta = call[r].meta}

(* WHERE p_login = l AND p_metadata = m                                     *)
RowsAt(l, m) == {p \in passwords : p.login = l /\ p.meta = m}
Hit(r) == RowsAt(call[r].login, call[r].meta)

(* PRIMARY KEY (p_pair, p_metadata)                                         *)
KeyFree(row, others) == \A p \in others : ~(p.pair = row.pair /\ p.meta = row.meta)

(* AES-GCM seals each pair under a new random nonce: a ciphertext that a    *)
(* client sends differs from every one sent before and still around.        *)
Fresh(pair) ==
    /\ \A p \in passwords : p.pair # pair
    /\ \A r \in Rpc : pc[r] # "idle" /\ call[r].op \in {"save", "edit"} =>
                        call[r].value # pair

Answer(r, ok, data) ==
    /\ pc' = [pc EXCEPT ![r] = "done"]
    /\ reply' = [reply EXCEPT ![r] = [ok |-> ok, data |-> data]]
    /\ UNCHANGED call

Succeed(r) == Answer(r, TRUE, None)
Fail(r) == Answer(r, FALSE, None)

(* The key a request names, and whether an INSERT of handler r is to come   *)
(* or under way.                                                            *)
Key(q) == <<q.login, q.meta>>
Inserting(r) == pc[r] = "insert" \/ (pc[r] = "late" /\ call[r].op = "save")
InsertsAt(k) == {r \in Rpc : Inserting(r) /\ Key(call[r]) = k}

-----------------------------------------------------------------------------
FirstLabel == [save |-> "exist", get |-> "select", edit |-> "update",
               delete |-> "delete", purge |-> "deleteAll"]

(* Any client may make any call at any time.                                *)
Call(r, q) ==
    /\ pc[r] = "idle"
    /\ q.op \in {"save", "edit"} => Fresh(q.value)
    /\ pc' = [pc EXCEPT ![r] = FirstLabel[q.op]]
    /\ call' = [call EXCEPT ![r] = q]
    /\ UNCHANGED <<passwords, reply, raced>>

Return(r) ==
    /\ pc[r] = "done"
    /\ pc' = [pc EXCEPT ![r] = "idle"]
    /\ call' = [call EXCEPT ![r] = None]
    /\ reply' = [reply EXCEPT ![r] = None]
    /\ UNCHANGED <<passwords, raced>>

(* Without the check.                                                       *)
BadExist(r) ==
    /\ pc[r] = "exist"
    /\ pc' = [pc EXCEPT ![r] = "insert"]
    /\ UNCHANGED <<passwords, call, reply, raced>>

(* IsExist of InsertPassword; an error counts as "exists".                  *)
Exist(r) ==
    /\ pc[r] = "exist"
    /\ \/ /\ Hit(r) = {}
          /\ pc' = [pc EXCEPT ![r] = "insert"]
          /\ raced' = raced \cup {k \in {Key(call[r])} : InsertsAt(k) # {}}
          /\ UNCHANGED <<call, reply>>
       \/ (Hit(r) # {} \/ Fault("db")) /\ Fail(r) /\ UNCHANGED raced
    /\ UNCHANGED passwords

(* The context of the call is over, by its timeout or because the client    *)
(* has gone, while the database is at the statement.                        *)
Changing == {"insert", "update", "delete", "deleteAll"}
TimeOut(r) ==
    /\ Fault("late") /\ pc[r] \in Changing
    /\ pc' = [pc EXCEPT ![r] = "late"]
    /\ UNCHANGED <<passwords, call, reply, raced>>

(* The statement of handler r is under way, in time or late; it takes       *)
(* effect; it comes to nothing.                                             *)
Runs(r, op, label) == call[r] # None /\ call[r].op = op /\ pc[r] \in {label, "late"}
TakesEffect(r) ==
    \/ pc[r] # "late" /\ Succeed(r)
    \/ (pc[r] = "late" \/ Fault("ack")) /\ Fail(r)
ComesToNothing(r, fits) ==
    /\ ~fits \/ Fault("db") \/ pc[r] = "late"
    /\ Fail(r)
    /\ UNCHANGED <<passwords, raced>>

(* The pair under the wrong key of the request.                             *)
BadNewRow(q) == [login |-> q.login, pair |-> q.meta, meta |-> q.meta]
NewRow(q) == [login |-> q.login, pair |-> q.value, meta |-> q.meta]

(* The INSERT of InsertPassword.                                            *)
Insert(r) ==
    /\ Runs(r, "save", "insert")
    /\ LET row == NewRow(call[r])
           fits == KeyFree(row, passwords) IN
       \/ /\ fits /\ passwords' = passwords \cup {row}
          /\ TakesEffect(r) /\ UNCHANGED raced
       \/ ComesToNothing(r, fits)

(* SelectPassword: QueryRow takes the first of the rows, in no known order. *)
Select(r) ==
    /\ pc[r] = "select"
    /\ \/ \E p \in Hit(r) : Answer(r, TRUE, p.pair)
       \/ (Hit(r) = {} \/ Fault("db")) /\ Fail(r)
    /\ UNCHANGED <<passwords, raced>>

(* UpdatePassword gives every row it hits the same pair, so a second hit    *)
(* violates the primary key and the statement changes nothing.              *)
Update(r) ==
    /\ Runs(r, "edit", "update")
    /\ LET new == NewRow(call[r])
           fits == /\ Hit(r) # {}
                   /\ \A p, q \in Hit(r) : p = q
                   /\ KeyFree(new, passwords \ Hit(r)) IN
       \/ /\ fits /\ passwords' = (passwords \ Hit(r)) \cup {new}
          /\ TakesEffect(r) /\ UNCHANGED raced
       \/ ComesToNothing(r, fits)

(* A deletion of the rows under some keys, which ends the race there but    *)
(* for an INSERT that is still to come.                                     *)
Erase(r, rows, keys) ==
    /\ passwords' = passwords \ rows
    /\ raced' = raced \ {k \in keys : InsertsAt(k) = {}}
    /\ TakesEffect(r)

(* DeletePassword                                                           *)
Delete(r) ==
    /\ Runs(r, "delete", "delete")
    /\ \/ Hit(r) # {} /\ Erase(r, Hit(r), {Key(call[r])})
       \/ ComesToNothing(r, Hit(r) # {})

(* DeleteAllPasswordsByLogin                                                *)
DeleteAll(r) ==
    /\ Runs(r, "purge", "deleteAll")
    /\ LET l == call[r].login IN
       \/ Erase(r, {p \in passwords : p.login = l}, {l} \X Metas)
       \/ ComesToNothing(r, TRUE)

(* Statements that are under way may outlive the process.                   *)
Crash ==
    /\ Fault("crash")
    /\ \E r \in Rpc : pc[r] # "idle"
    /\ \E left \in SUBSET {r \in Rpc : Fault("late") /\ pc[r] \in Changing \cup {"late"}} :
        /\ pc' = [r \in Rpc |-> IF r \in left THEN "late" ELSE "idle"]
        /\ call' = [r \in Rpc |-> IF r \in left THEN call[r] ELSE None]
    /\ reply' = [r \in Rpc |-> None]
    /\ UNCHANGED <<passwords, raced>>

Step(r) ==
    \/ Exist(r) \/ Insert(r) \/ Select(r) \/ Update(r) \/ Delete(r) \/ DeleteAll(r)
    \/ TimeOut(r) \/ Return(r)

Next ==
    \/ \E r \in Rpc, q \in Requests : Call(r, q)
    \/ \E r \in Rpc : Step(r)
    \/ Crash

Spec == Init /\ [][Next]_vars

-----------------------------------------------------------------------------
(* Properties                                                               *)

TypeOK ==
    /\ passwords \in SUBSET Row
    /\ pc \in [Rpc -> {"idle", "done", "exist", "select", "late"} \cup Changing]
    /\ call \in [Rpc -> Requests \cup {None}]
    /\ reply \in [Rpc -> Replies \cup {None}]
    /\ raced \in SUBSET (Logins \X Metas)

(* InsertPassword adds a pair only if its user has none under the metadata: *)
(* for any clients, faults and late statements, two rows answer to one      *)
(* login and metadata only where two INSERTs were under way at once, and no *)
(* longer once DeletePassword or DeleteUser has been there.                 *)
OneRowUnlessRaced ==
    \A l \in Logins, m \in Metas : <<l, m>> \notin raced =>
        \A p, q \in RowsAt(l, m) : p = q

(* The check of InsertPassword still holds when its INSERT runs, however    *)
(* late, and nobody else's INSERT is under way under the key.               *)
CheckStands ==
    \A r \in Rpc : Inserting(r) /\ Key(call[r]) \notin raced =>
        Hit(r) = {} /\ InsertsAt(Key(call[r])) = {r}

(* A handler is on a statement of the operation it was called for, and has  *)
(* an answer when it is done.                                               *)
Stages == [save |-> {"exist", "insert", "late", "done"}, get |-> {"select", "done"},
           edit |-> {"update", "late", "done"}, delete |-> {"delete", "late", "done"},
           purge |-> {"deleteAll", "late", "done"}]
OnStage ==
    \A r \in Rpc : IF call[r] = None
                   THEN pc[r] = "idle" /\ reply[r] = None
                   ELSE /\ pc[r] \in Stages[call[r].op]
                        /\ reply[r] # None <=> pc[r] = "done"
                        /\ pc[r] = "late" => Fault("late")

(* A ciphertext on its way is in no row and in no other call.               *)
Carries(r) == pc[r] # "idle" /\ call[r].op \in {"save", "edit"}
InTransit ==
    \A r \in Rpc : Carries(r) =>
        /\ pc[r] # "done" => \A p \in passwords : p.pair # call[r].value
        /\ \A s \in Rpc \ {r} : Carries(s) => call[s].value # call[r].value

(* The inductive invariant, for any clients and all faults.                 *)
IInv == TypeOK /\ OnStage /\ InTransit /\ CheckStands /\ OneRowUnlessRaced

(* The service is a PasswordStore: a user keeps a set of pairs under each   *)
(* metadata, every call acts on it at one instant or fails, a late one      *)
(* perhaps after its error, and the set has several members only where      *)
(* saves have raced.                                                        *)
PairsOf(rows) == {p.pair : p \in rows}
Kept == [k \in Logins \X Metas |-> PairsOf(RowsAt(k[1], k[2]))]

Store == INSTANCE PasswordStore WITH vault <- Kept, ask <- call, answer <- reply

IsPasswordStore == Store!Spec

(* As long as no INSERTs race and no statement is late, it is a RecordStore *)
(* for any number of clients of a user, whatever else they do at once.      *)
ValueIn(rows) == IF rows = {} THEN None ELSE (CHOOSE p \in rows : TRUE).pair
Vault == [k \in Logins \X Metas |-> ValueIn(RowsAt(k[1], k[2]))]

Abstract == INSTANCE RecordStore WITH
    vault <- Vault, ask <- call, answer <- reply, Values <- Pairs,
    Faults <- Faults \ {"late"}

Orderly == raced = {} /\ \A r \in Rpc : pc[r] # "late"
RecordStoreWhenOrderly ==
    [][Orderly /\ Orderly' => [Abstract!Next]_(Abstract!avars)]_vars
=============================================================================
