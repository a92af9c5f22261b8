------------------------------- MODULE Account -------------------------------
(***************************************************************************)
(* The life of a goKeeper account: RegisterUser, AuthenticateUser,         *)
(* GetPassHash, EditUser and DeleteUser (grpc_server_user.go and           *)
(* dbservice/users_service.go), the token check in front of them           *)
(* (auth_interceptor.go) and what their callers learn.  The tables         *)
(* passwords, cards and files appear as "user l has data there"; what goes *)
(* on inside them is the subject of Passwords, Cards and FileStore.        *)
(***************************************************************************)
EXTENDS Naturals, FiniteSets

CONSTANTS
    Rpc,          \* the handler goroutines that may run at the same time
    Logins,       \* of the accounts that are modelled
    Others,       \* more users, each with a valid token for an account of their own
    Stores,       \* the tables of users' data: passwords, cards and files
    Passes,       \* passwords that bcrypt accepts
    LongPass,     \* a password of more than 72 bytes, which it rejects ...
    Prefix,       \* ... and the first 72 bytes of it, which it accepts
    Faults,       \* what may go wrong, a subset of {"db", "ack", "late", "crash"}
    MaxLate,      \* bound on the statements that are late at the same time
    None          \* no request, no reply, no password

(* "db": a statement fails and changes nothing; "ack": it takes effect, or  *)
(* an answer is sent, but the caller gets an error; "late": a statement     *)
(* outlasts its context, the caller gets an error and it may take effect at *)
(* any later time; "crash": the process is killed.                          *)
ASSUME AccountAssumption ==
    /\ Faults \subseteq {"db", "ack", "late", "crash"}
    /\ Prefix \in Passes
    /\ LongPass \notin Passes /\ None \notin Passes \cup {LongPass}

Requests ==
    [op : {"register", "login", "edit"}, login : Logins, pass : Passes \cup {LongPass}]
    \cup [op : {"hash", "delete"}, login : Logins]
    \cup [op : {"put", "drop"}, login : Logins, store : Stores]

(* The marker for nothing is no request.                                    *)
ASSUME NoneAssumption == None \notin Requests

Labels == {"idle", "exist", "insert", "select", "update", "purge", "deleteUser",
           "write", "done"}

VARIABLES
    hash,     \* hash[l]: the password behind u_password in l's row of users, or None
    data,     \* data[s]: the users with rows in store s
    pc,       \* pc[r]: the next step of handler r
    call,     \* call[r]: the request that r serves; EditUser's login is the token's
    left,     \* left[r]: the stores that DeleteUser's goroutines have yet to purge
    reply,    \* reply[r]: "ok" or "error" when done
    late,     \* the requests whose last statement outlives its error
    session   \* the logins of the valid tokens that somebody holds

(* History                                                                  *)
VARIABLES
    belief,    \* belief[l]: the password last confirmed for l and not in doubt since
    disturbed  \* the handlers whose call has met a fault or a conflicting call

vars == <<hash, data, pc, call, left, reply, late, session, belief, disturbed>>
client == <<session, belief>>

Init ==
    /\ hash = [l \in Logins |-> None]
    /\ data = [s \in Stores |-> {}]
    /\ pc = [r \in Rpc |-> "idle"]
    /\ call = [r \in Rpc |-> None]
    /\ left = [r \in Rpc |-> {}]
    /\ reply = [r \in Rpc |-> None]
    /\ late = {}
    /\ session = {}
    /\ belief = [l \in Logins |-> None]
    /\ disturbed = {}

-----------------------------------------------------------------------------
(* Operators named Bad... are faulty variants that no definition uses; they *)
(* serve to show that a property notices the fault (README, "Mutants").     *)

(* bcrypt compares the first 72 bytes.                                      *)
Opens(pass, h) == h # None /\ (h = pass \/ (pass = LongPass /\ h = Prefix))

(* CheckPasswordHash                                                        *)
Matches(q) == Opens(q.pass, hash[q.login])

(* AuthInterceptor wants some valid token for all but two methods; only     *)
(* EditUser looks whose it is, and everything else acts on the login of the *)
(* request.  HashPassword rejects long passwords before any statement.      *)
BadRefused(q) == q.op \notin {"register", "login"} /\ session \cup Others = {}
Refused(q) ==
    \/ q.op \notin {"register", "login"} /\ session \cup Others = {}
    \/ q.op = "edit" /\ q.login \notin session
    \/ q.op \in {"register", "edit"} /\ q.pass = LongPass

(* Whether a request may change under another call what that call depends   *)
(* on: RegisterUser on a free login, DeleteUser on both account and data,   *)
(* all others on the account as it is, which no INSERT can touch.           *)
Disturbs(q, other) ==
    /\ q.login = other.login
    /\ \/ q.op \in {"edit", "delete"}
       \/ q.op = "register" /\ other.op \in {"register", "delete"}
       \/ q.op \in {"put", "drop"} /\ other.op = "delete"
Busy == {r \in Rpc : pc[r] # "idle"}
UnderWay == {call[r] : r \in Busy} \cup late

(* A statement of handler r goes as it should, a fault of some kind meets   *)
(* it, or it is left behind as the statement of request q.                  *)
Smooth == UNCHANGED <<late, disturbed>>
Struck(r, kind) == kind \in Faults /\ disturbed' = disturbed \cup {r}
Fault(r, kind) == Struck(r, kind) /\ UNCHANGED late
Bounded(set) == Cardinality(set) <= MaxLate
LeftBehind(r, q) ==
    /\ Struck(r, "late")
    /\ late' = late \cup {q} /\ Bounded(late')
NoEffect(r, q) == Fault(r, "db") \/ LeftBehind(r, q)

Goto(r, label) == pc' = [pc EXCEPT ![r] = label] /\ UNCHANGED reply
Answer(r, what) ==
    /\ pc' = [pc EXCEPT ![r] = "done"]
    /\ reply' = [reply EXCEPT ![r] = what]

(* The end of a statement that makes a change, and of one that does not.    *)
Ends(r) == (Answer(r, "ok") /\ Smooth) \/ (Answer(r, "error") /\ Fault(r, "ack"))
Fails(r) == Answer(r, "error") /\ NoEffect(r, call[r])

-----------------------------------------------------------------------------
FirstLabel == [register |-> "exist", login |-> "select", hash |-> "select",
               edit |-> "update", delete |-> "purge", put |-> "write", drop |-> "write"]

(* Any client may make any call at any time.                                *)
Call(r, q) ==
    /\ pc[r] = "idle"
    /\ call' = [call EXCEPT ![r] = q]
    /\ \/ Refused(q) /\ Answer(r, "error") /\ UNCHANGED left
       \/ /\ ~Refused(q)
          /\ Goto(r, FirstLabel[q.op])
          /\ left' = [left EXCEPT ![r] = IF q.op = "delete" THEN Stores ELSE {}]
    /\ disturbed' = disturbed \cup {h \in Busy : Disturbs(q, call[h])}
                              \cup {h \in {r} : \E o \in UnderWay : Disturbs(o, q)}
    /\ UNCHANGED <<hash, data, late, client>>

(* The caller learns the answer.  RegisterUser and AuthenticateUser bring a *)
(* token and, like an EditUser of a password known before, confirm the one  *)
(* they were called with, unless a conflicting call was under way.          *)
Learns(r, q, ok) ==
    /\ session' = session \cup {l \in {q.login} : ok /\ q.op \in {"register", "login"}}
    /\ belief' =
        IF ok /\ r \notin disturbed /\ ( \/ q.op \in {"register", "login"}
                                         \/ q.op = "edit" /\ belief[q.login] # None )
        THEN [belief EXCEPT ![q.login] = q.pass]
        ELSE IF q.op \in {"edit", "delete"}
        THEN [belief EXCEPT ![q.login] = None]
        ELSE belief

(* The answer arrives or is lost.                                           *)
Return(r) ==
    /\ pc[r] = "done"
    /\ \/ Learns(r, call[r], reply[r] = "ok")
       \/ "ack" \in Faults /\ Learns(r, call[r], FALSE)
    /\ pc' = [pc EXCEPT ![r] = "idle"]
    /\ call' = [call EXCEPT ![r] = None]
    /\ left' = [left EXCEPT ![r] = {}]
    /\ reply' = [reply EXCEPT ![r] = None]
    /\ disturbed' = disturbed \ {r}
    /\ UNCHANGED <<hash, data, late>>

(* Two hours have passed since the token was made, or it is forgotten.      *)
Expire(l) ==
    /\ l \in session
    /\ session' = session \ {l}
    /\ UNCHANGED <<hash, data, pc, call, left, reply, late, belief, disturbed>>

-----------------------------------------------------------------------------
(* RegisterUser                                                             *)

(* IsExist; an error counts as "exists".                                    *)
Exist(r) ==
    /\ pc[r] = "exist"
    /\ \/ hash[call[r].login] = None /\ Goto(r, "insert") /\ Smooth
       \/ hash[call[r].login] # None /\ Answer(r, "error") /\ Smooth
       \/ Answer(r, "error") /\ Fault(r, "db")
    /\ UNCHANGED <<hash, data, call, left, client>>

(* A new password for a taken login.                                        *)
BadChanged(q) ==
    CASE q.op = "register" -> [hash EXCEPT ![q.login] = q.pass]
      [] q.op = "edit"     -> [hash EXCEPT ![q.login] = IF @ = None THEN None ELSE q.pass]
      [] q.op = "delete"   -> [hash EXCEPT ![q.login] = None]
      [] OTHER             -> hash

(* What the statement of a request makes of the account.                    *)
Changed(q) ==
    CASE q.op = "register" -> [hash EXCEPT ![q.login] = IF @ = None THEN q.pass ELSE @]
      [] q.op = "edit"     -> [hash EXCEPT ![q.login] = IF @ = None THEN None ELSE q.pass]
      [] q.op = "delete"   -> [hash EXCEPT ![q.login] = None]
      [] OTHER             -> hash

(* InsertUser: a taken login or a failed statement is not noticed.          *)
Insert(r) ==
    /\ pc[r] = "insert"
    /\ \/ hash' = Changed(call[r]) /\ (Smooth \/ Fault(r, "ack"))
       \/ UNCHANGED hash /\ NoEffect(r, call[r])
    /\ Answer(r, "ok")
    /\ UNCHANGED <<data, call, left, client>>

-----------------------------------------------------------------------------
(* AuthenticateUser and GetPassHash: SelectUser.                            *)
Select(r) ==
    /\ pc[r] = "select"
    /\ LET q == call[r]
           fine == hash[q.login] # None /\ (q.op = "login" => Matches(q)) IN
       \/ Answer(r, IF fine THEN "ok" ELSE "error") /\ Smooth
       \/ Answer(r, "error") /\ Fault(r, "db")
    /\ UNCHANGED <<hash, data, call, left, client>>

(* EditUser: an UPDATE that hits no row is no error.                        *)
Update(r) ==
    /\ pc[r] = "update"
    /\ (hash' = Changed(call[r]) /\ Ends(r)) \/ (UNCHANGED hash /\ Fails(r))
    /\ UNCHANGED <<data, call, left, client>>

-----------------------------------------------------------------------------
(* DeleteUser                                                               *)

(* Two of three goroutines awaited.                                         *)
BadPurge(r) ==
    /\ pc[r] = "purge"
    /\ \E s \in left[r] :
        /\ left' = [left EXCEPT ![r] = @ \ {s}]
        /\ Goto(r, IF \E t \in Stores : left[r] = {s, t} THEN "deleteUser" ELSE "purge")
        /\ data' = [data EXCEPT ![s] = @ \ {call[r].login}] /\ Smooth
    /\ UNCHANGED <<hash, call, client>>

(* One of the goroutines runs its DELETE.  Its error is logged only: the    *)
(* variable they all assign is not read after wg.Wait.                      *)
Dropping(l, s) == [op |-> "drop", login |-> l, store |-> s]
Purge(r) ==
    /\ pc[r] = "purge"
    /\ \E s \in left[r] :
        /\ left' = [left EXCEPT ![r] = @ \ {s}]
        /\ Goto(r, IF left[r] = {s} THEN "deleteUser" ELSE "purge")
        /\ \/ /\ data' = [data EXCEPT ![s] = @ \ {call[r].login}]
              /\ Smooth \/ Fault(r, "ack")
           \/ UNCHANGED data /\ NoEffect(r, Dropping(call[r].login, s))
    /\ UNCHANGED <<hash, call, client>>

DeleteUser(r) ==
    /\ pc[r] = "deleteUser"
    /\ (hash' = Changed(call[r]) /\ Ends(r)) \/ (UNCHANGED hash /\ Fails(r))
    /\ UNCHANGED <<data, call, left, client>>

-----------------------------------------------------------------------------
(* The statement by which the other services store a user's first record in *)
(* a table, or delete the last one; no table refers to table users.         *)
Written(q) ==
    IF q.op = "put" THEN [data EXCEPT ![q.store] = @ \cup {q.login}]
    ELSE IF q.op = "drop" THEN [data EXCEPT ![q.store] = @ \ {q.login}]
    ELSE data

Write(r) ==
    /\ pc[r] = "write"
    /\ (data' = Written(call[r]) /\ Ends(r)) \/ (UNCHANGED data /\ Fails(r))
    /\ UNCHANGED <<hash, call, left, client>>

-----------------------------------------------------------------------------
(* A late statement takes effect or not; it was the only one of its kind or *)
(* another is left.                                                         *)
Land(q) ==
    /\ q \in late
    /\ \/ hash' = Changed(q) /\ data' = Written(q)
       \/ UNCHANGED <<hash, data>>
    /\ late' \in {late, late \ {q}}
    /\ UNCHANGED <<pc, call, left, reply, client, disturbed>>

(* The process is killed, the statements it runs may live on.  Callers get  *)
(* errors; their tokens stay good, for the server keeps none.               *)
Running(r) ==
    CASE pc[r] \in {"insert", "update", "deleteUser", "write"} -> {call[r]}
      [] pc[r] = "purge" -> {Dropping(call[r].login, s) : s \in left[r]}
      [] OTHER -> {}
InDoubt(l) == \E r \in Busy : call[r].login = l /\ call[r].op \in {"edit", "delete"}

Crash ==
    /\ "crash" \in Faults
    /\ Busy # {}
    /\ pc' = [r \in Rpc |-> "idle"]
    /\ call' = [r \in Rpc |-> None]
    /\ left' = [r \in Rpc |-> {}]
    /\ reply' = [r \in Rpc |-> None]
    /\ belief' = [l \in Logins |-> IF InDoubt(l) THEN None ELSE belief[l]]
    /\ disturbed' = {}
    /\ \/ UNCHANGED late
       \/ /\ "late" \in Faults
          /\ \E more \in SUBSET UNION {Running(r) : r \in Rpc} : late' = late \cup more
          /\ Bounded(late')
    /\ UNCHANGED <<hash, data, session>>

Step(r) ==
    \/ Exist(r) \/ Insert(r) \/ Select(r) \/ Update(r)
    \/ Purge(r) \/ DeleteUser(r) \/ Write(r) \/ Return(r)

Next ==
    \/ \E r \in Rpc, q \in Requests : Call(r, q)
    \/ \E r \in Rpc : Step(r)
    \/ \E q \in late : Land(q)
    \/ \E l \in Logins : Expire(l)
    \/ Crash

Spec == Init /\ [][Next]_vars

-----------------------------------------------------------------------------
(* Properties                                                               *)

(* Every variable has its type; in particular no password that bcrypt       *)
(* rejects is ever stored, though AuthenticateUser may confirm it.          *)
TypeOK ==
    /\ hash \in [Logins -> Passes \cup {None}]
    /\ data \in [Stores -> SUBSET Logins]
    /\ pc \in [Rpc -> Labels]
    /\ call \in [Rpc -> Requests \cup {None}]
    /\ left \in [Rpc -> SUBSET Stores]
    /\ reply \in [Rpc -> {"ok", "error", None}]
    /\ late \subseteq Requests
    /\ session \subseteq Logins
    /\ belief \in [Logins -> Passes \cup {LongPass, None}]
    /\ disturbed \subseteq Rpc

(* What RegisterUser, AuthenticateUser or EditUser has confirmed, without a *)
(* fault or a conflicting call, stays true whatever any client, any fault   *)
(* and any late statement does: the password opens the account until the    *)
(* next EditUser of it or DeleteUser that names its login is called.        *)
BeliefsHold ==
    \A l \in Logins : belief[l] # None /\ ~InDoubt(l) => Opens(belief[l], hash[l])

Emptied(r) ==
    pc[r] = "done" /\ reply[r] = "ok" /\ call[r].op = "delete" =>
        /\ hash[call[r].login] = None
        /\ \A s \in Stores : call[r].login \notin data[s]

(* A successful DeleteUser has deleted the user and all data in storages,   *)
(* at the moment it answers.                                                *)
DeleteLeavesNothing == \A r \in Rpc : Emptied(r)

(* The same of a DeleteUser that meets no fault and no conflicting call or  *)
(* statement itself, whatever faults, crashes, late statements and calls    *)
(* with other users' tokens have left behind before it.                     *)
CleanDeleteLeavesNothing == \A r \in Rpc \ disturbed : Emptied(r)

(* A RegisterUser that answers OK has stored the account: the user is added *)
(* if the login does not exist, and refused if it does.                     *)
RegisterMeansStored ==
    [][\A r \in Rpc : pc[r] = "insert" /\ pc'[r] = "done" /\ reply'[r] = "ok" =>
          hash'[call[r].login] = call[r].pass]_vars
=============================================================================
