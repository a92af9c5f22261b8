---------------------------- MODULE PasswordStore ----------------------------
(***************************************************************************)
(* What the goKeeper server promises for passwords to any clients, without *)
(* tables and statements.  A call is in progress until its last statement  *)
(* is over; of one whose statement is late the client has been told an     *)
(* error before.  Every call takes effect at one instant while it is in    *)
(* progress, or not at all.  Two saves under one metadata that are in      *)
(* progress at once may both find it free: then, and only then, a user has *)
(* several values under it, until they are deleted.                        *)
(***************************************************************************)
CONSTANTS
    Rpc,       \* calls that may be in progress at the same time
    Logins, Metas, Pairs,
    Faults,    \* what may go wrong, a subset of {"db", "ack", "late", "crash"}
    None

VARIABLES
    vault,     \* vault[l, m]: the pairs user l keeps under m
    ask,       \* ask[r]: the request in progress
    answer,    \* answer[r]: the answer to it, once it is over
    raced      \* the keys where saves have raced

avars == <<vault, ask, answer, raced>>

Keys == Logins \X Metas
Asks == [op : {"save", "edit"}, login : Logins, meta : Metas, value : Pairs]
        \cup [op : {"get", "delete"}, login : Logins, meta : Metas]
        \cup [op : {"purge"}, login : Logins]

Ok(data) == [ok |-> TRUE, data |-> data]
Error == [ok |-> FALSE, data |-> None]

Init ==
    /\ vault = [k \in Keys |-> {}]
    /\ ask = [r \in Rpc |-> None]
    /\ answer = [r \in Rpc |-> None]
    /\ raced = {}

Begin(r) ==
    /\ ask[r] = None
    /\ \E q \in Asks : ask' = [ask EXCEPT ![r] = q]
    /\ UNCHANGED <<vault, answer, raced>>

KeyOf(q) == <<q.login, q.meta>>
InProgress(r) == ask[r] # None /\ answer[r] = None
Saving(r, k) == InProgress(r) /\ ask[r].op = "save" /\ KeyOf(ask[r]) = k

(* Two saves have found one key free.                                       *)
Race(k) ==
    /\ \E r, s \in Rpc : r # s /\ Saving(r, k) /\ Saving(s, k)
    /\ raced' = raced \cup {k}
    /\ UNCHANGED <<vault, ask, answer>>

(* A save needs a free key or a race, an edit one value, a get or a delete  *)
(* at least one.                                                            *)
Permitted(q) ==
    CASE q.op = "purge" -> TRUE
      [] q.op = "save"  -> vault[KeyOf(q)] = {} \/ KeyOf(q) \in raced
      [] q.op = "edit"  -> \E v \in Pairs : vault[KeyOf(q)] = {v}
      [] q.op \in {"get", "delete"} -> vault[KeyOf(q)] # {}

After(q) ==
    CASE q.op = "save"   -> [vault EXCEPT ![KeyOf(q)] = @ \cup {q.value}]
      [] q.op = "edit"   -> [vault EXCEPT ![KeyOf(q)] = {q.value}]
      [] q.op = "delete" -> [vault EXCEPT ![KeyOf(q)] = {}]
      [] q.op = "purge"  -> [k \in Keys |-> IF k[1] = q.login THEN {} ELSE vault[k]]
      [] q.op = "get"    -> vault

Emptied(q) == IF q.op = "delete" THEN {KeyOf(q)}
              ELSE IF q.op = "purge" THEN {q.login} \X Metas ELSE {}

Results(q) == IF q.op = "get" THEN {Ok(v) : v \in vault[KeyOf(q)]} ELSE {Ok(None)}

(* The instant of a call, whose client may be told an error all the same.   *)
Perform(r) ==
    /\ InProgress(r)
    /\ Permitted(ask[r])
    /\ vault' = After(ask[r])
    /\ \E over \in SUBSET Emptied(ask[r]) : raced' = raced \ over
    /\ \E result \in Results(ask[r])
                     \cup {e \in {Error} : "ack" \in Faults \/ "late" \in Faults} :
          answer' = [answer EXCEPT ![r] = result]
    /\ UNCHANGED ask

(* A call that may not take effect fails, and a save that has raced may, if *)
(* it comes second; any call may under a fault.                             *)
TooLate(q) == q.op = "save" /\ vault[KeyOf(q)] # {}
Fail(r) ==
    /\ InProgress(r)
    /\ \/ "db" \in Faults \/ "late" \in Faults
       \/ ~Permitted(ask[r]) \/ TooLate(ask[r])
    /\ answer' = [answer EXCEPT ![r] = Error]
    /\ UNCHANGED <<vault, ask, raced>>

End(r) ==
    /\ answer[r] # None
    /\ ask' = [ask EXCEPT ![r] = None]
    /\ answer' = [answer EXCEPT ![r] = None]
    /\ UNCHANGED <<vault, raced>>

(* The server dies; what took effect stays, and late calls may still do so. *)
Restart ==
    /\ "crash" \in Faults
    /\ \E left \in SUBSET {r \in Rpc : InProgress(r) /\ "late" \in Faults} :
          ask' = [r \in Rpc |-> IF r \in left THEN ask[r] ELSE None]
    /\ answer' = [r \in Rpc |-> None]
    /\ UNCHANGED <<vault, raced>>

Next ==
    \/ \E r \in Rpc : Begin(r) \/ Perform(r) \/ Fail(r) \/ End(r)
    \/ \E k \in Keys : Race(k)
    \/ Restart

Spec == Init /\ [][Next]_avars
=============================================================================
