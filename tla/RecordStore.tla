----------------------------- MODULE RecordStore -----------------------------
(***************************************************************************)
(* What the goKeeper server promises for passwords and cards, without      *)
(* tables and statements: a user keeps at most one value under each        *)
(* metadata, and every call takes effect at one instant between request    *)
(* and answer, or not at all.                                              *)
(***************************************************************************)
CONSTANTS
    Rpc,       \* calls that may be in progress at the same time
    Logins, Metas, Values,
    Faults,    \* what may go wrong, a subset of {"db", "ack", "crash"}
    None

VARIABLES
    vault,     \* vault[l, m]: the value user l keeps under m, or None
    ask,       \* ask[r]: the request in progress
    answer     \* answer[r]: the answer to it, once there is one

avars == <<vault, ask, answer>>

Keys == Logins \X Metas
Asks == [op : {"save", "edit"}, login : Logins, meta : Metas, value : Values]
        \cup [op : {"get", "delete"}, login : Logins, meta : Metas]
        \cup [op : {"purge"}, login : Logins]

Ok(data) == [ok |-> TRUE, data |-> data]
Error == [ok |-> FALSE, data |-> None]

Init ==
    /\ vault = [k \in Keys |-> None]
    /\ ask = [r \in Rpc |-> None]
    /\ answer = [r \in Rpc |-> None]

Begin(r) ==
    /\ ask[r] = None
    /\ \E q \in Asks : ask' = [ask EXCEPT ![r] = q]
    /\ UNCHANGED <<vault, answer>>

Key(q) == <<q.login, q.meta>>

(* A save needs a free key, every other call on a key a taken one.          *)
Permitted(q) ==
    CASE q.op = "purge" -> TRUE
      [] q.op = "save"  -> vault[Key(q)] = None
      [] OTHER          -> vault[Key(q)] # None

After(q) ==
    CASE q.op \in {"save", "edit"} -> [vault EXCEPT ![Key(q)] = q.value]
      [] q.op = "delete"           -> [vault EXCEPT ![Key(q)] = None]
      [] q.op = "purge"            -> [k \in Keys |-> IF k[1] = q.login THEN None
                                                                       ELSE vault[k]]
      [] q.op = "get"              -> vault

Result(q) == Ok(IF q.op = "get" THEN vault[Key(q)] ELSE None)

InProgress(r) == ask[r] # None /\ answer[r] = None

(* The instant of a call.  Its answer may get lost on the way.              *)
Perform(r) ==
    /\ InProgress(r)
    /\ Permitted(ask[r])
    /\ vault' = After(ask[r])
    /\ \/ answer' = [answer EXCEPT ![r] = Result(ask[r])]
       \/ "ack" \in Faults /\ answer' = [answer EXCEPT ![r] = Error]
    /\ UNCHANGED ask

(* A call that may not take effect fails; any call may under fault "db".     *)
Fail(r) ==
    /\ InProgress(r)
    /\ "db" \in Faults \/ ~Permitted(ask[r])
    /\ answer' = [answer EXCEPT ![r] = Error]
    /\ UNCHANGED <<vault, ask>>

End(r) ==
    /\ answer[r] # None
    /\ ask' = [ask EXCEPT ![r] = None]
    /\ answer' = [answer EXCEPT ![r] = None]
    /\ UNCHANGED vault

(* The server dies: every call in progress is over, what took effect stays. *)
Restart ==
    /\ "crash" \in Faults
    /\ ask' = [r \in Rpc |-> None]
    /\ answer' = [r \in Rpc |-> None]
    /\ UNCHANGED vault

Next == (\E r \in Rpc : Begin(r) \/ Perform(r) \/ Fail(r) \/ End(r)) \/ Restart

Spec == Init /\ [][Next]_avars
=============================================================================
