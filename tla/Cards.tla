-------------------------------- MODULE Cards --------------------------------
(***************************************************************************)
(* The card service of the goKeeper server: SaveCard, GetCard, EditCard,   *)
(* DeleteCard (internal/service/grpc_server_card.go) and the card part of  *)
(* DeleteUser.  Each of them is one SQL statement; SaveCard leaves the     *)
(* search for a duplicate to ON CONFLICT.  The table is a parameter, for   *)
(* its migration and the statements do not agree on it.                    *)
(***************************************************************************)

CONSTANTS
    Rpc,       \* the handler goroutines that may run at the same time
    Logins,    \* values of CardData.login
    Metas,     \* values of CardData.metadata
    Ciphers,   \* encrypted card data
    Columns,   \* the columns of table cards; {} if there is no such table
    Uniques,   \* its keys: the sets of columns declared unique
    Faults,    \* what may go wrong, a subset of {"db", "ack", "crash"}
    None       \* no request, no reply, no data

Row == [c_login : Logins, c_cipherdata : Ciphers, c_metadata : Metas]

ASSUME CardsAssumption ==
    /\ Uniques \subseteq SUBSET Columns
    /\ Faults \subseteq {"db", "ack", "crash"}

Requests ==
    [op : {"save", "edit"}, login : Logins, meta : Metas, value : Ciphers]
    \cup [op : {"get", "delete"}, login : Logins, meta : Metas]
    \cup [op : {"purge"}, login : Logins]
Replies == [ok : BOOLEAN, data : Ciphers \cup {None}]

(* The marker for nothing is no request, no reply and no card.              *)
ASSUME NoneAssumption == None \notin Requests \cup Replies \cup Ciphers

VARIABLES
    cards,   \* the rows of table cards
    call,    \* call[r]: the request that handler r serves
    reply    \* reply[r]: what r answers, once its statement is over

vars == <<cards, call, reply>>

Init ==
    /\ cards = {}
    /\ call = [r \in Rpc |-> None]
    /\ reply = [r \in Rpc |-> None]

-----------------------------------------------------------------------------
Fault(kind) == kind \in Faults

(* Operators named Bad... are faulty variants that no definition uses; they  *)
(* serve to show that a property notices the fault (README, "Mutants").      *)
(* Two arguments swapped.                                                   *)
BadNewRow(q) == [c_login |-> q.login, c_cipherdata |-> q.meta, c_metadata |-> q.value]

Record == {"c_login", "c_metadata"}

(* WHERE c_login = l AND c_metadata = m                                     *)
RowsAt(l, m) == {c \in cards : c.c_login = l /\ c.c_metadata = m}
Hit(r) == RowsAt(call[r].login, call[r].meta)
NewRow(q) == [c_login |-> q.login, c_cipherdata |-> q.value, c_metadata |-> q.meta]

Agree(c, d, key) == \A column \in key : c[column] = d[column]
(* No two rows agree on the columns of a key.                               *)
Legal(rows) == \A c, d \in rows, key \in Uniques : Agree(c, d, key) => c = d

(* The columns that the statements name, and the key that ON CONFLICT names.*)
Names == [save |-> Record \cup {"c_cipherdata"}, get |-> Record \cup {"c_cipherdata"},
          edit |-> Record \cup {"c_cipherdata"}, delete |-> Record,
          purge |-> {"c_login"}]
(* PostgreSQL accepts the statement.                                        *)
Parses(q) ==
    /\ Names[q.op] \subseteq Columns
    /\ q.op = "save" => Record \in Uniques

Running(r, op) == call[r] # None /\ reply[r] = None /\ call[r].op = op

Answer(r, ok, data) ==
    /\ reply' = [reply EXCEPT ![r] = [ok |-> ok, data |-> data]]
    /\ UNCHANGED call

Fail(r) == Answer(r, FALSE, None) /\ UNCHANGED cards

(* The statement changes the table, the handler learning of it or not.      *)
Change(r, rows) ==
    /\ cards' = rows
    /\ Answer(r, TRUE, None) \/ (Fault("ack") /\ Answer(r, FALSE, None))

-----------------------------------------------------------------------------
Call(r, q) ==
    /\ call[r] = None
    /\ call' = [call EXCEPT ![r] = q]
    /\ UNCHANGED <<cards, reply>>

Return(r) ==
    /\ reply[r] # None
    /\ call' = [call EXCEPT ![r] = None]
    /\ reply' = [reply EXCEPT ![r] = None]
    /\ UNCHANGED cards

(* The table without ON CONFLICT.                                           *)
BadInsert(r) ==
    /\ Running(r, "save")
    /\ Change(r, cards \cup {NewRow(call[r])})

(* InsertCard: ON CONFLICT DO NOTHING inserts no row, which is an error; a  *)
(* conflict on another key is an error too.                                 *)
Insert(r) ==
    /\ Running(r, "save")
    /\ LET new == cards \cup {NewRow(call[r])}
           fits == Parses(call[r]) /\ Hit(r) = {} /\ Legal(new) IN
       \/ fits /\ Change(r, new)
       \/ (~fits \/ Fault("db")) /\ Fail(r)

(* SelectCard                                                               *)
Select(r) ==
    /\ Running(r, "get")
    /\ \/ /\ Parses(call[r])
          /\ \E c \in Hit(r) : Answer(r, TRUE, c.c_cipherdata)
          /\ UNCHANGED cards
       \/ (~Parses(call[r]) \/ Hit(r) = {} \/ Fault("db")) /\ Fail(r)

(* Only one half of the WHERE.                                              *)
BadUpdate(r) ==
    /\ Running(r, "edit")
    /\ LET hit == {c \in cards : c.c_login = call[r].login} IN
       Change(r, (cards \ hit) \cup {[c EXCEPT !.c_cipherdata = call[r].value] : c \in hit})

(* UpdateCard; no row is an error.                                          *)
Update(r) ==
    /\ Running(r, "edit")
    /\ LET new == (cards \ Hit(r)) \cup {NewRow(call[r])}
           fits == /\ Parses(call[r])
                   /\ Hit(r) # {}
                   /\ \A c, d \in Hit(r) : c = d
                   /\ Legal(new) IN
       \/ fits /\ Change(r, new)
       \/ (~fits \/ Fault("db")) /\ Fail(r)

(* DeleteCard; no row is an error.                                          *)
Delete(r) ==
    /\ Running(r, "delete")
    /\ LET fits == Parses(call[r]) /\ Hit(r) # {} IN
       \/ fits /\ Change(r, cards \ Hit(r))
       \/ (~fits \/ Fault("db")) /\ Fail(r)

(* DeleteAllCardsByLogin                                                    *)
DeleteAll(r) ==
    /\ Running(r, "purge")
    /\ \/ /\ Parses(call[r])
          /\ Change(r, {c \in cards : c.c_login # call[r].login})
       \/ (~Parses(call[r]) \/ Fault("db")) /\ Fail(r)

Crash ==
    /\ Fault("crash")
    /\ \E r \in Rpc : call[r] # None
    /\ call' = [r \in Rpc |-> None]
    /\ reply' = [r \in Rpc |-> None]
    /\ UNCHANGED cards

Step(r) ==
    \/ Insert(r) \/ Select(r) \/ Update(r) \/ Delete(r) \/ DeleteAll(r)
    \/ Return(r)

Next ==
    \/ \E r \in Rpc, q \in Requests : Call(r, q)
    \/ \E r \in Rpc : Step(r)
    \/ Crash

Spec == Init /\ [][Next]_vars

-----------------------------------------------------------------------------
(* Properties                                                               *)

TypeOK ==
    /\ cards \in SUBSET Row
    /\ call \in [Rpc -> Requests \cup {None}]
    /\ reply \in [Rpc -> Replies \cup {None}]

(* InsertCard adds a card only if its user has none under the metadata:     *)
(* with any number of clients and on any table, never do two rows answer to *)
(* one login and metadata.                                                  *)
NoDuplicates == \A l \in Logins, m \in Metas : \A c, d \in RowsAt(l, m) : c = d

(* The service is a RecordStore, for any number of clients of a user.  Only *)
(* with the very columns and the one key that the statements name do calls  *)
(* succeed whenever they should: on any other table they may fail for no    *)
(* reason of their own, as under fault "db".                                *)
Expected == Columns = Record \cup {"c_cipherdata"} /\ Uniques = {Record}

ValueIn(rows) == IF rows = {} THEN None ELSE (CHOOSE c \in rows : TRUE).c_cipherdata
Vault == [k \in Logins \X Metas |-> ValueIn(RowsAt(k[1], k[2]))]

Abstract == INSTANCE RecordStore WITH
    vault <- Vault, ask <- call, answer <- reply, Values <- Ciphers,
    Faults <- Faults \cup (IF Expected THEN {} ELSE {"db"})

IsRecordStore == Abstract!Spec
=============================================================================
