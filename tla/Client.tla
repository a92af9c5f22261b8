-------------------------------- MODULE Client --------------------------------
(***************************************************************************)
(* The goKeeper client (cmd/client/main.go and internal/service/client)    *)
(* in front of the server's password and card services: it authenticates   *)
(* once, whether or not that succeeds goes on with the token and the login *)
(* it then has, and saves, gets, edits and deletes records.  A process may *)
(* be killed while the server works on its call and another one started.   *)
(*                                                                         *)
(* The services are the RecordStore that Cards implements, and Passwords   *)
(* where no saves race and no statement is late, behind the token check of *)
(* auth_interceptor.go.                                                    *)
(***************************************************************************)
EXTENDS Formats

CONSTANTS
    Users,       \* the logins of registered users, each with one client
    Places,      \* values of metadata
    Pairs,       \* pairs of login and password that users save
    Cards,       \* triples of number, month and code that they save
    Rpc,         \* calls that the server may work on at the same time
    Faults,      \* what may go wrong, a subset of {"db", "ack", "crash", "kill"}
    None

Nobody == ""     \* the login of who has no token
Kinds == {"pair", "card"}
Typed(kind) == IF kind = "pair" THEN Pairs ELSE Cards
Metas == Kinds \X Places       \* passwords and cards are kept in tables of their own
Records == Pairs \cup Cards

ASSUME ClientAssumption ==
    /\ Nobody \notin Users
    /\ Pairs \subseteq String \X String
    /\ Cards \subseteq String \X String \X String
    /\ Faults \subseteq {"db", "ack", "crash", "kill"}

VARIABLES
    vault, ask, answer,   \* the server, see RecordStore
    stage,    \* stage[u]: "start", "ready" or "waiting"
    token,    \* token[u]: what the TokenManager of u's client holds
    login,    \* login[u]: the login that this client puts into its requests
    mine,     \* mine[u]: the call for which it waits
    intent,   \* intent[r]: the record that call r is to store, or None
    read,     \* read[u]: the fields that the last call has returned, or None
    may,      \* may[u, m]: the records, or None, that u must expect under m
    rivals    \* rivals[u]: those that calls of u's killed clients may still leave

server == <<vault, ask, answer>>
process == <<stage, token, login, mine>>
knowledge == <<intent, read, may, rivals>>
vars == <<server, process, knowledge>>

Tokens == [state : {"placeholder", "empty", "good", "expired"}, login : Users \cup {Nobody}]
Placeholder == [state |-> "placeholder", login |-> Nobody]
Empty == [state |-> "empty", login |-> Nobody]

Seal(kind, v) == IF kind = "pair" THEN CryptoPair(v[1], v[2])
                                  ELSE CryptoCard(v[1], v[2], v[3])
Open(kind, x) == IF kind = "pair" THEN DecryptPair(x) ELSE DecryptCard(x)
Ciphers == {Seal("pair", v) : v \in Pairs} \cup {Seal("card", v) : v \in Cards}

Server == INSTANCE RecordStore WITH Logins <- Users \cup {Nobody}, Values <- Ciphers

Answers == [ok : BOOLEAN, data : Ciphers \cup {None}]

ASSUME NoneAssumption ==
    /\ None \notin Rpc /\ None \notin Pairs /\ None \notin Cards
    /\ None \notin Ciphers /\ None \notin Answers /\ None \notin Server!Asks

Init ==
    /\ Server!Init
    /\ stage = [u \in Users |-> "start"]
    /\ token = [u \in Users |-> Placeholder]
    /\ login = [u \in Users |-> Nobody]
    /\ mine = [u \in Users |-> None]
    /\ intent = [r \in Rpc |-> None]
    /\ read = [u \in Users |-> None]
    /\ may = [k \in Users \X Metas |-> {None}]
    /\ rivals = [u \in Users |-> {}]

-----------------------------------------------------------------------------
(* The life of a client process                                             *)

(* AuthenticateUser.  If it fails, the token is empty and GetLoginByToken   *)
(* finds no login in it; both errors are only logged.                       *)
Authenticate(u) ==
    /\ stage[u] = "start"
    /\ stage' = [stage EXCEPT ![u] = "ready"]
    /\ \/ /\ token' = [token EXCEPT ![u] = [state |-> "good", login |-> u]]
          /\ login' = [login EXCEPT ![u] = u]
       \/ /\ token' = [token EXCEPT ![u] = Empty]
          /\ login' = [login EXCEPT ![u] = Nobody]
    /\ UNCHANGED <<server, mine, knowledge>>

(* Two hours have passed; the client does not renew the token.              *)
Expire(u) ==
    /\ token[u].state = "good"
    /\ token' = [token EXCEPT ![u] = [state |-> "expired", login |-> @.login]]
    /\ UNCHANGED <<server, stage, login, mine, knowledge>>

(* The process ends, or is killed in a call, which the server goes on with. *)
(* Calls on passwords are taken to be over by then: where such calls of a   *)
(* user overlap, they make a PasswordStore (Passwords), no RecordStore.     *)
Leave(u) ==
    /\ \/ stage[u] = "ready"
       \/ /\ stage[u] = "waiting" /\ "kill" \in Faults
          /\ ask[mine[u]].meta[1] = "card" \/ answer[mine[u]] # None
    /\ stage' = [stage EXCEPT ![u] = "start"]
    /\ token' = [token EXCEPT ![u] = Placeholder]
    /\ login' = [login EXCEPT ![u] = Nobody]
    /\ mine' = [mine EXCEPT ![u] = None]
    /\ read' = [read EXCEPT ![u] = None]
    /\ rivals' = [rivals EXCEPT ![u] = {}]
    /\ UNCHANGED <<server, intent, may>>

-----------------------------------------------------------------------------
(* Calls                                                                    *)

(* The empty token, too.                                                    *)
BadAdmitted(t) == t.state \in {"good", "empty"}

(* "Bearer " and the token have to make two fields of the header, and the   *)
(* second to be a token of the server's that has not expired.               *)
HeaderFields(t) == IF t.state = "empty" THEN 1 ELSE 2
Admitted(t) == HeaderFields(t) = 2 /\ t.state = "good"

(* Calls on m of u's earlier clients with which the server is not through.  *)
Late(u, m) == {r \in Rpc : /\ ask[r] # None /\ answer[r] = None
                           /\ ask[r].login = u /\ ask[r].meta = m}
Leaves(r) == IF ask[r].op = "get" THEN {} ELSE {intent[r]}

(* The request goes out with the token; v is what it is to leave under m.   *)
(* A request that AuthInterceptor refuses changes nothing.                  *)
Send(u, m, q, v) ==
    /\ stage[u] = "ready"
    /\ Admitted(token[u])
    /\ \E r \in Rpc :
        /\ ask[r] = None
        /\ ask' = [ask EXCEPT ![r] = q]
        /\ mine' = [mine EXCEPT ![u] = r]
        /\ intent' = [intent EXCEPT ![r] = v]
    /\ stage' = [stage EXCEPT ![u] = "waiting"]
    /\ may' = [may EXCEPT ![<<u, m>>] = IF q.op = "get" THEN @ ELSE @ \cup {v}]
    /\ rivals' = [rivals EXCEPT ![u] = UNION {Leaves(r) : r \in Late(u, m)}]
    /\ read' = [read EXCEPT ![u] = None]
    /\ UNCHANGED <<vault, answer, token, login>>

Request(u, op, m) == [op |-> op, login |-> login[u], meta |-> m]
(* The fields in the wrong order.                                           *)
BadWithValue(u, op, m, v) ==
    [op |-> op, login |-> login[u], meta |-> m,
     value |-> IF m[1] = "pair" THEN CryptoPair(v[2], v[1]) ELSE CryptoCard(v[1], v[3], v[2])]
WithValue(u, op, m, v) ==
    [op |-> op, login |-> login[u], meta |-> m, value |-> Seal(m[1], v)]

Pass(p) == <<"pair", p>>
Card(p) == <<"card", p>>

SavePass(u, p, v) == Send(u, Pass(p), WithValue(u, "save", Pass(p), v), v)
GetPass(u, p) == Send(u, Pass(p), Request(u, "get", Pass(p)), None)
EditPass(u, p, v) == Send(u, Pass(p), WithValue(u, "edit", Pass(p), v), v)
DeletePass(u, p) == Send(u, Pass(p), Request(u, "delete", Pass(p)), None)

(* A card that CryptoCard does not accept is refused without a call.        *)
SaveCard(u, p, v) ==
    CardAccepted(v[1]) /\ Send(u, Card(p), WithValue(u, "save", Card(p), v), v)
GetCard(u, p) == Send(u, Card(p), Request(u, "get", Card(p)), None)
EditCard(u, p, v) ==
    CardAccepted(v[1]) /\ Send(u, Card(p), WithValue(u, "edit", Card(p), v), v)
DeleteCard(u, p) == Send(u, Card(p), Request(u, "delete", Card(p)), None)

-----------------------------------------------------------------------------
(* Fields that a user takes for the record v: v itself, but a "|" in a field*)
(* other than the last may have come back in another place (RoundTrip).     *)
Faithful(v) == \A f \in 1 .. Len(v) - 1 : ~Has(v[f], Separator)
Matches(fields, v) == v # None /\ (fields = v \/ ~Faithful(v))

(* The answer arrives.  An error tells u nothing; success tells what stands *)
(* under m, but for what late calls may still do to it.                     *)
Receive(u) ==
    /\ stage[u] = "waiting"
    /\ LET r == mine[u]
           q == ask[r]
           key == <<u, q.meta>>
           opened == IF answer[r].ok /\ q.op = "get" THEN Open(q.meta[1], answer[r].data)
                                                     ELSE Error
           known == IF q.op # "get" THEN {intent[r]}
                    ELSE {v \in may[key] : Matches(opened.fields, v)} IN
       /\ Server!End(r)
       /\ intent' = [intent EXCEPT ![r] = None]
       /\ read' = [read EXCEPT ![u] = IF opened.ok THEN opened.fields ELSE None]
       /\ may' = IF answer[r].ok /\ (q.op = "get" => opened.ok)
                 THEN [may EXCEPT ![key] = known \cup rivals[u]]
                 ELSE may
    /\ stage' = [stage EXCEPT ![u] = "ready"]
    /\ mine' = [mine EXCEPT ![u] = None]
    /\ rivals' = [rivals EXCEPT ![u] = {}]
    /\ UNCHANGED <<token, login>>

-----------------------------------------------------------------------------
(* The server                                                               *)

Work(r) ==
    /\ Server!Perform(r) \/ Server!Fail(r)
    /\ UNCHANGED <<process, knowledge>>

(* The answer to a call whose client was killed.                            *)
Discard(r) ==
    /\ \A u \in Users : mine[u] # r
    /\ Server!End(r)
    /\ intent' = [intent EXCEPT ![r] = None]
    /\ UNCHANGED <<process, read, may, rivals>>

(* The server is killed; who waits for an answer gets an error.             *)
Crash ==
    /\ \E r \in Rpc : ask[r] # None
    /\ Server!Restart
    /\ stage' = [u \in Users |-> IF stage[u] = "waiting" THEN "ready" ELSE stage[u]]
    /\ mine' = [u \in Users |-> None]
    /\ intent' = [r \in Rpc |-> None]
    /\ rivals' = [u \in Users |-> {}]
    /\ UNCHANGED <<token, login, read, may>>

Command(u, p) ==
    \/ \E v \in Pairs : SavePass(u, p, v) \/ EditPass(u, p, v)
    \/ \E v \in Cards : SaveCard(u, p, v) \/ EditCard(u, p, v)
    \/ GetPass(u, p) \/ DeletePass(u, p) \/ GetCard(u, p) \/ DeleteCard(u, p)

Next ==
    \/ \E u \in Users : Authenticate(u) \/ Expire(u) \/ Leave(u) \/ Receive(u)
    \/ \E u \in Users, p \in Places : Command(u, p)
    \/ \E r \in Rpc : Work(r) \/ Discard(r)
    \/ Crash

Spec == Init /\ [][Next]_vars

-----------------------------------------------------------------------------
(* Properties                                                               *)

TypeOK ==
    /\ LET Kept == Ciphers \cup {None} IN vault \in [Server!Keys -> Kept]
    /\ \A r \in Rpc : ask[r] # None => ask[r].login \in Users /\ ask[r].meta \in Metas
    /\ \A r \in Rpc : answer[r] # None => ask[r] # None
    /\ stage \in [Users -> {"start", "ready", "waiting"}]
    /\ token \in [Users -> Tokens]
    /\ login \in [Users -> Users \cup {Nobody}]
    /\ mine \in [Users -> Rpc \cup {None}]
    /\ \A r \in Rpc : intent[r] = None \/ intent[r] \in Records
    /\ \A k \in Users \X Metas : may[k] \subseteq Typed(k[2][1]) \cup {None}

(* What the table holds is what the user must expect: of confirmed saves,   *)
(* edits and deletes the last, and besides only what calls left in doubt by *)
(* an error, a crash or a killed client may have done.                      *)
StoreAsTold ==
    \A u \in Users, m \in Metas :
        LET x == vault[<<u, m>>] IN
        IF x = None THEN None \in may[<<u, m>>]
                    ELSE \E v \in may[<<u, m>>] \ {None} : x = Seal(m[1], v)

(* A Get that succeeds returns a record that its user may expect there.     *)
ReadsWhatWasSaved ==
    [][\A u \in Users : stage[u] = "waiting" /\ stage'[u] = "ready" /\ read'[u] # None =>
          \E v \in may[<<u, ask[mine[u]].meta>>] : Matches(read'[u], v)]_vars

(* A client that failed to authenticate goes on without token and login,    *)
(* but whatever it sends, no record is ever kept under the empty login.     *)
NothingForNobody == \A m \in Metas : vault[<<Nobody, m>>] = None

(* Every card in the table has a number with the check digit of the         *)
(* standard, by whatever saves and edits it came there.                     *)
StoredCardsValid ==
    \A u \in Users, p \in Places :
        LET x == vault[<<u, <<"card", p>>>>] IN
        x # None => IsCardNumber(DecryptCard(x).fields[1])
=============================================================================
