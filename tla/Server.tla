------------------------------- MODULE Server -------------------------------
(***************************************************************************)
(* The life of the goKeeper server process (cmd/server/main.go): the       *)
(* migrations at the start (internal/config/config.go), serving, the       *)
(* signal, GracefulStop and the end, with kills and restarts in between.   *)
(* The handlers appear as what they wait for: the tables of the statements *)
(* that are running.  Statements of StorageFile have no timeout, those on  *)
(* the other three tables do.                                              *)
(***************************************************************************)
EXTENDS Naturals, Sequences

CONSTANTS
    Rpc,     \* the handler goroutines that may run at the same time
    Served,  \* the methods that clients call, a subset of DOMAIN Plan
    Faults,  \* what may go wrong, a subset of {"silence", "kill", "abandon"}
    None     \* no method

Tables == {"users", "passwords", "cards", "files"}

(* The migration files, in order: each creates a table if there is none,    *)
(* and then an index.                                                       *)
Migrations == <<
    [table |-> "users", index |-> "idx_ulogin"],
    [table |-> "passwords", index |-> "idx_login"],
    [table |-> "cards", index |-> "idx_login"],
    [table |-> "files", index |-> "idx_meta"] >>

(* What a method waits for, stage after stage: the statements of a stage    *)
(* run side by side (DeleteUser's goroutines), those that one goroutine     *)
(* makes in a row on one table count as one.                                *)
Plan == [
    authenticateUser |-> <<{"users"}>>,
    registerUser |-> <<{"users"}, {"users"}>>,
    savePassword |-> <<{"passwords"}, {"passwords"}>>,
    saveCard |-> <<{"cards"}>>,
    saveFile |-> <<{"files"}>>,
    editFile |-> <<{"files"}, {"files"}>>,
    deleteUser |-> <<{"passwords", "cards", "files"}, {"users"}>>]

ASSUME ServerAssumption ==
    /\ Served \subseteq DOMAIN Plan /\ None \notin DOMAIN Plan
    /\ Faults \subseteq {"silence", "kill", "abandon"}

(* The tables whose statements run under context.WithTimeout.  Operators    *)
(* named Bad... are faulty variants that no definition uses; they serve to  *)
(* show that a property notices the fault (README, "Mutants").              *)
BadTimed == {"users", "passwords"}
Timed == {"users", "passwords", "cards"}

VARIABLES
    main,       \* what main() is doing
    accepting,  \* the goroutine in Serve accepts calls
    signalled,  \* the context of signal.NotifyContext is done
    version,    \* schema_migrations.version
    dirty,      \* schema_migrations.dirty
    tables,     \* the tables of the database
    indexes,    \* its index names, one name space for the schema
    db,         \* "up", or "silent": no statement is answered
    op,         \* op[r]: the method handler r serves
    stage,      \* stage[r]: the stage of its plan
    waits       \* waits[r]: the tables whose statements it still awaits

process == <<main, accepting, signalled>>
schema == <<version, dirty, tables, indexes>>
handlers == <<op, stage, waits>>
vars == <<process, schema, db, handlers>>

Migrating == {"migrate", "run", "mark"}
Phases == {"off", "open", "listen", "serving", "draining", "closing"} \cup Migrating

Idle ==
    /\ op = [r \in Rpc |-> None]
    /\ stage = [r \in Rpc |-> 0]
    /\ waits = [r \in Rpc |-> {}]

Init ==
    /\ main = "off" /\ accepting = FALSE /\ signalled = FALSE
    /\ version = 0 /\ dirty = FALSE /\ tables = {} /\ indexes = {}
    /\ db = "up"
    /\ Idle

-----------------------------------------------------------------------------
(* The process ends, whatever its handlers are doing.                       *)
Exit ==
    /\ main' = "off"
    /\ accepting' = FALSE /\ signalled' = FALSE
    /\ op' = [r \in Rpc |-> None]
    /\ stage' = [r \in Rpc |-> 0]
    /\ waits' = [r \in Rpc |-> {}]
    /\ UNCHANGED <<schema, db>>

(* main() goes from one phase to the next.                                  *)
From(phase) == main = phase
Goto(phase) == main' = phase /\ UNCHANGED <<accepting, signalled, db, handlers>>

Start == From("off") /\ Goto("open") /\ UNCHANGED schema

(* config.Init; without a database migrate.New returns no object, and the   *)
(* call of its Up panics.                                                   *)
Open ==
    \/ From("open") /\ db = "up" /\ Goto("migrate") /\ UNCHANGED schema
    \/ From("open") /\ db = "silent" /\ Exit

(* The version is not marked as dirty.                                      *)
BadBeginClean ==
    /\ From("migrate") /\ db = "up"
    /\ ~dirty /\ version < Len(Migrations)
    /\ version' = version + 1
    /\ Goto("run")
    /\ UNCHANGED <<dirty, tables, indexes>>

(* Nobody looks where the last attempt has ended.                           *)
BadBeginAlways ==
    /\ From("migrate") /\ db = "up"
    /\ version' = version + 1
    /\ dirty' = TRUE
    /\ Goto("run")
    /\ UNCHANGED <<tables, indexes>>

(* m.Up: for each file the version is stored as dirty, the file is run and  *)
(* the version is stored as clean.                                          *)
Last == version = Len(Migrations)

Begin ==
    /\ From("migrate") /\ db = "up"
    /\ ~dirty /\ ~Last
    /\ version' = version + 1
    /\ dirty' = TRUE
    /\ Goto("run")
    /\ UNCHANGED <<tables, indexes>>

(* The statements of a file go to PostgreSQL at once, as one transaction.   *)
(* Its error is logged and the server goes on.                              *)
Run ==
    /\ From("run") /\ db = "up"
    /\ LET file == Migrations[version] IN
       \/ /\ file.index \notin indexes
          /\ tables' = tables \cup {file.table}
          /\ indexes' = indexes \cup {file.index}
          /\ Goto("mark")
          /\ UNCHANGED <<version, dirty>>
       \/ /\ file.index \in indexes
          /\ Goto("listen")
          /\ UNCHANGED schema

Mark ==
    /\ From("mark") /\ db = "up"
    /\ dirty' = FALSE
    /\ Goto("migrate")
    /\ UNCHANGED <<version, tables, indexes>>

(* m.Up returns: there is nothing to do or the stored version is dirty;     *)
(* config.migrations goes on all the same.                                  *)
EndMigrations ==
    /\ From("migrate") /\ db = "up" /\ (dirty \/ Last)
    /\ Goto("listen")
    /\ UNCHANGED schema

(* The connection to a silent database breaks, and m.Up returns its error.  *)
(* It need not break: no statement of the migrations has a timeout, so main *)
(* hangs as long as the database does.                                      *)
BreakOff ==
    /\ main \in Migrating /\ db = "silent"
    /\ Goto("listen")
    /\ UNCHANGED schema

Listen ==
    /\ From("listen")
    /\ \/ Goto("serving") /\ UNCHANGED schema
       \/ Exit

(* The goroutine that serves has started; if the server is stopped by then, *)
(* or the listener breaks, Serve returns an error and the process exits.    *)
Serve ==
    \/ From("serving") /\ ~accepting /\ accepting' = TRUE
       /\ UNCHANGED <<main, signalled, schema, db, handlers>>
    \/ main \in {"draining", "closing"} /\ ~accepting /\ Exit
ServeFails == From("serving") /\ accepting /\ Exit

(* SIGINT, SIGTERM or SIGQUIT; a second one changes nothing.                *)
Signal ==
    /\ main \in {"listen", "serving"} /\ ~signalled
    /\ signalled' = TRUE
    /\ UNCHANGED <<main, accepting, schema, db, handlers>>

(* Waits for a quiet moment before it stops the server.                     *)
BadDrain ==
    /\ From("serving") /\ signalled
    /\ Idle
    /\ Goto("draining") /\ UNCHANGED schema

(* GracefulStop begins: no more calls are accepted.                         *)
Drain == From("serving") /\ signalled /\ Goto("draining") /\ UNCHANGED schema

(* Stop in place of GracefulStop.                                           *)
BadClose == From("draining") /\ Goto("closing") /\ UNCHANGED schema

(* GracefulStop returns, when the last handler has; then DBconn.Close and   *)
(* the end of main.                                                         *)
Close == From("draining") /\ Idle /\ Goto("closing") /\ UNCHANGED schema
End == From("closing") /\ Exit

(* SIGKILL, a panic, or one of the three signals before NotifyContext.      *)
Kill == "kill" \in Faults /\ main # "off" /\ Exit

-----------------------------------------------------------------------------
(* Handlers                                                                 *)

Call(r, m) ==
    /\ From("serving") /\ accepting
    /\ op[r] = None
    /\ op' = [op EXCEPT ![r] = m]
    /\ stage' = [stage EXCEPT ![r] = 1]
    /\ waits' = [waits EXCEPT ![r] = Plan[m][1]]
    /\ UNCHANGED <<process, schema, db>>

Return(r) ==
    /\ op' = [op EXCEPT ![r] = None]
    /\ stage' = [stage EXCEPT ![r] = 0]
    /\ waits' = [waits EXCEPT ![r] = {}]

(* The statement on t is over; the call ends with the last one or with the  *)
(* first error, except that DeleteUser waits for its goroutines and goes on *)
(* whatever they report.                                                    *)
Over(r, t, ok) ==
    /\ IF waits[r] # {t}
       THEN waits' = [waits EXCEPT ![r] = @ \ {t}] /\ UNCHANGED <<op, stage>>
       ELSE IF stage[r] < Len(Plan[op[r]]) /\ (ok \/ op[r] = "deleteUser")
       THEN /\ stage' = [stage EXCEPT ![r] = @ + 1]
            /\ waits' = [waits EXCEPT ![r] = Plan[op[r]][stage[r] + 1]]
            /\ UNCHANGED op
       ELSE Return(r)
    /\ UNCHANGED <<process, schema, db>>

(* The database answers; the handler goes on or sees an error, always so if *)
(* there is no such table.                                                  *)
Complete(r, t) ==
    /\ t \in waits[r] /\ db = "up"
    /\ \E ok \in BOOLEAN : (ok => t \in tables) /\ Over(r, t, ok)

(* The second that the statement has is over.                               *)
Timeout(r, t) == t \in waits[r] \cap Timed /\ Over(r, t, FALSE)

(* The client is gone, which cancels the context of every statement.        *)
Abandon(r) ==
    "abandon" \in Faults /\ op[r] # None /\ Return(r) /\ UNCHANGED <<process, schema, db>>

(* The database, or the way to it.                                          *)
Silence ==
    /\ "silence" \in Faults
    /\ db = "up" /\ db' = "silent"
    /\ UNCHANGED <<process, schema, handlers>>
Recover == db = "silent" /\ db' = "up" /\ UNCHANGED <<process, schema, handlers>>

-----------------------------------------------------------------------------
Main == Open \/ Begin \/ Run \/ Mark \/ EndMigrations \/ Listen \/ Serve \/ Drain \/ Close \/ End

Next ==
    \/ Start \/ Main \/ BreakOff \/ ServeFails \/ Signal \/ Kill
    \/ Silence \/ Recover
    \/ \E r \in Rpc :
          \/ \E m \in Served : Call(r, m)
          \/ \E t \in Tables : Complete(r, t) \/ Timeout(r, t)
          \/ Abandon(r)

(* main goes on, a database that stays up answers, and a deadline passes.   *)
(* Nothing else needs to happen.                                            *)
Fairness ==
    /\ WF_vars(Open) /\ WF_vars(Begin) /\ WF_vars(Run) /\ WF_vars(Mark)
    /\ WF_vars(EndMigrations) /\ WF_vars(Listen) /\ WF_vars(Serve)
    /\ WF_vars(Drain) /\ WF_vars(Close) /\ WF_vars(End)
    /\ \A r \in Rpc, t \in Tables : WF_vars(Complete(r, t)) /\ WF_vars(Timeout(r, t))

Spec == Init /\ [][Next]_vars
FairSpec == Spec /\ Fairness

-----------------------------------------------------------------------------
(* Properties                                                               *)

TypeOK ==
    /\ main \in Phases
    /\ accepting \in BOOLEAN /\ signalled \in BOOLEAN
    /\ version \in 0..Len(Migrations) /\ dirty \in BOOLEAN
    /\ tables \subseteq Tables
    /\ indexes \subseteq {Migrations[i].index : i \in 1..Len(Migrations)}
    /\ db \in {"up", "silent"}
    /\ op \in [Rpc -> Served \cup {None}]
    /\ stage \in [Rpc -> 0..2]
    /\ waits \in [Rpc -> SUBSET Tables]

(* main closes the pool and leaves only when every handler has returned:    *)
(* GracefulStop loses no call that was accepted, wherever the signal falls. *)
StopsInOrder ==
    \A r \in Rpc : op[r] # None => accepting /\ main \in {"serving", "draining"}

(* The stored version can be trusted over kills and restarts: a clean       *)
(* version has exactly its tables, a dirty one may lack the last.           *)
Created(n) == {Migrations[i].table : i \in 1..n}
VersionTells ==
    \/ tables = Created(version)
    \/ dirty /\ tables = Created(version - 1)

(* Every call comes to an end, even if the database never answers again,    *)
(* but for one that waits for a statement on files alone: deleteUser's      *)
(* goroutines all report to its wait group.                                 *)
AnsweredUnlessFiles ==
    \A r \in Rpc : op[r] # None ~> op[r] = None \/ waits[r] = {"files"}

(* If the database stays up from some time on, a signal ends the server.    *)
SignalEnds == <>[](db = "up") => (signalled ~> main = "off")

(* When config.migrations reports that they were applied successfully, all  *)
(* migrations have been, if the database never fell silent.                 *)
SuccessMeansApplied == main = "listen" => tables = Created(Len(Migrations))
=============================================================================
