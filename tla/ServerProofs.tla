---------------------------- MODULE ServerProofs ----------------------------
(* Proofs about Server for every number of handlers, every set of methods   *)
(* that clients call and every fault.                                       *)
EXTENDS Server, TLAPS

(* Where the migrations stand: the file that runs is the next one, and what *)
(* is marked as clean has been run.                                         *)
Progress ==
    /\ main = "run" => dirty /\ version \in 1..Len(Migrations) /\ tables = Created(version - 1)
    /\ main = "mark" => dirty /\ tables = Created(version)
    /\ ~dirty => tables = Created(version)

(* What a handler waits for belongs to a stage of its plan.                 *)
OnPlan ==
    \A r \in Rpc : waits[r] # {} =>
        op[r] # None /\ stage[r] \in 1..Len(Plan[op[r]])

IInv == TypeOK /\ StopsInOrder /\ VersionTells /\ Progress /\ OnPlan

-----------------------------------------------------------------------------
LEMMA MigrationFacts ==
    /\ Len(Migrations) = 4
    /\ \A i \in 1..4 : Migrations[i].table \in Tables
BY DEF Migrations, Tables

LEMMA PlanFacts ==
    ASSUME NEW m \in DOMAIN Plan
    PROVE  /\ Len(Plan[m]) \in 1..2
           /\ \A i \in 1..Len(Plan[m]) : Plan[m][i] \subseteq Tables
BY DEF Plan, Tables

(* One more file creates one more table.                                    *)
LEMMA CreatedNext ==
    ASSUME NEW n \in Nat, n >= 1
    PROVE  Created(n) = Created(n - 1) \cup {Migrations[n].table}
<1>1. ASSUME NEW i PROVE i \in 1..n <=> i \in 1..(n - 1) \/ i = n
  OBVIOUS
<1> QED  BY <1>1 DEF Created

-----------------------------------------------------------------------------
(* A process without handlers.                                              *)
LEMMA IdleTypes ==
    /\ [r \in Rpc |-> None] \in [Rpc -> Served \cup {None}]
    /\ [r \in Rpc |-> 0] \in [Rpc -> 0..2]
    /\ [r \in Rpc |-> {}] \in [Rpc -> SUBSET Tables]
OBVIOUS

LEMMA InitIInv == Init => IInv
<1> SUFFICES ASSUME Init PROVE IInv
  OBVIOUS
<1>1. Created(0) = {}
  BY DEF Created
<1>2. TypeOK
    <2>1. op \in [Rpc -> Served \cup {None}] /\ stage \in [Rpc -> 0..2]
        /\ waits \in [Rpc -> SUBSET Tables]
    BY IdleTypes DEF Init, Idle
  <2>2. version \in 0..Len(Migrations)
    BY MigrationFacts DEF Init
  <2> QED  BY <2>1, <2>2 DEF Init, TypeOK, Phases
<1>3. StopsInOrder /\ OnPlan
  BY DEF Init, Idle, StopsInOrder, OnPlan
<1>4. VersionTells /\ Progress
  BY <1>1 DEF Init, VersionTells, Progress
<1> QED  BY <1>2, <1>3, <1>4 DEF IInv

(* The end of the process, at whatever moment.                              *)
LEMMA ExitIInv == ASSUME IInv, Exit PROVE IInv'
<1> USE DEF Exit, schema
<1>1. TypeOK'
  <2>1. op' \in [Rpc -> Served \cup {None}] /\ stage' \in [Rpc -> 0..2]
        /\ waits' \in [Rpc -> SUBSET Tables]
    BY IdleTypes
  <2> QED  BY <2>1 DEF IInv, TypeOK, Phases
<1>2. StopsInOrder' /\ OnPlan'
  BY DEF StopsInOrder, OnPlan
<1>3. VersionTells' /\ Progress'
  BY DEF IInv, VersionTells, Progress, Created
<1> QED  BY <1>1, <1>2, <1>3 DEF IInv

(* A step of main that leaves the schema alone.  Only from serving do       *)
(* handlers come along.                                                     *)
LEMMA GotoIInv ==
    ASSUME IInv, NEW phase \in Phases \ {"run", "mark"}, Goto(phase), UNCHANGED schema,
           main # "draining" \/ Idle, main = "serving" => phase = "draining"
    PROVE  IInv'
<1> USE DEF Goto, schema, handlers
<1>1. TypeOK'
  BY DEF IInv, TypeOK
<1>2. OnPlan'
  BY DEF IInv, OnPlan
<1>3. StopsInOrder'
  BY DEF IInv, StopsInOrder, Idle
<1>4. VersionTells' /\ Progress'
  BY DEF IInv, VersionTells, Progress, Created, Phases
<1> QED  BY <1>1, <1>2, <1>3, <1>4 DEF IInv

(* The three steps of a migration.                                          *)
LEMMA MigrateIInv == ASSUME IInv, Begin \/ Run \/ Mark PROVE IInv'
<1> USE DEF Goto, handlers
<1>1. main \in Migrating
  BY DEF Begin, Run, Mark, From, Migrating
<1>2. StopsInOrder' /\ OnPlan'
  <2>1. \A r \in Rpc : op[r] = None
    BY <1>1 DEF IInv, StopsInOrder, Migrating
  <2>2. UNCHANGED handlers
    BY DEF Begin, Run, Mark
  <2> QED  BY <2>1, <2>2 DEF IInv, StopsInOrder, OnPlan
<1>3. CASE Begin
  <2>1. version' = version + 1 /\ version' \in 1..Len(Migrations) /\ main' = "run"
        /\ dirty' = TRUE /\ tables' = tables /\ indexes' = indexes
    BY <1>3, MigrationFacts DEF Begin, Last, IInv, TypeOK
  <2>2. TypeOK'
    BY <1>3, <2>1, MigrationFacts DEF Begin, IInv, TypeOK, Phases, Migrating
  <2>3. tables' = Created(version' - 1)
    BY <1>3, <2>1, MigrationFacts DEF Begin, IInv, Progress, TypeOK
  <2>4. VersionTells' /\ Progress'
    BY <2>1, <2>3 DEF VersionTells, Progress, Created
  <2> QED  BY <1>2, <2>2, <2>4 DEF IInv
<1>4. CASE Run
  <2> DEFINE file == Migrations[version]
  <2>1. version \in 1..4 /\ dirty /\ tables = Created(version - 1)
    BY <1>4, MigrationFacts DEF Run, From, IInv, Progress
  <2>2. CASE Goto("listen") /\ UNCHANGED schema
    BY <1>1, <2>2, GotoIInv DEF Phases, Migrating
  <2>3. CASE /\ tables' = tables \cup {file.table}
             /\ indexes' = indexes \cup {file.index}
             /\ Goto("mark") /\ UNCHANGED <<version, dirty>>
    <3>1. TypeOK'
      BY <2>1, <2>3, MigrationFacts DEF IInv, TypeOK, Phases, Migrating
    <3>2. tables' = Created(version)
      BY <2>1, <2>3, CreatedNext
    <3>3. VersionTells' /\ Progress'
      BY <2>1, <2>3, <3>2 DEF VersionTells, Progress, Created
    <3> QED  BY <1>2, <3>1, <3>3 DEF IInv
  <2> QED  BY <1>4, <2>2, <2>3 DEF Run
<1>5. CASE Mark
  <2>1. tables = Created(version)
    BY <1>5 DEF Mark, From, IInv, Progress
  <2>2. TypeOK'
    BY <1>5 DEF Mark, IInv, TypeOK, Phases, Migrating
  <2>3. VersionTells' /\ Progress'
    BY <1>5, <2>1 DEF Mark, VersionTells, Progress, Created
  <2> QED  BY <1>2, <2>2, <2>3 DEF IInv
<1> QED  BY <1>3, <1>4, <1>5

-----------------------------------------------------------------------------
(* A handler's own steps change nothing but its three entries.              *)
LEMMA HandlerIInv ==
    ASSUME IInv, UNCHANGED <<process, schema, db>>,
           TypeOK', StopsInOrder', OnPlan'
    PROVE  IInv'
BY DEF IInv, VersionTells, Progress, Created, process, schema

LEMMA CallIInv ==
    ASSUME IInv, NEW r \in Rpc, NEW m \in Served, Call(r, m)
    PROVE  IInv'
<1>1. m \in DOMAIN Plan /\ m # None /\ Len(Plan[m]) \in 1..2 /\ Plan[m][1] \subseteq Tables
  BY PlanFacts, ServerAssumption
<1>2. TypeOK'
  BY <1>1 DEF Call, process, schema, IInv, TypeOK
<1>3. StopsInOrder'
  BY DEF Call, From, process, IInv, StopsInOrder, TypeOK
<1>4. OnPlan'
  BY <1>1 DEF Call, IInv, OnPlan, TypeOK
<1> QED  BY <1>2, <1>3, <1>4, HandlerIInv DEF Call

LEMMA ReturnIInv ==
    ASSUME IInv, NEW r \in Rpc, Return(r), UNCHANGED <<process, schema, db>>
    PROVE  IInv'
<1>1. TypeOK'
  BY DEF Return, process, schema, IInv, TypeOK
<1>2. StopsInOrder'
  BY DEF Return, process, IInv, StopsInOrder, TypeOK
<1>3. OnPlan'
  BY DEF Return, IInv, OnPlan, TypeOK
<1> QED  BY <1>1, <1>2, <1>3, HandlerIInv

(* There is a next stage.                                                   *)
LEMMA NextStage ==
    ASSUME NEW n \in 1..2, NEW k \in 1..n, k < n
    PROVE  k + 1 \in 1..n /\ k + 1 \in 0..2
OBVIOUS

LEMMA OverIInv ==
    ASSUME IInv, NEW r \in Rpc, NEW t \in waits[r], NEW ok \in BOOLEAN, Over(r, t, ok)
    PROVE  IInv'
<1>1. op[r] \in Served /\ op[r] \in DOMAIN Plan
  BY ServerAssumption DEF IInv, OnPlan, TypeOK
<1>2. UNCHANGED <<process, schema, db>>
  BY DEF Over
<1>3. CASE waits[r] # {t}
  <2>1. waits' = [waits EXCEPT ![r] = @ \ {t}] /\ UNCHANGED <<op, stage>>
    BY <1>3 DEF Over
  <2>2. TypeOK'
    BY <1>2, <2>1 DEF process, schema, IInv, TypeOK
  <2>3. StopsInOrder' /\ OnPlan'
    BY <1>2, <2>1 DEF process, IInv, StopsInOrder, OnPlan, TypeOK
  <2> QED  BY <1>2, <2>2, <2>3, HandlerIInv
<1>4. CASE waits[r] = {t} /\ stage[r] < Len(Plan[op[r]]) /\ (ok \/ op[r] = "deleteUser")
  <2>1. /\ stage' = [stage EXCEPT ![r] = @ + 1]
        /\ waits' = [waits EXCEPT ![r] = Plan[op[r]][stage[r] + 1]]
        /\ UNCHANGED op
    BY <1>4 DEF Over
  <2>2. stage[r] + 1 \in 1..Len(Plan[op[r]]) /\ stage[r] + 1 \in 0..2
    <3>1. stage[r] \in 1..Len(Plan[op[r]])
      BY <1>4 DEF IInv, OnPlan
    <3>2. Len(Plan[op[r]]) \in 1..2
      BY <1>1, PlanFacts
    <3>3. stage[r] < Len(Plan[op[r]])
      BY <1>4
    <3> QED  BY <3>1, <3>2, <3>3, NextStage
  <2>3. Plan[op[r]][stage[r] + 1] \subseteq Tables
    BY <1>1, <2>2, PlanFacts
  <2>4. TypeOK'
    BY <1>2, <2>1, <2>2, <2>3 DEF process, schema, IInv, TypeOK
  <2>5. StopsInOrder'
    BY <1>2, <2>1 DEF process, IInv, StopsInOrder
  <2>6. OnPlan'
    BY <1>4, <2>1, <2>2 DEF IInv, OnPlan, TypeOK
  <2> QED  BY <1>2, <2>4, <2>5, <2>6, HandlerIInv
<1>5. CASE Return(r)
  BY <1>2, <1>5, ReturnIInv
<1> QED  BY <1>3, <1>4, <1>5 DEF Over

-----------------------------------------------------------------------------
LEMMA NextIInv == IInv /\ [Next]_vars => IInv'
<1> SUFFICES ASSUME IInv, [Next]_vars PROVE IInv'
  OBVIOUS
<1> USE DEF From
<1>1. CASE Start
  BY <1>1, GotoIInv DEF Start, Phases
<1>2. CASE Open
  BY <1>2, GotoIInv, ExitIInv DEF Open, Phases, Migrating
<1>3. CASE Begin \/ Run \/ Mark
  BY <1>3, MigrateIInv
<1>4. CASE EndMigrations \/ BreakOff
  BY <1>4, GotoIInv DEF EndMigrations, BreakOff, Phases, Migrating
<1>5. CASE Listen
  BY <1>5, GotoIInv, ExitIInv DEF Listen, Phases
<1>6. CASE Serve
  <2>1. CASE Exit
    BY <2>1, ExitIInv
  <2>2. CASE main = "serving" /\ accepting' = TRUE
             /\ UNCHANGED <<main, signalled, schema, db, handlers>>
    BY <2>2 DEF IInv, TypeOK, StopsInOrder, VersionTells, Progress, OnPlan, Created,
                schema, handlers
  <2> QED  BY <1>6, <2>1, <2>2 DEF Serve
<1>7. CASE Drain
  BY <1>7, GotoIInv DEF Drain, Phases
<1>8. CASE Close
  BY <1>8, GotoIInv DEF Close, Phases
<1>9. CASE End \/ ServeFails \/ Kill
  BY <1>9, ExitIInv DEF End, ServeFails, Kill
<1>10. CASE Signal
  BY <1>10 DEF Signal, IInv, TypeOK, StopsInOrder, VersionTells, Progress, OnPlan, Created,
               schema, handlers
<1>11. CASE Silence \/ Recover
  BY <1>11 DEF Silence, Recover, IInv, TypeOK, StopsInOrder, VersionTells, Progress, OnPlan,
               Created, process, schema, handlers
<1>12. ASSUME NEW r \in Rpc, NEW m \in Served, Call(r, m) PROVE IInv'
  BY <1>12, CallIInv
<1>13. ASSUME NEW r \in Rpc, NEW t \in Tables, Complete(r, t) \/ Timeout(r, t) PROVE IInv'
  BY <1>13, OverIInv DEF Complete, Timeout
<1>14. ASSUME NEW r \in Rpc, Abandon(r) PROVE IInv'
  BY <1>14, ReturnIInv DEF Abandon
<1>15. CASE UNCHANGED vars
  BY <1>15 DEF vars, IInv, TypeOK, StopsInOrder, VersionTells, Progress, OnPlan, Created,
               process, schema, handlers
<1> QED  BY <1>1, <1>2, <1>3, <1>4, <1>5, <1>6, <1>7, <1>8, <1>9, <1>10, <1>11, <1>12,
            <1>13, <1>14, <1>15 DEF Next, Main

(* The inductive invariant holds.                                           *)
THEOREM Invariance == Spec => []IInv
BY InitIInv, NextIInv, PTL DEF Spec

(* Types are kept.                                                          *)
THEOREM TypeCorrect == Spec => []TypeOK
<1>1. IInv => TypeOK
  BY DEF IInv
<1> QED  BY <1>1, Invariance, PTL

(* Wherever the signal falls among the steps of main, of the goroutine that *)
(* serves and of the handlers: the orderly stop waits for every call.       *)
THEOREM OrderlyStop == Spec => []StopsInOrder
<1>1. IInv => StopsInOrder
  BY DEF IInv
<1> QED  BY <1>1, Invariance, PTL

(* A server that is killed between two steps of a migration, or loses its   *)
(* database, leaves a version that tells which tables there are.            *)
THEOREM VersionIsTrue == Spec => []VersionTells
<1>1. IInv => VersionTells
  BY DEF IInv
<1> QED  BY <1>1, Invariance, PTL
=============================================================================
