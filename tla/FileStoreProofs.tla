--------------------------- MODULE FileStoreProofs ---------------------------
(* Proofs about FileStore for every number of handlers, users, metadata,    *)
(* names and blobs: first with every fault and any number of clients, then, *)
(* from SyncInv on, for users with one client each.                         *)
EXTENDS FileStore, TLAPS

(* What a member of Requests carries, by operation.                         *)
LEMMA RequestFields ==
    ASSUME NEW q \in Requests
    PROVE  /\ q # None
           /\ q.op \in {"save", "edit", "get", "delete", "purge"}
           /\ q.login \in Logins
           /\ q.op # "purge" => q.meta \in Metas
           /\ q.op \in {"save", "edit"} => q.name \in Names \cup {BadName}
           /\ q.op \in {"save", "edit"} => q.blob \in Blobs
BY NoneAssumption DEF Requests

(* Writing any prefix of a blob over a file gives a file.                   *)
LEMMA OverlayType ==
    ASSUME NEW b \in Blobs, NEW k \in Nat, NEW c \in Seq(Blobs)
    PROVE  Overlay(b, k, c) \in Seq(Blobs)
<1> DEFINE n == IF k <= Len(c) THEN Len(c) ELSE k
<1>1. n \in Nat
  OBVIOUS
<1>2. (1..k) \cup DOMAIN c = 1..n
  OBVIOUS
<1>3. Overlay(b, k, c) = [i \in 1..n |-> IF i \in 1..k THEN b ELSE c[i]]
  BY <1>2 DEF Overlay
<1>4. \A i \in 1..n : (IF i \in 1..k THEN b ELSE c[i]) \in Blobs
  <2> TAKE i \in 1..n
  <2>1. CASE i \in 1..k
    BY <2>1
  <2>2. CASE i \notin 1..k
    <3>1. i \in 1..Len(c)
      BY <2>2
    <3> QED  BY <3>1, <2>2
  <2> QED  BY <2>1, <2>2
<1> HIDE DEF n
<1>5. [i \in 1..n |-> IF i \in 1..k THEN b ELSE c[i]] \in Seq(Blobs)
  BY <1>1, <1>4
<1> QED  BY <1>3, <1>5

(* Which operations are possible at a label, and what they know.            *)
LEMMA StageFacts ==
    ASSUME IInv, NEW r \in Rpc, pc[r] # "idle"
    PROVE  /\ call[r] \in Requests
           /\ pc[r] # "done" => ~BadRequest(call[r])
           /\ pc[r] \in {"insert", "undo"} => call[r].op = "save"
           /\ pc[r] \in {"open", "write"} => call[r].op \in {"save", "edit"}
           /\ pc[r] = "update" => call[r].op = "edit"
           /\ pc[r] = "select" => call[r].op \in {"get", "edit", "delete"}
           /\ pc[r] = "read" => call[r].op = "get"
           /\ pc[r] \in {"remove", "erase"} => call[r].op = "delete"
           /\ pc[r] \in {"list", "eraseAll", "removeAll"} => call[r].op = "purge"
BY RequestFields DEF IInv, TypeOK, OnStage, Stages

(* An idle handler holds nothing.                                           *)
LEMMA IdleFacts ==
    ASSUME IInv, NEW r \in Rpc, pc[r] = "idle"
    PROVE  call[r] = None /\ seen[r] = {} /\ fd[r] = {}
<1>1. call[r] = None
  <2>1. ASSUME call[r] \in Requests  PROVE "idle" \notin Stages[call[r].op]
    BY <2>1, RequestFields DEF Stages
  <2> QED  BY <2>1 DEF IInv, TypeOK, OnStage
<1>2. seen[r] = {} /\ fd[r] = {}
  BY <1>1 DEF IInv, Confined
<1> QED  BY <1>1, <1>2

(* The paths a handler works on belong to the user it serves.               *)
LEMMA TargetsOwned ==
    ASSUME IInv, NEW r \in Rpc, pc[r] # "idle", pc[r] # "done", NEW p \in Targets(r)
    PROVE  p \in Paths /\ Owner(p) = call[r].login
<1>1. call[r] \in Requests /\ ~BadRequest(call[r])
  BY StageFacts
<1>2. CASE call[r].op = "save"
  BY <1>1, <1>2, RequestFields DEF Targets, Paths, Owner, BadRequest
<1>3. CASE call[r].op # "save"
  BY <1>3 DEF Targets, IInv, TypeOK, Confined, Row
<1> QED  BY <1>2, <1>3

-----------------------------------------------------------------------------
(* One lemma per action: it keeps the inductive invariant.                  *)

LEMMA InitIInv == Init => IInv
<1> SUFFICES ASSUME Init  PROVE IInv
  OBVIOUS
<1> USE DEF Init
<1>1. TypeOK
  BY DEF TypeOK, Labels
<1>2. OnStage /\ RowsAtHome /\ Confined
  BY DEF OnStage, RowsAtHome, Confined
<1> QED  BY <1>1, <1>2 DEF IInv

LEMMA CallIInv ==
    ASSUME IInv, NEW r \in Rpc, NEW q \in Requests, Call(r, q)
    PROVE  IInv'
<1> USE DEF Call, Arrives, InFlight
<1>0. q \in Requests /\ q # None /\ ~BadRequest(q)
  BY RequestFields
<1>1. FirstLabel[q.op] \in Labels /\ FirstLabel[q.op] \in Stages[q.op]
  BY RequestFields DEF FirstLabel, Stages, Labels
<1>2. call[r] = None /\ seen[r] = {} /\ fd[r] = {}
  BY IdleFacts
<1>3. TypeOK'
  BY <1>0, <1>1 DEF IInv, TypeOK
<1>4. OnStage'
  BY <1>0, <1>1 DEF IInv, TypeOK, OnStage, BadRequest
<1>5. RowsAtHome' /\ Confined'
  BY <1>2 DEF IInv, TypeOK, RowsAtHome, Confined
<1> QED  BY <1>3, <1>4, <1>5 DEF IInv

LEMMA RefuseIInv ==
    ASSUME IInv, NEW r \in Rpc, NEW q \in Requests, Refuse(r, q)
    PROVE  IInv'
<1> USE DEF Refuse, Arrives, InFlight
<1>1. "done" \in Stages[q.op] /\ q # None
  BY RequestFields DEF Stages
<1>2. call[r] = None /\ seen[r] = {} /\ fd[r] = {}
  BY IdleFacts
<1>3. TypeOK'
  BY DEF IInv, TypeOK, Labels, Codes
<1>4. OnStage'
  BY <1>1 DEF IInv, TypeOK, OnStage, BadRequest
<1>5. RowsAtHome' /\ Confined'
  BY <1>2 DEF IInv, TypeOK, RowsAtHome, Confined
<1> QED  BY <1>3, <1>4, <1>5 DEF IInv

LEMMA ReturnIInv ==
    ASSUME IInv, NEW r \in Rpc, Return(r)
    PROVE  IInv'
<1> USE DEF Return
<1>1. fd[r] = {}
  BY DEF IInv, TypeOK, Confined
<1>2. TypeOK'
  BY DEF IInv, TypeOK, Labels
<1>3. OnStage'
  BY DEF IInv, TypeOK, OnStage, BadRequest
<1>4. RowsAtHome' /\ Confined'
  BY <1>1 DEF IInv, TypeOK, RowsAtHome, Confined
<1> QED  BY <1>2, <1>3, <1>4 DEF IInv

LEMMA CrashIInv == IInv /\ Crash => IInv'
<1> SUFFICES ASSUME IInv, Crash  PROVE IInv'
  OBVIOUS
<1> USE DEF Crash, stores
<1>1. TypeOK'
  BY DEF IInv, TypeOK, Labels
<1>2. OnStage' /\ RowsAtHome' /\ Confined'
  BY DEF IInv, TypeOK, OnStage, RowsAtHome, Confined
<1> QED  BY <1>1, <1>2 DEF IInv

LEMMA SelectIInv ==
    ASSUME IInv, NEW r \in Rpc, Select(r)
    PROVE  IInv'
<1> USE DEF Select
<1>1. /\ call[r] \in Requests
      /\ call[r].op \in {"get", "edit", "delete"}
      /\ ~BadRequest(call[r])
  BY StageFacts
<1>2. CASE Finish(r, IF call[r].op = "edit" THEN "NotFound" ELSE "Unknown")
           /\ UNCHANGED <<files, disk, fd, seen>>
  <2> USE <1>2 DEF Finish, Answer
  <2>1. TypeOK'
    BY DEF IInv, TypeOK, Labels, Codes
  <2>2. OnStage'
    BY <1>1 DEF IInv, TypeOK, OnStage, Stages
  <2>3. RowsAtHome' /\ Confined'
    BY DEF IInv, TypeOK, RowsAtHome, Confined
  <2> QED  BY <2>1, <2>2, <2>3 DEF IInv
<1>3. ASSUME NEW f \in RowsAt(call[r].login, call[r].meta),
             seen' = [seen EXCEPT ![r] = {f}],
             Goto(r, AfterSelect[call[r].op])
      PROVE  IInv'
  <2> USE <1>3 DEF Goto
  <2>1. AfterSelect[call[r].op] \in Labels \cap Stages[call[r].op]
    BY <1>1 DEF AfterSelect, Stages, Labels
  <2>2. f \in files /\ f \in Row /\ f.login = call[r].login /\ Owner(f.path) = f.login
    BY DEF RowsAt, IInv, TypeOK, RowsAtHome
  <2>3. TypeOK'
    BY <2>1, <2>2 DEF IInv, TypeOK
  <2>4. OnStage'
    BY <1>1, <2>1 DEF IInv, TypeOK, OnStage
  <2>5. RowsAtHome' /\ Confined'
    BY <1>1, <2>2, RequestFields DEF IInv, TypeOK, RowsAtHome, Confined
  <2> QED  BY <2>3, <2>4, <2>5 DEF IInv
<1> QED  BY <1>2, <1>3

(* Control: an answer or a jump to a stage of the operation keeps the types *)
(* of pc, call and reply, and the stages.                                   *)
Control == /\ pc \in [Rpc -> Labels]
           /\ call \in [Rpc -> Requests \cup {None}]
           /\ reply \in [Rpc -> [code : Codes, data : Seq(Blobs) \cup {None}]
                                \cup {None}]
           /\ OnStage

OthersStay(r) == \A s \in Rpc \ {r} : pc'[s] = pc[s]

LEMMA AnswerControl ==
    ASSUME IInv, NEW r \in Rpc, pc[r] # "idle", NEW code \in Codes,
           NEW data \in Seq(Blobs) \cup {None}, Answer(r, code, data)
    PROVE  Control' /\ call' = call /\ pc'[r] = "done" /\ OthersStay(r)
<1> USE DEF Answer
<1>1. call[r] \in Requests /\ "done" \in Stages[call[r].op]
  BY StageFacts, RequestFields DEF Stages
<1>2. /\ pc' \in [Rpc -> Labels] /\ call' = call /\ pc'[r] = "done"
      /\ reply' \in [Rpc -> [code : Codes, data : Seq(Blobs) \cup {None}] \cup {None}]
  BY DEF IInv, TypeOK, Labels
<1>3. OnStage'
  BY <1>1, <1>2 DEF IInv, TypeOK, OnStage
<1> QED  BY <1>2, <1>3 DEF Control, IInv, TypeOK, OthersStay

LEMMA FinishControl ==
    ASSUME IInv, NEW r \in Rpc, pc[r] # "idle", NEW code \in Codes, Finish(r, code)
    PROVE  Control' /\ call' = call /\ pc'[r] = "done" /\ OthersStay(r)
BY AnswerControl DEF Finish

LEMMA GotoControl ==
    ASSUME IInv, NEW r \in Rpc, pc[r] \notin {"idle", "done"},
           NEW label \in Labels, label \in Stages[call[r].op], Goto(r, label)
    PROVE  Control' /\ call' = call /\ pc'[r] = label /\ OthersStay(r)
<1> USE DEF Goto
<1>1. call[r] \in Requests /\ ~BadRequest(call[r])
  BY StageFacts
<1>2. /\ pc' \in [Rpc -> Labels] /\ call' = call /\ pc'[r] = label /\ reply' = reply
  BY DEF IInv, TypeOK
<1>3. OnStage'
  BY <1>1, <1>2 DEF IInv, TypeOK, OnStage
<1> QED  BY <1>2, <1>3 DEF Control, IInv, TypeOK, OthersStay

(* Data: the rest of the invariant.                                         *)
DataOK == /\ files \in SUBSET Row
          /\ disk \in [Paths -> Seq(Blobs) \cup {None}]
          /\ seen \in [Rpc -> SUBSET Row]
          /\ fd \in [Rpc -> SUBSET Paths]
          /\ RowsAtHome
          /\ Confined

LEMMA Join == Control' /\ DataOK' => IInv'
BY DEF IInv, TypeOK, Control, DataOK

LEMMA RowsData ==
    ASSUME IInv, NEW r \in Rpc, pc[r] # "write", call' = call, OthersStay(r),
           UNCHANGED <<disk, seen, fd>>,
           files' \in SUBSET Row, \A f \in files' : Owner(f.path) = f.login
    PROVE  DataOK'
<1>1. fd[r] = {}
  BY DEF IInv, TypeOK, Confined
<1>2. Confined'
  BY <1>1 DEF IInv, TypeOK, Confined, OthersStay
<1> QED  BY <1>2 DEF DataOK, IInv, TypeOK, RowsAtHome

LEMMA UnlinkData ==
    ASSUME IInv, NEW r \in Rpc, pc[r] # "write", call' = call, OthersStay(r),
           NEW p \in Paths, Unlink(p), files' = files,
           seen' \in [Rpc -> SUBSET Row], \A s \in Rpc : seen'[s] \subseteq seen[s]
    PROVE  DataOK'
<1> USE DEF Unlink
<1>1. fd[r] = {}
  BY DEF IInv, TypeOK, Confined
<1>2. /\ disk' \in [Paths -> Seq(Blobs) \cup {None}]
      /\ \A x \in Paths \ {p} : disk'[x] = disk[x]
  BY DEF IInv, TypeOK
<1>3. fd' \in [Rpc -> SUBSET Paths] /\ \A s \in Rpc : fd'[s] = fd[s] \ {p}
  BY DEF IInv, TypeOK
<1>4. Confined'
  BY <1>1, <1>2, <1>3 DEF IInv, TypeOK, Confined, OthersStay
<1> QED  BY <1>2, <1>3, <1>4 DEF DataOK, IInv, TypeOK, RowsAtHome

LEMMA SeenData ==
    ASSUME IInv, NEW r \in Rpc, pc[r] # "write", call' = call, OthersStay(r),
           UNCHANGED <<files, disk, fd>>,
           seen' \in [Rpc -> SUBSET Row], \A s \in Rpc : seen'[s] \subseteq seen[s]
    PROVE  DataOK'
<1>1. fd[r] = {}
  BY DEF IInv, TypeOK, Confined
<1>2. Confined'
  BY <1>1 DEF IInv, TypeOK, Confined, OthersStay
<1> QED  BY <1>2 DEF DataOK, IInv, TypeOK, RowsAtHome

LEMMA OpenIInv ==
    ASSUME IInv, NEW r \in Rpc, Open(r)
    PROVE  IInv'
<1> USE DEF Open
<1>0. /\ call[r] \in Requests /\ pc[r] = "open"
      /\ call[r].op \in {"save", "edit"}
  BY StageFacts
<1>1. CASE DiskError(r) /\ UNCHANGED <<files, disk, fd, seen>>
  <2>1. Control' /\ call' = call /\ OthersStay(r)
    BY <1>0, <1>1, FinishControl DEF DiskError, Codes
  <2>2. DataOK'
    BY <1>0, <1>1, <2>1, SeenData DEF IInv, TypeOK
  <2> QED  BY <2>1, <2>2, Join
<1>2. ASSUME NEW p \in Targets(r),
             disk' = [disk EXCEPT ![p] = <<>>],
             fd' = [fd EXCEPT ![r] = {p}],
             Goto(r, "write")
      PROVE  IInv'
  <2>1. p \in Paths /\ Owner(p) = call[r].login
    BY <1>0, TargetsOwned
  <2>2. Control' /\ call' = call /\ pc'[r] = "write" /\ OthersStay(r)
    BY <1>0, <1>2, GotoControl DEF Stages, Labels
  <2>4. <<>> \in Seq(Blobs) /\ <<>> # None
    <3>1. <<>> \in Seq(Blobs)
      OBVIOUS
    <3> QED  BY <3>1, NoneAssumption
  <2>5. /\ disk' \in [Paths -> Seq(Blobs) \cup {None}]
        /\ \A x \in Paths : disk[x] # None => disk'[x] # None
        /\ disk'[p] # None
    BY <1>2, <2>1, <2>4 DEF IInv, TypeOK
  <2>6. fd' \in [Rpc -> SUBSET Paths] /\ fd'[r] = {p}
        /\ \A s \in Rpc \ {r} : fd'[s] = fd[s]
    BY <1>2, <2>1 DEF IInv, TypeOK
  <2>7. Confined'
    BY <2>1, <2>2, <2>5, <2>6 DEF IInv, TypeOK, Confined, OthersStay
  <2>8. DataOK'
    BY <2>5, <2>6, <2>7 DEF DataOK, IInv, TypeOK, RowsAtHome
  <2> QED  BY <2>2, <2>8, Join
<1> QED  BY <1>1, <1>2

LEMMA WriteIInv ==
    ASSUME IInv, NEW r \in Rpc, Write(r)
    PROVE  IInv'
<1> USE DEF Write
<1>1. /\ call[r] \in Requests /\ pc[r] = "write"
      /\ call[r].op \in {"save", "edit"} /\ call[r].blob \in Blobs
  BY StageFacts, RequestFields
<1>2. PICK k \in Nat : WriteChunks(r, k)
  BY <1>1, FileStoreAssumption
<1>3. Control' /\ call' = call /\ OthersStay(r)
  <2>1. CASE Goto(r, IF call[r].op = "save" THEN "insert" ELSE "update")
    BY <1>1, <2>1, GotoControl DEF Stages, Labels
  <2>2. CASE DiskError(r)
    BY <1>1, <2>2, FinishControl DEF DiskError, Codes
  <2> QED  BY <2>1, <2>2
<1>4. ASSUME NEW p \in Paths
      PROVE  /\ disk'[p] \in Seq(Blobs) \cup {None}
             /\ disk[p] # None => disk'[p] # None
  <2>1. CASE p \in fd[r]
    <3>1. disk[p] \in Seq(Blobs)
      BY <2>1 DEF IInv, TypeOK, Confined
    <3>2. disk'[p] \in Seq(Blobs)
      BY <1>1, <1>2, <2>1, <3>1, OverlayType DEF WriteChunks
    <3> QED  BY <3>2, NoneAssumption
  <2>2. CASE p \notin fd[r]
    BY <1>2, <2>2 DEF WriteChunks, IInv, TypeOK
  <2> QED  BY <2>1, <2>2
<1>5. disk' \in [Paths -> Seq(Blobs) \cup {None}]
  BY <1>2, <1>4 DEF WriteChunks
<1>6. fd' \in [Rpc -> SUBSET Paths] /\ fd'[r] = {} /\ \A s \in Rpc \ {r} : fd'[s] = fd[s]
  BY DEF IInv, TypeOK
<1>7. Confined'
  BY <1>3, <1>4, <1>6 DEF IInv, TypeOK, Confined, OthersStay
<1>8. DataOK'
  BY <1>5, <1>6, <1>7 DEF DataOK, IInv, TypeOK, RowsAtHome
<1> QED  BY <1>3, <1>8, Join

LEMMA InsertIInv ==
    ASSUME IInv, NEW r \in Rpc, Insert(r)
    PROVE  IInv'
<1> USE DEF Insert
<1>1. /\ call[r] \in Requests /\ pc[r] = "insert" /\ call[r].op = "save"
      /\ call[r].login \in Logins /\ call[r].meta \in Metas /\ call[r].name \in Names
  BY StageFacts, RequestFields DEF BadRequest
<1>2. Control' /\ call' = call /\ OthersStay(r)
  <2>1. CASE Goto(r, "undo")
    BY <1>1, <2>1, GotoControl DEF Stages, Labels
  <2>2. CASE Finish(r, "OK")
    BY <1>1, <2>2, FinishControl DEF Codes
  <2> QED  BY <2>1, <2>2
<1>3. NewRow(call[r]) \in Row /\ Owner(NewRow(call[r]).path) = NewRow(call[r]).login
  BY <1>1 DEF NewRow, Row, Paths, Owner
<1>4. files' \in SUBSET Row /\ \A f \in files' : Owner(f.path) = f.login
  BY <1>3 DEF IInv, TypeOK, RowsAtHome
<1>5. DataOK'
  BY <1>1, <1>2, <1>4, RowsData
<1> QED  BY <1>2, <1>5, Join

LEMMA UndoIInv ==
    ASSUME IInv, NEW r \in Rpc, Undo(r)
    PROVE  IInv'
<1> USE DEF Undo
<1>1. Control' /\ call' = call /\ OthersStay(r)
  BY FinishControl DEF Codes
<1>2. DataOK'
  <2>1. CASE \E p \in Targets(r) : Unlink(p)
    BY <1>1, <2>1, TargetsOwned, UnlinkData DEF IInv, TypeOK
  <2>2. CASE UNCHANGED <<disk, fd>>
    BY <1>1, <2>2, SeenData DEF IInv, TypeOK
  <2> QED  BY <2>1, <2>2
<1> QED  BY <1>1, <1>2, Join

LEMMA ReadIInv ==
    ASSUME IInv, NEW r \in Rpc, Read(r)
    PROVE  IInv'
<1> USE DEF Read
<1>1. Control' /\ call' = call /\ OthersStay(r)
  <2>1. CASE Finish(r, "Unknown")
    BY <2>1, FinishControl DEF Codes
  <2>2. ASSUME NEW p \in Targets(r), Answer(r, "OK", disk[p])
        PROVE  Control' /\ call' = call /\ OthersStay(r)
    <3>1. disk[p] \in Seq(Blobs) \cup {None}
      BY TargetsOwned DEF IInv, TypeOK
    <3> QED  BY <2>2, <3>1, AnswerControl DEF Codes
  <2> QED  BY <2>1, <2>2
<1>2. DataOK'
  BY <1>1, SeenData DEF IInv, TypeOK
<1> QED  BY <1>1, <1>2, Join

LEMMA RemoveIInv ==
    ASSUME IInv, NEW r \in Rpc, Remove(r)
    PROVE  IInv'
<1> USE DEF Remove
<1>1. call[r] \in Requests /\ call[r].op = "delete"
  BY StageFacts
<1>2. CASE (\E p \in Targets(r) : Unlink(p)) /\ Goto(r, "erase")
  <2>1. Control' /\ call' = call /\ OthersStay(r)
    BY <1>1, <1>2, GotoControl DEF Stages, Labels
  <2>2. DataOK'
    BY <1>2, <2>1, TargetsOwned, UnlinkData DEF IInv, TypeOK
  <2> QED  BY <2>1, <2>2, Join
<1>3. CASE Finish(r, "Internal") /\ UNCHANGED <<disk, fd>>
  <2>1. Control' /\ call' = call /\ OthersStay(r)
    BY <1>3, FinishControl DEF Codes
  <2>2. DataOK'
    BY <1>3, <2>1, SeenData DEF IInv, TypeOK
  <2> QED  BY <2>1, <2>2, Join
<1> QED  BY <1>2, <1>3

LEMMA EraseIInv ==
    ASSUME IInv, NEW r \in Rpc, Erase(r)
    PROVE  IInv'
<1> USE DEF Erase
<1>1. Control' /\ call' = call /\ OthersStay(r)
  BY FinishControl DEF Codes
<1>2. files' \in SUBSET Row /\ \A f \in files' : Owner(f.path) = f.login
  BY DEF IInv, TypeOK, RowsAtHome
<1>3. DataOK'
  BY <1>1, <1>2, RowsData
<1> QED  BY <1>1, <1>3, Join

(* The path that EditFile writes back is one it read in a row of its user.  *)
LEMMA UpdateIInv ==
    ASSUME IInv, NEW r \in Rpc, Update(r)
    PROVE  IInv'
<1> USE DEF Update
<1>1. Control' /\ call' = call /\ OthersStay(r)
  BY FinishControl DEF Codes
<1>2. files' \in SUBSET Row /\ \A f \in files' : Owner(f.path) = f.login
  <2>1. CASE UNCHANGED files
    BY <2>1 DEF IInv, TypeOK, RowsAtHome
  <2>2. ASSUME NEW p \in Targets(r),
               files' = Repoint(files, call[r].login, call[r].meta, p),
               NEW g \in files'
        PROVE  g \in Row /\ Owner(g.path) = g.login
    <3>1. p \in Paths /\ Owner(p) = call[r].login
      BY TargetsOwned
    <3>2. PICK f \in files :
             g = IF f.login = call[r].login /\ f.meta = call[r].meta
                 THEN [f EXCEPT !.path = p] ELSE f
      BY <2>2 DEF Repoint
    <3>3. f \in Row /\ Owner(f.path) = f.login
      BY DEF IInv, TypeOK, RowsAtHome
    <3> QED  BY <3>1, <3>2, <3>3 DEF Row
  <2>3. CASE \E p \in Targets(r) :
               files' = Repoint(files, call[r].login, call[r].meta, p)
    BY <2>2, <2>3
  <2> QED  BY <2>1, <2>3
<1>3. DataOK'
  BY <1>1, <1>2, RowsData
<1> QED  BY <1>1, <1>3, Join

LEMMA ListIInv ==
    ASSUME IInv, NEW r \in Rpc, List(r)
    PROVE  IInv'
<1> USE DEF List
<1>0. call[r] \in Requests /\ call[r].op = "purge"
  BY StageFacts
<1>1. CASE seen' = [seen EXCEPT ![r] = RowsOf(call[r].login)] /\ Goto(r, "eraseAll")
  <2>1. Control' /\ call' = call /\ OthersStay(r)
    BY <1>0, <1>1, GotoControl DEF Stages, Labels
  <2>2. /\ seen' \in [Rpc -> SUBSET Row]
        /\ \A s \in Rpc \ {r} : seen'[s] = seen[s]
        /\ seen'[r] = RowsOf(call[r].login)
    BY <1>1 DEF IInv, TypeOK, RowsOf
  <2>3. fd[r] = {} /\ call[r] # None
    BY <1>0, RequestFields DEF IInv, TypeOK, Confined
  <2>4. Confined'
    BY <2>1, <2>2, <2>3 DEF IInv, TypeOK, Confined, OthersStay, RowsOf, RowsAtHome
  <2>5. DataOK'
    BY <2>2, <2>4 DEF DataOK, IInv, TypeOK, RowsAtHome
  <2> QED  BY <2>1, <2>5, Join
<1>2. CASE Finish(r, "Unknown") /\ UNCHANGED seen
  <2>1. Control' /\ call' = call /\ OthersStay(r)
    BY <1>2, FinishControl DEF Codes
  <2>2. DataOK'
    BY <1>2, <2>1, SeenData DEF IInv, TypeOK
  <2> QED  BY <2>1, <2>2, Join
<1> QED  BY <1>1, <1>2

LEMMA EraseAllIInv ==
    ASSUME IInv, NEW r \in Rpc, EraseAll(r)
    PROVE  IInv'
<1> USE DEF EraseAll
<1>0. call[r] \in Requests /\ call[r].op = "purge"
  BY StageFacts
<1>1. Control' /\ call' = call /\ OthersStay(r)
  <2>1. CASE Goto(r, "removeAll")
    BY <1>0, <2>1, GotoControl DEF Stages, Labels
  <2>2. CASE Finish(r, "Unknown")
    BY <2>2, FinishControl DEF Codes
  <2> QED  BY <2>1, <2>2
<1>2. files' \in SUBSET Row /\ \A f \in files' : Owner(f.path) = f.login
  BY DEF IInv, TypeOK, RowsAtHome
<1>3. DataOK'
  BY <1>1, <1>2, RowsData
<1> QED  BY <1>1, <1>3, Join

LEMMA RemoveAllIInv ==
    ASSUME IInv, NEW r \in Rpc, RemoveAll(r)
    PROVE  IInv'
<1> USE DEF RemoveAll
<1>0. call[r] \in Requests /\ call[r].op = "purge"
  BY StageFacts
<1>1. ASSUME NEW f \in seen[r], seen' = [seen EXCEPT ![r] = @ \ {f}],
             Unlink(f.path) \/ UNCHANGED <<disk, fd>>, Goto(r, "removeAll")
      PROVE  IInv'
  <2>1. Control' /\ call' = call /\ OthersStay(r)
    BY <1>0, <1>1, GotoControl DEF Stages, Labels
  <2>2. seen' \in [Rpc -> SUBSET Row] /\ \A s \in Rpc : seen'[s] \subseteq seen[s]
    BY <1>1 DEF IInv, TypeOK
  <2>3. f.path \in Paths
    BY DEF IInv, TypeOK, Row
  <2>4. DataOK'
    BY <1>1, <2>1, <2>2, <2>3, UnlinkData, SeenData
  <2> QED  BY <2>1, <2>4, Join
<1>2. CASE Finish(r, "OK") /\ UNCHANGED <<disk, fd, seen>>
  <2>1. Control' /\ call' = call /\ OthersStay(r)
    BY <1>2, FinishControl DEF Codes
  <2>2. DataOK'
    BY <1>2, <2>1, SeenData DEF IInv, TypeOK
  <2> QED  BY <2>1, <2>2, Join
<1> QED  BY <1>1, <1>2

-----------------------------------------------------------------------------
(* The invariant is inductive, so every reachable state satisfies it.       *)
LEMMA Inductive == IInv /\ [Next]_vars => IInv'
<1> SUFFICES ASSUME IInv, [Next]_vars  PROVE IInv'
  OBVIOUS
<1>1. CASE UNCHANGED vars
  BY <1>1 DEF vars, IInv, TypeOK, OnStage, RowsAtHome, Confined
<1>2. ASSUME NEW r \in Rpc, NEW q \in Requests, Call(r, q) \/ Refuse(r, q)
      PROVE  IInv'
  BY <1>2, CallIInv, RefuseIInv
<1>3. ASSUME NEW r \in Rpc, Step(r)
      PROVE  IInv'
  BY <1>3, SelectIInv, OpenIInv, WriteIInv, InsertIInv, UndoIInv, ReadIInv,
     RemoveIInv, EraseIInv, UpdateIInv, ListIInv, EraseAllIInv, RemoveAllIInv,
     ReturnIInv DEF Step
<1>4. CASE Crash
  BY <1>4, CrashIInv
<1> QED  BY <1>1, <1>2, <1>3, <1>4 DEF Next

(* Rows, files and what handlers carry between two steps belong to the login*)
(* they serve, in every execution.                                          *)
THEOREM Invariance == Spec => []IInv
<1> QED  BY InitIInv, Inductive, PTL DEF Spec

(* Every variable keeps its type in every execution of the file service,    *)
(* whatever fails and however its handlers interleave.                      *)
THEOREM TypeCorrect == Spec => []TypeOK
<1>1. IInv => TypeOK
  BY DEF IInv
<1> QED  BY <1>1, Invariance, PTL

(* No row of table files ever points outside the directory of its login,    *)
(* although EditFile writes back a path it read some steps earlier.         *)
THEOREM PathsStayHome == Spec => []RowsAtHome
<1>1. IInv => RowsAtHome
  BY DEF IInv
<1> QED  BY <1>1, Invariance, PTL

-----------------------------------------------------------------------------
(* Isolation.  A step of handler r changes only rows and files of the login *)
(* it serves.                                                               *)
Local(l) ==
    /\ \A f : f \in files /\ f.login # l => f \in files'
    /\ \A f : f \in files' /\ f.login # l => f \in files
    /\ \A p \in Paths : Owner(p) # l => disk'[p] = disk[p]

LEMMA StepLocal ==
    ASSUME IInv, NEW r \in Rpc, Step(r), ~Return(r)
    PROVE  InFlight(r) /\ Local(call[r].login)
<1> USE DEF Local, InFlight
<1>1. ASSUME NEW p \in Targets(r), pc[r] # "idle", pc[r] # "done"
      PROVE  p \in Paths /\ Owner(p) = call[r].login
  BY <1>1, TargetsOwned
<1>2. CASE Select(r) \/ Read(r) \/ List(r)
  BY <1>2 DEF Select, Read, List
<1>3. CASE Open(r)
  BY <1>1, <1>3 DEF Open, IInv, TypeOK
<1>4. CASE Write(r)
  <2>1. PICK k : WriteChunks(r, k)
    BY <1>4 DEF Write
  <2>2. \A p \in Paths : Owner(p) # call[r].login => p \notin fd[r]
    BY DEF IInv, Confined
  <2> QED  BY <1>4, <2>1, <2>2 DEF Write, WriteChunks, IInv, TypeOK
<1>5. CASE Insert(r)
  BY <1>5 DEF Insert, NewRow
<1>6. CASE Undo(r) \/ Remove(r)
  BY <1>1, <1>6 DEF Undo, Remove, Unlink, IInv, TypeOK
<1>7. CASE Erase(r)
  BY <1>7 DEF Erase, RowsAt
<1>8. CASE Update(r)
  <2>1. ASSUME NEW p, files' = Repoint(files, call[r].login, call[r].meta, p)
        PROVE  /\ \A f : f \in files /\ f.login # call[r].login => f \in files'
               /\ \A f : f \in files' /\ f.login # call[r].login => f \in files
    <3>1. \A f \in files : [f EXCEPT !.path = p].login = f.login
      BY DEF IInv, TypeOK, Row
    <3> QED  BY <2>1, <3>1 DEF Repoint
  <2> QED  BY <1>8, <2>1 DEF Update
<1>9. CASE EraseAll(r)
  BY <1>9 DEF EraseAll, RowsOf
<1>10. CASE RemoveAll(r)
  <2>1. \A f \in seen[r] : f.path \in Paths /\ Owner(f.path) = call[r].login
    BY DEF IInv, TypeOK, Confined, Row
  <2> QED  BY <1>10, <2>1 DEF RemoveAll, Unlink, IInv, TypeOK
<1> QED  BY <1>2, <1>3, <1>4, <1>5, <1>6, <1>7, <1>8, <1>9, <1>10 DEF Step

LEMMA NextIsolated ==
    IInv /\ [Next]_vars =>
      \A l \in Logins : ~Busy(l) => UNCHANGED <<RowsOf(l), DirOf(l)>>
<1> SUFFICES ASSUME IInv, [Next]_vars, NEW l \in Logins, ~Busy(l)
             PROVE  UNCHANGED <<RowsOf(l), DirOf(l)>>
  OBVIOUS
<1>1. CASE UNCHANGED stores
  BY <1>1 DEF stores, RowsOf, DirOf
<1>2. ASSUME NEW r \in Rpc, Step(r), ~Return(r)
      PROVE  UNCHANGED <<RowsOf(l), DirOf(l)>>
  <2>1. call[r].login # l /\ Local(call[r].login)
    BY <1>2, StepLocal DEF Busy
  <2>2. RowsOf(l)' = RowsOf(l)
    BY <2>1 DEF Local, RowsOf
  <2>3. \A n \in Names : disk'[<<l, n>>] = disk[<<l, n>>]
    BY <2>1 DEF Local, Paths, Owner
  <2> QED  BY <2>2, <2>3 DEF DirOf
<1>3. ASSUME NEW r \in Rpc, NEW q \in Requests, Call(r, q) \/ Refuse(r, q)
      PROVE  UNCHANGED stores
  BY <1>3 DEF Call, Refuse, Arrives, stores
<1>4. ASSUME NEW r \in Rpc, Return(r)
      PROVE  UNCHANGED stores
  BY <1>4 DEF Return, stores
<1>5. CASE Crash
  BY <1>1, <1>5 DEF Crash
<1>6. CASE UNCHANGED vars
  BY <1>1, <1>6 DEF vars, stores
<1> QED  BY <1>1, <1>2, <1>3, <1>4, <1>5, <1>6 DEF Next

(* While no request of a user is being served, that user's rows and files   *)
(* stay as they are, whatever the handlers of other users do or fail to do. *)
THEOREM UsersAreIsolated == Spec => Isolation
<1>1. IInv /\ [Next]_vars =>
        [\A l \in Logins : ~Busy(l) => UNCHANGED <<RowsOf(l), DirOf(l)>>]_vars
  BY NextIsolated
<1> QED  BY <1>1, Invariance, PTL DEF Spec, Isolation

-----------------------------------------------------------------------------
(* Users with one client each.  What the handler of a login knows of its    *)
(* own rows and files: a step of it is judged by this view alone, for no    *)
(* other handler works on them.                                             *)
Promise(r) ==
    SaysOK(r) => IF call[r].op = "purge" THEN RowsOf(call[r].login) = {}
                                         ELSE call[r].op # "get" => Done(r)
OwnWhole(r) ==
    /\ \A p \in Paths : Owner(p) = call[r].login =>
            disk[p] \in {None} \cup WholeData \/ (pc[r] = "write" /\ p \in fd[r])
    /\ SaysOK(r) /\ call[r].op = "get" => reply[r].data \in WholeData
OwnAccounted(r) ==
    \A p \in Paths : Owner(p) = call[r].login /\ disk[p] # None =>
        (\E f \in files : f.path = p) \/ Holds(r, p)
View(r) ==
    /\ OnCourse(r)
    /\ Promise(r)
    /\ NoBrokenWrites => OwnWhole(r)
    /\ OnlyFailures => OwnAccounted(r)

(* The end of a step, for the handler that takes it.                        *)
LEMMA AnswerEnd ==
    ASSUME IInv, NEW r \in Rpc, NEW code, NEW data, Answer(r, code, data)
    PROVE  /\ call' = call /\ pc'[r] = "done"
           /\ reply'[r].code = code /\ reply'[r].data = data
BY DEF Answer, IInv, TypeOK

LEMMA FinishEnd ==
    ASSUME IInv, NEW r \in Rpc, NEW code, Finish(r, code)
    PROVE  call' = call /\ pc'[r] = "done" /\ reply'[r].code = code
BY AnswerEnd DEF Finish

LEMMA GotoEnd ==
    ASSUME IInv, NEW r \in Rpc, NEW label, Goto(r, label)
    PROVE  call' = call /\ pc'[r] = label /\ reply' = reply
BY DEF Goto, IInv, TypeOK

(* A handler that ends with an error has promised nothing.                  *)
LEMMA FailureIsFree ==
    ASSUME NEW r \in Rpc, pc'[r] = "done", reply'[r].code # "OK"
    PROVE  OnCourse(r)' /\ Promise(r)' /\ ~SaysOK(r)'
BY DEF OnCourse, Promise, SaysOK

(* On every step but the purge's there is one path to work on.              *)
LEMMA OneTarget ==
    ASSUME IInv, NEW r \in Rpc, OnCourse(r), NEW p \in Targets(r),
           \/ pc[r] \in {"open", "write", "insert", "undo"} /\ call[r].op = "save"
           \/ pc[r] \in {"open", "write"} /\ call[r].op = "edit"
           \/ pc[r] \in {"read", "remove", "erase", "update"}
    PROVE  Targets(r) = {p}
<1>1. CASE call[r].op = "save"
  BY <1>1 DEF Targets
<1>2. CASE call[r].op # "save"
  BY <1>2 DEF Targets, Found, OnCourse
<1> QED  BY <1>1, <1>2

LEMMA SelectView ==
    ASSUME IInv, NEW r \in Rpc, OneKey, View(r), Select(r)
    PROVE  View(r)' /\ OneKey'
<1> USE DEF Select, View
<1>0. /\ OneKey' /\ pc[r] = "select"
      /\ call[r].op \in {"get", "edit", "delete"}
  BY StageFacts DEF OneKey
<1>1. CASE Finish(r, IF call[r].op = "edit" THEN "NotFound" ELSE "Unknown")
           /\ UNCHANGED <<files, disk, fd, seen>>
  <2>1. call' = call /\ pc'[r] = "done" /\ reply'[r].code # "OK"
    BY <1>1, FinishEnd
  <2> QED  BY <1>0, <1>1, <2>1, FailureIsFree DEF OwnWhole, OwnAccounted, Holds
<1>2. ASSUME NEW f \in RowsAt(call[r].login, call[r].meta),
             seen' = [seen EXCEPT ![r] = {f}],
             Goto(r, AfterSelect[call[r].op])
      PROVE  View(r)'
  <2>1. /\ call' = call /\ reply' = reply /\ files' = files /\ disk' = disk
        /\ pc'[r] \in {"read", "remove", "open"}
    BY <1>0, <1>2, GotoEnd DEF AfterSelect
  <2>2. Found(r)'
    BY <1>2, <2>1 DEF Found, RowsAt, IInv, TypeOK
  <2>3. OnCourse(r)' /\ Promise(r)' /\ ~SaysOK(r)'
    BY <2>1, <2>2 DEF OnCourse, Promise, SaysOK
  <2> QED  BY <1>0, <2>1, <2>3 DEF OwnWhole, OwnAccounted, Holds
<1> QED  BY <1>0, <1>1, <1>2

LEMMA OpenView ==
    ASSUME IInv, NEW r \in Rpc, OneKey, View(r), Open(r)
    PROVE  View(r)' /\ OneKey'
<1> USE DEF Open, View
<1>0. OneKey' /\ pc[r] = "open" /\ call[r].op \in {"save", "edit"}
  BY StageFacts DEF OneKey
<1>1. CASE DiskError(r) /\ UNCHANGED <<files, disk, fd, seen>>
  <2>1. call' = call /\ pc'[r] = "done" /\ reply'[r].code # "OK"
    BY <1>1, FinishEnd DEF DiskError
  <2> QED  BY <1>0, <1>1, <2>1, FailureIsFree DEF OwnWhole, OwnAccounted, Holds
<1>2. ASSUME NEW p \in Targets(r),
             disk' = [disk EXCEPT ![p] = <<>>],
             fd' = [fd EXCEPT ![r] = {p}],
             Goto(r, "write")
      PROVE  View(r)'
  <2>1. /\ call' = call /\ files' = files /\ seen' = seen
        /\ pc'[r] = "write" /\ fd'[r] = {p}
    BY <1>2, GotoEnd DEF IInv, TypeOK
  <2>2. Targets(r) = {p} /\ p \in Paths
    BY <1>0, OneTarget, TargetsOwned
  <2>3. disk'[p] = <<>> /\ \A x \in Paths : x # p => disk'[x] = disk[x]
    BY <1>2, <2>2 DEF IInv, TypeOK
  <2>4. Targets(r)' = {p}
    BY <2>1, <2>2 DEF Targets
  <2>5. (Found(r) => Found(r)') /\ (call[r].op = "edit" => Found(r))
    BY <1>0, <2>1 DEF Found, RowsAt, OnCourse
  <2>6. OnCourse(r)' /\ Promise(r)' /\ ~SaysOK(r)'
    BY <2>1, <2>3, <2>4, <2>5 DEF OnCourse, Promise, SaysOK
  <2>7. OwnWhole(r) => OwnWhole(r)'
    BY <1>0, <2>1, <2>3, <2>6 DEF OwnWhole
  <2>8. OwnAccounted(r) => OwnAccounted(r)'
    BY <1>0, <2>1, <2>3, <2>4 DEF OwnAccounted, Holds
  <2> QED  BY <2>6, <2>7, <2>8
<1> QED  BY <1>0, <1>1, <1>2

LEMMA WriteView ==
    ASSUME IInv, NEW r \in Rpc, OneKey, View(r), Write(r)
    PROVE  View(r)' /\ OneKey'
<1> USE DEF Write, View
<1>0. OneKey' /\ pc[r] = "write" /\ call[r].op \in {"save", "edit"}
  BY StageFacts DEF OneKey
<1>1. CASE Fault("disk") /\ DiskError(r)
  <2>1. pc'[r] = "done" /\ reply'[r].code # "OK"
    BY <1>1, FinishEnd DEF DiskError
  <2>2. ~NoBrokenWrites /\ ~OnlyFailures
    BY <1>1 DEF NoBrokenWrites, OnlyFailures, Fault
  <2> QED  BY <1>0, <2>1, <2>2, FailureIsFree DEF NoBrokenWrites, OnlyFailures, Fault
<1>2. CASE /\ WriteChunks(r, Size[call[r].blob])
           /\ Goto(r, IF call[r].op = "save" THEN "insert" ELSE "update")
  <2>0. call[r] \in Requests /\ ~BadRequest(call[r]) /\ call[r].blob \in Blobs
    BY <1>0, StageFacts, RequestFields
  <2>1. /\ call' = call /\ files' = files /\ seen' = seen
        /\ pc'[r] = IF call[r].op = "save" THEN "insert" ELSE "update"
    BY <1>2, GotoEnd
  <2>2. fd[r] = Targets(r) /\ \A p \in Targets(r) : disk[p] = <<>>
    BY <1>0 DEF OnCourse
  <2>3. PICK p \in Paths : Targets(r) = {p}
    <3>1. Targets(r) # {}
      BY <1>0, ZenonT(40) DEF Targets, OnCourse, Found
    <3> QED  BY <1>0, <3>1, OneTarget, TargetsOwned
  <2>4. disk'[p] = Data(call[r].blob) /\ \A x \in Paths : x # p => disk'[x] = disk[x]
    BY <1>2, <2>2, <2>3 DEF WriteChunks, Data
  <2>5. Targets(r)' = {p}
    BY <2>1, <2>3 DEF Targets
  <2>6. (Found(r) => Found(r)') /\ (call[r].op = "edit" => Found(r))
    BY <1>0, <2>1 DEF Found, RowsAt, OnCourse
  <2>7. OnCourse(r)' /\ Promise(r)' /\ ~SaysOK(r)'
    BY <1>0, <2>1, <2>4, <2>5, <2>6 DEF OnCourse, Promise, SaysOK
  <2>8. Data(call[r].blob) \in WholeData
    BY <2>0 DEF WholeData
  <2>9. OwnWhole(r) => OwnWhole(r)'
    BY <1>0, <2>1, <2>2, <2>3, <2>4, <2>7, <2>8 DEF OwnWhole
  <2>10. call[r].op = "edit" => \E f \in files : f.path = p
    BY <2>3, <2>6 DEF Found, RowsAt, Targets
  <2>11. OwnAccounted(r) => OwnAccounted(r)'
    BY <1>0, <2>1, <2>3, <2>4, <2>5, <2>10 DEF OwnAccounted, Holds
  <2> QED  BY <1>0, <2>7, <2>9, <2>11 DEF NoBrokenWrites, OnlyFailures
<1> QED  BY <1>0, <1>1, <1>2

LEMMA InsertView ==
    ASSUME IInv, NEW r \in Rpc, OneKey, View(r), Insert(r)
    PROVE  View(r)' /\ OneKey'
<1> USE DEF Insert, View
<1>0. pc[r] = "insert" /\ call[r].op = "save"
  BY StageFacts
<1>1. /\ call' = call /\ disk' = disk /\ seen' = seen
      /\ pc'[r] \in {"undo", "done"}
  BY FinishEnd, GotoEnd
<1>2. Targets(r)' = Targets(r) /\ Targets(r) = {NewRow(call[r]).path}
  BY <1>0, <1>1 DEF Targets, NewRow
<1>3. files \subseteq files'
  OBVIOUS
<1>4. OneKey'
  BY DEF OneKey, KeyTaken, NewRow
<1>5. CASE Goto(r, "undo")
  <2>1. pc'[r] = "undo"
    BY <1>5, GotoEnd
  <2>2. OnCourse(r)' /\ Promise(r)' /\ ~SaysOK(r)'
    BY <2>1 DEF OnCourse, Promise, SaysOK
  <2>3. OwnWhole(r) => OwnWhole(r)'
    BY <1>0, <1>1, <2>2 DEF OwnWhole
  <2>4. OwnAccounted(r) => OwnAccounted(r)'
    BY <1>1, <1>2, <1>3, <2>1 DEF OwnAccounted, Holds
  <2> QED  BY <1>4, <2>2, <2>3, <2>4 DEF NoBrokenWrites, OnlyFailures
<1>6. CASE ~KeyTaken(call[r].meta) /\ files' = files \cup {NewRow(call[r])}
           /\ Finish(r, "OK")
  <2>1. pc'[r] = "done"
    BY <1>6, FinishEnd
  <2>2. Done(r)'
    BY <1>0, <1>1, <1>2, <1>6 DEF Done, Kept, OnCourse
  <2>3. OnCourse(r)' /\ Promise(r)'
    BY <1>0, <1>1, <2>1, <2>2 DEF OnCourse, Promise
  <2>4. OwnWhole(r) => OwnWhole(r)'
    BY <1>0, <1>1 DEF OwnWhole
  <2>5. NewRow(call[r]) \in files'
    BY <1>6
  <2>6. OwnAccounted(r) => OwnAccounted(r)'
    BY <1>1, <1>2, <1>3, <2>5 DEF OwnAccounted, Holds
  <2> QED  BY <1>4, <2>3, <2>4, <2>6 DEF NoBrokenWrites, OnlyFailures
<1> QED  BY <1>5, <1>6

LEMMA UndoView ==
    ASSUME IInv, NEW r \in Rpc, OneKey, View(r), Undo(r)
    PROVE  View(r)' /\ OneKey'
<1> USE DEF Undo, View
<1>0. OneKey' /\ pc[r] = "undo" /\ call[r].op = "save"
  BY StageFacts DEF OneKey
<1>1. call' = call /\ pc'[r] = "done" /\ reply'[r].code # "OK"
  BY FinishEnd
<1>2. OnCourse(r)' /\ Promise(r)' /\ ~SaysOK(r)'
  BY <1>1, FailureIsFree
<1>3. CASE Fault("disk")
  BY <1>0, <1>2, <1>3 DEF NoBrokenWrites, OnlyFailures, Fault
<1>4. ASSUME NEW p \in Targets(r), Unlink(p)
      PROVE  View(r)'
  <2>1. Targets(r) = {p} /\ p \in Paths
    BY <1>0, OneTarget, TargetsOwned
  <2>2. disk'[p] = None /\ \A x \in Paths : x # p => disk'[x] = disk[x]
    BY <1>4, <2>1 DEF Unlink, IInv, TypeOK
  <2>3. OwnWhole(r) => OwnWhole(r)'
    BY <1>0, <1>1, <1>2, <2>2 DEF OwnWhole
  <2>4. OwnAccounted(r) => OwnAccounted(r)'
    BY <1>1, <2>1, <2>2 DEF OwnAccounted, Holds
  <2> QED  BY <1>2, <2>3, <2>4 DEF NoBrokenWrites, OnlyFailures
<1> QED  BY <1>0, <1>3, <1>4

LEMMA ReadView ==
    ASSUME IInv, NEW r \in Rpc, OneKey, View(r), Read(r)
    PROVE  View(r)' /\ OneKey'
<1> USE DEF Read, View
<1>0. OneKey' /\ pc[r] = "read" /\ call[r].op = "get"
  BY StageFacts DEF OneKey
<1>1. call' = call /\ pc'[r] = "done"
  BY AnswerEnd, FinishEnd
<1>2. OnCourse(r)' /\ Promise(r)'
  BY <1>0, <1>1 DEF OnCourse, Promise
<1>3. OwnAccounted(r) => OwnAccounted(r)'
  BY <1>0, <1>1 DEF OwnAccounted, Holds
<1>4. ASSUME OwnWhole(r)  PROVE OwnWhole(r)'
  <2>1. CASE Finish(r, "Unknown")
    BY <1>0, <1>1, <1>4, <2>1, FinishEnd DEF OwnWhole, SaysOK
  <2>2. ASSUME NEW p \in Targets(r), disk[p] # None, Answer(r, "OK", disk[p])
        PROVE  OwnWhole(r)'
    <3>1. disk[p] \in WholeData
      BY <1>0, <1>4, <2>2, TargetsOwned DEF OwnWhole
    <3>2. reply'[r].data \in WholeData
      BY <2>2, <3>1, AnswerEnd
    <3> QED  BY <1>0, <1>1, <1>4, <3>2 DEF OwnWhole, WholeData
  <2> QED  BY <2>1, <2>2
<1> QED  BY <1>0, <1>2, <1>3, <1>4 DEF NoBrokenWrites, OnlyFailures

LEMMA RemoveView ==
    ASSUME IInv, NEW r \in Rpc, OneKey, View(r), Remove(r)
    PROVE  View(r)' /\ OneKey'
<1> USE DEF Remove, View
<1>0. OneKey' /\ pc[r] = "remove" /\ call[r].op = "delete"
  BY StageFacts DEF OneKey
<1>1. CASE Finish(r, "Internal") /\ UNCHANGED <<files, disk, fd, seen>>
  <2>1. call' = call /\ pc'[r] = "done" /\ reply'[r].code # "OK"
    BY <1>1, FinishEnd
  <2> QED  BY <1>0, <1>1, <2>1, FailureIsFree DEF OwnWhole, OwnAccounted, Holds
<1>2. ASSUME NEW p \in Targets(r), Unlink(p), Goto(r, "erase")
      PROVE  View(r)'
  <2>1. call' = call /\ files' = files /\ seen' = seen /\ pc'[r] = "erase"
    BY <1>2, GotoEnd
  <2>2. Targets(r) = {p} /\ p \in Paths
    BY <1>0, OneTarget, TargetsOwned
  <2>3. disk'[p] = None /\ \A x \in Paths : x # p => disk'[x] = disk[x]
    BY <1>2, <2>2 DEF Unlink, IInv, TypeOK
  <2>4. Targets(r)' = {p} /\ Found(r)'
    BY <1>0, <2>1, <2>2 DEF Targets, Found, RowsAt, OnCourse
  <2>5. OnCourse(r)' /\ Promise(r)' /\ ~SaysOK(r)'
    BY <2>1, <2>3, <2>4 DEF OnCourse, Promise, SaysOK
  <2>6. OwnWhole(r) => OwnWhole(r)'
    BY <1>0, <2>1, <2>3, <2>5 DEF OwnWhole
  <2>7. OwnAccounted(r) => OwnAccounted(r)'
    BY <1>0, <2>1, <2>3 DEF OwnAccounted, Holds
  <2> QED  BY <2>5, <2>6, <2>7 DEF NoBrokenWrites, OnlyFailures
<1> QED  BY <1>0, <1>1, <1>2

(* The DELETE reaches the one row that was read, whose file is gone.        *)
LEMMA EraseView ==
    ASSUME IInv, NEW r \in Rpc, OneKey, View(r), Erase(r)
    PROVE  View(r)' /\ OneKey'
<1> USE DEF Erase, View
<1>0. pc[r] = "erase" /\ call[r].op = "delete"
  BY StageFacts
<1>1. /\ call' = call /\ disk' = disk /\ seen' = seen /\ pc'[r] = "done"
      /\ files' = files \/ files' = files \ RowsAt(call[r].login, call[r].meta)
      /\ reply'[r].code = "OK" =>
           files' = files \ RowsAt(call[r].login, call[r].meta)
  BY FinishEnd
<1>2. OneKey'
  BY <1>1 DEF OneKey
<1>3. \A p \in Targets(r) : disk[p] = None
  BY <1>0 DEF OnCourse
<1>4. OnCourse(r)'
  BY <1>1 DEF OnCourse
<1>5. Promise(r)'
  <2>1. SUFFICES ASSUME SaysOK(r)'  PROVE Done(r)'
    BY DEF Promise, Done, RowsAt
  <2>2. RowsAt(call[r].login, call[r].meta)' = {}
    BY <1>1, <2>1 DEF SaysOK, RowsAt
  <2>3. \A f \in seen[r] : disk[f.path] = None
    BY <1>0, <1>3 DEF Targets
  <2> QED  BY <1>0, <1>1, <2>2, <2>3 DEF Done
<1>6. OwnWhole(r) => OwnWhole(r)'
  BY <1>0, <1>1 DEF OwnWhole
<1>7. \A g \in files \ files' : disk[g.path] = None
  <2>1. PICK f \in RowsAt(call[r].login, call[r].meta) : seen[r] = {f}
    BY <1>0 DEF OnCourse, Found
  <2>2. f.path \in Targets(r)
    BY <1>0, <2>1 DEF Targets
  <2>3. \A g \in files \ files' : g = f
    BY <1>1, <2>1 DEF RowsAt, OneKey
  <2> QED  BY <1>3, <2>2, <2>3
<1>8. OwnAccounted(r) => OwnAccounted(r)'
  BY <1>0, <1>1, <1>7 DEF OwnAccounted, Holds
<1> QED  BY <1>2, <1>4, <1>5, <1>6, <1>8 DEF NoBrokenWrites, OnlyFailures

(* The UPDATE writes back the path that the one row has already.            *)
LEMMA UpdateView ==
    ASSUME IInv, NEW r \in Rpc, OneKey, View(r), Update(r)
    PROVE  View(r)' /\ OneKey'
<1> USE DEF Update, View
<1>0. pc[r] = "update" /\ call[r].op = "edit"
  BY StageFacts
<1>1. call' = call /\ disk' = disk /\ seen' = seen /\ pc'[r] = "done"
  BY FinishEnd
<1>2. PICK f \in RowsAt(call[r].login, call[r].meta) : seen[r] = {f}
  BY <1>0 DEF OnCourse, Found
<1>3. Targets(r) = {f.path} /\ disk[f.path] = Data(call[r].blob)
  BY <1>0, <1>2 DEF Targets, OnCourse
<1>4. files' = files
  <2>1. CASE files' = Repoint(files, call[r].login, call[r].meta, f.path)
    <3>1. \A g \in files : g.login = call[r].login /\ g.meta = call[r].meta => g = f
      BY <1>2 DEF OneKey, RowsAt
    <3>2. f \in Row
      BY <1>2 DEF RowsAt, IInv, TypeOK
    <3>3. [f EXCEPT !.path = f.path] = f
      BY <3>2 DEF Row
    <3> QED  BY <2>1, <3>1, <3>3 DEF Repoint
  <2> QED  BY <1>3, <2>1
<1>5. OneKey'
  BY <1>4 DEF OneKey
<1>6. Done(r)'
  BY <1>0, <1>1, <1>2, <1>3, <1>4 DEF Done, Kept, RowsAt
<1>7. OnCourse(r)' /\ Promise(r)'
  BY <1>0, <1>1, <1>6 DEF OnCourse, Promise
<1>8. OwnWhole(r) => OwnWhole(r)'
  BY <1>0, <1>1 DEF OwnWhole
<1>9. OwnAccounted(r) => OwnAccounted(r)'
  BY <1>0, <1>1, <1>4 DEF OwnAccounted, Holds
<1> QED  BY <1>5, <1>7, <1>8, <1>9 DEF NoBrokenWrites, OnlyFailures

LEMMA ListView ==
    ASSUME IInv, NEW r \in Rpc, OneKey, View(r), List(r)
    PROVE  View(r)' /\ OneKey'
<1> USE DEF List, View
<1>0. OneKey' /\ pc[r] = "list" /\ call[r].op = "purge"
  BY StageFacts DEF OneKey
<1>1. call' = call /\ files' = files /\ disk' = disk
  BY FinishEnd, GotoEnd
<1>2. CASE Finish(r, "Unknown")
  <2>1. pc'[r] = "done" /\ reply'[r].code # "OK"
    BY <1>2, FinishEnd
  <2> QED  BY <1>0, <1>1, <2>1, FailureIsFree
           DEF NoBrokenWrites, OnlyFailures, OwnWhole, OwnAccounted, Holds
<1>3. CASE seen' = [seen EXCEPT ![r] = RowsOf(call[r].login)] /\ Goto(r, "eraseAll")
  <2>1. pc'[r] = "eraseAll" /\ seen'[r] = RowsOf(call[r].login)'
    BY <1>1, <1>3, GotoEnd DEF RowsOf, IInv, TypeOK
  <2>2. OnCourse(r)' /\ Promise(r)' /\ ~SaysOK(r)'
    BY <2>1 DEF OnCourse, Promise, SaysOK
  <2> QED  BY <1>0, <1>1, <2>2
           DEF NoBrokenWrites, OnlyFailures, OwnWhole, OwnAccounted, Holds
<1> QED  BY <1>2, <1>3

(* What the DELETE erases is what was listed, so every file stays on the    *)
(* list of those to remove.                                                 *)
LEMMA EraseAllView ==
    ASSUME IInv, NEW r \in Rpc, OneKey, View(r), EraseAll(r)
    PROVE  View(r)' /\ OneKey'
<1> USE DEF EraseAll, View
<1>0. /\ pc[r] = "eraseAll" /\ call[r].op = "purge"
      /\ seen[r] = RowsOf(call[r].login)
  BY StageFacts DEF OnCourse
<1>1. call' = call /\ disk' = disk /\ seen' = seen
  BY FinishEnd, GotoEnd
<1>2. OneKey'
  BY DEF OneKey
<1>3. CASE Finish(r, "Unknown") /\ (UNCHANGED files \/ Fault("ack"))
  <2>1. pc'[r] = "done" /\ reply'[r].code # "OK"
    BY <1>3, FinishEnd
  <2>2. OwnWhole(r) => OwnWhole(r)'
    BY <1>0, <1>1, <2>1, FailureIsFree DEF OwnWhole
  <2>3. OnlyFailures /\ OwnAccounted(r) => OwnAccounted(r)'
    BY <1>0, <1>1, <1>3 DEF OnlyFailures, Fault, OwnAccounted, Holds
  <2> QED  BY <1>2, <2>1, <2>2, <2>3, FailureIsFree DEF NoBrokenWrites, OnlyFailures
<1>4. CASE files' = files \ RowsOf(call[r].login) /\ Goto(r, "removeAll")
  <2>1. pc'[r] = "removeAll" /\ RowsOf(call[r].login)' = {}
    BY <1>1, <1>4, GotoEnd DEF RowsOf
  <2>2. OnCourse(r)' /\ Promise(r)' /\ ~SaysOK(r)'
    BY <1>1, <2>1 DEF OnCourse, Promise, SaysOK
  <2>3. OwnWhole(r) => OwnWhole(r)'
    BY <1>0, <1>1, <2>2 DEF OwnWhole
  <2>4. \A f \in files \ files' : f.path \in Targets(r)'
    BY <1>0, <1>1, <1>4 DEF Targets
  <2>5. OwnAccounted(r) => OwnAccounted(r)'
    BY <1>0, <1>1, <2>1, <2>4 DEF OwnAccounted, Holds
  <2> QED  BY <1>2, <2>2, <2>3, <2>5 DEF NoBrokenWrites, OnlyFailures
<1> QED  BY <1>3, <1>4

LEMMA RemoveAllView ==
    ASSUME IInv, NEW r \in Rpc, OneKey, View(r), RemoveAll(r)
    PROVE  View(r)' /\ OneKey'
<1> USE DEF RemoveAll, View
<1>0. /\ OneKey' /\ pc[r] = "removeAll" /\ call[r].op = "purge"
      /\ RowsOf(call[r].login) = {}
  BY StageFacts DEF OneKey, OnCourse
<1>1. call' = call /\ files' = files
  BY FinishEnd, GotoEnd
<1>2. CASE Finish(r, "OK") /\ UNCHANGED <<disk, seen>> /\ seen[r] = {}
  <2>1. pc'[r] = "done"
    BY <1>2, FinishEnd
  <2>2. OnCourse(r)' /\ Promise(r)'
    BY <1>0, <1>1, <2>1 DEF OnCourse, Promise, RowsOf
  <2>3. OwnWhole(r) => OwnWhole(r)'
    BY <1>0, <1>1, <1>2 DEF OwnWhole
  <2>4. OwnAccounted(r) => OwnAccounted(r)'
    BY <1>0, <1>1, <1>2 DEF OwnAccounted, Holds, Targets
  <2> QED  BY <1>0, <2>2, <2>3, <2>4 DEF NoBrokenWrites, OnlyFailures
<1>3. ASSUME NEW f \in seen[r], seen' = [seen EXCEPT ![r] = @ \ {f}],
             Unlink(f.path) \/ (Fault("disk") /\ UNCHANGED <<disk, fd>>),
             Goto(r, "removeAll")
      PROVE  View(r)'
  <2>1. pc'[r] = "removeAll" /\ seen'[r] = seen[r] \ {f}
    BY <1>3, GotoEnd DEF IInv, TypeOK
  <2>2. OnCourse(r)' /\ Promise(r)' /\ ~SaysOK(r)'
    BY <1>0, <1>1, <2>1 DEF OnCourse, Promise, SaysOK, RowsOf
  <2>3. CASE Fault("disk")
    BY <2>2, <2>3 DEF NoBrokenWrites, OnlyFailures, Fault
  <2>4. CASE Unlink(f.path)
    <3>1. f.path \in Paths
      BY DEF IInv, TypeOK, Row
    <3>2. /\ disk'[f.path] = None
          /\ \A x \in Paths : x # f.path => disk'[x] = disk[x]
      BY <2>4, <3>1 DEF Unlink, IInv, TypeOK
    <3>3. OwnWhole(r) => OwnWhole(r)'
      BY <1>0, <1>1, <2>2, <3>2 DEF OwnWhole
    <3>4. \A x \in Targets(r) : x = f.path \/ x \in Targets(r)'
      BY <1>0, <1>1, <2>1 DEF Targets
    <3>5. OwnAccounted(r) => OwnAccounted(r)'
      BY <1>0, <1>1, <2>1, <3>2, <3>4 DEF OwnAccounted, Holds
    <3> QED  BY <2>2, <3>3, <3>5 DEF NoBrokenWrites, OnlyFailures
  <2> QED  BY <1>3, <2>3, <2>4
<1> QED  BY <1>0, <1>2, <1>3

LEMMA StepView ==
    ASSUME IInv, NEW r \in Rpc, OneKey, View(r), Step(r), ~Return(r)
    PROVE  View(r)' /\ OneKey'
BY SelectView, OpenView, WriteView, InsertView, UndoView, ReadView, RemoveView,
   EraseView, UpdateView, ListView, EraseAllView, RemoveAllView DEF Step

-----------------------------------------------------------------------------
(* What a step of r leaves alone: the control of every other handler, and   *)
(* the files that the others have open, unless they are of r's login.       *)
Elsewhere(r, s) ==
    /\ pc'[s] = pc[s] /\ call'[s] = call[s]
    /\ seen'[s] = seen[s] /\ reply'[s] = reply[s]
    /\ \A p \in fd[s] : Owner(p) # call[r].login => p \in fd'[s]
    /\ fd'[s] \subseteq fd[s]

LEMMA StepElsewhere ==
    ASSUME IInv, NEW r \in Rpc, Step(r), ~Return(r), NEW s \in Rpc, s # r
    PROVE  Elsewhere(r, s)
<1> USE DEF Elsewhere
<1>1. ASSUME (\E label : Goto(r, label))
             \/ (\E code, data : Answer(r, code, data)) \/ (\E code : Finish(r, code))
      PROVE  pc'[s] = pc[s] /\ call'[s] = call[s] /\ reply'[s] = reply[s]
  BY <1>1 DEF Goto, Finish, Answer, IInv, TypeOK
<1>2. ASSUME NEW p \in Targets(r), Unlink(p), pc[r] \notin {"idle", "done"}
      PROVE  /\ \A x \in fd[s] : Owner(x) # call[r].login => x \in fd'[s]
             /\ fd'[s] \subseteq fd[s]
  BY <1>2, TargetsOwned DEF Unlink
<1>3. CASE Select(r) \/ List(r)
  BY <1>1, <1>3 DEF Select, List, IInv, TypeOK
<1>4. CASE Open(r)
  BY <1>1, <1>4 DEF Open, DiskError, IInv, TypeOK
<1>5. CASE Write(r)
  BY <1>1, <1>5 DEF Write, DiskError, IInv, TypeOK
<1>6. CASE Insert(r) \/ Read(r) \/ Erase(r) \/ Update(r) \/ EraseAll(r)
  BY <1>1, <1>6 DEF Insert, Read, Erase, Update, EraseAll
<1>7. CASE Undo(r)
  BY <1>1, <1>2, <1>7 DEF Undo
<1>8. CASE Remove(r)
  BY <1>1, <1>2, <1>8 DEF Remove
<1>9. CASE RemoveAll(r)
  <2>0. pc[r] = "removeAll" /\ call[r].op = "purge"
    BY <1>9, StageFacts DEF RemoveAll
  <2>1. \A f \in seen[r] : f.path \in Targets(r)
    BY <2>0 DEF Targets
  <2>2. pc'[s] = pc[s] /\ call'[s] = call[s] /\ reply'[s] = reply[s]
    BY <1>1, <1>9 DEF RemoveAll
  <2>3. seen'[s] = seen[s]
    BY <1>9 DEF RemoveAll, IInv, TypeOK
  <2>4. /\ \A x \in fd[s] : Owner(x) # call[r].login => x \in fd'[s]
        /\ fd'[s] \subseteq fd[s]
    BY <1>2, <1>9, <2>0, <2>1 DEF RemoveAll
  <2> QED  BY <2>2, <2>3, <2>4
<1> QED  BY <1>3, <1>4, <1>5, <1>6, <1>7, <1>8, <1>9 DEF Step

(* Of another login, nothing changes but by its own handler.                *)
LEMMA OtherView ==
    ASSUME IInv, NEW r \in Rpc, Step(r), ~Return(r), NEW s \in Rpc,
           InFlight(s), call[s].login # call[r].login, OnCourse(s), Promise(s)
    PROVE  OnCourse(s)' /\ Promise(s)'
<1> DEFINE l == call[s].login
<1>1. /\ pc'[s] = pc[s] /\ call'[s] = call[s] /\ seen'[s] = seen[s]
      /\ reply'[s] = reply[s] /\ fd'[s] = fd[s]
  <2>1. Elsewhere(r, s)
    BY StepElsewhere
  <2>2. \A p \in fd[s] : Owner(p) = l
    BY DEF IInv, Confined
  <2> QED  BY <2>1, <2>2 DEF Elsewhere
<1>2. Local(call[r].login)
  BY StepLocal
<1>3. \A p \in Paths : Owner(p) = l => disk'[p] = disk[p]
  BY <1>2 DEF Local
<1>4. RowsOf(l)' = RowsOf(l) /\ \A m : RowsAt(l, m)' = RowsAt(l, m)
  BY <1>1, <1>2 DEF Local, RowsOf, RowsAt
<1>5. Targets(s)' = Targets(s)
  BY <1>1 DEF Targets
<1>6. pc[s] # "done" => \A p \in Targets(s) : disk'[p] = disk[p]
  BY <1>3, TargetsOwned DEF InFlight
<1>7. OnCourse(s)'
  BY <1>1, <1>4, <1>5, <1>6 DEF OnCourse, Found
<1>8. Promise(s)'
  <2>1. SUFFICES ASSUME SaysOK(s), call[s].op # "purge", call[s].op # "get", Done(s)
                 PROVE  Done(s)'
    BY <1>1, <1>4 DEF Promise, SaysOK
  <2>2. call[s] \in Requests /\ call[s].op \in {"save", "edit", "delete"}
    BY <2>1, StageFacts, RequestFields DEF InFlight
  <2>3. CASE call[s].op = "save"
    <3>1. NewRow(call[s]) \in files /\ NewRow(call[s]).login = l
      BY <2>1, <2>3 DEF Done, NewRow
    <3>2. NewRow(call[s]).path \in Paths /\ Owner(NewRow(call[s]).path) = l
      BY <3>1 DEF IInv, TypeOK, RowsAtHome, Row
    <3>3. NewRow(call[s]) \in files'
      BY <1>2, <2>1, <3>1 DEF Local
    <3> QED  BY <1>1, <1>3, <2>1, <2>3, <3>2, <3>3 DEF Done, Kept
  <2>4. CASE call[s].op = "edit"
    <3>1. PICK f \in RowsAt(l, call[s].meta) : Kept(call[s], f.path)
      BY <2>1, <2>4 DEF Done
    <3>2. f.path \in Paths /\ Owner(f.path) = l
      BY DEF IInv, TypeOK, RowsAtHome, Row, RowsAt
    <3> QED  BY <1>1, <1>3, <1>4, <2>1, <2>4, <3>1, <3>2 DEF Done, Kept
  <2>5. CASE call[s].op = "delete"
    <3>1. \A f \in seen[s] : f.path \in Paths /\ Owner(f.path) = l
      BY DEF IInv, TypeOK, Confined, Row
    <3> QED  BY <1>1, <1>3, <1>4, <2>1, <2>5, <3>1 DEF Done
  <2> QED  BY <2>2, <2>3, <2>4, <2>5
<1> QED  BY <1>7, <1>8

(* What is stated of all files, seen from the login that takes a step.      *)
LEMMA WholeToView ==
    ASSUME IInv, OneCall, NEW r \in Rpc, InFlight(r), Whole
    PROVE  OwnWhole(r)
<1>1. ASSUME NEW s \in Rpc, pc[s] = "write", NEW p \in fd[s],
             Owner(p) = call[r].login
      PROVE  s = r
  BY <1>1 DEF OneCall, InFlight, IInv, Confined
<1> QED  BY <1>1 DEF Whole, OwnWhole

LEMMA WholeFromView ==
    ASSUME IInv, NEW r \in Rpc, Step(r), ~Return(r), Whole, OwnWhole(r)'
    PROVE  Whole'
<1>1. Local(call[r].login) /\ call'[r] = call[r]
  BY StepLocal, FinishEnd, AnswerEnd, GotoEnd
     DEF Step, Select, Open, Write, Insert, Undo, Read, Remove, Erase, Update, List,
         EraseAll, RemoveAll, DiskError
<1>2. ASSUME NEW p \in Paths
      PROVE  \/ disk'[p] \in {None} \cup WholeData
             \/ \E s \in Rpc : pc'[s] = "write" /\ p \in fd'[s]
  <2>1. CASE Owner(p) = call[r].login
    BY <1>1, <2>1 DEF OwnWhole, WholeData
  <2>2. CASE Owner(p) # call[r].login
    <3>1. disk'[p] = disk[p]
      BY <1>1, <2>2 DEF Local
    <3>2. ASSUME NEW s \in Rpc, pc[s] = "write", p \in fd[s]
          PROVE  pc'[s] = "write" /\ p \in fd'[s]
      <4>1. s # r
        BY <2>2, <3>2 DEF IInv, Confined
      <4> QED  BY <2>2, <3>2, <4>1, StepElsewhere DEF Elsewhere
    <3> QED  BY <3>1, <3>2 DEF Whole
  <2> QED  BY <2>1, <2>2
<1>3. ASSUME NEW s \in Rpc, SaysOK(s)', call'[s].op = "get"
      PROVE  reply'[s].data \in WholeData
  <2>1. CASE s = r
    BY <1>3, <2>1 DEF OwnWhole, WholeData
  <2>2. CASE s # r
    BY <1>3, <2>2, StepElsewhere DEF Elsewhere, Whole, SaysOK
  <2> QED  BY <2>1, <2>2
<1> QED  BY <1>2, <1>3 DEF Whole, WholeData

LEMMA AccountedToView ==
    ASSUME IInv, OneCall, NEW r \in Rpc, InFlight(r), Accounted
    PROVE  OwnAccounted(r)
<1>1. ASSUME NEW s \in Rpc, NEW p, Holds(s, p), Owner(p) = call[r].login
      PROVE  s = r
  <2>1. InFlight(s) /\ Owner(p) = call[s].login
    BY <1>1, TargetsOwned DEF Holds, InFlight
  <2> QED  BY <1>1, <2>1 DEF OneCall
<1> QED  BY <1>1 DEF Accounted, OwnAccounted

LEMMA AccountedFromView ==
    ASSUME IInv, NEW r \in Rpc, Step(r), ~Return(r), Accounted, OwnAccounted(r)'
    PROVE  Accounted'
<1>1. Local(call[r].login) /\ call'[r] = call[r]
  BY StepLocal, FinishEnd, AnswerEnd, GotoEnd
     DEF Step, Select, Open, Write, Insert, Undo, Read, Remove, Erase, Update, List,
         EraseAll, RemoveAll, DiskError
<1>2. ASSUME NEW p \in Paths, disk'[p] # None
      PROVE  \/ \E f \in files' : f.path = p
             \/ \E s \in Rpc : Holds(s, p)'
  <2>1. CASE Owner(p) = call[r].login
    BY <1>1, <1>2, <2>1 DEF OwnAccounted
  <2>2. CASE Owner(p) # call[r].login
    <3>1. disk'[p] = disk[p]
      BY <1>1, <2>2 DEF Local
    <3>2. ASSUME NEW s \in Rpc, Holds(s, p)
          PROVE  Holds(s, p)'
      <4>1. s # r
        BY <2>2, <3>2, TargetsOwned DEF Holds
      <4> QED  BY <3>2, <4>1, StepElsewhere DEF Elsewhere, Holds, Targets
    <3>3. ASSUME NEW f \in files, f.path = p
          PROVE  f \in files'
      <4>1. f.login # call[r].login
        BY <2>2, <3>3 DEF IInv, RowsAtHome
      <4> QED  BY <1>1, <4>1 DEF Local
    <3> QED  BY <1>2, <3>1, <3>2, <3>3 DEF Accounted
  <2> QED  BY <2>1, <2>2
<1> QED  BY <1>2 DEF Accounted

(* The invariant step by step.                                              *)
LEMMA StepSync ==
    ASSUME IInv, SyncInv, NEW r \in Rpc, Step(r), ~Return(r)
    PROVE  SyncInv'
<1>1. InFlight(r) /\ call' = call
  BY StepLocal, FinishEnd, AnswerEnd, GotoEnd
     DEF Step, Select, Open, Write, Insert, Undo, Read, Remove, Erase, Update, List,
         EraseAll, RemoveAll, DiskError
<1>2. View(r)
  BY <1>1, WholeToView, AccountedToView DEF SyncInv, View, Promise, ChangesKept
<1>3. View(r)' /\ OneKey'
  BY <1>2, StepView DEF SyncInv
<1>4. ASSUME NEW s \in Rpc, s # r
      PROVE  OnCourse(s)' /\ Promise(s)' /\ pc'[s] = pc[s]
  <2>1. pc'[s] = pc[s]
    BY <1>4, StepElsewhere DEF Elsewhere
  <2>2. CASE InFlight(s)
    BY <1>1, <1>4, <2>1, <2>2, OtherView DEF SyncInv, OneCall, ChangesKept, Promise
  <2>3. CASE ~InFlight(s)
    BY <2>1, <2>3 DEF InFlight, OnCourse, Promise, SaysOK
  <2> QED  BY <2>1, <2>2, <2>3
<1>5. OneCall'
  BY <1>1, <1>4 DEF SyncInv, OneCall, InFlight
<1>6. (\A s \in Rpc : OnCourse(s)') /\ ChangesKept'
  <2>1. \A s \in Rpc : OnCourse(s)' /\ Promise(s)'
    BY <1>3, <1>4 DEF View
  <2> QED  BY <2>1 DEF ChangesKept, Promise
<1>7. NoBrokenWrites => Whole'
  BY <1>3, WholeFromView DEF View, SyncInv, NoBrokenWrites
<1>8. OnlyFailures => Accounted'
  BY <1>3, AccountedFromView DEF View, SyncInv, OnlyFailures
<1> QED  BY <1>3, <1>5, <1>6, <1>7, <1>8 DEF SyncInv, NoBrokenWrites, OnlyFailures

(* A call that comes or goes moves nothing.                                 *)
LEMMA QuietSync ==
    ASSUME IInv, SyncInv, NEW r \in Rpc, UNCHANGED <<files, disk, fd>>,
           pc[r] \in {"idle", "done"},
           \A s \in Rpc \ {r} : /\ pc'[s] = pc[s] /\ call'[s] = call[s]
                                /\ seen'[s] = seen[s] /\ reply'[s] = reply[s],
           OneCall', OnCourse(r)', ~SaysOK(r)'
    PROVE  SyncInv'
<1>1. \A s \in Rpc \ {r} : OnCourse(s)'
  <2> SUFFICES ASSUME NEW s \in Rpc \ {r}  PROVE OnCourse(s)'
    OBVIOUS
  <2>1. OnCourse(s)
    BY DEF SyncInv
  <2>2. Targets(s)' = Targets(s)
    BY DEF Targets
  <2>3. Found(s) => Found(s)'
    BY DEF Found, RowsAt
  <2>4. RowsOf(call[s].login)' = RowsOf(call[s].login)
    BY DEF RowsOf
  <2> QED  BY <2>1, <2>2, <2>3, <2>4 DEF OnCourse
<1>2. ChangesKept'
  <2> SUFFICES ASSUME NEW s \in Rpc, SaysOK(s)'
               PROVE  IF call'[s].op = "purge" THEN RowsOf(call[s].login)' = {}
                                               ELSE call'[s].op # "get" => Done(s)'
    BY DEF ChangesKept
  <2>1. s # r
    OBVIOUS
  <2>2. SaysOK(s)
    BY <2>1 DEF SaysOK
  <2>3. call[s].op \in {"save", "edit", "get", "delete", "purge"}
    BY <2>2, StageFacts, RequestFields DEF SaysOK
  <2>4. Done(s) => Done(s)'
    <3>0. RowsAt(call[s].login, call[s].meta)' = RowsAt(call[s].login, call[s].meta)
      BY <2>1 DEF RowsAt
    <3> USE <2>1, <3>0 DEF Done, Kept
    <3>1. CASE call[s].op = "save"
      BY <3>1
    <3>2. CASE call[s].op = "edit"
      BY <3>2
    <3>3. CASE call[s].op = "get"
      BY <3>3 DEF WholeData
    <3>4. CASE call[s].op = "delete"
      BY <3>4
    <3>5. CASE call[s].op = "purge"
      BY <3>5 DEF RowsOf
    <3> QED  BY <2>3, <3>1, <3>2, <3>3, <3>4, <3>5
  <2> QED  BY <2>1, <2>2, <2>4 DEF SyncInv, ChangesKept, RowsOf
<1>3. OneKey'
  BY DEF SyncInv, OneKey
<1>4. Whole => Whole'
  BY DEF Whole, SaysOK
<1>5. Accounted => Accounted'
  BY DEF Accounted, Holds, Targets
<1> QED  BY <1>1, <1>2, <1>3, <1>4, <1>5 DEF SyncInv, NoBrokenWrites, OnlyFailures

LEMMA CallSync ==
    ASSUME SyncClients, IInv, SyncInv, NEW r \in Rpc, NEW q \in Requests,
           Call(r, q) \/ Refuse(r, q)
    PROVE  SyncInv'
<1> USE DEF Call, Refuse, Arrives, InFlight
<1>1. /\ pc[r] = "idle" /\ call'[r] = q /\ UNCHANGED <<files, disk, seen, fd>>
      /\ \A s \in Rpc \ {r} : /\ pc'[s] = pc[s] /\ call'[s] = call[s]
                              /\ reply'[s] = reply[s]
  BY DEF IInv, TypeOK
<1>2. OneCall'
  BY <1>1 DEF SyncInv, OneCall, Busy
<1>3. CASE Call(r, q)
  <2>1. pc'[r] \in {"open", "select", "list"} /\ (pc'[r] = "open" => q.op # "edit")
    BY <1>3, RequestFields DEF FirstLabel, IInv, TypeOK
  <2>2. OnCourse(r)' /\ ~SaysOK(r)'
    BY <1>1, <2>1 DEF OnCourse, SaysOK
  <2> QED  BY <1>1, <1>2, <2>2, QuietSync
<1>4. CASE Refuse(r, q)
  <2>1. pc'[r] = "done" /\ reply'[r].code # "OK"
    BY <1>4 DEF IInv, TypeOK
  <2> QED  BY <1>1, <1>2, <2>1, QuietSync, FailureIsFree
<1> QED  BY <1>3, <1>4

LEMMA ReturnSync ==
    ASSUME IInv, SyncInv, NEW r \in Rpc, Return(r)
    PROVE  SyncInv'
<1> USE DEF Return
<1>1. /\ pc[r] = "done" /\ pc'[r] = "idle" /\ UNCHANGED <<files, disk, fd>>
      /\ \A s \in Rpc \ {r} : /\ pc'[s] = pc[s] /\ call'[s] = call[s]
                              /\ seen'[s] = seen[s] /\ reply'[s] = reply[s]
  BY DEF IInv, TypeOK
<1>2. OneCall'
  BY <1>1 DEF SyncInv, OneCall, InFlight
<1>3. OnCourse(r)' /\ ~SaysOK(r)'
  BY <1>1 DEF OnCourse, SaysOK
<1> QED  BY <1>1, <1>2, <1>3, QuietSync

LEMMA CrashSync == IInv /\ SyncInv /\ Crash => SyncInv'
<1> SUFFICES ASSUME IInv, SyncInv, Crash  PROVE SyncInv'
  OBVIOUS
<1> USE DEF Crash, stores
<1>1. \A r \in Rpc : pc'[r] = "idle"
  OBVIOUS
<1>2. ~NoBrokenWrites /\ ~OnlyFailures
  BY DEF NoBrokenWrites, OnlyFailures, Fault
<1>3. OneCall' /\ (\A r \in Rpc : OnCourse(r)') /\ ChangesKept'
  BY <1>1 DEF OneCall, InFlight, OnCourse, ChangesKept, SaysOK
<1>4. OneKey'
  BY DEF SyncInv, OneKey
<1> QED  BY <1>2, <1>3, <1>4 DEF SyncInv, NoBrokenWrites, OnlyFailures, Fault

LEMMA InitSync == Init => SyncInv
<1> SUFFICES ASSUME Init  PROVE SyncInv
  OBVIOUS
<1> USE DEF Init
<1>1. OneCall /\ OneKey /\ (\A r \in Rpc : OnCourse(r)) /\ ChangesKept
  BY DEF OneCall, OneKey, InFlight, OnCourse, ChangesKept, SaysOK
<1>2. Whole /\ Accounted
  BY DEF Whole, Accounted, SaysOK
<1> QED  BY <1>1, <1>2 DEF SyncInv

LEMMA SyncInductive == SyncClients /\ IInv /\ SyncInv /\ [Next]_vars => SyncInv'
<1> SUFFICES ASSUME SyncClients, IInv, SyncInv, [Next]_vars  PROVE SyncInv'
  OBVIOUS
<1>1. CASE UNCHANGED vars
  <2> USE <1>1 DEF vars
  <2>1. OneCall' /\ OneKey'
    BY DEF SyncInv, OneCall, OneKey, InFlight
  <2>2. \A r \in Rpc : OnCourse(r)'
    BY ZenonT(40) DEF SyncInv, OnCourse, Found, RowsAt, RowsOf, Targets
  <2>3. ChangesKept'
    BY DEF SyncInv, ChangesKept, SaysOK, Done, Kept, RowsAt, RowsOf
  <2>4. (Whole => Whole') /\ (Accounted => Accounted')
    BY DEF Whole, Accounted, SaysOK, Holds, Targets
  <2> QED  BY <2>1, <2>2, <2>3, <2>4 DEF SyncInv, NoBrokenWrites, OnlyFailures
<1>2. ASSUME NEW r \in Rpc, NEW q \in Requests, Call(r, q) \/ Refuse(r, q)
      PROVE  SyncInv'
  BY <1>2, CallSync
<1>3. ASSUME NEW r \in Rpc, Step(r)
      PROVE  SyncInv'
  BY <1>3, StepSync, ReturnSync
<1>4. CASE Crash
  BY <1>4, CrashSync
<1> QED  BY <1>1, <1>2, <1>3, <1>4 DEF Next

(* For users with one client each the view of every handler is right, under *)
(* every fault; files are whole and accounted for under those that allow it.*)
THEOREM SyncInvariance == SyncClients => (Spec => []SyncInv)
<1>1. SUFFICES ASSUME SyncClients  PROVE Spec => []SyncInv
  OBVIOUS
<1>2. IInv /\ SyncInv /\ [Next]_vars => SyncInv'
  BY <1>1, SyncInductive
<1> QED  BY <1>2, InitSync, Invariance, PTL DEF Spec

(* What OK says of a save, an edit or a delete stays true until the answer  *)
(* is out, whichever faults strike and whatever other users' handlers do;   *)
(* and a purge that says OK has left no row.                                *)
THEOREM ChangesAreKept == SyncClients => (Spec => []ChangesKept)
<1>1. SUFFICES ASSUME SyncClients  PROVE Spec => []ChangesKept
  OBVIOUS
<1>2. SyncInv => ChangesKept
  BY DEF SyncInv
<1> QED  BY <1>1, <1>2, SyncInvariance, PTL

(* Without failing or interrupted writes a login at rest has whole files    *)
(* only, each the content of one SaveFile or EditFile.                      *)
THEOREM FilesAreWhole == SyncClients /\ NoBrokenWrites => (Spec => []WholeFiles)
<1>1. SUFFICES ASSUME SyncClients, NoBrokenWrites  PROVE Spec => []WholeFiles
  OBVIOUS
<1>2. IInv /\ SyncInv => WholeFiles
  <2> SUFFICES ASSUME IInv, SyncInv, NEW l \in Logins, ~Busy(l), NEW n \in Names
               PROVE  disk[<<l, n>>] \in {None} \cup WholeData
    BY DEF WholeFiles
  <2>1. <<l, n>> \in Paths /\ Owner(<<l, n>>) = l
    BY DEF Paths, Owner
  <2>2. \A r \in Rpc : pc[r] = "write" => <<l, n>> \notin fd[r]
    BY <2>1 DEF Busy, InFlight, IInv, Confined
  <2> QED  BY <1>1, <2>1, <2>2 DEF SyncInv, Whole
<1> QED  BY <1>1, <1>2, Invariance, SyncInvariance, PTL

(* If statements fail, but none takes effect unacknowledged, and neither    *)
(* disk nor process does, a login at rest has no file without a row.        *)
THEOREM NothingOrphaned == SyncClients /\ OnlyFailures => (Spec => []NoOrphans)
<1>1. SUFFICES ASSUME SyncClients, OnlyFailures  PROVE Spec => []NoOrphans
  OBVIOUS
<1>2. IInv /\ SyncInv => NoOrphans
  <2> SUFFICES ASSUME IInv, SyncInv, NEW l \in Logins, ~Busy(l), NEW n \in Names,
                      disk[<<l, n>>] # None
               PROVE  \E f \in RowsOf(l) : f.path = <<l, n>>
    BY DEF NoOrphans
  <2>1. <<l, n>> \in Paths /\ Owner(<<l, n>>) = l
    BY DEF Paths, Owner
  <2>2. \A r \in Rpc : ~Holds(r, <<l, n>>)
    BY <2>1, TargetsOwned DEF Busy, InFlight, Holds
  <2>3. PICK f \in files : f.path = <<l, n>>
    BY <1>1, <2>1, <2>2 DEF SyncInv, Accounted
  <2>4. f.login = l
    BY <2>1, <2>3 DEF IInv, RowsAtHome
  <2> QED  BY <2>3, <2>4 DEF RowsOf
<1> QED  BY <1>1, <1>2, Invariance, SyncInvariance, PTL

(* Under the same conditions every OK means what the user reads in it, that *)
(* of a purge included: nothing of the login is left in either store.       *)
THEOREM AnswersAreTrue == SyncClients /\ OnlyFailures => (Spec => []OkMeansDone)
<1>1. SUFFICES ASSUME SyncClients, OnlyFailures  PROVE Spec => []OkMeansDone
  OBVIOUS
<1>2. IInv /\ SyncInv => OkMeansDone
  <2> SUFFICES ASSUME IInv, SyncInv, NEW r \in Rpc, SaysOK(r)
               PROVE  Done(r)
    BY DEF OkMeansDone
  <2>1. /\ call[r] \in Requests /\ InFlight(r) /\ call[r].login \in Logins
        /\ call[r].op \in {"save", "edit", "get", "delete", "purge"}
    BY StageFacts, RequestFields DEF SaysOK, InFlight
  <2>2. CASE call[r].op \in {"save", "edit", "delete"}
    BY <2>2 DEF SyncInv, ChangesKept
  <2>3. CASE call[r].op = "get"
    BY <1>1, <2>3 DEF SyncInv, Whole, NoBrokenWrites, OnlyFailures, Fault, Done
  <2>4. CASE call[r].op = "purge"
    <3>1. RowsOf(call[r].login) = {}
      BY <2>4 DEF SyncInv, ChangesKept
    <3>2. ASSUME NEW n \in Names, disk[<<call[r].login, n>>] # None
          PROVE  FALSE
      <4>1. <<call[r].login, n>> \in Paths
            /\ Owner(<<call[r].login, n>>) = call[r].login
        BY <2>1 DEF Paths, Owner
      <4>2. OwnAccounted(r)
        BY <1>1, <2>1, AccountedToView DEF SyncInv
      <4>3. PICK f \in files : f.path = <<call[r].login, n>>
        BY <3>2, <4>1, <4>2 DEF OwnAccounted, Holds, SaysOK
      <4> QED  BY <3>1, <4>1, <4>3 DEF IInv, RowsAtHome, RowsOf
    <3> QED  BY <2>4, <3>1, <3>2 DEF Done
  <2> QED  BY <2>1, <2>2, <2>3, <2>4
<1> QED  BY <1>1, <1>2, Invariance, SyncInvariance, PTL
=============================================================================
