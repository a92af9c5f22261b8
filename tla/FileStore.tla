------------------------------ MODULE FileStore ------------------------------
(***************************************************************************)
(* The file service of the goKeeper server: SaveFile, GetFile, EditFile    *)
(* and DeleteFile (internal/service/grpc_server_file.go) and the file part *)
(* of DeleteUser (dbservice.DeleteAllUserFiles), each run by a goroutine   *)
(* of its own over two stores nothing keeps in step: the table `files' of  *)
(* PostgreSQL and the directory upload/<login>/ of the server's disk.      *)
(*                                                                         *)
(* A handler is a straight line of system calls and SQL statements.  Each  *)
(* of them is one atomic step here; handlers interleave between them.      *)
(***************************************************************************)
EXTENDS Integers, Sequences

CONSTANTS
    Rpc,          \* the handler goroutines that may run at the same time
    Logins,       \* values of FileData.login
    Metas,        \* values of FileData.metadata
    Names,        \* file names that filepath.Base leaves usable
    BadName,      \* a file name whose Base is "." or "/"
    Blobs,        \* encrypted contents
    Size,         \* Size[b]: the length of blob b, in abstract chunks
    Faults,       \* what may go wrong, a subset of FaultKinds
    SyncClients,  \* TRUE: a user runs one client, which awaits each reply
    None          \* no file, no request, no reply

(* "db": a statement fails and changes nothing; "ack": it takes effect but  *)
(* the caller gets an error (lost connection, cancelled context); "disk":   *)
(* a file operation fails; "crash": the server process is killed.           *)
FaultKinds == {"db", "ack", "disk", "crash"}

ASSUME FileStoreAssumption ==
    /\ Size \in [Blobs -> Nat \ {0}]
    /\ Faults \subseteq FaultKinds
    /\ SyncClients \in BOOLEAN
    /\ BadName \notin Names

Paths == Logins \X Names                 \* filepath.Join("upload", login, name)
Owner(p) == p[1]
Row == [login : Logins, path : Paths, meta : Metas]

Requests ==
    [op : {"save", "edit"}, login : Logins, meta : Metas,
     name : Names \cup {BadName}, blob : Blobs]
    \cup [op : {"get", "delete"}, login : Logins, meta : Metas]
    \cup [op : {"purge"}, login : Logins]

(* The marker for nothing is neither a file nor a request.                  *)
ASSUME NoneAssumption == None \notin Seq(Blobs) /\ None \notin Requests

Labels == {"idle", "select", "open", "write", "insert", "undo", "read", "remove",
           "erase", "update", "list", "eraseAll", "removeAll", "done"}
Codes == {"OK", "Unknown", "NotFound", "AlreadyExists", "Internal", "InvalidArgument"}

VARIABLES
    files,   \* the rows of table files
    disk,    \* disk[p]: the bytes of the file at p, or None
    pc,      \* pc[r]: the next step of handler r
    call,    \* call[r]: the request that r serves
    seen,    \* seen[r]: the rows that r has read from the table
    fd,      \* fd[r]: the path r's open descriptor writes to ({} once unlinked)
    reply    \* reply[r]: what r answers

vars == <<files, disk, pc, call, seen, fd, reply>>
stores == <<files, disk>>

Init ==
    /\ files = {}
    /\ disk = [p \in Paths |-> None]
    /\ pc = [r \in Rpc |-> "idle"]
    /\ call = [r \in Rpc |-> None]
    /\ seen = [r \in Rpc |-> {}]
    /\ fd = [r \in Rpc |-> {}]
    /\ reply = [r \in Rpc |-> None]

-----------------------------------------------------------------------------
(* The table, the disk and the ends of a handler.                           *)

Fault(kind) == kind \in Faults
InFlight(r) == pc[r] # "idle"
Busy(l) == \E r \in Rpc : InFlight(r) /\ call[r].login = l

(* Operators named Bad... are faulty variants that no definition uses; they  *)
(* serve to show that a property notices the fault (README, "Mutants").      *)
BadRowsAt(l, m) == {f \in files : f.meta = m}
BadRowsOf(l) == files
BadKeyTaken(m) == FALSE
BadNewRow(q) == [login |-> q.login, path |-> q.name, meta |-> q.meta]

(* WHERE f_login = l AND f_metadata = m                                     *)
RowsAt(l, m) == {f \in files : f.login = l /\ f.meta = m}
(* WHERE f_login = l                                                        *)
RowsOf(l) == {f \in files : f.login = l}
(* The primary key of the table is f_metadata alone.                        *)
KeyTaken(m) == \E f \in files : f.meta = m
NewRow(q) == [login |-> q.login, path |-> <<q.login, q.name>>, meta |-> q.meta]
Repoint(F, l, m, p) ==
    {IF f.login = l /\ f.meta = m THEN [f EXCEPT !.path = p] ELSE f : f \in F}

(* Write the first k chunks of blob b at offset 0 of a file with bytes c.   *)
Overlay(b, k, c) ==
    [i \in (1..k) \cup DOMAIN c |-> IF i \in 1..k THEN b ELSE c[i]]
Data(b) == Overlay(b, Size[b], <<>>)

(* os.Remove: descriptors open on the file keep an inode without a name.    *)
Unlink(p) ==
    /\ disk' = [disk EXCEPT ![p] = None]
    /\ fd' = [r \in Rpc |-> fd[r] \ {p}]

(* The paths r works on: SaveFile builds one, the others read them in rows. *)
Targets(r) ==
    IF call[r].op = "save" THEN {<<call[r].login, call[r].name>>}
                           ELSE {f.path : f \in seen[r]}

Goto(r, label) ==
    /\ pc' = [pc EXCEPT ![r] = label]
    /\ UNCHANGED <<call, reply>>

Answer(r, code, data) ==
    /\ pc' = [pc EXCEPT ![r] = "done"]
    /\ reply' = [reply EXCEPT ![r] = [code |-> code, data |-> data]]
    /\ UNCHANGED call

Finish(r, code) == Answer(r, code, None)

-----------------------------------------------------------------------------
(* A request arrives; its handler answers.                                  *)

Arrives(r, q) ==
    /\ ~InFlight(r)
    /\ SyncClients => ~Busy(q.login)
    /\ call' = [call EXCEPT ![r] = q]
    /\ UNCHANGED <<files, disk, seen, fd>>

FirstLabel == [save |-> "open", get |-> "select", edit |-> "select",
               delete |-> "select", purge |-> "list"]

BadRequest(q) == q.op \in {"save", "edit"} /\ q.name = BadName

Call(r, q) ==
    /\ ~BadRequest(q)
    /\ Arrives(r, q)
    /\ pc' = [pc EXCEPT ![r] = FirstLabel[q.op]]
    /\ UNCHANGED reply

Refuse(r, q) ==
    /\ BadRequest(q)
    /\ Arrives(r, q)
    /\ pc' = [pc EXCEPT ![r] = "done"]
    /\ reply' = [reply EXCEPT ![r] = [code |-> "InvalidArgument", data |-> None]]

Return(r) ==
    /\ pc[r] = "done"
    /\ pc' = [pc EXCEPT ![r] = "idle"]
    /\ call' = [call EXCEPT ![r] = None]
    /\ seen' = [seen EXCEPT ![r] = {}]
    /\ reply' = [reply EXCEPT ![r] = None]
    /\ UNCHANGED <<files, disk, fd>>

-----------------------------------------------------------------------------
(* Steps shared by several handlers.                                        *)

AfterSelect == [get |-> "read", edit |-> "open", delete |-> "remove"]

(* SelectFile; EditFile answers NotFound whatever the error.                *)
Select(r) ==
    /\ pc[r] = "select"
    /\ \/ \E f \in RowsAt(call[r].login, call[r].meta) :
            /\ seen' = [seen EXCEPT ![r] = {f}]
            /\ Goto(r, AfterSelect[call[r].op])
       \/ /\ RowsAt(call[r].login, call[r].meta) = {} \/ Fault("db")
          /\ Finish(r, IF call[r].op = "edit" THEN "NotFound" ELSE "Unknown")
          /\ UNCHANGED seen
    /\ UNCHANGED <<files, disk, fd>>

DiskError(r) == Finish(r, IF call[r].op = "edit" THEN "Internal" ELSE "Unknown")

(* Open without O_TRUNC.                                                    *)
BadOpen(r) ==
    /\ pc[r] = "open"
    /\ \E p \in Targets(r) :
            /\ disk' = [disk EXCEPT ![p] = IF @ = None THEN <<>> ELSE @]
            /\ fd' = [fd EXCEPT ![r] = {p}]
    /\ Goto(r, "write")
    /\ UNCHANGED <<files, seen>>

(* os.OpenFile(O_CREATE|O_WRONLY|O_TRUNC), after MkdirAll in SaveFile.      *)
Open(r) ==
    /\ pc[r] = "open"
    /\ \/ \E p \in Targets(r) :
            /\ disk' = [disk EXCEPT ![p] = <<>>]
            /\ fd' = [fd EXCEPT ![r] = {p}]
            /\ Goto(r, "write")
       \/ /\ Fault("disk")
          /\ DiskError(r)
          /\ UNCHANGED <<disk, fd>>
    /\ UNCHANGED <<files, seen>>

WriteChunks(r, k) ==
    disk' = [p \in Paths |-> IF p \in fd[r] THEN Overlay(call[r].blob, k, disk[p])
                                            ELSE disk[p]]

(* file.Write.  Nothing is written after it, so the descriptor, which the   *)
(* deferred Close releases later, is forgotten here.                        *)
Write(r) ==
    /\ pc[r] = "write"
    /\ \/ /\ WriteChunks(r, Size[call[r].blob])
          /\ Goto(r, IF call[r].op = "save" THEN "insert" ELSE "update")
       \/ /\ Fault("disk")
          /\ \E k \in 0 .. Size[call[r].blob] - 1 : WriteChunks(r, k)
          /\ DiskError(r)
    /\ fd' = [fd EXCEPT ![r] = {}]
    /\ UNCHANGED <<files, seen>>

-----------------------------------------------------------------------------
(* SaveFile                                                                 *)

(* InsertFile: a taken key, a failed statement and a lost acknowledgement   *)
(* look alike to the handler.                                               *)
Insert(r) ==
    /\ pc[r] = "insert"
    /\ \/ /\ ~KeyTaken(call[r].meta)
          /\ files' = files \cup {NewRow(call[r])}
          /\ Finish(r, "OK") \/ (Fault("ack") /\ Goto(r, "undo"))
       \/ /\ KeyTaken(call[r].meta) \/ Fault("db")
          /\ Goto(r, "undo")
          /\ UNCHANGED files
    /\ UNCHANGED <<disk, seen, fd>>

(* The answer without the os.Remove.                                        *)
BadUndo(r) ==
    /\ pc[r] = "undo"
    /\ Finish(r, "AlreadyExists")
    /\ UNCHANGED <<files, disk, fd, seen>>

(* os.Remove(filePath), its error ignored.                                  *)
Undo(r) ==
    /\ pc[r] = "undo"
    /\ \/ \E p \in Targets(r) : Unlink(p)
       \/ Fault("disk") /\ UNCHANGED <<disk, fd>>
    /\ Finish(r, "AlreadyExists")
    /\ UNCHANGED <<files, seen>>

-----------------------------------------------------------------------------
(* GetFile                                                                  *)

(* os.ReadFile                                                              *)
Read(r) ==
    /\ pc[r] = "read"
    /\ \/ \E p \in Targets(r) : disk[p] # None /\ Answer(r, "OK", disk[p])
       \/ /\ (\E p \in Targets(r) : disk[p] = None) \/ Fault("disk")
          /\ Finish(r, "Unknown")
    /\ UNCHANGED <<files, disk, seen, fd>>

-----------------------------------------------------------------------------
(* DeleteFile                                                               *)

(* os.Remove; a file that is already gone is no error.                      *)
Remove(r) ==
    /\ pc[r] = "remove"
    /\ \/ (\E p \in Targets(r) : Unlink(p)) /\ Goto(r, "erase")
       \/ Fault("disk") /\ Finish(r, "Internal") /\ UNCHANGED <<disk, fd>>
    /\ UNCHANGED <<files, seen>>

(* DELETE FROM files WHERE f_login AND f_metadata; no row is an error.      *)
Erase(r) ==
    /\ pc[r] = "erase"
    /\ LET gone == RowsAt(call[r].login, call[r].meta) IN
       \/ /\ files' = files \ gone
          /\ \/ gone # {} /\ Finish(r, "OK")
             \/ (gone = {} \/ Fault("ack")) /\ Finish(r, "Unknown")
       \/ Fault("db") /\ Finish(r, "Unknown") /\ UNCHANGED files
    /\ UNCHANGED <<disk, seen, fd>>

-----------------------------------------------------------------------------
(* EditFile                                                                 *)

(* UPDATE files SET f_file_path to the path read before; no row is an error.*)
Update(r) ==
    /\ pc[r] = "update"
    /\ LET hit == RowsAt(call[r].login, call[r].meta) IN
       \/ \E p \in Targets(r) :
            /\ files' = Repoint(files, call[r].login, call[r].meta, p)
            /\ \/ hit # {} /\ Finish(r, "OK")
               \/ (hit = {} \/ Fault("ack")) /\ Finish(r, "Internal")
       \/ Fault("db") /\ Finish(r, "Internal") /\ UNCHANGED files
    /\ UNCHANGED <<disk, seen, fd>>

-----------------------------------------------------------------------------
(* DeleteAllUserFiles, the file goroutine of DeleteUser                     *)

(* GetFilesPathByLogin                                                      *)
List(r) ==
    /\ pc[r] = "list"
    /\ \/ /\ seen' = [seen EXCEPT ![r] = RowsOf(call[r].login)]
          /\ Goto(r, "eraseAll")
       \/ Fault("db") /\ Finish(r, "Unknown") /\ UNCHANGED seen
    /\ UNCHANGED <<files, disk, fd>>

(* DELETE FROM files WHERE f_login                                          *)
EraseAll(r) ==
    /\ pc[r] = "eraseAll"
    /\ \/ /\ files' = files \ RowsOf(call[r].login)
          /\ Goto(r, "removeAll") \/ (Fault("ack") /\ Finish(r, "Unknown"))
       \/ Fault("db") /\ Finish(r, "Unknown") /\ UNCHANGED files
    /\ UNCHANGED <<disk, seen, fd>>

(* A return inside the loop.                                                *)
BadRemoveAll(r) ==
    /\ pc[r] = "removeAll"
    /\ \/ \E f \in seen[r] : Unlink(f.path)
       \/ seen[r] = {} /\ UNCHANGED <<disk, fd>>
    /\ Finish(r, "OK")
    /\ UNCHANGED <<files, seen>>

(* The loop over the listed paths; a failed os.Remove is only logged.       *)
RemoveAll(r) ==
    /\ pc[r] = "removeAll"
    /\ \/ \E f \in seen[r] :
            /\ seen' = [seen EXCEPT ![r] = @ \ {f}]
            /\ Unlink(f.path) \/ (Fault("disk") /\ UNCHANGED <<disk, fd>>)
            /\ Goto(r, "removeAll")
       \/ /\ seen[r] = {}
          /\ Finish(r, "OK")
          /\ UNCHANGED <<disk, fd, seen>>
    /\ UNCHANGED files

-----------------------------------------------------------------------------
(* The process is killed: handlers vanish, both stores stay as they are.    *)
Crash ==
    /\ Fault("crash")
    /\ \E r \in Rpc : InFlight(r)
    /\ pc' = [r \in Rpc |-> "idle"]
    /\ call' = [r \in Rpc |-> None]
    /\ seen' = [r \in Rpc |-> {}]
    /\ fd' = [r \in Rpc |-> {}]
    /\ reply' = [r \in Rpc |-> None]
    /\ UNCHANGED stores

Step(r) ==
    \/ Select(r) \/ Open(r) \/ Write(r)
    \/ Insert(r) \/ Undo(r)
    \/ Read(r)
    \/ Remove(r) \/ Erase(r)
    \/ Update(r)
    \/ List(r) \/ EraseAll(r) \/ RemoveAll(r)
    \/ Return(r)

Next ==
    \/ \E r \in Rpc, q \in Requests : Call(r, q) \/ Refuse(r, q)
    \/ \E r \in Rpc : Step(r)
    \/ Crash

Spec == Init /\ [][Next]_vars

-----------------------------------------------------------------------------
(* Properties                                                               *)

(* Every variable has its type; a handler that is past its SELECT holds     *)
(* rows and a descriptor holds at most the one path it was opened under.    *)
TypeOK ==
    /\ files \in SUBSET Row
    /\ disk \in [Paths -> Seq(Blobs) \cup {None}]
    /\ pc \in [Rpc -> Labels]
    /\ call \in [Rpc -> Requests \cup {None}]
    /\ seen \in [Rpc -> SUBSET Row]
    /\ fd \in [Rpc -> SUBSET Paths]
    /\ reply \in [Rpc -> [code : Codes, data : Seq(Blobs) \cup {None}] \cup {None}]

(* A row points into the directory of its own login, whatever SaveFile,     *)
(* EditFile and their interleavings wrote into f_file_path.                 *)
RowsAtHome == \A f \in files : Owner(f.path) = f.login

(* The steps that each operation goes through.                              *)
Stages == [save |-> {"open", "write", "insert", "undo", "done"},
           get |-> {"select", "read", "done"},
           edit |-> {"select", "open", "write", "update", "done"},
           delete |-> {"select", "remove", "erase", "done"},
           purge |-> {"list", "eraseAll", "removeAll", "done"}]

(* A handler is on a step of the operation it was called for, and only an   *)
(* answer follows a refused file name.                                      *)
OnStage ==
    \A r \in Rpc : IF call[r] = None
                   THEN pc[r] = "idle"
                   ELSE /\ pc[r] \in Stages[call[r].op]
                        /\ BadRequest(call[r]) => pc[r] = "done"

(* The rows that a handler has read, and keeps while others change the      *)
(* table, and the file it has open are all of the login it serves; a linked *)
(* descriptor is open for writing on a file that exists.                    *)
Confined ==
    \A r \in Rpc :
        /\ \A f \in seen[r] : call[r] # None /\ f.login = call[r].login
                                             /\ Owner(f.path) = f.login
        /\ \A p \in fd[r] : /\ pc[r] = "write"
                            /\ Owner(p) = call[r].login
                            /\ disk[p] # None

(* The inductive invariant behind RowsAtHome and Isolation.                 *)
IInv == TypeOK /\ OnStage /\ RowsAtHome /\ Confined

(* What one client per login adds to it.  At most one call of a login is    *)
(* being served, and the primary key holds in the table.                    *)
OneCall ==
    \A r, s \in Rpc :
        InFlight(r) /\ InFlight(s) /\ call[r].login = call[s].login => r = s
OneKey == \A f, g \in files : f.meta = g.meta => f = g

(* The row that r has read is there still, and is the only one it has read. *)
Found(r) == \E f \in RowsAt(call[r].login, call[r].meta) : seen[r] = {f}

(* What a handler may rely on at each step: what it has read is true still, *)
(* what it has written is there still.                                      *)
OnCourse(r) ==
    /\ pc[r] \in {"read", "remove", "erase", "update"} => Found(r)
    /\ pc[r] \in {"open", "write"} /\ call[r].op = "edit" => Found(r)
    /\ pc[r] = "write" => fd[r] = Targets(r) /\ \A p \in Targets(r) : disk[p] = <<>>
    /\ pc[r] \in {"insert", "update"} =>
            \A p \in Targets(r) : disk[p] = Data(call[r].blob)
    /\ pc[r] = "erase" => \A p \in Targets(r) : disk[p] = None
    /\ pc[r] = "eraseAll" => seen[r] = RowsOf(call[r].login)
    /\ pc[r] = "removeAll" => RowsOf(call[r].login) = {}

(* A file is whole, or open for writing; a file read is whole.              *)
SaysOK(r) == pc[r] = "done" /\ reply[r].code = "OK"
WholeData == {Data(b) : b \in Blobs}
Whole ==
    /\ \A p \in Paths : \/ disk[p] \in {None} \cup WholeData
                        \/ \E r \in Rpc : pc[r] = "write" /\ p \in fd[r]
    /\ \A r \in Rpc : SaysOK(r) /\ call[r].op = "get" => reply[r].data \in WholeData

(* A file has a row, or a handler that is about to insert one or to remove  *)
(* the file.                                                                *)
Holds(r, p) == pc[r] \in {"write", "insert", "undo", "removeAll"} /\ p \in Targets(r)
Accounted ==
    \A p \in Paths : disk[p] # None =>
        \/ \E f \in files : f.path = p
        \/ \E r \in Rpc : Holds(r, p)

(* A failed or interrupted write leaves a file in part; so may a purge      *)
(* whose DELETE took effect unacknowledged leave files without rows.        *)
NoBrokenWrites == ~Fault("disk") /\ ~Fault("crash")
OnlyFailures == Faults \subseteq {"db"}

DirOf(l) == [n \in Names |-> disk[<<l, n>>]]

(* While no request of a login is being served, its rows and its files do   *)
(* not change: no handler, fault or crash of another user's call reaches    *)
(* them, although the table is shared and all handlers work on one disk.    *)
Isolation ==
    [][\A l \in Logins : ~Busy(l) => UNCHANGED <<RowsOf(l), DirOf(l)>>]_vars

(* A login at rest has no file on disk without a row that names it: such a  *)
(* file can be neither read nor deleted through the service any more.       *)
NoOrphans ==
    \A l \in Logins : ~Busy(l) =>
        \A n \in Names : disk[<<l, n>>] # None =>
            \E f \in RowsOf(l) : f.path = <<l, n>>

(* A login at rest has only whole files: each is exactly one blob that was  *)
(* sent, neither truncated nor a mixture of two writes.                     *)
WholeFiles ==
    \A l \in Logins : ~Busy(l) =>
        \A n \in Names : disk[<<l, n>>] \in {None} \cup WholeData

(* What the answer OK promises, per operation: a saved or edited file is    *)
(* registered and on disk with the bytes sent, a read one is whole, a       *)
(* deleted one is gone from both stores, a purged login has nothing left.   *)
Kept(q, p) == disk[p] = Data(q.blob)
Done(r) ==
    LET q == call[r] IN
    CASE q.op = "save"   -> NewRow(q) \in files /\ Kept(q, NewRow(q).path)
      [] q.op = "edit"   -> \E f \in RowsAt(q.login, q.meta) : Kept(q, f.path)
      [] q.op = "get"    -> reply[r].data \in WholeData
      [] q.op = "delete" -> /\ RowsAt(q.login, q.meta) = {}
                            /\ \A f \in seen[r] : disk[f.path] = None
      [] q.op = "purge"  -> /\ RowsOf(q.login) = {}
                            /\ \A n \in Names : disk[<<q.login, n>>] = None
OkMeansDone == \A r \in Rpc : SaysOK(r) => Done(r)

(* The part of it that every fault leaves true: an OK to a save, an edit or *)
(* a delete is kept, and a purge has erased the rows.                       *)
ChangesKept ==
    \A r \in Rpc : SaysOK(r) =>
        IF call[r].op = "purge" THEN RowsOf(call[r].login) = {}
                                ELSE call[r].op # "get" => Done(r)

(* The inductive invariant behind the three, for users with one client each.*)
SyncInv ==
    /\ OneCall
    /\ OneKey
    /\ \A r \in Rpc : OnCourse(r)
    /\ ChangesKept
    /\ NoBrokenWrites => Whole
    /\ OnlyFailures => Accounted

(* A registered file of a login at rest exists on disk.                     *)
RowHasFile ==
    \A l \in Logins : ~Busy(l) => \A f \in RowsOf(l) : disk[f.path] # None
=============================================================================
