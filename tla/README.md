# goKeeper: specifications, model checking and proofs

goKeeper keeps passwords, payment cards and files for its users. A client
encrypts what it stores and calls a gRPC server; the server writes rows to
PostgreSQL and file contents to its own disk. This directory holds TLA+ modules
that model the server's handlers step by step, TLC configurations that check
them on small instances, and proofs that hold for every instance.

## 1. Inventory

Paths are relative to the repository root.

| Component | Code | State it keeps | Operations |
|---|---|---|---|
| File service | `internal/service/grpc_server_file.go`, `internal/service/dbservice/file_service.go`, `internal/repository/storage_file.go` | table `files`, directory `upload/<login>/` | `SaveFile`, `GetFile`, `EditFile`, `DeleteFile`, `DeleteAllUserFiles` |
| Password service | `grpc_server_password.go`, `passwords_service.go`, `storage_passwords.go` | table `passwords` | `SavePassword`, `GetPassword`, `EditPassword`, `DeletePassword`, `DeleteAllPasswordsByLogin` |
| User service | `grpc_server_user.go`, `users_service.go`, `storage_users.go` | table `users` | `RegisterUser`, `AuthenticateUser`, `GetPassHash`, `EditUser`, `DeleteUser` |
| Tokens, interceptor | `auth_interceptor.go`, `internal/auth/auth.go` | none on the server; a token on the client, good for two hours | check of the token in front of each call, hashing, Luhn's check |
| Client | `cmd/client/main.go`, `internal/service/client/*.go` | `TokenManager.accessToken`, files under a local directory | one function per call; encryption before, decryption after |
| Card service | `grpc_server_card.go`, `cards_service.go`, `storage_cards.go` | table `cards` | as for passwords |
| Configuration | `internal/config/config.go`, `migrations/` | `DBconn`, `SrvConfig`, the schema and its version | read the JSON file, open the database, migrate |
| Lifecycle | `cmd/server/main.go` | the listener and the calls in progress | serve, signal, `GracefulStop`, close the database |
| Encryption formats | `internal/cryptodata/*.go` | none | join fields with a separator, seal with AES-GCM, and back |
| Generated code, logger | `proto/*.pb.go`, `internal/logger` | none | transport; output |

**How they interact.** gRPC runs every call in a goroutine of its own, after
`AuthInterceptor`. A handler calls a function of `dbservice`, which calls one or
two methods of `repository`; each method is one SQL statement outside any
transaction, on the shared pool `config.DBconn`. The file handlers make system
calls between statements. `DeleteUser` starts three goroutines, one per kind of
data, waits for them and deletes the account. Nothing in the process is shared by
handlers apart from the pool: they meet in the tables and on the disk only. The
client makes one call at a time, with `context.Background()`, and goes on
whatever the answer was.

**What is hard.**

- *Check, then act, in two statements.* `InsertPassword` (`IsExist`, `INSERT`),
  `AddUser` (`IsExist`, `InsertUser`), `DeleteAllFilesByLogin` (`SELECT`, `DELETE`).
- *Two stores without a common commit.* `SaveFile`, `EditFile` and `DeleteFile`
  change disk and table in different orders, and undo by hand or not at all.
- *Failures that look like something else.* A lost acknowledgement, a timeout and
  a duplicate all become `AlreadyExists`; `DeleteUser` loses the errors of its
  goroutines; `AddUser` loses the error of its insert.
- *Crashes.* Nothing compares table and disk when the server starts.
- *A token outlives its account*, since the server keeps no record of tokens; and every
  call but `EditUser` acts on the login in its request, so that any valid token will do.
- *Errors that come before the end.* A statement whose context is over returns an error to
  its caller, while PostgreSQL may still commit it, during a retry for instance.
- *A client goes on whatever happens.* After a failed login it has an empty token and
  an empty login; after an error it does not know whether its call took effect; killed
  in a call, it leaves the call with the server.
- *Formats.* Fields are joined with a `|` that they may hold themselves, sealed, encoded
  and kept in columns of 255 characters; files pass through messages of at most 4 MiB.
- *Schema and statements are two texts.* Nothing checks that the tables the
  migrations make are the ones the statements name, and the server starts
  whether the migrations succeeded or not.
- *Waiting.* The orderly stop waits for handlers, `DeleteUser` waits for its
  goroutines, and some statements wait for the database without a limit.

**What makes each part correct.**

- Files: no row leaves its user's directory; one user's calls never touch
  another's rows or files; at rest every file has a row and every row a file; a
  file is exactly one upload; the answer OK means that both stores agree.
- Passwords and cards: every call takes effect at one instant or not at all; one value per
  user and metadata, for passwords except where two saves overlap.
- Accounts: a password that was confirmed opens the account until the next change;
  `DeleteUser` leaves nothing.
- Client: at any time its user can tell what the store may hold, and reads nothing else;
  without a token nothing is stored.
- Formats: what is saved comes back, or is refused when it is saved; of card numbers
  exactly the valid ones are taken.
- Migrations: a server that starts has the tables its statements name.
- Lifecycle: a signal is followed by an orderly stop, with every accepted call
  answered.

`PROJECT.json` lists the hazards one by one, each at its line, with the
properties that would notice it.

## 2. Modules

```
RecordStore       a map, calls at one instant: what cards promise, and passwords at best
PasswordStore     what passwords promise to any clients: as above, but saves may race
Passwords         the password service, statement by statement; implements PasswordStore
PasswordsProofs   its invariant and both refinements, proved
Cards             the card service, on any table; implements RecordStore
CardsProofs       its invariant and the refinement, proved
FileStore         the file service, system call by system call
FileStoreProofs   its invariants, isolation of users, and what OK means, proved
Account           users, tokens, DeleteUser and the client's view of its account
AccountProofs     its invariant and what users may rely on, proved
Client            the client process in front of RecordStore, with Formats
Formats           what cryptodata and Luhn's check compute
RoundTrip         one record typed, saved and read back, on Formats
FormatsProofs     what the formats bring back, their lengths, and Luhn's check, proved
RoundTripProofs   which records are stored and which come back, proved
ClientProofs      what a user can tell of the store, proved
Server            the process: migrations, serving, signal, orderly stop, restarts
ServerProofs      its invariant, proved
MC*               constants for TLC
```

Modules meet in three ways. `Cards` instantiates `RecordStore` and implements it; `Passwords`
implements `PasswordStore`, and the steps of `RecordStore` where no saves race and no statement
is late. `Client` instantiates `RecordStore` to use it: its server is what those two are proved
to do, so that it need not repeat their statements. `Account` and `Server` see the stores from
above: the first reduces each to who has data in it and keeps the order of the steps of
`DeleteUser`, the second to the statements that a handler waits for.

Three conventions are common to the modules of the services.

*Handlers.* `Rpc` is the set of goroutines that may run at a time. `pc[r]` is the
next step of one, `call[r]` its request, `reply[r]` its answer. Each SQL statement
and each system call is one action; a handler that is between two steps may be
overtaken by any other.

*Faults.* `Faults` says what may go wrong in an instance: `"db"`, a statement fails
and changes nothing (a full pool, a timeout before the statement ran, a broken
connection); `"ack"`, a statement takes effect and the caller gets an error (its
one-second timeout expired after the commit), or an answer is sent and lost; `"late"`
(`Passwords`, `Account`), the timeout of a statement expires or its client goes away, the
caller gets an error, and the statement takes effect at any later time or never;
`"disk"`, a file operation fails, `Write` possibly after some chunks; `"crash"`, the
process is killed and every handler is gone, while tables and disk stay, and with
`"late"` any of its statements live on.

*Clients.* `Passwords`, `Cards` and `Account` let any client make any call at any time. In
`FileStore` this is `SyncClients = FALSE`; with TRUE a user runs one client, which awaits
each answer, as `cmd/client/main.go` does, over a connection that lasts as long as the
call.

### FileStore

`files` is the table, `disk` the directory tree, `seen[r]` the rows handler `r` has
read, `fd[r]` the descriptor it has open. A path is the pair of login and name: the
instances use logins that are plain names, for which `filepath.Join("upload",
login, name)` is injective. Contents are sequences of chunks, so that a short upload
written over a long one without truncation is visible, and so is a partial write.
`fd[r]` loses its path when the file is unlinked: the descriptor keeps an inode
without a name. Deferred `Close` calls have no action, as nothing is written after
them.

| Handler | Actions in order |
|---|---|
| `SaveFile` | `Call` or `Refuse`, `Open`, `Write`, `Insert`, on an error `Undo` |
| `GetFile` | `Call`, `Select`, `Read` |
| `EditFile` | `Call` or `Refuse`, `Select`, `Open`, `Write`, `Update` |
| `DeleteFile` | `Call`, `Select`, `Remove`, `Erase` |
| `DeleteAllUserFiles` | `Call`, `List`, `EraseAll`, `RemoveAll` once per path and once to end |

The primary key of `files` is `f_metadata` alone (`migrations/000004`), so metadata
is unique among all users (`KeyTaken`), while every other statement also compares the
login (`RowsAt`). The modules take the table as that migration defines it; that
`golang-migrate` does not get as far as 000004 is shown by `Server`.
The driver is pgx, so the test for `*pq.Error` in `InsertFile` never succeeds: a
duplicate and any other error are one and the same to `SaveFile`.

### Passwords, PasswordStore and RecordStore

`passwords` is the set of rows. `Exist` and `Insert` are the two statements of
`InsertPassword`, which share one timeout; each other operation is one statement. The
primary key is `(p_pair, p_metadata)`, the pair being the ciphertext (`KeyFree`), so it
stops no second row of a user under one metadata. `Fresh` says that a client sends a
ciphertext that is not around yet: `internal/cryptodata` seals under a random nonce.

A handler whose context is over while its statement runs goes to `pc[r] = "late"`
(`TimeOut`): its client has an error by then, and `Insert`, `Update`, `Delete` or `DeleteAll`
may still run for it, after other calls and after a `Crash`, or come to nothing.
`raced` is a history variable: the keys under which two INSERTs have been under way at once
(`Exist` found a key free while another handler was past its own `Exist`), until a delete of
the key or of the user.

`PasswordStore` is the promise to any clients: `vault` maps login and metadata to a set of
pairs, each call is one `Perform` or one `Fail` between `Begin` and `End`, and `Race` lets two
saves in progress take the same key. An edit needs a single value, a get shows any of them, a
delete takes all. A call is in progress until its last statement is over: of a late one the
client has been told an error before, and its `Perform` comes after. The refinement mapping
reads the sets off the rows (`Kept`). The abstract `Perform` is the concrete `Insert`,
`Select`, `Update`, `Delete` or `DeleteAll`; `Exist` is a stutter, a `Race` or a `Fail`;
`TimeOut` is a stutter.

`RecordStore` is narrower: one value or none under a key, no races, no late calls.
`RecordStoreWhenOrderly` says that every step of `Passwords` between two states without a
race and without late statements (`Orderly`) is one of its steps, whoever else is at work.
`Cards` implements it as it is. `Faults` of `RecordStore` has the meaning above: `"ack"` lets
`Perform` answer with an error, `"db"` lets any call fail, `"crash"` ends all calls. An
implementation that is given fewer faults has to refine a narrower store: without `"db"` a
call may fail only if the key is taken (a save) or free (the others).

### Cards

Every operation is one statement, and the search for a duplicate is part of the
insertion (`ON CONFLICT (c_login, c_metadata) DO NOTHING`, then `RowsAffected`). The
method `IsExist` has no caller. The statements and the table do not agree: 000003 creates
a column `c_chiperdata` and a key on `(c_chiperdata, c_metadata)`, while the statements
name `c_cipherdata` and a key on `(c_login, c_metadata)`. PostgreSQL refuses a statement
that names a column, or an `ON CONFLICT` that names a key, which the table lacks. So the
table is a parameter: `Columns` and `Uniques`; `Parses` says which statements are
accepted and `Legal` which rows. On the migrated table `Parses` is false for every save,
get and edit; on the one the statements expect (`Expected`) the service is a
`RecordStore` that fails only when it should.

### Server

`main` is the program counter of `main()`: `open`, then `migrate`, `run`, `mark` for each
migration file inside `m.Up`, `listen`, `serving`, `draining` (`GracefulStop`), `closing`
(`DBconn.Close`), `off`. The goroutine that calls `Serve` is `accepting`. `version` and
`dirty` are golang-migrate's record in the database; they, `tables` and `indexes` survive
a kill. golang-migrate stores the version as dirty, sends the file, stores it as clean;
PostgreSQL runs the statements of a file that is sent at once in one transaction.
`Migrations` holds table and index name of the four files; names of indexes are unique
in the schema, and `idx_login` occurs twice.

A handler is a method with its `Plan`: stages of statements, those of a stage running side by
side (the goroutines of `DeleteUser`). `waits[r]` is the set of tables whose statements handler
`r` is waiting for. `Timed` are the tables whose statements run under `context.WithTimeout`.
The plan lists one method of each shape; `GetCard`, for instance, waits as `SaveCard` does.
`Silence` is a database that answers nothing: the migrations, which have no timeout, wait for
it until it comes back or the connection breaks (`BreakOff`, which need never happen).
`Abandon` is a client that goes away, which cancels the context of its call; `Kill` covers a
signal that comes before `NotifyContext`, when its default action ends the process.

| Code | Actions |
|---|---|
| `config.Init`, `migrations` | `Start`, `Open`, (`Begin`, `Run`, `Mark`) per file, `EndMigrations`, `BreakOff` |
| `net.Listen`, `grpc.NewServer` | `Listen` |
| the goroutine with `s.Serve` | `Serve`, `ServeFails` |
| `<-ctx.Done()`, `GracefulStop`, `DBconn.Close` | `Signal`, `Drain`, `Close`, `End` |
| a call | `Call`, `Complete` or `Timeout` per statement, or `Abandon` |

### Account

`hash` is the table `users`, `data[s]` the logins that have something in store `s`.
`Purge` is one of the goroutines of `DeleteUser`, in any order. `Write` stands for the
statements by which the other services store or delete records, of which only
"the user has some" matters here. `late` holds the requests whose last statement outlives
its error, `Land` is such a statement taking effect or not.

`session` is the set of logins for which somebody holds a valid token. The interceptor asks
for some valid token, and all handlers but `EditUser` then act on the login of the request
(`Refused`): so a call on `l` is served if there is any token in `session`, or one of `Others`,
the users outside the model. The login of an `EditUser` is that of its token.

A password is a value bcrypt accepts, or `LongPass`, one of more than 72 bytes.
`HashPassword` refuses it, but `CheckPasswordHash` compares the first 72 bytes only, as
`internal/auth/auth_test.go:373` expects: `Opens` says that `LongPass` opens an account whose
password is its `Prefix`. So it can be confirmed, and is never stored (`TypeOK`).

Two variables are there for the properties only. `belief[l]` is the password that the last
answer OK has confirmed: that of a `RegisterUser` or `AuthenticateUser`, or of an
`EditUser` if one was known before (an `EditUser` of an account that is gone answers OK,
too). It is forgotten when an `EditUser` of the account or a `DeleteUser` that names the login
comes back, in whatever way, or dies with the server, and means nothing while such a call
is under way (`InDoubt`). `disturbed` are the calls that a fault has met or another
call or late statement that may change what they depend on (`Disturbs`): another
registration or a deletion for `RegisterUser`, any change of account or data for
`DeleteUser`, any `EditUser` or `DeleteUser` for all. The condition is about the one call
whose answer counts: all others may be disturbed.

### Formats and RoundTrip

A string is a sequence of characters, and `Width` gives the bytes of each; a "character"
of an instance may be a run of many. `Encrypt` keeps the text and computes the size that
nonce, tag and base64 make of it; `Decrypt` gives the text back, as all clients hold one
key. `Cut` is the first separator, from which `strings.SplitN` of two and of three parts
follow. `ValidLuhnCardNumber` sums what each digit weighs, from the right as the code
does it; `IsCardNumber` is the reference it is compared with, from ISO/IEC 7812: the last
digit completes the others. A number needs two digits, as code and test have it
(`auth.go:107`, `auth_test.go:237`); the comment at `auth.go:106` asks for more than two.

`RoundTrip` is the life of one record. `Type` fills fields, one of `SavePass`, `SaveCard`
and `SaveFile` checks, encrypts and stores it or is refused, `Get` reads it back. It
carries a defect of the code: `SelectFile` and the handler do not set the name of the file
in the answer (`NameFromServer`), so `GetFile` of the client opens the directory itself for
writing, and every download fails (`Download`). The name in the request is
`filepath.Base` of a path that `os.Stat` has found, so it is no longer than the names of
file systems are (`NameMax`); one of 200 kB would leave no room for a
file of 4 MB.

### Client

| Code | Actions |
|---|---|
| `AuthenticateUser`, `UpdateToken`, `GetLoginByToken` in `main` | `Authenticate`, with or without success |
| `SavePass`, `GetPass`, `EditPass`, `DeletePass` and the same of cards | an action each, through `Send`: request, token, check of the interceptor |
| the answer in these functions | `Receive` |
| the server's work on a call | `Work` (`RecordStore`), `Discard` if nobody waits for the answer, `Crash` |
| the process ends, or is killed | `Leave` |

A token is one of four: the placeholder of `main`, the empty one after a failed
`AuthenticateUser`, a good one and an expired one. The empty one makes a header of one
field (`HeaderFields`), which `ExtractToken` refuses; a request that is refused changes
nothing and has no step.

A killed client leaves its call with the server, where it may take effect during the
calls of the next client of that user, or after them. This is allowed in calls on cards
and, in calls on passwords, once the server is done: where two of one user overlap, the
password service is a `PasswordStore` and no `RecordStore`. An error that a client gets from
the server ends the call here; a statement that lands after its error is in `Passwords` and
`Account` only.
`may` is what a user can expect under each metadata: a confirmed call makes it one value,
an unanswered one adds its own, and confirmed calls of a user with late calls under way
(`rivals`) leave both.

## 3. Runs

All passing runs finish within three minutes on two workers.

| Run | Question | Instance |
|---|---|---|
| `file_isolation` | Do handlers of two users, or two handlers of one, ever reach a third party's rows or files, under every fault? | 2 handlers, 2 users, blobs of 1 and 2 chunks, 1 name and 1 metadata, all faults, clients not synchronous |
| `file_sync` | With one client per user, do table and disk agree, does OK mean done, and is what a handler has read still true when it acts on it? | 2 handlers, 2 users, 2 names, 2 metadata, 2 blobs, failing statements |
| `passwords` | When can a user have two rows under one metadata, is the service a `PasswordStore`, and what is missing to a `RecordStore`? | 2 handlers for any clients, 2 users, 2 metadata, 3 ciphertexts, all faults |
| `account` | Does a confirmed password open the account, and what does a `DeleteUser` leave behind, when any client with any token interferes, statements fail or come late, answers are lost and the server is killed? | 2 handlers for any clients, 1 login, another user with a token, 2 passwords and a long one, 2 stores, at most 1 kind of late statement, all faults |
| `cards` | Is the card service a `RecordStore` for any number of clients, when acknowledgements are lost and the server crashes, and do its calls fail only then? | 2 handlers, 2 users, 2 metadata, 2 ciphertexts, the table the statements expect, clients not synchronous |
| `server` | Do the orderly stop, the stored version and the waiting of handlers stand up to kills, restarts and a silent database? | 2 handlers, all shapes of methods, all faults, fairness |
| `formats` | Which records come back as they were saved, which sizes are refused, which card numbers are taken? | up to 4 characters in all fields, among them all digits, space, separator, a run of 80 bytes and runs of megabytes |
| `client` | Does a user know what the store may hold, through failed logins, expired tokens, lost answers, crashes and killed clients? | 1 user, 1 metadata for each kind, 2 pairs that are sealed alike, 2 valid cards and an invalid one, 2 calls, all faults |

**Why the bounds are enough.** Handlers interact through the rows and paths of at most two of
them at a time: each property compares a state with what one handler saw or wrote, so two
handlers show a conflict of any pair of steps, and the proofs cover any number for the
properties they establish. In `file_isolation` one name and one metadata are the worst case,
since every call collides with every other; `file_sync` has two of each, so that rows of one
path and paths of one metadata differ. Three ciphertexts in `Passwords` let two calls carry new
ones while one is stored, or two rows of a race stand and a third comes; a handler whose
statement is late counts among the two. `Account` has one login, as a call changes nothing of
another, and `Others` brings the tokens of other users. It has two of the three stores, which
its definitions treat alike, so that goroutines of `DeleteUser` overlap. `MaxLate` bounds the
statements that are late at the same time, those with the same request counted once (and `Land`
may leave it there): with two in place of one the run passes as well, with 1.5 million states.
The proofs have no such bounds. `Client` has one user, since all that a user does carries the
own login and `RecordStore` keeps one cell per login and metadata; two calls are one of a
killed client and one of its successor. In `RoundTrip` four characters hold a number of three
digits in two groups, two separators in any fields, and sizes on both sides of each limit: 160
bytes are two runs of 80, and 4 000 000 bytes two of 2 000 000. Symmetry is used for safety
properties only, over constants that the model compares only for equality; in `file_sync` the
blobs have different sizes and are left out of it.

**Runs that show a disagreement.** Each checks one sentence that the code says of
itself, and TLC finds a history in which the code does otherwise (`PROJECT.json`,
`findings`, quotes the sentence).

| Run | What happens |
|---|---|
| `file_duplicate` | `SaveFile` under metadata and a name already in use truncates the stored file, fails on the key, and removes the file as its "undo": the record stays, its content is gone. One client suffices. |
| `account_register_race` | Two registrations of one login both get OK and a token; one password was never stored. |
| `account_delete_partial` | One purge fails, the account is deleted all the same, the answer is OK, the data stays. |
| `server_migrations` | 000003 fails on the name `idx_login` at the first start, and at every later one the version is dirty; the server logs that the migrations were applied successfully and serves without the tables `cards` and `files`. No fault is needed. |

That a user has one row of `passwords` per metadata is what `InsertPassword` says of itself
(`storage_passwords.go:37`) and does not hold with two clients: two saves both pass
`IsExist`, and the key on the ciphertext does not stop the second. `OneRowUnlessRaced`
says what holds instead, and `IsPasswordStore` what follows: `EditPassword` fails on
the key, `GetPassword` returns either value, and a delete takes both.

**Properties with conditions.** `NoOrphans` fails under `"disk"` (the code logs a failed
`os.Remove` and goes on), under `"ack"` and under `"crash"` (nothing repairs), so
`file_sync` checks it under failing statements, the one fault the code undoes; and with one
client per user, as the overlaps of two clients of one user (a save during
`DeleteAllFilesByLogin`, an edit during `DeleteFile`) do break it. `Isolation` speaks of the user whose login the requests name. `BeliefsHold`
and `CleanDeleteLeavesNothing` are about answers to calls that nothing disturbed, whatever has
happened before and to others: without that condition the first fails on the race of
`account_register_race` and on the dropped error, the second is `DeleteLeavesNothing`, which
fails (`account_delete_partial`). `RegisterMeansStored` has no passing form: the race and
the dropped error are all that is in it. That no data is without an account does not hold in
any form worth stating: whoever has a token may store data under any login. `ComesBack` is
stated of pairs and cards, since no file ever comes back. `Matches` in `Client` takes a
record with a `|` in a field other than the last for any other, as `ComesBack` says what
becomes of it.

**Fairness.** Only `Server` states liveness. `FairSpec` assumes weak fairness of each
step of `main` and of its `Serve` goroutine (Go's scheduler runs a goroutine that can
run), of `Complete` for every statement (a database that answers again answers what it
was asked) and of `Timeout` (a deadline that has been set passes). It assumes nothing of
clients, signals, kills, restarts, nor that a silent database comes back or its connection breaks.
`AnsweredUnlessFiles` therefore excepts a handler whose only open statements are on
`files`: with the database silent for ever it waits for ever, `DeleteUser` among them.
`SignalEnds` has the premise that the database is up from some time on, for the same
reason: without it the stop hangs in `GracefulStop`. The steps of a service module are
not assumed fair, as those modules state safety only.

**Mutants.** Next to some definitions stands a variant whose name begins with `Bad`:
the same definition with a fault a programmer might make (a dropped condition, a missing
truncation, a loop that returns early, two of three goroutines awaited). No
definition uses them. Putting one in place of the original makes TLC report a violation of the
property that `PROJECT.json` names with it.

## 4. Proofs

tlapm checks them with Z3, Zenon and LS4.

**FileStoreProofs** assumes only the named assumptions of `FileStore`: sizes are positive, the
marker `None` is neither a content nor a request, the bad name is not a good one. It covers every
set of handlers, users and faults, synchronous clients or not.

- `Invariance`: `Spec => []IInv`. `RowsAtHome` is not inductive: `EditFile` writes into a
  row the path it read some steps before, and `Insert` the one it built. `IInv` adds what
  handlers carry between steps (`Confined`: rows seen belong to the login served, and so
  does the open file), and which steps a request can be at (`OnStage`).
- `TypeCorrect`, `PathsStayHome`: two conjuncts of it.
- `UsersAreIsolated`: every step of every handler, fault or crash leaves the rows and files of a
  user without calls in progress as they are. The proof takes each action from a state in
  `IInv` and shows that what it writes has the owner of its request.

Its second part is about users with one client each (`SyncClients`, a premise of each theorem).

- `SyncInvariance`: `Spec => []SyncInv`. That both stores agree is true at rest only, and a handler
  acts on what it saw some steps ago. `SyncInv` says at which step it may rely on what
  (`OnCourse`): the row read by `Select` is there until `Update` or `Erase` writes it, the file
  opened is the row's and empty until `Write` fills it. This stands because nobody else
  works for that user (`OneCall`), metadata are keys (`OneKey`), and paths of two users differ.
  Two more parts say that every file is whole or being written (`Whole`) and that every file
  has a row or a handler in charge of it (`Accounted`). Each of these is claimed only for
  the faults under which it is true, as a premise within the invariant; the rest of
  `SyncInv` is proved for all faults. A step is shown to keep the part of its own handler;
  the parts of others stay, as they are of other users.
- `ChangesAreKept`: under all faults an OK to a save, edit or delete is true of both stores until it
  is out; of a purge this holds for the table only, as a failed `os.Remove` is ignored.
- `FilesAreWhole`: `[]WholeFiles` if no write fails and the process is not killed; statements may
  fail or take effect unacknowledged.
- `NothingOrphaned`, `AnswersAreTrue`: `[]NoOrphans` and `[]OkMeansDone` if statements may fail and
  nothing else does.

**CardsProofs** assumes nothing of the clients, the table or the faults.

- `OneRowPerKey`: `Spec => []NoDuplicates`. `TypeOK /\ NoDuplicates` is inductive as it
  stands: with one statement per call there is nothing to remember between steps. This is
  the difference that `ON CONFLICT` makes to `Passwords`. `TypeCorrect` is its other part.
- `Refinement`: `Spec => IsRecordStore`, on any table; on an unexpected one the abstract
  store has `"db"` among its faults.

**ServerProofs** covers any number of handlers, any set of methods and all faults.

- `Invariance`: `IInv` adds to the two properties below what the migrations have done at
  each of their three steps (`Progress`: `run` applies the next file to the tables of the
  ones before it) and that a handler waits for a stage of its own plan (`OnPlan`).
- `OrderlyStop`: `Spec => []StopsInOrder`. `main` leaves `draining` only with no handler
  left, calls begin only while it is `serving`, and every other way out ends the process.
- `VersionIsTrue`: `Spec => []VersionTells`, over any number of kills and restarts.
- `TypeCorrect`: `Spec => []TypeOK`.

**PasswordsProofs** assumes the two named assumptions of `Passwords` (the kinds of faults; the
marker `None` is no request, reply or pair) and nothing of the clients: any number of calls of
a user may overlap, under all faults.

- `Invariance`: `Spec => []IInv`. `OneRowUnlessRaced` is not inductive: between `Exist` and
  `Insert`, or while the INSERT is late, the key must stay free although anybody may act.
  `CheckStands` says so: of an INSERT to come or under way, its key has no row and no other
  INSERT, or has been raced for. It needs `InTransit` (a ciphertext on its way is in no row and
  in no other call, so that no `Update` brings a row under the key and the primary key stands)
  and `OnStage`. `raced` may be left only when the rows are gone and no INSERT is under way
  (`Erase`), which the proof of `Delete` and `DeleteAll` rests on.
- `TypeCorrect`, `OneRowPerKey`: `Spec => []TypeOK` and `Spec => []OneRowUnlessRaced`, parts of it.
- `Refinement`: `Spec => IsPasswordStore`. Each action is shown to be the abstract step named in
  section 2 or a stutter (`StoreNext`); `KeptChange` says what a change of the rows under
  some keys does to the sets kept.
- `OrderlyRefinement`: `Spec => RecordStoreWhenOrderly`. Where nothing has raced a key has one
  row, so `Vault` is well determined, and each step that begins and ends orderly is one
  of `RecordStore`.

**FormatsProofs** assumes of `Formats` that the separator is a character, that each character
has at least one byte, and that digits, space and separator have one.

- `PairComesBack`, `CardComesBack`: what `DecryptPair` and `DecryptCard` make of what
  `CryptoPair` and `CryptoCard` have sealed, for all fields. The argument: the first separator
  of a joined string is the one put there, unless the first part has one (`CutIsFirst`,
  `SplitJoined`), and an accepted card number has none, as it consists of digits and spaces.
- `ColumnLimit`: a text fits into the column if and only if it has at most 161 bytes. With
  `BytesConcat` (the bytes of joined fields add up) this gives `PairFits` and `CardFits`.
- `AcceptedAreCardNumbers`: the loop of `ValidLuhnCardNumber` accepts a string of any length if
  and only if it is a card number in the sense of ISO/IEC 7812. What the loops compute is
  `Total` and `WithoutSpaces`, recursive functions on a sequence. `TotalSums` and
  `WithoutSpacesIs` show that such a function exists and is the one chosen, `TotalConcat`,
  `TotalReverse` and `TotalChange` what follows for sums; all of them count up to the length
  (`UpTo`: a set with 0 and all successors has no least number missing). The check digit is
  computed from the reversed payload by a table, the loop weighs from the right in place:
  `LastDigitCompletes` connects the two.
- `MistypedRefused`, `ExchangedRefused`: of a number that is accepted no other digit at one place
  is, nor two neighbours exchanged unless they are equal or 0 and 9. Spaces shift positions:
  `SameSpaces` says that they do so alike in both strings, `WeightsChange` and
  `WeightsExchange` compare the sums.

**RoundTripProofs** has an invariant that says what `cipher` and `shown` are in terms of the
fields (`IInv`), and when a record is stored and when refused (`Decided`).

- `RecordsComeBack`: `Spec => []ComesBack`, from `IInv`, `PairComesBack` and `CardComesBack`.
- `PairsUpToTheLimit`, `FilesUpToTheLimit`, `OnlyCardNumbersStored`, `NoTypoStored`: the four
  properties that say what is stored and what refused, from `Decided` and the lemmas above;
  no bound on the length of fields and no particular characters.
- `RecordsTypeCorrect`: `Spec => []TypeOK`.

**ClientProofs** covers any users, places, records, numbers of calls and faults. It assumes that
the empty login is nobody's, that records consist of strings, and (`NoneAssumption`) that the
marker `None` is no call, record, ciphertext, request or answer. About the server it uses only
what `RecordStore` says.

- `Invariance`: `StoreAsTold` compares the store with what answers have said, so it is not
  inductive: between the instant of a call and its answer the store is ahead of the user.
  `IInv` says what closes the gap. Of each call: the request carries what its client has
  intended (`CallOK`). Of each key: its user expects whatever calls under way may still write
  (`KeyOK`). Of each waiting user: late calls of killed clients are among the `rivals`, and
  once the answer is there and OK, the store holds what this answer tells or one of the rivals
  (`WaitOK`); so `Receive` may forget all else. `IInv` was also checked with TLC on the instance of
  the run `client`.
- `UsersKnow`, `NobodyStores`, `TypeCorrect`: parts of the invariant.
- `CardsInTableAreValid`: `Spec => []StoredCardsValid`. The invariant says that what is kept was
  expected, so it is a card that passed the check of `SaveCard` or `EditCard`; it opens to
  its number (`CardComesBack`), which is as the standard says (`AcceptedAreCardNumbers`).
- `ReadsAreTrue`: `Spec => ReadsWhatWasSaved`, for which `OpensToItself` connects calls and
  formats: what a sealed record opens to is taken for that record.

**AccountProofs** assumes the named assumptions of `Account` (`Prefix` is a password bcrypt accepts,
`LongPass` and `None` are not, `None` is no request): any numbers of handlers, logins, stores,
tokens and late statements, any clients, all faults.

- `Invariance`: `IInv` has a part for each late statement, each handler and each login. Of a late
  statement (`Tail`): it carries a password that bcrypt has hashed. Of a handler it says which
  request is at which step (`OnStage`) and, unless it is disturbed, that nothing under way
  can change what its call depends on (`Alone`), and that what it has seen and done still
  stands (`Sound`): a login found free is free, stores that were emptied are empty, a
  password that was confirmed opens the account. Of a login whose password is believed
  (`Sure`): it opens the account, and no late statement is left that would change it; this is
  where a late `EditUser` would show that was not counted as a disturbance. The effects of
  all statements are gathered in `Effect`; `EffectSpares` says that an effect which does not
  disturb a call leaves its `Sound`, `EffectKeeps` that one which is neither `EditUser` nor
  `DeleteUser` leaves an account that exists. Then each action is looked at for its own
  handler only (`Work`).
- `DeletesAll`, `ToldTheTruth`, `TypeCorrect`: parts of the invariant.

Only model-checked: `AnsweredUnlessFiles` and `SignalEnds` (`Server`), which are liveness under
fairness and out of the prover's reach. Every invariant and every action property that a passing
run checks is stated by a theorem. What recursive functions compute is proved where it is
needed, by least counterexample in place of induction, whose theorems in the library take
an operator and cannot be used.

## 5. What is not modelled

- Bytes: encryption, hashing and token signatures. The modules use what they guarantee
  (fresh ciphertexts, the text back with the right key, a hash that is opened by the
  passwords with the same first 72 bytes).
  Sizes appear in `Formats` only; elsewhere a value that does not fit is a failing statement.
- The client's calls on files within a session, and what is in its directories `download`
  and the one it uploads from: one file at a time is in `RoundTrip`, and no download
  succeeds.
- A call that its client abandons while the handler goes on with a cancelled context is
  `Abandon` in `Server`, and a late statement in `Passwords` and `Account`. `FileStore`, `Cards` and
  `Client` have no statements that land after their error. In `FileStore` an abandoned call
  is covered where clients are not synchronous; `SyncClients` excludes it.
- A client that edits its own login between calls, and logins that are not plain file
  names.
- The configuration file and the certificate: a wrong one shows as a database that cannot
  be reached or a transport that no client can use.
- The `.down.sql` migrations, which nothing runs, and a repair of the schema by hand.
- Logging, wording of errors, the generated code.

## 6. Plan

Done so far, in this order: `FileStore`, `RecordStore` and `Passwords`, `Account`, `Cards`,
`Server`, `Formats` and `RoundTrip`, `Client`, each with a proof module. Next:

1. Statements that land after their error in `FileStore`, `Cards` and `Client`: for cards one
   INSERT still finds out about duplicates itself, but a call may act after its error.
2. An abstract specification of the file service for users with one client each, and
   the refinement from `SyncInv`: with failing statements only, a save, edit or delete should
   take effect at one instant.
3. `FileStore` with more of what a user sees: which files are left behind under which
   fault, and which later calls mend it.
