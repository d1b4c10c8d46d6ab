# TLA+ models of Samsa

Samsa is a server for publishing and reviewing serial fiction: a Go server
(`src/server`, PostgreSQL, Redis, asynq, S3) and two Python packages
(`src/packages`: a story recommender and a crawler). This directory holds TLA+
models of the server's stateful parts, the TLC configurations that check them on
small instances, and TLAPS proofs about them. `PROJECT.json` is the index: the
components, the runs, the mutants that show each property can fail, the source
lines each definition stands for, the hazards and the theorems.

Paths below are relative to `src/server` unless they say otherwise.

- [What is here](#what-is-here)
- [Inventory of the system](#inventory-of-the-system)
- [Submission workflow](#submission-workflow)
- [WebSocket hub](#websocket-hub)
- [Presence](#presence)
- [Content features](#content-features)
- [Where the code and what is said of it part](#where-the-code-and-what-is-said-of-it-part)
- [Proved, checked, neither](#proved-checked-neither)
- [Not modelled](#not-modelled)
- [Plan](#plan)
- [Running it](#running-it)

## What is here

| module | what it is |
|---|---|
| `SubmissionStatus` | the statuses and the transition table of `errors.go` |
| `Submission` | every operation of the submission workflow, one action per SQL statement, and the two worker tasks |
| `SubmissionLifecycle` | the abstract promise: what one whole operation may do to a submission |
| `SubmissionSerial` | `Submission` with one operation in flight, and its refinement mapping to `SubmissionLifecycle` |
| `SubmissionProofs` | `WorkflowInv` is inductive; types, stamps, assignments and recorded steps; `SubmissionSerial` implements the lifecycle |
| `Hub`, `HubProofs` | the event loop of `internal/transport/ws`, the pumps of the connections and the registered handlers; types with every channel's capacity, open channels, what the browsers of a room end up showing, ended connections |
| `Presence`, `PresenceProofs` | the shared Redis counter of `infras/redis/presence.go` and its handler, over several processes; the counter is exact without faults and never too high without crashes; a departed user is announced offline last |
| `Requests` | what the content features share: users, slots of overlapping requests, the absent value |
| `Folders`, `FoldersProofs` | the tree of document folders and what is filed in it |
| `Documents`, `DocumentsProofs` | documents under review: status, version, counters, history |
| `Chapters`, `Stories`, `Reports` | the chapters of a story, stories with their genres, reports of a story |
| `Comments`, `CommentsProofs` | the tree of comments and its nesting limit |
| `Files`, `FilesProofs` | file rows in PostgreSQL and their objects in S3 |
| `Cache` | the cache client under the submission repository |
| `ContentProofs` | the proofs about `Stories`, `Reports`, `Chapters` and `Cache`, and about all the parts together (`MCContent`) |
| `MCSubmission`, `MCSubmissionScopes`, `MCHub`, `MCPresence`, `MCContent` | the small sets, bounds and symmetries the configurations use |

A configuration file gives constants their values and replaces no definition of
a module. The name of a run is the snake-case name of its `.cfg`.

## Inventory of the system

The server is layered: `transport/http` (chi routes) and `transport/ws` (a
WebSocket hub) call the features; a feature is a `usecase.go` (the rules), a
`repository.go` (persistence and cache) and generated SQL (`gen/sqlc` from
`db/queries`). `transport/worker` runs asynq tasks that call the same
repositories. PostgreSQL is the only durable state; Redis holds presence,
typing, cached rows and the queue; the hub keeps rooms and cursors in memory.

Three traits of the code decide how every part is modelled.

1. *No operation runs in one database transaction.* A repository statement is
   committed by itself, also where a use case opens a transaction
   (`submission/usecase.go` 404: its statements do not use it). An operation is
   a sequence of atomic statements and any two operations interleave.
2. *Most updates write a whole row back.* A use case reads an entity, changes
   some fields and saves all of them, with `WHERE id = $1` only.
3. *Errors of secondary effects are dropped.* History rows, notifications and
   cache entries are best effort; the operation succeeds without them.

What is wired: `transport/http/server.go` 36-64 mounts users, flags, spinnets,
stories, genres, chapters, documents and document folders. The submission,
comment, vote and other routes are written (`register.go` of each feature) but
not mounted, and the hub's routes (`transport/ws/server.go` 35) are never
registered. Every
repository is built without a cache client (`bootstrap/deps/repositories.go`
41-59) while the configuration enables the cache by default (`config/config.go`
42). Modules model the code as written: a feature counts as reachable through
its own handlers, and `Cache` gives the repository the client it is written for.

### Components

For each: its state; its operations; how it meets other parts; what is hard; and
what makes it correct.

**Submission workflow** (`internal/feature/submission`). State: `submission`,
`submission_assignment`, `submission_status_history`. Operations: create,
update, delete, soft delete, archive, approve, reject, claim, assign, bulk
approve and reject, and the daily timeout and archive tasks. Meets:
notifications, cache, worker. Hard: read, check, write later; whole-row updates;
tasks that act on lists read before; half-done operations. Correct when: an
approval names an approver and a time, a held submission has an assignment, a
status changes only as the transition table says, idle submissions end and
decided ones are archived. *Partly: tags, notifications and SLA marks are left
out.*

**WebSocket hub** (`internal/transport/ws`,
`internal/feature/integrations/ws/*`). State: clients, rooms, bounded channels,
cursor positions, timers; the typing set in Redis. Operations: register,
unregister, broadcast, inbound messages, scheduled offline checks, the Redis
subscription, shutdown; per connection a reader and a writer. Meets: presence,
publishers of notifications, other processes over Redis. Hard: handlers run on
the loop's goroutine and send to the loop's own channels; slow clients are
dropped inside a delivery; messages return as echoes. Correct when: delivery
goes exactly to open connections, a broken connection is released, and what
browsers show converges. *Modelled.*

**Presence** (`infras/redis/presence.go`, `integrations/ws/presence`). State: a
counter per user in Redis with a time to live, shared by all processes.
Operations: connect, disconnect, ping, check offline. Hard: crashes leave
counts, keys expire under live connections, the announcement is later than the
check; INCR and its EXPIRE are two commands. Correct when: the counter is not above
the connections, leaving is announced, and a left-over count heals. *Modelled.*

**Document folders** (`feature/document_folder`). State: a tree with parent and
stored depth, at most three levels, and the folder each document names.
Operations: create, update, move, delete, read the tree and the ancestors. Hard:
checks against a parent read earlier; a move writes the moved folder's depth
only; deletion counts first. Correct when: depth is the parent's plus one, the
tree that is shown is whole, nothing is deleted that holds something.
*Modelled.*

**Documents** (`feature/document`). State: status, version, counters, history.
Operations: create, update, submit, review, approve, reject, archive, new
version, delete, counters. Hard: an update writes back the row it read; the
history row comes after the change and may be lost. Correct when: what was
recorded stays, the history tells the status. *Modelled.*

**Chapters** (`feature/chapter`). State: rows with a sort order unique in the
story (deleted rows included), a publication mark with its date, views.
Operations: create, update, publish, unpublish, reorder, view, delete. Hard: the
next order is a maximum read before the insert; whole-row updates against
publish. Correct when: creation is refused only for a reason, mark and date go
together, publishing is not undone. *Modelled.*

**Stories** (`feature/story`). State: status, deletion mark, genres. Operations:
create, update, publish, archive, delete. Hard: genres are
cleared and added row by row; every update writes the deletion mark back.
Correct when: a deleted story stays deleted, an update leaves the genres it was
given. *Modelled.*

**Comments** (`feature/comment`). State: a tree with a stored depth, deletion and
moderation marks. Operations: create, reply, bulk deletion and bulk marks. Hard:
the nesting limit and the depth are two reads of values that change, and an
error of the second is ignored. Correct when: depth is true and nesting bounded. *Modelled.*

**Story reports** (`feature/story_report`). State: status, resolution, who and
when. Operations: create, update, resolve, reject, archive, delete. Hard: "no
open report yet" and "still open" are checked in an earlier statement. Correct
when: a resolution is whole and stands, a second report is earned. *Modelled.*

**Files** (`feature/file`). State: a row with a path and a reference, an object in
S3. Operations: create, update, share, unshare, delete, soft-delete, restore.
Hard: two stores written in two steps, in either order; a path that no key
guards. Correct when: a row's object exists, an object has a row, paths differ.
*Modelled.*

**Cache client** (`infras/cache`). State: Redis entries. Operations: Get, Set,
Delete (used), Once, SetXX, SetNX (without a caller). Meets: every repository,
which removes keys before writes and stores rows after reads. Hard: errors
wrapped around nil; keys, rows and failures in separate steps; writes past the
repository. Correct when: no read is answered with an old row. *Partly: the
three operations in use, under the submission repository.*

**Everything else** is listed under [Not modelled](#not-modelled), with reasons.

## Submission workflow

### The model and the code

`Submission.tla` is one action per database statement. A *request in flight* is
a record: its operation `op`, the stage `at` it has reached, the submission and
the user it names, the row it read (`snap`), and for a bulk update the ids and
those still to do. The operations read (`Begin`), check, and write at a later
stage from what they read, as the use case does. What each writes differs, and
the differences are what the properties are about: `UpdateStatus` sets the status
alone (reject, archive, timeout), `ApproveWrite` the three columns of an approval,
`UpdateWrite` and `HoldWrite` the whole row as it was read (update; claim and
assign, with status and approver). `Abort` and `TaskAbort` stand for everything that stops an
operation between two statements: a failing statement, a client that goes away,
a process that ends. Where the code goes on after a failed read, so does the model:
a claim whose look-up of the assignment failed takes that for none and inserts one
(`usecase.go` 479, the stage "blind"). `RowGone` is the error path of a statement whose row was
deleted meanwhile. The tasks' runs are `timeoutJob` (a list of candidates read
once, then one write and one history row each) and `archiveJob` (one update,
then the history rows).

Abstractions: names, contents, tags and notifications are left out, and so is the
read cache: `Cache` shows that it is never the answer of a read
(`ReadsAreCurrent`). The history table is its newest row per
submission. `updated_at` is an age of 0, 1 or 2 periods of 15 days, which tells
`DefaultArchiveDays` (15) from `DefaultTimeoutDays` (30). An id, a fresh UUID, is
never used twice. Bulk SLA marking is not modelled: it writes a column the
table does not have, so the statement always fails.

### What the runs show

| run | properties | instance | what it shows |
|---|---|---|---|
| `submission_safe` | `TypeOK`, `ApprovedStamped`, `HeldHasAssignment`, `HistoryLegal`, `EndedStays` | 1 submission, 1 user, 2 requests, both tasks, in two scopes (below) | whatever overlaps or stops half way, approvals are stamped, held submissions assigned, recorded steps legal; what was archived or deleted returns only by what saw it open and is still in flight, or by an Assign; the worker's panics do them no harm |
| `submission_serial` | `ImplementsLifecycle`, `HistoryTellsStatus`, `ClaimsAreExclusive` | 1 submission, 2 users, 1 request, all operations | one operation at a time, the workflow implements the abstract lifecycle, its history tells the truth, and a claim joins another assignment only when its look-up failed |
| `submission_live` | `IdleIsTimedOut`, `DecidedIsArchived` | 1 submission, 1 user, 1 request, all operations | with the cache off, the tasks get their work done although runs are cut short and a request interferes |
| `submission_moves` | `MovesAllowed` *(violated)* | 1 submission, 2 requests | see [below](#where-the-code-and-what-is-said-of-it-part) |

`MCSubmissionScopes` puts two instances of `Submission` into `submission_safe`;
`scope`, chosen at the start and kept, says which one runs. "hold": create,
update, claim, assign, approve and delete with the cache disabled. "end": create,
update, reject, archive, soft delete and bulk updates of up to two ids with the
cache enabled, so that both tasks panic where they touch their nil client
(`TimeoutPanic`, `ArchiveMark`). Every pair of operations
need not be in one scope: the proofs have them all in one specification.

One submission is enough for the safety runs: no statement but the tasks' lists
and a bulk update touches two rows, and the proofs cover any number. Two
requests are enough to overlap every read with every write; the proofs again
cover any number. `MaxBulk = 2` lets an id occur twice in one list. Requests and
users are interchangeable in the safety runs (symmetry); the liveness and
refinement runs use no symmetry. Deadlock is not checked: ids are bounded, and
once all are used and deleted nothing is left to do.

*`EndedStays`.* A stale write, or a timeout run's list, can bring back what has
ended. The property says that nothing else can, and that no such request begins
after the end. `MayReopen` names them: a claim or an assignment that has read the
row, a decision at its write, an update whose row was not archived.

*`SubmissionSerial` and `SubmissionLifecycle`.* The lifecycle has one submission
table and one step per operation, guarded by what the use case checks. The
refinement is a property of the serial system, not of the full one: overlapping,
operations make moves the lifecycle does not have, which is the finding of
`submission_moves`. The mapping takes the
status from the table (an id without a row is unborn or removed) and hides
requests, assignments and history: of an operation's statements one changes the
abstract state and the others are stutters.

*Fairness.* A request that has begun goes on (weak fairness of its continuation:
a goroutine that is scheduled). The tasks are started again and again by asynq's
scheduler (weak fairness of the starting steps). A single run may be cut short
any number of times, so the writes of the tasks have strong fairness: infinitely
many runs reach the statement, and it does not fail for ever.

*Why the cache is off in `submission_live`.* The worker's repositories are built
with a nil cache client, and with `EnableCache = TRUE` every task panics at its
first use of it (`repository.go` 164, 462): no candidate of the timeout task is
ever timed out then, and archived submissions miss their history rows. No property
is about those rows, and no run has liveness with the cache on.

## WebSocket hub

### The model and the code

`Hub.tla` is one process. The loop takes one ready case of its `select`
(`Register`, `Unregister`, `Handle`, `CheckOffline`, `Fanout`, `FromRedis`, `StartTimer`,
`Stop`); what the case then does in order, without returning to the select, is
the sequence `todo`, consumed one step at a time (`DoPush`, `DoLater`, `DoGreet`,
`DoTyping`, `DoCursor`, `DoRemove`), because between two of them a channel may
be full, a reader may queue a message, or the process may stop. The handlers
(presence, notification, typing, cursor, in the order of
`bootstrap/deps/handlers.go`) are those entries. Readers and writers of each
connection (`Read`, `ReadError`, `Write`, `WriteError`, `WriterDone`) run
between loop steps. A broadcast is delivered locally and published to Redis; the
subscription hands it back (`wire`) at any later time. `members` is the set the
hub delivers to, `closed` the connections whose send channel is closed; a send
to a closed channel, or a second close, is `status = "panic"`.

`view` is what the browser shows: the last `cursor.state` and the typing set
built from start and stop messages. It is outside the server, and is only there
to state what users see.

Capacities (512, 512, 64 and 256 in the code) are constants, 1 or 2 in the runs:
what matters is that the channel fills. `MaxInbound` (messages all the
connections together send) and `MaxNews` (messages other publishers send) bound
the environment.

`_internal.check_offline` is a registered type (`presence/ws_handler.go` 33), so a
client may send it, and then the loop itself runs the check that
`handleOfflineSchedule` otherwise runs in a goroutine (`CheckOffline`).

### What the runs show

| run | properties | instance | what it shows |
|---|---|---|---|
| `hub_safe` | `TypeOK`, `MembersHaveOpenChannels` | 2 connections, 1 in a room, presence, cursor and typing handlers; pings, typing, cursor moves, offline checks and malformed messages, one message in all, 1 published message, capacities 1, expiring typing keys | the hub delivers to exactly the registered connections whose channel is open |
| `hub_room` | `CursorsConverge`, `TypingShownIsCurrent` | 2 users in one room, 2 messages in all (`MaxInbound = 2`), broadcast and send capacity 2 | when nothing is in flight every member shows the room's cursors, and nobody shows a user as typing who has stopped, though each broadcast also returns as an echo |
| `hub_live` | `ConnectionReleased` | 2 connections, capacities 1, failing Redis calls, failing writes, shutdown | a broken connection is unregistered and both its pumps end, unless the hub has stopped, panicked or waits on itself |
| `hub_loop` | `LoopNeverWaitsOnItself` *(violated)* | a handler's broadcast finds the channel full | below |
| `hub_slow` | `SlowClientOnlyDropped` *(violated)* | a dropped client unregisters | below |

`hub_room` leaves out Redis errors and the expiry of the typing set. With a failed
publish an older copy may return last, and an expired set is announced to nobody: both properties fail then, and the hazards say so. `notification.read`
and unknown messages are answered by the same action as a ping. `hub_room` exchanges the two users with their
connections (symmetry); the others use none. Deadlock is not checked: clients
and messages are bounded, and the process may stop, panic or lock up.

*Fairness.* Weak fairness of the loop's steps and of the pumps' steps: goroutines
are scheduled. Strong fairness of `Unregister(c)`: Go's select chooses uniformly
among the ready cases, so a reader that waits on the unregister channel is taken
although other cases are always ready. Nothing is assumed of clients, of Redis
or of the network.

## Presence

### The model and the code

`Presence.tla` has one counter per user with the TTL of its key (set less than 90
seconds ago, longer ago, or not at all), changed by the Redis operations of
`presence.go`: INCR with EXPIRE, EXPIRE, and a script that decrements or deletes. A connection goes through `new`, `joining`,
`up`, `left`, `gone`: the counter changes on connect and disconnect, the
announcements come later, in the loop of the process the connection belongs to,
and the offline check is a timer of that process that reads the counter first
and announces in a further step. `Faults` chooses what may go wrong: `"quiet"`
(a connected browser goes 90 seconds without a ping, so the key expires under
it), `"crash"` (a process dies with its connections), `"redis"` (a call fails).
A failed connect may have applied both commands of its pipeline, either one or
neither (`presence.go` 30-33 is no transaction): a new key whose EXPIRE was lost has
no TTL, and keeps its count for good unless a ping or a later connect sets one
(`Stuck`). That a client asks for a check itself is in `Hub`; it adds an "offline" of
a user whose counter reads zero and nothing else.

### What the runs show

| run | properties | instance | what it shows |
|---|---|---|---|
| `presence_told` | `TypeOK`, `NeverOvercounts`, `GoneIsAnnounced` | 3 connections of a user, 1 process, quiet browsers | the counter is never above the connections; a user who leaves for good is announced offline, as the last thing said |
| `presence_heals` | `GoneIsOffline` | 3 connections over 2 processes, crashes and failing calls | a count left behind expires once the user has no connection, and stays gone, unless its key was made by a pipeline cut between INCR and EXPIRE and nothing set its TTL since |

Three connections let one leave, one stay and one arrive around an expiry; every
statement concerns one user, so one user is enough for TLC, and the proofs have
any number. `GoneIsAnnounced` is of one process: two processes have two queues
and the older event may arrive last. *Fairness:* the goroutines' steps are
weakly fair, and time passes (a key that nobody renews expires). Connects, pings,
crashes and failures are never forced. Deadlock is not checked: connections are
bounded and all may be gone.

## Content features

### The models and the code

Folders, documents, chapters, stories, comments, story reports, files and the
cache each have a module of the same shape. The tables are functions from
identities to rows or `None`; a *slot* holds a request in flight, a record with
the stage (`at`) it has reached and what it read; one action is one SQL statement
(or one call to S3 or Redis) with the code around it. A request whose checks fail
at its first read changes nothing and never takes a slot. Every module has an
`...Abort`: a failing statement, a client that goes away, or a process that
stops, between any two statements. What no operation depends on (texts, names,
validation) is left out, and a refusal on such grounds is one of the cases of
`Abort`.

Some variables are history: no action's guard looks at them. They remember what
an overlap, a failure or a late arrival did, so that a property can say exactly
when the code may lose something: `folderMoved` and a deletion's `late`,
`docFixed` and `docUntold`, `chapterFixed` and an insertion's `seen`, `storyGone`
and `alone`, `commentLate`, `commentBlind`, `reportFirm` and `reportEarned`, `fileTorn`,
`fileLoose` and `pathContested`, and `entryLoose` and `since` of the cache.

| module | state | operations | what is particular |
|---|---|---|---|
| `Folders` | `folder`, `filed` | create, update, move, delete; documents are filed | `DepthUnder`, `ValidateDepth` are the helper functions of the use case; foreign keys: a parent must exist when it is written; deleting a folder takes the place of its children and documents |
| `Documents` | `doc`, `docLog` | create, update (`EditDocument`, `WriteEdit`), submit, review, approve, reject, archive, new version, delete, counters | an update writes back status, version and counters; the history row is a statement of its own, and its loss is silent |
| `Chapters` | `chapter` | create, update, reorder, publish, unpublish, view, delete | the unique key on the order includes deleted chapters; the next order is the maximum of the others plus one |
| `Stories` | `story`, `storyGenre` | create, update (also publishing and archiving), delete | the row, the clearing and each genre are statements of their own |
| `Comments` | `comment` | create, reply, bulk delete, bulk marks | a reply counts the nesting, reads the parent's depth and inserts: three statements; any error of the second leaves depth 0 (`usecase.go` 115-118) |
| `Reports` | `report` | create, update, resolve, reject, archive, delete | no unique key guards the table; an update writes the whole row back |
| `Files` | `file`, `object` | create, update, share, unshare, delete, soft delete, restore | the reference column holds the object's key, and sharing overwrites it |
| `Cache` | `cachedRow`, `entry` | the repository's reads, lists and writes around Get, Set and DEL; approval and the archive task past it; expiry | a row is a number that every write counts up; `DecodeErrs` and `SetEntry` keep the error that is wrapped around nil |

In `Cache` one request is one call of the repository. `_unmarshal`
(`infras/cache/client.go` 328) wraps the decoder's result whatever it is, so Get
reports an error for every entry it finds and each read goes on to the database.
`ReadsAreCurrent` holds for that reason: with a decoder that answers (its mutant)
the approval that is written past the repository, a failed DEL or an overlap
shows a reader an old row.

### What the run shows

`content` (`MCContent`, `Content.cfg`) checks them together. No action of one
reads what another writes, so a behaviour of all is one of each with the others
stuttering; `focus`, chosen at the start and kept, says which one runs. Two slots
and one user: any read of one request overlaps any write of another. Slots are
interchangeable (symmetry). There is no fairness: nothing in these features is
promised to happen by itself. Deadlock is not checked: ids are bounded and a
behaviour ends when they are used up.

| part | bounds | properties | what they say |
|---|---|---|---|
| all | | `ContentTypeOK` | types; with them, no depth outside 0..2 |
| `Folders` | 4 folders, 1 document; overlaps among up to two folders, a third by requests one by one, a fourth where nothing is moved or filed; at most one folder moved (`FolderBound`) | `DepthTrue`, `TreeComplete`, `OnlyLateLost` | a folder is one level below its parent unless that was moved; the tree shown is whole as long as nothing was moved; a deletion takes a place only from what came after its count |
| `Documents` | 1 document, `MaxCount = 2` versions and views | `FixedStands`, `HistoryTells`, `VersionLinks` | an edit undoes only what happened between its read and its write; the newest history row tells the status but for named losses; a new version names itself as the previous one |
| `Chapters` | 2 chapters, orders 0 and 1, one view | `PublishedIsDated`, `ChapterFixedStands`, `RefusedOnlyByRace` | mark and date never part; an edit undoes only what happened during it; a creation is refused only for a deleted chapter or an order taken after the maximum was read |
| `Stories` | 1 story, 2 genres | `DeletedStays`, `GenresTakeHold` | only an update in flight at the deletion brings a story back; an update that ran alone leaves the genres it was given |
| `Comments` | 4 comments (three levels and one too deep), one mark; the fourth by requests one by one (`CommentBound`) | `ReplyDepth`, `NestingBound` | a reply is one below its parent, or at 0 when its own read of the parent failed or found it deleted; nesting slips only for a reply whose parent was deleted while it was written |
| `Reports` | 2 reports | `ResolvedStands`, `SecondReportEarned` | a resolution is whole, and stands unless another request was at the report; a second open report takes a resolved one or two creations at once |
| `Files` | 2 files, 1 path | `ReferenceFound`, `ObjectOwned`, `PathsApart` | a row loses its object only to its own deletion; an object loses its row only to a creation that broke off or to sharing; two files share a path only where creations overlapped, a look-up failed or a file came back |
| `Cache` | 1 row, 4 writes | `ReadsAreCurrent`, `EntryInStep` | no read is answered with an old row; an entry parts from its row only by what passes the repository by, a failed DEL or an overlap |

One row is enough where statements concern one row (documents, stories, cache);
two where rows compete (chapters, reports, files); four where nesting has a
limit of three. The bounds on identities in a fixed order only leave out
renamings. All of these properties are proved for every size: in each part by
itself, and of the composition, whose behaviours are behaviours of each part
(`EachPartRuns`); with `ContentTypeOK` so is the whole type.

## Where the code and what is said of it part

- `submission_moves`: `errors.go` 26 says that `ValidStatusTransitions` defines
  the allowed transitions. A decision checks the status it read and writes
  without a condition: approve and reject overlap and a rejected submission
  becomes approved.
- `hub_loop`: `hub.go` 60 says "One goroutine, no locks needed". Handlers on that
  goroutine send to its own bounded channels; when one is full the loop waits
  for itself, and every reader with it.
- `hub_slow`: `hub.go` 168 drops a slow client "and unregister"s it, which closes
  its channel; the client's reader unregisters it again, the second close
  panics and the process ends.

More sentences of the repository are stated beside these, in the modules, and no
configuration checks them; each is one the code does not keep:
`ArchivedIsFinal` (Assign accepts any status), `AvailableUnassigned` (a
submission may be created with assignees), `OneClaimant` (two claims overlap) in
`Submission`; `DeliveredOnce` (a process receives its own broadcast back),
`CursorsClearedOnDisconnect` (a queued move is handled after the cleanup),
`ExpiredTypingIsTold` (nobody is told of an expired typing set) in `Hub`;
`OfflineOnlyIfGone` (the check is read before the announcement) and
`OnlineWhileConnected` (a key expires under a browser that does not ping) in
`Presence`. And two that only the cache client's tests state: `client_test.go`
57-61 expects no error of Set and of a Get that finds its entry; both wrap a nil
error (`client.go` 161, 328) and return one.

## Proved, checked, neither

**Proved**, for every value of the constants that the named assumptions
(`ConstantsAssumption`, `SlotsAssumption`, `HubConstants`, `PresenceConstants`,
`RequestsAssumption` and one per content module) admit. They ask for
little: bounds are natural numbers and the hub's capacities positive ones,
`None` is none of the real values, no status, no row and no request, the two
tasks are not request slots, every connection has a user, and for presence
the connections are finitely many. Three theorems have a hypothesis on the
constants besides: `CursorsCaughtUp` and `TypingCaughtUp` have `Reliable`, explained
under *Hub*, and `LastWordIsOffline` has one process and `Lossless`, explained under
*Presence*.

- *Submission.* `ApprovedStamped` and the others are not inductive: a request
  writes back the row it read, so a bad row could come out of a bad snapshot,
  and a claim writes "claimed" only because an earlier stage inserted the
  assignment. `WorkflowInv` adds `RequestsSound`: every request in flight has
  the shape its stage implies (`RequestFormed`), and the row it keeps was itself
  sound, with its assignment present where it will write a held status
  (`SnapshotSound`). `WorkflowSound` proves it inductive, one lemma per action;
  `TypesKept`, `ApprovalsStamped`, `HeldAreAssigned`, `HistoryIsLegal` follow.
- *Submission, one operation at a time.* The abstract step is taken by one
  statement, whose guard is the check an earlier statement made: the step is
  allowed only because nothing has changed since. `SerialInv` says so: at most
  one operation is in flight (`OneAtATime`), and `Fresh`, that what it has read
  is still what the table holds, or, once it has written, that the row has the
  status its history row will tell. From it, one lemma per action maps the step
  to a step of `SubmissionLifecycle` or to a stutter (`SerialRefines`), and the
  two action properties follow: the newest history row tells the status
  (`HistoryAgrees`), and a claim whose look-up succeeded joins no assignment
  (`ClaimsExclude`). Neither
  holds of overlapping operations, which is why `Fresh` is needed.
- *Submission, what has ended.* `EndedStands` proves `EndedStays` from `WorkflowInv`
  for overlapping operations, one lemma per action: a step that changes an ended
  row, or that gives a request or the timeout run the means to, is one that
  `Closed` rules out or the Assign it names.
- *Hub.* `TypeOK` alone is not inductive either: a step trusts what `todo` holds,
  and `MembersHaveOpenChannels` needs to know what the loop has still to do. A
  removal queued in `todo` must be of a registered connection and a room
  change of a connection in a room. `HubInv` is the typing of channels with
  their capacities, the open-channel equation for each phase of a connection,
  and `todo` a sequence of allowed entries. `HubSound`, then `HubTyped` and
  `MembersAreOpen`.
- *Hub, what the browsers show.* A broadcast reaches a client twice, from the
  loop and back from Redis, and a snapshot (`DoGreet`) may be sent between the two.
  `CursorsConverge` speaks of a quiet hub only, so its invariant has to say
  where the truth is while the hub is not quiet. `RouteInv` adds to `HubInv`
  that a room's state goes only to connections of the room (`ChannelsRouted`),
  that a broadcast is pushed before anything else in `todo` and a newcomer is
  greeted last, before it was sent anything (`WorkOrdered`), and that a
  connection that has not registered shows nothing (`Newcomers`). `ToldInv` is about the *last word* on a topic (the cursors, or
  the typing set) of a room: it is in the event about to be pushed, else it is
  the last about the topic in the first of `broadcast` and `wire` that speaks of
  it, else every greeted member of the room has it last in its send buffer or on
  its screen; and that last word fits what the hub holds. An echo that is older is harmless
  because a newer word is still behind it. Every action keeps this, for any
  clients, rooms, capacities and any number of connections of one user; so
  `CursorsCaughtUp` and `TypingCaughtUp`. Their hypothesis `Reliable` is the one
  the code needs: no Redis errors (with a later publish failed and an earlier
  one not, the older copy returns last), the cursor handler registered for
  cursors (without it nobody is sent a snapshot), and for typing no expiry of the
  typing key (it is announced to nobody). `hub_room` runs under it.
- *Hub, ended connections.* `EndedInv`: a connection whose reader has left is closed, or
  its removal is still in `todo`. `EndedAreLetGo`, for all faults: whenever the
  hub is back at its select, such a connection is in no room and its channel is
  closed, so its writer can end. This is the safety half of `ConnectionReleased`;
  that the hub gets back to its select is the other half, and it is TLC's.
- *Presence.* `CounterInv` bounds the counter by the connections that are
  counted; without faults it equals them, which needs that no key goes unrenewed
  while its user is connected (`ttl`), since expiry is the one other way down. `CounterSound`, then `CounterIsExact`
  (no faults), `CounterNeverOver` (expiry allowed, no crash, no failing call) and
  `KeysDoExpire` (no failing call: every key has a TTL).
  The types are inductive by themselves (`PresenceTypes`).
  `WordInv` is about one process that neither crashes nor loses Redis: a user
  without connections has an offline check still to come, or the last word about
  them, in the queue or already told, is "offline". It rests on the counter: since it is never
  above the connections, the last disconnect finds nothing remaining and leaves a
  check, and the check of a user without connections finds zero. So
  `LastWordIsOffline`, the safety half of `GoneIsAnnounced`, for any number of
  users and connections; that checks end and queues empty is TLC's.

- *Content features.* In each module a request writes what it read before, so the
  properties are not inductive by themselves: the invariant adds what every
  request in flight may still write.
  - `FolderInv`: types, `Referenced` (every parent exists), `PromisedDepth` (the
    depth a request will write is the one under its parent, or its parent was
    moved) and `DepthTrue`. Gives `FolderTypes`, `DepthStaysTrue`,
    `TreeStaysComplete`. `LateTold` (whatever is in the folder of a deletion that
    has counted was noted as late) gives the action property `LossesAreLate`.
  - `DocInv`: types, `RequestsThere`, `EditsFaithful` (an edit in flight holds
    what is recorded, unless it no longer counts), `LogsFaithful` (a history row
    to be written is the status set) and the three properties. Gives `DocTypes`,
    `FixedStaysFixed`, `HistoryStaysTrue`, `VersionsLinkToThemselves`.
  - `StoryInv`: types, `StoriesFresh`, `GoneForGood` (no update that could bring
    a story of `storyGone` back is at its write) and `AloneKnows` (a request that
    is alone has added what is no longer to do). Gives `StoryTypes`,
    `DeletedStaysDeleted`, and the action property `GenresDoTakeHold`.
  - `ReportInv`: types, `ReportsUsed`, `WritesSound`, `ResolvedStands`, `OneEach`
    (a reporter who earned no second report has at most one, unresolved, and none
    while one is about to be inserted). Gives `ReportTypes`,
    `ResolutionStands`, `SecondReportIsEarned`.
  - `ChapterInv`: types, `ChaptersThere`, `EditsSound`, `PublishedIsDated`,
    `ChapterFixedStands`. Gives `ChapterTypes`, `PublicationsAreDated`,
    `RecordedStays`. `OrderPastSeen` (an insertion's order is past every order it
    saw) gives the action property `RefusalsAreRaces`; it needs that a set of
    orders has a maximum, which follows from the library's well-founded ordering
    of finite sets.
  - `CommentInv`: types, `ParentsThere`, `RepliesInFlight` (what a reply has
    counted still holds while its parent is not deleted), `BlindThere` (a reply
    noted as blind is there), `ReplyDepth`, `NestingBound`. Gives `CommentTypes`, `ReplyDepthHolds`,
    `NestingStaysBounded`.
  - `FileInv`: types, `FilesTaken`, `RequestsSound`, `CreationsApart` (two
    creations in flight at a path, or one and a file there, are recorded) and the
    three properties. Gives `FileTypes`, `ReferencesAreFound`, `ObjectsAreOwned`,
    `PathsStayApart`.
  - `CacheInv`: types, `CacheUnborn` (nothing is known of a row before its
    insertion), `ReadersSound` (a reader may be answered with the row there is,
    and with what it holds), and for every id outside `entryLoose` `InStep`: the
    entry and every row on its way to it are the current one, and a writer has
    the id to itself. Gives `CacheTypes`, `ReadsStayCurrent`, `EntriesInStep`.
  - Together: a step of `MCContent` is a step of the part in `focus` and a stutter
    of the others, so each part's specification holds (`EachPartRuns`), and with
    it each part's theorems; `ContentTyped` puts the types together.

**Model-checked only.** Liveness: `IdleIsTimedOut`, `DecidedIsArchived`,
`ConnectionReleased`, `GoneIsAnnounced`, `GoneIsOffline`. Fairness and ENABLED
are out of the prover's reach. Every other property of a passing run is proved.

**Neither.** Authorization, validation of texts, SQL read queries and their
pagination, rate limits, HTTP status codes, and what the next section names.

## Not modelled

| part | why |
|---|---|
| story status history | written by an endpoint of its own, never by a change of status: nothing relates the two |
| comment votes, comment reactions | a toggle deletes by the comment's id in place of the vote's, so nothing is ever removed, and the unique key holds the direction: no promise is left to check |
| story votes | one upsert per story and user: PostgreSQL keeps the only rule |
| story posts, authors, tags, users and settings | single rows read and written whole, without a rule that relates two operations; the pattern is in the content modules, where there is one |
| flags, genres, spinnets | single-row create, read, update, delete |
| notifications | every recipient is stored under the zero id, so a second one is refused and its missing result dereferenced (`notification/usecase.go` 95); the lists ask for deleted rows (`notification/repository.go` 81-127). What the hub does with a published one is in `Hub` |
| authentication, sign-in with GitHub and Google | single rows and outside services; access control is not a subject here. A mailed code is stored and then reported as an error (`infras/cache/client.go` 161), so no mail is sent |
| cache client: Once, SetXX, SetNX | no caller |
| submissions: SLA marks | a column the table does not have: the statement always fails, so the operation changes nothing |
| submissions: tags, notifications, SLA reports | best-effort side effects and reads |
| worker, HTTP, wiring, PostgreSQL access, S3 and mail clients | thin layers over libraries; their effect is in the models where it matters: task runs cut short, the worker's nil cache, the order of the hub's handlers, statements as steps, S3 in `Files` |
| generated code (`gen/`), query parameters, tokens, telemetry, tools, test kit | generated, formatting, cryptography or no state |
| recommender (`packages/samsakit`), crawler (`packages/crawlbot`) | pipelines of reads, pages and files; no state that two of their steps share |

The map covers about a tenth of the lines counted as implementation. Most of the rest is
generated (`gen/swagger` alone is a fifth, `gen/sqlc` and the protobuf code
another), HTTP handlers that decode a request and call one method, and read
queries.

### Hazards without a property

`PROJECT.json` lists the hazards the properties are for, with a note where a property
bounds what the code does and does not exclude it, or where there is none. These
are real as well and have no property (paths relative to `internal`):

| line | what can go wrong | why no property |
|---|---|---|
| `feature/comment_vote/usecase.go:76` | a vote is toggled by reading, then deleting or inserting; changing a vote leaves both; only the first hundred votes are searched for the user's own | not modelled, see above |
| `feature/auth/usecase.go:133` | a code is cached before its mail is queued, and Set reports an error for an entry it stored | not modelled, see above |
| `feature/comment/usecase.go:254` | moderation, update and deletion look a comment up with an empty entity type, which the enum refuses: a single comment can be changed in bulk only | nothing happens, so there is nothing to state |
| `feature/document_folder/usecase.go:113` | an update writes back the parent and the depth it read: it undoes a move in between | `Folders` has it; the folder then counts as moved, which `DepthTrue` allows for |
| `feature/submission/usecase.go:404` | the bulk update's transaction is not the one its statements run in | `Submission` has its statements one by one; no document says they go together |
| `feature/submission/usecase.go:185` | the first history row has an old status the enum refuses, and bulk decisions name an author who does not exist: those rows are silently lost | the model leaves them out at these places |
| `feature/submission/usecase.go:206` | a submission created with assignees stays pending and can never be claimed | stated as `AvailableUnassigned` |
| `transport/ws/hub.go:68` | select takes a client's unregister before messages it queued earlier: state is put back after cleanup | stated as `CursorsClearedOnDisconnect` |
| `transport/ws/hub.go:181` | a broadcast that fails to reach Redis is still delivered locally; when a later one fails and an earlier one did not, the earlier copy returns last | `CursorsConverge` is checked and proved without Redis errors (`Reliable`); no document promises it with them |
| `transport/ws/hub.go:154` | a message to a user without a room reaches only connections made at `/ws` | `Targets` models it; nothing precise is promised |
| `transport/ws/hub.go:92` | the online and offline events of one user leave from different processes' queues | `GoneIsAnnounced` is of one process |
| `integrations/ws/cursor/ws_handler.go:24` | cursors live in one process's memory: two processes serving a room overwrite each other's at the clients | `Hub` is one process |
| `integrations/ws/typing/ws_handler.go:39` | typing and cursor are kept per user: one connection's disconnect clears them while another is active | the documented design (`cursor/ws_handler.go` 20); what is shown still agrees with what is held, for any connections per user (`CursorsCaughtUp`) |
| `integrations/ws/presence/ws_handler.go:104` | the offline check reads the counter, then announces in a later step | stated as `OfflineOnlyIfGone` |

## Plan

1. Proofs: the safety halves of `IdleIsTimedOut` and `DecidedIsArchived` (a
   candidate in a task's list is written unless the run is cut short), as
   `EndedAreLetGo` and `LastWordIsOffline` are of the other liveness properties.
2. Two hubs over one Redis, where the two copies of a broadcast reach different
   processes.
3. Notifications and votes, once their operations do what they say: the modules
   would be of the shape of `Comments`, and notifications compose with `Hub`'s
   publisher.
4. Configurations for the statements listed [above](#where-the-code-and-what-is-said-of-it-part).

## Running it

`tlc -config HubSafe.cfg MCHub` checks one run (the module of each is in
`PROJECT.json`); `tlapm HubProofs.tla` checks a proof module. A run takes
between a few seconds and two and a half minutes with two workers (`content` is
the longest); a proof module one to a few minutes (`ContentProofs` is the
longest).
