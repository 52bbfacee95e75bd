# Javelin: TLA+ models, checks and proofs

Javelin is an agent-native version control system written in Rust. A repository has one
**World**, an append-only sequence of immutable snapshots, and any number of **Layers**, each a
private delta over an exact World. Agents capture their work into a Layer, may Stack another
Layer's checkpoint onto it, and Publish it. Publish rebases the delta onto the current World when
nothing it touched has moved, and reports a conflict otherwise. Everything is keyed by
caller-chosen operation IDs, so every mutation can be retried after a lost reply.

This directory models that core, the directories that Layers are worked on in, the client outbox,
the node with its reviews and World log, the protocol that moves objects, and the control plane
that signs people in and hosts repositories. It states what must hold, checks it with TLC on small
instances, and proves the most important parts with TLAPS for every instance.

## Inventory

| Component (source) | State | Operations | What makes it correct |
|---|---|---|---|
| domain types (`src/src/domain.rs`) | none | `normalize`, `collisions`, manifest checks | a normalized delta is canonical; collisions predict conflicts |
| tree store (`tree.rs`) | content-addressed chunks | `apply`, `diff`, `intersections` | agree with the path-map reference; equal subtrees may be skipped |
| World history (`repository.rs`) | `versions`, `changes`, `attempts` | `initialize`, `compare_and_advance`, `advance_to_tree`, `check` | each World is its parent plus a canonical changeset; one outcome per operation |
| Layers (`layer.rs`) | `layer_heads`, `layer_attempts`, checkpoints | create, clone, capture, discard | compare-and-set on the head; retries replay; terminal states stay |
| Stack (`stack.rs`) | ancestry in checkpoints | `commit_stack_resolved` | ancestry kept and acyclic |
| Publish (`publish.rs`) | `publications` | `publish_layer`, `publication` | no lost update, at most one success per Layer, receipts stay justified |
| radar (`radar.rs`) | `layer_paths` | incremental index, `radar` | the index equals what history rebuilds; its report is exact |
| blame (`blame.rs`) | `blame` | record at Publish, report | equals what the Layer history attributes |
| adoption (`adopt.rs`) | reserved Layer | `adopt` | one operation, resumable, never merges into other history |
| attachment (`attach.rs`, `cli_remote.rs`) | `attach.json` | `attach` | buries no local history it has read; resumable |
| outbox (`outbox.rs`) | journal file | open, enqueue, replay | what returned Ok survives; delivered in order |
| workspaces (`workspace.rs`, `workspace/clone.rs`) | lock, rolling base, layer directories, trash | open, publish, discard, recover | database first, directories later; recover finishes what crashed |
| refresh (`workspace/refresh.rs`) | sync record | three-way refresh, resolve | no local edit is overwritten |
| capture (`capture.rs`) | stat cache | scan | no edit hidden by a racy timestamp |
| node (`crates/javelin-node`) | two SQLite databases | publish, append, review, checks, fork | one decision per operation across both databases |
| collaboration (`crates/javelin-collaboration`) | command history | open, revise, approve, publish | approvals bind the exact revision and permission epoch |
| protocol (`crates/javelin-protocol`) | none | push, fetch, append | everything referenced is present before it is named |
| control plane (`crates/javelin-control`), identity | JSON state under a lock | reserve, provision, device flow, passkeys | retries are idempotent per creator |
| merge (`crates/javelin-merge`, `javelin-stack`) | none | diff3 | decision table |
| command line, tools | none | parsing and reports | - |

Interaction: every client operation goes through one SQLite database in one transaction
(`BEGIN IMMEDIATE`), from any number of processes. Publish is the exception. It prepares in a read
snapshot, drops it, and commits in a later short write transaction. Workspaces touch the database
first and directories after. The node keeps a second database of replies beside the repository.
The client talks to the node directly or through the outbox.

The hard behaviours are the gap between a Publish's preparation and its commit; retries of
operations whose context has moved; the incrementally kept radar and blame tables; crashes between
two durable steps (adopt, attach, open, refresh, node publish, fork, outbox); torn or damaged
journals; files edited while they are scanned; and links that break inside a frame.
`PROJECT.json` lists each one as a hazard at its source line, with the properties that would catch
it or the reason none does yet.

## Modules

| Module | Models |
|---|---|
| `FileTrees` | snapshots and changesets as functions on paths; `normalize`, `diff`, `apply`, `intersections`, `collisions` |
| `Repository` | the repository database: World, Layers, Stack, Publish, radar, blame, retries |
| `WorldLog` | abstract specification: one log, one outcome per operation, one success per Layer |
| `RepositoryRefinement` | the mapping from `Repository` to `WorldLog` |
| `Adoption` | `init`, `adopt` and `attach` racing and crashing over one store |
| `Outbox` | the journal, its damage handling and replay |
| `NodeLog` | the node's PublishLayer and LayerAppend over `Repository` and a second database |
| `Review` | Publish Requests: revisions, approvals, permission epochs, checks, publication |
| `Capture` | the scan of a directory with its stat cache, against an owner who edits |
| `Workspace` | `Capture`, with open, the rolling base, capture, refresh, publish and discard of a directory |
| `Transfer` | push, its receiver, and fetch, over links that break |
| `SignIn` | device codes, passkeys, browser sign-ins, sessions and access tokens |
| `Hosting` | `Transfer` and `SignIn`, with create, fork and the node's copy of logs and traces |
| `MCRepository`, `MCAdoption`, `MCOutbox`, `MCNodeLog`, `MCReview`, `MCWorkspace`, `MCHosting` | instances for TLC |
| `FileTreesProofs`, `RepositoryProofs`, `NodeLogProofs`, `ReviewProofs`, `OutboxProofs`, `AdoptionProofs`, `HostingProofs`, `WorkspaceProofs` | theorems |

### FileTrees and Repository

A snapshot is a function from `Paths` to entries, `Absent` for no file; `Ancestors` gives the
directory structure. A changeset is a partial function whose `Absent` entries are tombstones. The
chunked tree and its hashes are abstracted to what they identify: roots are equal when snapshots
are, and the diff and intersection walks are the sets of paths they report.

Each table of the schema is a variable: `versions`, `attempts`, `objects` (checkpoints,
content-addressed: storing an equal one again yields the same ID), `heads` (`layer_heads`),
`layerAttempts`, `publications`, `layerPaths` and `blame`. `calls` holds the Publish calls that
have prepared and not yet committed. Every transaction is one action. A crash before a commit
leaves nothing and a crash after it loses only the reply, which is why retries (`ReplayUpdate`,
`ReplayAdvance`, `ReplayPublish`) may come at any time from anyone.

Publish is split where the code splits it. `PublishLayer` is `prepare_in`; the write transaction
rechecks operation, World and Layer (`StillCurrent`) and then ends as `PublishMoved` (the loop
continues), `PublishStale`, `PublishConflict`, `PublishAdvance` or `PublishRefused` (the guard or
the number limit). `PublishAbandon` is a process that died or a write lock that timed out. The
merged delta of a Stack and the guard's verdict are inputs.

`HistoryValid`, `AttemptsValid`, `LayersValid`, `CheckpointsValid`, `ReceiptsValid`, `RadarExact`
and `BlameExact` are translations of what `Repository::check` verifies of a stored repository, so
the runs show that no interleaving reaches a state `check` would call corrupt. `NoLostUpdate`,
`NeverWedged`, `RadarPredicts` and `RetryReplays` are what callers rely on beyond it.

`RetryReplays` is about the reply. `UpdateReply` is what a capture, discard or Stack with a recorded
operation returns: the checks before the lookup (`VerifyHead`, `RefusePublished`), the candidate prepared
again, its comparison with the recorded request, and `AttemptOutcome`, which reads the recorded result
event. `Retry` is that reply to the recorded request. No step may change it or turn it into an error: not
a later capture, not the end of the Layer, not a head that moved on.

### Adoption

One reserved Layer, a flat World and `attach.json`. Paths are flat here because only overlap
matters. A command is a process with a phase, and `Crash` can stop it between any two of its
transactions. The user may create Layers, publish and discard at any time, under any operation
name, `attach-` names included. The remote head may advance.

Each read of a command is an action of its own. `adopt` reads the head it scans against (`AdoptScan`),
commits the capture (`AdoptCapture`, without effect when the head moved), reads the head it publishes
(`AdoptExpect`) and publishes that one (`AdoptPublish`): a Layer that moved or ended since is a durable
stale outcome, `refused`. `attach_head` checks (`AttachCheck`), reads the local head again
(`AttachHead`) and advances from what it read (`AttachAdvance`). Between the first two a Publish may land,
and the advance then buries it; `AttachSound` says that this window is the only one.

### Outbox

The journal is a sequence of frames in two copies: `file`, what any reader sees, and `disk`, what
is certainly durable. A write changes `file`, a sync copies it to `disk`, a power loss keeps, drops
or tears what was not synced. `AppendFails` is an I/O error at any step of an append; since
`valid_len` stays, the next append overwrites, and `Remains` is what may be left behind it.
`Rot` damages one record at rest, the case `move_damage_aside` exists for. `promised` collects the
frames whose call returned `Ok`. `TailGone` records a real behaviour: after a truncation whose sync
failed, the handle can no longer read the tail it wants to save, so all its appends fail until the
journal is opened again. Nothing is lost by that. Payload sizes are not modelled. A reply over the
32 MiB body limit cannot be acknowledged, so its record and all behind it stay queued.

### NodeLog

`NodeLog` extends `Repository`, whose `CreateLayer`, `CaptureLayer` and Publish actions are the
node's writes, and adds node.db: `decided` (request and outcome of each decided PublishLayer) and
`staged` (uploaded changes objects). The node holds a lock on its directory and serves one message
at a time, so `serving` is at most one request; `NodeStop` ends it between any two of its commits.
`PublishReply` and `AppendReply` are the replies a request would get now. The replay properties
compare them before and after every step, for every request a client could send. Requests name
heads by checkpoint, as on the wire, and a checkpoint may recur in a Layer's history, which is what
makes `Parents` a set. The verdict of the required checks is an input here. The node never
discards a Layer, so that refusal is not reached.

### Review

A request is a list of accepted commands in node.db, and `Restore` replays it. A publication is up
to three commits in two databases: the revision's Layer, its receipt, and the command. Each prefix
after which the node may stop is an action (`PublishRequestCloned`, `PublishRequestUnrecorded`),
and `Settled` reads the request through the World as `settle_review` does. Permissions are pushed
in any order; a newer epoch replaces an older one, and a restart forgets them all. Whether the
revision conflicts with the World is an input. Not in the model: tokens and their scopes, the hash
chain over commands, comment text, patterns in check names, and `Close`, for which the node has no
message.

### Capture and Workspace

`Capture` has a clock and a file system whose clock lags behind it by up to `Lag` ticks, so a file
may be written twice under one change time. All contents have one size, the case in which only time
tells two of them apart. A scan reads its clock (`ScanBegin`), lists the files with their change
times (`ScanWalk`), and reads the ones whose cached fingerprint it cannot trust (`ScanRead`); the
owner may edit before, between and after. The cache may be lost, and its save may fail.

`Workspace` puts one Layer over it. `heads`, `world` and `ended` are the database, `disk` the
directory, `sync` the sync record, `rolling` and `record` the rolling base and base.json. A command
takes the workspace lock, so `cmd` is at most one; Stack, `layer discard` and the World's progress
take none and come at any time. `open` is `ensure_rolling` (use, advance or materialize the base),
the staged clone with its rewind, the rename, and the sync record. `refresh` is a scan against the
synced tree, the three-way plan with the owner's choices (keep, take the head's, supply), the
removals and writes one path at a time, and the sync record last. `Crash` ends a command between
any two durable steps, in the middle of the base's advance too. `dirty`, `left` and `late` are
history: the paths the owner edited since the last sync, the paths a dead command wrote ahead of
the record, and the paths edited since the running command's scan began.

`CaptureElsewhere` is `checkpoint ID --path DIR` with a directory that is not the Layer's own: the head
moves and the sync record does not. `OtherTrees` are what such a directory may hold. The gate for stacked
heads reads the sync record of the Layer's own directory whatever is captured, so a stale other directory
may take stacked work back.

`DirectoryMatches` says that what nobody edited is what the record says, `EditsKept` that what a
command overwrites or reclaims is in the Layer's history or was the owner's choice,
`CaptureKeepsStacked` that a capture of the Layer's directory takes back nothing the directory lacks,
stacked work included, unless a capture of another directory brought it in, and
`RefreshConverges` that repeating an interrupted refresh finds no conflict with its own writes.

### Transfer, SignIn and Hosting

`Transfer` reduces a tree to chunks that name what is right below them. A push offers its objects
level by level, each lookup a read of its own, sends what was missing children first in frames of at
most `MaxBatch`, and publishes. A session may break anywhere (`Break`): the frame the receiver has
read stays with it and may be stored during the sender's next session (`LateStore`), and an outcome
on its way is lost. A Publish frame decided after its session broke is not kept apart: its outcome is
recorded by operation, so it is the same as one decided before. `PushBegin` expects a World the receiver
has; a made-up number is refused (`MissingVersion`) and changes nothing. A fetch resolves a version, verifies its chain of IDs, and walks from the root,
keeping every object as it arrives; it may end anywhere, and the next one starts from what is held.

`SignIn` has one action per call of the control plane that changes its state file. A call runs under
the file's lock and saves everything or nothing. Any bearer may be presented at any time. The code
issues tokens for the principal `admin` only, so a token is its device, its repository and its
expiry. A refused finish of a passkey ceremony is not saved, so the ceremony stays as it was.

`Hosting` has the control plane's records and the node directories. A create is a reservation, the
node's `provision` and `apply`, and `mark_ready`; a fork is `provision`, the node's fork, `apply` and
`mark_ready`. A call may die anywhere and be asked for again. The node's fork takes the locks of both
directories or is refused, copies versions with their objects, then each trace in up to three commits
(noted, left out or stored, marked restricted), then writes the origin. Meanwhile a node may serve,
publish and restrict. A publication takes any of `HostTrees`, so repositories have histories of their own;
a tree may name the bytes of a trace as a file's, and the fork's copy of the objects then brings them
although the trace is left out (`InTree`). The control plane has one node: the test that a retry names the
same node as the record always holds here. `workload` says which of the four parts that share no state a behaviour is
about, so that they do not multiply.

## Runs

| Run | Question | Bounds |
|---|---|---|
| `Publish` | do races of capture, discard and Publish keep every table valid and every update? | 2 Layers, 2 operations, 2 handles, 3 deltas (one path, a colliding one, a file against a directory), 2 Worlds, 1 revision |
| `Layers` | do events, attempts, radar and blame agree over a Layer's whole life with Stack, does every retry return its first reply, do direct advances with deletions and type changes fit beside it, does the repository implement `WorldLog`, and does the Publish loop end? | 1 Layer, 1 handle, 2 operations, 2 revisions, 2 Worlds, captures and a merge that change one path and keep another, 2 snapshots, one the reverse of the other, an accepted and a refused attribution, weak fairness of each running call |
| `Adoption` | can races and crashes of adopt and attach bury or lose anything outside attach's own window? | 2 processes, 2 operations, 1 file, 2 captures, 2 remote Worlds, 3 local Worlds |
| `Outbox` | does the journal keep its promises? | 2 operations, 2 handles, 3 sequence numbers, 1 failed append, 2 kills or power losses, 1 damaged record |
| `NodeLog` | does every PublishLayer and every append have one reply, across both databases and a stop between them? | 2 Layers, 2 operations, 2 revisions, a file written and taken back, so a checkpoint recurs, an accepted and a refused attribution |
| `Review` | is what lands exactly what was approved and checked, and final? | 1 request, 2 checkpoints, 4 operations, an author, a reviewer removed by the second of 2 epochs, a maintainer; comments on revision 2 only, 2 check results, a policy that may change. Once checks are required, `Bounded` keeps to revision 1, 3 commands and 2 reporters, one of whom is removed |
| `Workspace` | does a directory keep the owner's edits and the Layer's work, whatever dies between? | 2 Worlds, one with a file where the other has a directory, an ignored path below, 2 Stack results, 1 other directory, 3 heads, 1 edit, 3 ticks, 1 death |
| `Hosting` | do pushes, fetches, creates, forks and sign-ins keep their promises when calls are lost, repeated and raced? | 5 chunks that share subtrees, 2 senders racing for World 1, frames of 2, 2 sessions each, 2 fetches of 2 prefixes; 3 stores, 2 calls at a time and 3 in all, a fork by a reader and a fork of that fork, 2 versions of 2 trees, one part of the other, 1 trace, in neither tree (the theorem covers a trace that is in one); 2 device codes, 1 ceremony, a clock of 4 |
| `AdoptFinding`, `ReviewFinding`, `RefreshFinding`, `ForkFinding` | see below | |

`Workspace` and `Hosting` say `CHECK_DEADLOCK FALSE`: the edits, sessions, calls and ticks of the
instance run out, and then nothing is left to do. `TypeOK` of `Adoption`, `Outbox` and `Review`,
`NodeTypeOK` and `CaptureTypeOK` document the state; they hold on these instances and are not among the
properties the runs list.

Why the bounds suffice: the Publish properties relate at most two Layers and two Worlds (the base
and the one published against), a conflict needs two paths that are equal or nested, and a stale
recheck needs one other commit. Attribution needs three events of one Layer (set, keep, publish), and a
retry that reads too late needs one event after its own. A
lost journal record needs one fault and one loss; two losses also cover a crash during recovery.
A lost publish record needs one request, one stop and one later change: a newer epoch, another
request under the same operation, or a moved Layer. An append whose parent recurs needs two
events of one Layer. A lost edit needs one edit and one command around it; a wrong fingerprint needs
one write and two scans within the clock's lag; an interrupted refresh shows with one death and one
more Stack. A refused chunk needs a subtree that two pushes share, a frame that breaks, and one retry.
A fork that finished too early needs one death and one repeat; a token that outlives its sign-in needs
two renewals. Each property is broken under its own run's configuration by a mutation of the code it is about,
listed under `mutants`. The theorems lift the Publish results to all bounds.

Fairness appears only in `Layers`, for `PublishReturns`: weak fairness of each call's next step, meaning that a
process that is not dead keeps executing. Nothing is assumed of callers, of other processes or of
the order in which they get the lock. Operations are finite in the instance, as in any bounded
use: a call is sent back only because some other operation committed, and the run shows that it
does not loop for any other reason.

### Findings

* `AdoptFinding`: `adopt` tests for other Layers but not for other versions, so a store left by an
  unfinished adoption and then attached in place is not refused, and the adoption lands as World 2
  (`src/src/adopt.rs:82` against `src/docs/architecture.md:183` and `src/docs/cli.md:71`).
* `ReviewFinding`: the retry of a PublishRequest whose record was lost is judged again before its
  receipt is looked for. When a newer epoch removed an approver in between, the retry is refused
  and the record is never written, although the World holds the version
  (`src/crates/javelin-node/src/review.rs:192` against the comments at lines 196 and 347).
* `RefreshFinding`: a refresh that died after some of its writes leaves files of the head it was
  going to. When Stack then moves the head back to what the sync record says, the refresh takes its
  own writes for edits of the owner, and the next capture puts them into the Layer: it reverts
  stacked work although nobody edited anything (`src/src/workspace/refresh.rs:224` against
  `src/docs/cli.md:237`, "capture never reverts it", and the comment at `refresh.rs:11`).
* `ForkFinding`: a fork copies the traces of the publications node.db has recorded. When a crash lost
  the record of one, a fork taken before its retry has the version without the trace, and neither the
  retry nor a repeat of the fork brings it (`src/crates/javelin-node/src/fork.rs:230` against the comment
  at `fork.rs:169`, "Copies every trace that a publication up to `upto` named").

Two more divergences the models show and no run is kept for:

* `src/src/attach.rs:110` says of a store with history of its own "Other history is never merged". A
  Publish between `check_attach` and the read of the head (`attach.rs:132-133`) is buried by the advance.
  `AttachBuriesNothing` states the claim; as the INVARIANT of `Adoption.cfg` it fails after seven steps:
  `UserInit`, `UserCreateLayer`, `AttachOpen`, `AttachCheck`, `UserPublish`, `AttachHead`, `AttachAdvance`.
* `src/docs/cli.md:237` and `:372` say of stacked work that capture never reverts it, and the comment at
  `refresh.rs:86` that a stacked head "is captured only once the directory is synced with it". With
  `--path` the directory captured and the one whose sync record is asked for may differ
  (`refresh.rs:111`): after a refresh of the Layer's own directory, a stale other one is captured and takes
  the stacked work back (`CaptureElsewhere`). `CaptureKeepsStacked` therefore speaks of the Layer's own
  directory.

### Observations

Behaviours met while modelling that no line of the repository contradicts:

* Two attaches that race can leave `attach-<chain ID>` bound to an older expected World. The operation
  is spent, and every retry is refused until the remote moves (`src/src/attach.rs:136`).
* An edit made after refresh's scan, at a path refresh is about to write, is overwritten; `EditsKept`
  excepts it (`late`).
* A crash in `open` between the rename and the sync record, with a stacked head, leaves a directory
  that refresh refuses (no record) and capture calls behind; it must be removed by hand.
* A fork that died after it copied a trace which the source restricted afterwards lists the trace as
  left out when repeated, although its bytes are there.
* A repeated fork always calls `provision`, which waits for the lock while a node serves the target.
* A reply to `device_poll` that is lost takes the session with it: the code is redeemed once.

## Proofs

All proofs are checked by tlapm with the SMT and Zenon backends and LS4 for the temporal steps.
They assume only the named `ASSUME`s: `Ancestors` is a strict partial order on `Paths`, `Absent` is
not a content, inputs are typed, `None` is neither a key, a number nor a record, and bounds are
naturals. Paths, contents, Layers, operations, handles, stores, objects, senders, lifetimes,
processes, the remote's history and all bounds are arbitrary. A node has at least one handle
(`HandlesAssumption`). For the transfer, operation IDs are drawn by one sender each
(`JobsAssumption`); chunks are finitely many, and as an ID is a hash of what it names, no set of
chunks is all below itself (`TransferAssumption`); traces are blobs and the trees published chunks
(`HostingAssumption`).

`FileTreesProofs` has the algebra. `NormalizeCanonical`: what `normalize` returns, it returns
again. `CanonicalWellFormed`: a canonical changeset keeps files and directories apart.
`DiffCanonical`: a diff of well-formed snapshots is canonical. `ComposeCanonical`: a delta that
is canonical at its base and has no intersection with what moved since is canonical at the later
World. `ComposeKeepsMoved`: it leaves everything that moved alone. `CollisionsPredict`: the
radar's rule is exact.

`RepositoryProofs` proves `Spec => []IInv`. `IInv` is `TypeOK`, `HistoryValid`,
`CheckpointsValid`, `EventsStored` (every head event names a stored checkpoint) and `CallsSound`
(what a call in flight carries is typed and names existing records). `HistoryValid` alone is not
inductive. That a published World is canonical needs the Layer's checkpoint to be canonical at
*its* base, hence `CheckpointsValid`, and needs the call's head event to name one, hence the last
two parts. `StillCurrent` then equates the prepared World with the locked one, and
`ComposeCanonical` carries the delta over. `TypeCorrect`, `HistoryCorrect`, `CheckpointsCorrect` and
`LayersNeverWedge` follow; the last one is the statement that no accepted capture can ever make a
Layer unpublishable.

The same module proves the two action properties, `RecordsAppendOnly` and `LayersStayTerminal`, from
`IInv`, and `NoUpdateLost` with a further invariant: each successful receipt names the World it was
composed against and the one it made, and both stay as they were because the tables only grow.

It also proves what the store's own `verify` checks of its records. `LayersValid` needs
`ObjectsDistinct` (a checkpoint is stored once, so equal changesets have equal IDs) beside `IInv`.
`RetryReplays` is an action property. By `LayersValid` the token still verifies and the recorded request
is a legal one; by `CheckpointsValid` its delta is canonical and normalizes to itself, so the candidate
prepared again is the recorded checkpoint and the reply is the recorded outcome (`RetryMeaning`); the event
this reads is one the tables keep (`OutcomeKept`). `ReceiptsValid` needs `ReceiptsInv`: the token a call in flight was
prepared with still verifies, and a Layer is published by one operation. Every record a receipt names is
one the tables only append to, so `Grows` carries it over each step. `RadarExact` is about a fold over the
history of a Layer; that an index kept event by event is that fold is proved by the least revision at which
they would differ, and that a fold reads only the events up to its revision likewise. `BlameExact` rests on
it, as the rows are read just before Publish clears them, and so does `RadarPredicts`, with
`CollisionsPredict` of the algebra. `RepositoryImplementsLog` is the refinement: an initial state maps to
one of `WorldLog`, and each action to one of its actions or to a stutter.

`NodeLogProofs` composes this with the node's second database. `NodeInv` is the repository's invariants,
`RecordsAgree`, and `ServingSound`: the call and the receipt of the PublishLayer in progress are for the
very request being served, also when the receipt was committed before a crash. From it follow the two
action properties, `PublishReplays` and `AppendReplays`: a decided operation is answered the same way for
good, whichever of the two databases has it.

`OutboxProofs` proves the three properties of the journal. `PromisesKept` speaks of what a reader finds in
a file that crashes may tear and rot may damage, so `IInv` speaks of readable prefixes: `Ordered` (within
one, records are numbered in journal order and only decided ones are acknowledged), `HandlesSound` (an open
handle holds one, and the frame it appends fits behind it), `Kept` (without damage, some prefix shared by
the disk and the page cache has all promises, and the handle knows it) and `Spared` (with damage, the same
of what is neither damaged nor saved). The two last ones differ because an append past damage first moves
the tail aside.

`AdoptionProofs` proves `AttachSound` and `AdoptionBound` of `Adoption`, both action properties.
`AttachSound` needs to know what a call read in two earlier transactions. `AttachInv` says it:
`StoreFirst` (a store that does not exist holds nothing, and only commands that make one are under way),
`CheckedSound` (the head a passed check saw is World 0 or an attach World, and neither it nor the head
read after it lies beyond the history) and `AdvancedSound` (`attach.json` is written only for a head the
store holds). No World is ever replaced, so what was true at the check still is; the advance is a
compare-and-set on the second read, so it buries only what landed between the two (`WindowKept`).

`HostingProofs` proves the six invariants of the composed specification. `AccessEnds` alone is not
inductive, because a session that is set again might end earlier than the one its tokens were judged
by; `SignInInv` adds that no session lasts longer than `RefreshTTL` from now. The rest is that
`RepositoryToken` needs a live session. `PushNeverRefused` and `PushedOnce` follow from `PushInv`. Its
core, `DiscoveryOK`, says of a running push that everything found so far is stored, known to be
missing, in the frame, or still to be looked up, and that what is below a missing object is found too;
a frame's objects have what they name stored or in the frame before them. Other sessions matter only in
that stores grow, which every clause survives (`OtherSession`). `LogOK` ties each recorded attempt to
the version it made, which with `JobsAssumption` makes the answer to a repeated Publish the answer to
this very push.

`FetchComplete` is about the closure of a tree, `Reach`, which the model computes level by level.
`ReachWithin` (a closed set that has the root has everything) and `ReachClosed` (the computed set is
closed, because each level that adds anything adds a chunk and chunks are finitely many) are proved by
least counterexample, and everything else uses only these two. `FetchInv` then says that some set of
chunks lies behind the walk: it has the root, is held, and all it names is in it, pending, or among the
blobs; the walk ends with nothing pending, so this set is closed.

`ForkFaithful` and `RepositoriesAgree` follow from `HostInv`, which ties the state file, the node's
directories and the calls under way together. Neither is inductive. A fork that dies leaves a target
without an origin, so the clauses must hold of unfinished ones too: `CopyOK` (a fork that writes holds
both locks, and the target's versions are a prefix of the source's), `TracesOK` (each trace of the
source is still to come, in hand, or settled) and `StoreOK` (a store is closed at all times). What an
attempt was to copy is fixed by the first one, and the source goes on: `DueOK` says that this stays part
of what a repeat would copy, since a publication recorded late names the newest version only
(`RecordedLater`) and restrictions only grow. It also says of a trace the fork's reader may not read that its bytes are here only
when this repository published it, a tree names it, or the copy of the objects is still to bring them
(`Placed`). `RecordOK` and `CallOK` say what the node has by the time a
call reaches each of its stages, so that a record is marked ready only when it is; they hold whatever
other call for the same operation is under way, because each of their clauses is kept by every step but
the ones that hold the lock. `UntouchedOK` says that a directory no record names is new.

`ReviewProofs` proves the five properties of `Review` and its type invariant. A request is whatever its
commands replay to, so most of the work is about `Replay`: that it has a value at all, that it moves by one
`Transition` per command and reads no later one (`ReplayFacts`), and what it yields from commands that were
accepted one after the other (`Follows`, by least counterexample): the author is who sent the first, the
epoch is that of the last, and the approvals of the current revision are exactly those the rows show for
its index and checkpoint since it was submitted. `Restorable` and `PublishedIsLanded` are not inductive:
`ReviewInv` adds that a Layer is of a submitted revision at its checkpoint, that one that landed is of the
current one (`LayersOK`), that receipts and landed Layers name each other (`ReceiptsOK`), and that what is
recorded as published has landed (`RecordedOK`). The step that could break it is a command accepted after
a crash has lost the record of a publication; `SettledFacts` shows that `settled` refuses it. The action
properties `ExactApprovals`, `ExactChecks` and `LandedIsFinal` follow, because a revision lands only
through `publish_checkpoint`. The proofs assume that `None` is no principal, operation, number or key
(`NoneAssumption`) and that pushes are typed (`PushesAssumption`).

`WorkspaceProofs` proves the five properties of `Workspace`, `ScanExact` of `Capture` among them, from
`WorkspaceInv`. None is inductive.

* `FilesOK`, with `CachedOK`: a trusted cache entry has a change time older than the clock minus `Lag`, so
  no later write can carry it and a file that still does has the cached content. This is where
  `Lag <= Margin` (`CaptureAssumption`) is used. `ScanOK` carries it through the phases of a scan: what is
  known at each holds but for the paths in `late`, which the owner edited meanwhile, and no file lies
  below a path the scan found (`Clear`).
* `BaseOK` and `BuildOK`: a rolling base with a complete record is the World the record names, through
  every interrupted advance, so by `DiffCanonical` the rewound clone is exactly the checkpoint.
* `RunOK` says what each command has established by each phase. The long one is `RefreshWriteOK`: what is
  still to be written replaces only recorded entries, late edits and paths the owner chose, and what is
  neither written nor kept is already as in the head. That a hidden file is not overwritten needs
  `Occupied` and `Clear`.
* `MatchesOK`, `HeadSyncOK` and `ReadyOK` relate directory, sync record and history: an unedited path is
  as synced or was left by a dead command; what the head has and the directory lacks is Stack's work or came
  with a capture of another directory (`BroughtByCapture`); what a publication is about to trash is recorded.

`EditsKept` and `CaptureKeepsStacked` are then steps from these. `RefreshConverges` is about the planner
alone: where the directory is path by path as synced or as in the head, and the head is well formed, each of
the three sources of conflicts (`Disagreements`, `Blocked`, `Occupied`) is empty. Beside `CaptureAssumption`
and `WorkspaceAssumption` the proofs assume that `None` is no number, checkpoint or set of paths
(`NoneAssumption`).

Only model-checked: liveness (`PublishReturns`), which is outside what the installed provers handle, as is
`ENABLED`. Every safety property of a passing run is stated by a theorem.

## Not modelled

* Hashing, byte encodings and the wire codec (IDs stand for contents), signatures and the verification
  of passkey responses (a response verifies or its call changes nothing).
* Directory walking, ignore patterns, file copying and cloning, names a volume folds together; trash
  and staging directories, whose names are unique and never read again.
* HTTP routing, cookies and the node server's framing; the client of the Durable Object log, whose
  decisions are `NodeLog`'s; tokens' scopes at the node.
* diff3: its result is an input of Stack.
* The Layer names reserved for reviews, which an append refuses, and payload sizes in the outbox.
* Command-line parsing and reports, benchmarks and packaging.

Journal creation (`create_journal`) is represented by its result.

## Plan

1. Recursive algorithms, checked against `FileTrees`: chunked `diff` and `intersections`, diff3.
2. The codec's framing and limits; the node server's sessions composed with `Transfer`.
3. Lemmas for these algorithms, as far as they can be written without recursive operators.
