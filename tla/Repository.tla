----------------------------- MODULE Repository -----------------------------
(***************************************************************************)
(* The repository database of one Javelin store: the World history, the    *)
(* Layers and their head events, durable operation outcomes, Publish with  *)
(* its optimistic preparation, the collision radar index and trace blame   *)
(* (src/src/repository.rs, layer.rs, stack.rs, publish.rs, radar.rs,       *)
(* blame.rs).                                                              *)
(*                                                                         *)
(* Every mutation is one SQLite transaction, so it is one action: a crash  *)
(* before the commit leaves nothing, a crash after it loses only the       *)
(* reply.  Any handle may retry any operation at any time, which is how a  *)
(* caller whose reply was lost behaves.  Publish is the exception: it      *)
(* prepares in a read snapshot without the write lock and commits later,   *)
(* so a call in flight is state of its own.                                *)
(***************************************************************************)
EXTENDS FileTrees, Integers, Sequences, FiniteSets

CONSTANTS
    Layers,       \* Layer IDs
    Operations,   \* operation IDs
    Handles,      \* open Repository handles: processes or threads
    Provenances,  \* what a handle declares about who captures
    Attributions, \* what Publish callers declare: a subset of five kinds
    Resolutions,  \* stored resolutions a Stack may name
    InputTrees,   \* candidate snapshots of compare_and_advance
    InputChanges, \* deltas callers capture
    StackChanges, \* merged deltas callers stack
    MaxVersion,   \* largest World number, i64::MAX in the code
    MaxRevision,  \* largest Layer revision, i64::MAX in the code
    None          \* SQL NULL

ASSUME InputsAssumption ==
    /\ InputTrees \subseteq {t \in Tree : WellFormed(t)}
    /\ InputChanges \subseteq Changes
    /\ StackChanges \subseteq Changes
    /\ Attributions \subseteq
          {"human", "traced", "untraced_allowed", "untraced", "traced_allowed"}

ASSUME NoneAssumption == None \notin Layers \cup Operations \cup Tree \cup Nat

ASSUME BoundsAssumption == MaxVersion \in Nat /\ MaxRevision \in Nat

VARIABLES
    versions,       \* World n is versions[n + 1]
    attempts,       \* World attempts by operation
    objects,        \* checkpoints, numbered in the order they were stored
    heads,          \* head events by Layer; revision r is heads[l][r + 1]
    layerAttempts,  \* capture, discard and Stack attempts by operation
    publications,   \* Publish receipts by operation
    layerPaths,     \* the radar index: each live Layer's changed paths
    blame,          \* per World, the checkpoint attributed to each path
    calls           \* Publish calls in flight, by handle

vars == <<versions, attempts, objects, heads, layerAttempts, publications,
          layerPaths, blame, calls>>

-----------------------------------------------------------------------------
(* Rows.                                                                   *)

VersionRow == [tree : Tree, changes : Changes, operation : Operations \cup {None}]

AttemptRow == [expected : Nat, tree : Tree \cup {None}, accepted : BOOLEAN,
               result : Nat]

Checkpoint == [base : Nat, changes : Changes, sources : SUBSET Nat,
               provenance : Provenances \cup {None}]

Event == [checkpoint : Nat, discarded : BOOLEAN, operation : Operations \cup {None}]

LayerAttemptRow == [layer : Layers, expected : Nat, checkpoint : Nat,
                    discard : BOOLEAN, accepted : BOOLEAN, result : Nat,
                    source : Nat \cup {None},
                    resolution : Resolutions \cup {None}]

LayerState == [status : {"active", "discarded", "published"}, revision : Nat,
               operation : Operations \cup {None}]

PublicationRow == [layer : Layers, expected : Nat, attribution : Attributions,
                   against : Nat, observed : LayerState,
                   outcome : {"published", "conflict", "stale"},
                   result : Nat, paths : SUBSET Paths]

PathRow == [entry : Entries, checkpoint : Nat]

BlameRow == [Paths -> Nat \cup {None}]

Request == [operation : Operations, layer : Layers, expected : Nat,
            attribution : Attributions]

Call == [request : Request, phase : {"prepared", "moved"}, against : Nat,
         actual : LayerState]

\* Inserting a row under a primary key.
Put(table, key, row) ==
    [k \in DOMAIN table \cup {key} |-> IF k = key THEN row ELSE table[k]]

Remove(table, key) == [k \in DOMAIN table \ {key} |-> table[k]]

-----------------------------------------------------------------------------
(* Reading the tables.                                                     *)

WorldHead == Len(versions) - 1

TreeOf(n) == versions[n + 1].tree

EventAt(l, r) == heads[l][r + 1]

Latest(l) == Len(heads[l]) - 1

CheckpointAt(l, r) == objects[EventAt(l, r).checkpoint]

\* verify_head: the token names an event of the Layer that is not a discard.
VerifyHead(l, r) == r + 1 \in DOMAIN heads[l] /\ ~EventAt(l, r).discarded

\* The successful publication of a Layer, at most one by a unique index.
PublishedBy(l) == {op \in DOMAIN publications :
                     /\ publications[op].layer = l
                     /\ publications[op].outcome = "published"}

EventState(l, r) ==
    [status |-> IF EventAt(l, r).discarded THEN "discarded" ELSE "active",
     revision |-> r, operation |-> None]

SuccessState(op) ==
    [status |-> "published", revision |-> publications[op].expected,
     operation |-> op]

\* layer_state_in: the terminal publication hides the latest head event.
StateOf(l) ==
    IF PublishedBy(l) # {} THEN SuccessState(CHOOSE op \in PublishedBy(l) : TRUE)
    ELSE EventState(l, Latest(l))

\* Mutants of RefusePublished: a retry is refused like a new operation; a
\* published Layer accepts captures.
RefusePublishedRetries(op, l) == PublishedBy(l) # {}
RefusePublishedNever(op, l) == FALSE

\* refuse_published_in: a recorded attempt keeps its outcome even when the
\* Layer was published since.
RefusePublished(op, l) == op \notin DOMAIN layerAttempts /\ PublishedBy(l) # {}

\* insert_object: content addressing gives equal checkpoints one ID.
IdOf(cp) == IF \E i \in DOMAIN objects : objects[i] = cp
            THEN CHOOSE i \in DOMAIN objects : objects[i] = cp
            ELSE Len(objects) + 1

Insert(cp) == IF \E i \in DOMAIN objects : objects[i] = cp
              THEN objects
              ELSE Append(objects, cp)

\* Mutant of PrepareCheckpoint: no-op entries are kept.
PrepareCheckpointVerbatim(base, ch, sources, provenance) ==
    [base |-> base, changes |-> ch, sources |-> sources, provenance |-> provenance]

\* prepare_checkpoint: the delta is normalized against the exact base World.
PrepareCheckpoint(base, ch, sources, provenance) ==
    [base |-> base, changes |-> Normalize(TreeOf(base), ch),
     sources |-> sources, provenance |-> provenance]

-----------------------------------------------------------------------------
(* The radar index.                                                        *)

\* Mutant of Track: every row is attributed to the new head.
TrackAnew(rows, ch, id) ==
    [p \in DOMAIN ch |-> [entry |-> ch[p], checkpoint |-> id]]

\* One Layer's rows moved to a new head: a changed entry is attributed to
\* the new checkpoint, an unchanged one keeps the checkpoint that set it.
Track(rows, ch, id) ==
    [p \in DOMAIN ch |->
        IF p \in DOMAIN rows /\ rows[p].entry = ch[p]
        THEN rows[p]
        ELSE [entry |-> ch[p], checkpoint |-> id]]

Untracked == [p \in {} |-> Absent]

-----------------------------------------------------------------------------
(* Creating Layers.                                                        *)

CreateIn(l, cp) ==
    /\ heads[l] = <<>>
    /\ heads' = [heads EXCEPT ![l] =
          <<[checkpoint |-> IdOf(cp), discarded |-> FALSE, operation |-> None]>>]
    /\ objects' = Insert(cp)
    /\ layerPaths' = [layerPaths EXCEPT ![l] = Track(@, cp.changes, IdOf(cp))]
    /\ UNCHANGED <<versions, attempts, layerAttempts, publications, blame, calls>>

\* create_layer: an empty Layer on an exact World.
CreateLayer(l, base) ==
    /\ base \in 0..WorldHead
    /\ CreateIn(l, PrepareCheckpoint(base, NoChanges, {}, None))

\* clone_layer: a Layer whose first head is an existing frozen checkpoint.
CloneLayer(l, id) ==
    /\ id \in DOMAIN objects
    /\ CreateIn(l, objects[id])

-----------------------------------------------------------------------------
(* Capture, discard and Stack: compare-and-set on the Layer head.          *)

\* update_in with a new operation ID.  A stale expectation is a durable
\* outcome too; only an accepted one moves the head and the radar index.
UpdateIn(op, l, r, cp, discard, source, resolution) ==
    LET accepted == Latest(l) = r /\ ~EventAt(l, Latest(l)).discarded
        result == IF accepted THEN r + 1 ELSE Latest(l)
    IN  /\ VerifyHead(l, r)
        /\ ~RefusePublished(op, l)
        /\ op \notin DOMAIN layerAttempts
        /\ accepted => r < MaxRevision
        /\ objects' = Insert(cp)
        /\ layerAttempts' = Put(layerAttempts, op,
              [layer |-> l, expected |-> r, checkpoint |-> IdOf(cp),
               discard |-> discard, accepted |-> accepted, result |-> result,
               source |-> source, resolution |-> resolution])
        /\ heads' = IF accepted
                    THEN [heads EXCEPT ![l] = Append(@,
                            [checkpoint |-> IdOf(cp), discarded |-> discard,
                             operation |-> op])]
                    ELSE heads
        /\ layerPaths' =
              IF accepted
              THEN [layerPaths EXCEPT ![l] =
                      IF discard THEN Untracked ELSE Track(@, cp.changes, IdOf(cp))]
              ELSE layerPaths
        /\ UNCHANGED <<versions, attempts, publications, blame, calls>>

\* Mutant of CaptureLayer: the capture forgets the Stack ancestry.
CaptureLayerUnrooted(op, l, r, ch, provenance) ==
    /\ VerifyHead(l, r)
    /\ LET before == CheckpointAt(l, r)
       IN  /\ Normalizes(TreeOf(before.base), ch)
           /\ UpdateIn(op, l, r, PrepareCheckpoint(before.base, ch, {}, provenance),
                       FALSE, None, None)

\* capture_layer: base and Stack ancestry of the expected head are kept.
CaptureLayer(op, l, r, ch, provenance) ==
    /\ VerifyHead(l, r)
    /\ LET before == CheckpointAt(l, r)
       IN  /\ Normalizes(TreeOf(before.base), ch)
           /\ UpdateIn(op, l, r,
                 PrepareCheckpoint(before.base, ch, before.sources, provenance),
                 FALSE, None, None)

\* discard_layer: a terminal event on the same checkpoint.
DiscardLayer(op, l, r) ==
    /\ VerifyHead(l, r)
    /\ UpdateIn(op, l, r, CheckpointAt(l, r), TRUE, None, None)

\* commit_stack_resolved: a merged delta, with the frozen source checkpoint
\* added to the ancestry.
CommitStack(op, l, r, source, ch, resolution, provenance) ==
    /\ VerifyHead(l, r)
    /\ source \in DOMAIN objects
    /\ LET before == CheckpointAt(l, r)
       IN  /\ Normalizes(TreeOf(before.base), ch)
           /\ UpdateIn(op, l, r,
                 PrepareCheckpoint(before.base, ch, before.sources \cup {source},
                                   provenance),
                 FALSE, source, resolution)

\* attempt_outcome_in, what it demands: the recorded attempt agrees with the
\* events and the checkpoints it names.
LayerAttemptValid(op) ==
    LET row == layerAttempts[op]
        before == EventAt(row.layer, row.expected)
        after == EventAt(row.layer, row.result)
    IN  /\ VerifyHead(row.layer, row.expected)
        /\ row.result <= Latest(row.layer)
        /\ row.checkpoint \in DOMAIN objects
        /\ objects[before.checkpoint].base = objects[row.checkpoint].base
        /\ row.discard => row.checkpoint = before.checkpoint
        /\ objects[row.checkpoint].sources =
              objects[before.checkpoint].sources
                \cup (IF row.source = None THEN {} ELSE {row.source})
        /\ IF row.accepted
           THEN /\ row.result = row.expected + 1
                /\ after = [checkpoint |-> row.checkpoint,
                            discarded |-> row.discard, operation |-> op]
           ELSE row.result > row.expected

\* Mutants of AttemptOutcome: the Layer's state now is returned instead of
\* the event the attempt recorded; its latest event is.
AttemptOutcomeNow(op) ==
    IF LayerAttemptValid(op)
    THEN [reply |-> IF layerAttempts[op].accepted THEN "applied" ELSE "stale",
          state |-> StateOf(layerAttempts[op].layer)]
    ELSE [reply |-> "corrupt"]
AttemptOutcomeLatest(op) ==
    IF LayerAttemptValid(op)
    THEN LET row == layerAttempts[op]
         IN  [reply |-> IF row.accepted THEN "applied" ELSE "stale",
              state |-> EventState(row.layer, Latest(row.layer))]
    ELSE [reply |-> "corrupt"]

\* attempt_outcome_in, what it returns: the LayerUpdate with the state of the
\* event the attempt recorded as its result.
AttemptOutcome(op) ==
    IF LayerAttemptValid(op)
    THEN LET row == layerAttempts[op]
         IN  [reply |-> IF row.accepted THEN "applied" ELSE "stale",
              state |-> EventState(row.layer, row.result)]
    ELSE [reply |-> "corrupt"]

\* The candidate a repeated call prepares: the expected head again for a
\* discard, else the sent delta against the expected head's base, with the
\* ancestry of that head and the Stack source.
Candidate(l, r, ch, discard, source, provenance) ==
    LET before == CheckpointAt(l, r)
    IN  IF discard THEN before
        ELSE PrepareCheckpoint(before.base, ch,
                before.sources \cup (IF source = None THEN {} ELSE {source}),
                provenance)

\* What a capture, discard or Stack call with a recorded operation returns:
\* the checks before the transaction's lookup, the candidate prepared again,
\* the comparison with the recorded request, the recorded outcome.  Contents
\* address checkpoints, so equal candidates are equal IDs.
UpdateReply(op, l, r, ch, discard, source, resolution, provenance) ==
    LET row == layerAttempts[op]
        candidate == Candidate(l, r, ch, discard, source, provenance)
    IN  IF ~VerifyHead(l, r) THEN [reply |-> "missing"]
        ELSE IF RefusePublished(op, l) THEN [reply |-> "published"]
        ELSE IF \/ row.layer # l \/ row.expected # r \/ row.discard # discard
                \/ row.source # source \/ row.resolution # resolution
                \/ objects[row.checkpoint] # candidate
             THEN [reply |-> "reused"]
        ELSE AttemptOutcome(op)

\* The reply to the recorded call made again with the same request.
Retry(op) ==
    LET row == layerAttempts[op]
        sent == objects[row.checkpoint]
    IN  UpdateReply(op, row.layer, row.expected, sent.changes, row.discard, row.source,
                    row.resolution, sent.provenance)

\* A retry of a recorded capture, discard or Stack returns its outcome and
\* changes nothing.
ReplayUpdate(op) ==
    /\ op \in DOMAIN layerAttempts
    /\ Retry(op).reply \in {"applied", "stale"}
    /\ UNCHANGED vars

-----------------------------------------------------------------------------
(* Advancing the World directly.                                           *)

\* Mutant of AppendVersion: the blame rows are left out.
AppendVersionUnblamed(op, ch, tree, attributed) ==
    /\ versions' = Append(versions, [tree |-> tree, changes |-> ch, operation |-> op])
    /\ UNCHANGED blame

\* A World without blame rows.
Unblamed == [p \in Paths |-> None]

\* append_version_in: blame rows exist only for published versions.
AppendVersion(op, ch, tree, attributed) ==
    /\ versions' = Append(versions, [tree |-> tree, changes |-> ch, operation |-> op])
    /\ blame' = Append(blame, attributed)

\* Mutant of AdvanceResult: a stale attempt records what it expected.
AdvanceResultStale(expected, accepted) ==
    IF accepted THEN WorldHead + 1 ELSE expected

\* The World an attempt ended on: its own, or the one that made it stale.
AdvanceResult(expected, accepted) ==
    IF accepted THEN WorldHead + 1 ELSE WorldHead

\* compare_and_advance and advance_to_tree.
CompareAndAdvance(op, expected, tree) ==
    LET accepted == expected = WorldHead
    IN  /\ op \notin DOMAIN publications
        /\ op \notin DOMAIN attempts
        /\ expected \in 0..WorldHead
        /\ accepted => WorldHead < MaxVersion
        /\ attempts' = Put(attempts, op,
              [expected |-> expected, tree |-> tree, accepted |-> accepted,
               result |-> AdvanceResult(expected, accepted)])
        /\ IF accepted
           THEN AppendVersion(op, Diff(TreeOf(WorldHead), tree), tree, Unblamed)
           ELSE UNCHANGED <<versions, blame>>
        /\ UNCHANGED <<objects, heads, layerAttempts, publications, layerPaths, calls>>

\* A retry with the same expected World and candidate.
ReplayAdvance(op) ==
    /\ op \in DOMAIN attempts
    /\ op \notin DOMAIN publications
    /\ UNCHANGED vars

-----------------------------------------------------------------------------
(* Publish: prepare in a snapshot, recheck and commit under the write lock. *)

\* An agent must name its trace or override its absence, never both.
AcceptedAttribution(a) == a \in {"human", "traced", "untraced_allowed"}

\* The plan was made for the exact latest Active head.
Exact(request, actual) ==
    actual = [status |-> "active", revision |-> request.expected, operation |-> None]

\* compose_in: the paths on which the Layer's delta intersects what the World
\* changed since the Layer's base.
ComposeConflicts(request, against) ==
    LET cp == CheckpointAt(request.layer, request.expected)
    IN  Intersections(TreeOf(cp.base), TreeOf(against), cp.changes)

\* Mutant of ComposeTree: the Layer's own snapshot replaces the World.
ComposeTreeSnapshot(request, against) ==
    LET cp == CheckpointAt(request.layer, request.expected)
    IN  Apply(TreeOf(cp.base), cp.changes)

\* compose_in: the tree of the candidate World.
ComposeTree(request, against) ==
    Apply(TreeOf(against), CheckpointAt(request.layer, request.expected).changes)

\* compose_in returns a candidate or a conflict, not an error.
Composes(request, against) ==
    LET cp == CheckpointAt(request.layer, request.expected)
    IN  /\ cp.base <= against
        /\ \/ ComposeConflicts(request, against) # {}
           \/ Applies(TreeOf(against), cp.changes)

\* prepare_in decides to go on: the operation is new, the token valid, the
\* attribution complete, and an exact head composes.
Admissible(request) ==
    /\ request.operation \notin DOMAIN publications
    /\ request.operation \notin DOMAIN attempts
    /\ VerifyHead(request.layer, request.expected)
    /\ AcceptedAttribution(request.attribution)
    /\ Exact(request, StateOf(request.layer)) => Composes(request, WorldHead)

Prepare(h, request) ==
    calls' = Put(calls, h,
        [request |-> request, phase |-> "prepared", against |-> WorldHead,
         actual |-> StateOf(request.layer)])

PublishLayer(h, request) ==
    /\ h \notin DOMAIN calls
    /\ Admissible(request)
    /\ Prepare(h, request)
    /\ UNCHANGED <<versions, attempts, objects, heads, layerAttempts,
                   publications, layerPaths, blame>>

\* A retry of a recorded Publish returns its receipt from the snapshot.
ReplayPublish(op) ==
    /\ op \in DOMAIN publications
    /\ UNCHANGED vars

\* Mutants of StillCurrent: one recheck is dropped.
StillCurrentAnyLayer(call) ==
    /\ call.request.operation \notin DOMAIN publications
    /\ call.request.operation \notin DOMAIN attempts
    /\ call.against = WorldHead
StillCurrentAnyAdvance(call) ==
    /\ call.request.operation \notin DOMAIN publications
    /\ call.against = WorldHead
    /\ call.actual = StateOf(call.request.layer)
StillCurrentAnyOperation(call) ==
    /\ call.against = WorldHead
    /\ call.actual = StateOf(call.request.layer)

\* What the short write transaction rechecks.
StillCurrent(call) ==
    /\ call.request.operation \notin DOMAIN publications
    /\ call.request.operation \notin DOMAIN attempts
    /\ call.against = WorldHead
    /\ call.actual = StateOf(call.request.layer)

\* A moved World or Layer sends the call back to prepare again.
PublishMoved(h) ==
    /\ h \in DOMAIN calls
    /\ calls[h].phase = "prepared"
    /\ ~StillCurrent(calls[h])
    /\ calls' = [calls EXCEPT ![h].phase = "moved"]
    /\ UNCHANGED <<versions, attempts, objects, heads, layerAttempts,
                   publications, layerPaths, blame>>

\* Mutant of PublishPrepareAgain: the old plan is tried again.
PublishTryAgain(h) ==
    /\ h \in DOMAIN calls
    /\ calls[h].phase = "moved"
    /\ Admissible(calls[h].request)
    /\ calls' = [calls EXCEPT ![h].phase = "prepared"]
    /\ UNCHANGED <<versions, attempts, objects, heads, layerAttempts,
                   publications, layerPaths, blame>>

\* The call prepares from a new snapshot.
PublishPrepareAgain(h) ==
    /\ h \in DOMAIN calls
    /\ calls[h].phase = "moved"
    /\ Admissible(calls[h].request)
    /\ Prepare(h, calls[h].request)
    /\ UNCHANGED <<versions, attempts, objects, heads, layerAttempts,
                   publications, layerPaths, blame>>

\* Preparing again found the operation decided: its receipt, or an error, is
\* returned.
PublishReturn(h) ==
    /\ h \in DOMAIN calls
    /\ calls[h].phase = "moved"
    /\ ~Admissible(calls[h].request)
    /\ calls' = Remove(calls, h)
    /\ UNCHANGED <<versions, attempts, objects, heads, layerAttempts,
                   publications, layerPaths, blame>>

\* The receipt row of a committed Publish.
Receipt(call, outcome, result, paths) ==
    [layer |-> call.request.layer, expected |-> call.request.expected,
     attribution |-> call.request.attribution, against |-> call.against,
     observed |-> call.actual, outcome |-> outcome, result |-> result,
     paths |-> paths]

CommitReceipt(h, outcome, result, paths) ==
    /\ publications' = Put(publications, calls[h].request.operation,
                           Receipt(calls[h], outcome, result, paths))
    /\ calls' = Remove(calls, h)

\* The Layer moved before it was prepared: a durable stale outcome.
PublishStale(h) ==
    /\ h \in DOMAIN calls
    /\ calls[h].phase = "prepared"
    /\ StillCurrent(calls[h])
    /\ ~Exact(calls[h].request, calls[h].actual)
    /\ CommitReceipt(h, "stale", 0, {})
    /\ UNCHANGED <<versions, attempts, objects, heads, layerAttempts,
                   layerPaths, blame>>

\* The World changed a path of the Layer since its base: a durable conflict.
PublishConflict(h) ==
    LET paths == ComposeConflicts(calls[h].request, calls[h].against)
    IN  /\ h \in DOMAIN calls
        /\ calls[h].phase = "prepared"
        /\ StillCurrent(calls[h])
        /\ Exact(calls[h].request, calls[h].actual)
        /\ paths # {}
        /\ CommitReceipt(h, "conflict", 0, paths)
        /\ UNCHANGED <<versions, attempts, objects, heads, layerAttempts,
                       layerPaths, blame>>

\* Mutant of Attributed: the published head gets the blame for every path.
AttributedToHead(l, ch) ==
    [p \in Paths |-> IF p \in DOMAIN ch THEN EventAt(l, Latest(l)).checkpoint ELSE None]

\* blame::record_in: the radar's attribution of each published path.
Attributed(l, ch) ==
    [p \in Paths |-> IF p \in DOMAIN ch THEN layerPaths[l][p].checkpoint ELSE None]

\* The guard accepted: attempt, version, blame, radar and receipt commit
\* together.
PublishAdvance(h) ==
    LET request == calls[h].request
        against == calls[h].against
        changes == CheckpointAt(request.layer, request.expected).changes
    IN  /\ h \in DOMAIN calls
        /\ calls[h].phase = "prepared"
        /\ StillCurrent(calls[h])
        /\ Exact(request, calls[h].actual)
        /\ ComposeConflicts(request, against) = {}
        /\ against < MaxVersion
        /\ DOMAIN changes \subseteq DOMAIN layerPaths[request.layer]
        /\ attempts' = Put(attempts, request.operation,
              [expected |-> against, tree |-> None, accepted |-> TRUE,
               result |-> against + 1])
        /\ AppendVersion(request.operation, changes,
                         ComposeTree(request, against),
                         Attributed(request.layer, changes))
        /\ layerPaths' = [layerPaths EXCEPT ![request.layer] = Untracked]
        /\ CommitReceipt(h, "published", against + 1, {})
        /\ UNCHANGED <<objects, heads, layerAttempts>>

\* The guard refused the candidate, or its World number would overflow.
\* Refusal reserves no operation.
PublishRefused(h) ==
    /\ h \in DOMAIN calls
    /\ calls[h].phase = "prepared"
    /\ StillCurrent(calls[h])
    /\ Exact(calls[h].request, calls[h].actual)
    /\ ComposeConflicts(calls[h].request, calls[h].against) = {}
    /\ calls' = Remove(calls, h)
    /\ UNCHANGED <<versions, attempts, objects, heads, layerAttempts,
                   publications, layerPaths, blame>>

\* The process died, or the write lock timed out, before the commit.
PublishAbandon(h) ==
    /\ h \in DOMAIN calls
    /\ calls' = Remove(calls, h)
    /\ UNCHANGED <<versions, attempts, objects, heads, layerAttempts,
                   publications, layerPaths, blame>>

-----------------------------------------------------------------------------
Init ==
    /\ versions = <<[tree |-> EmptyTree, changes |-> NoChanges, operation |-> None]>>
    /\ blame = <<Unblamed>>
    /\ attempts = [op \in {} |-> None]
    /\ objects = <<>>
    /\ heads = [l \in Layers |-> <<>>]
    /\ layerAttempts = [op \in {} |-> None]
    /\ publications = [op \in {} |-> None]
    /\ layerPaths = [l \in Layers |-> Untracked]
    /\ calls = [h \in {} |-> None]

LayerNext ==
    \E l \in Layers :
       \/ \E base \in 0..WorldHead : CreateLayer(l, base)
       \/ \E id \in DOMAIN objects : CloneLayer(l, id)
       \/ \E op \in Operations, r \in 0..Latest(l) :
             \/ \E ch \in InputChanges, pv \in Provenances \cup {None} :
                   CaptureLayer(op, l, r, ch, pv)
             \/ \E ch \in StackChanges, pv \in Provenances \cup {None},
                   source \in DOMAIN objects, res \in Resolutions \cup {None} :
                   CommitStack(op, l, r, source, ch, res, pv)
             \/ DiscardLayer(op, l, r)

WorldNext ==
    \E op \in Operations :
       \/ \E n \in 0..WorldHead, t \in InputTrees : CompareAndAdvance(op, n, t)
       \/ ReplayUpdate(op)
       \/ ReplayAdvance(op)
       \/ ReplayPublish(op)

PublishStep(h) ==
    \/ PublishMoved(h)
    \/ PublishPrepareAgain(h)
    \/ PublishReturn(h)
    \/ PublishStale(h)
    \/ PublishConflict(h)
    \/ PublishAdvance(h)
    \/ PublishRefused(h)

PublishNext ==
    \E h \in Handles :
       \/ \E request \in [operation : Operations, layer : Layers,
                          expected : 0..MaxRevision, attribution : Attributions] :
             PublishLayer(h, request)
       \/ PublishStep(h)
       \/ PublishAbandon(h)

Next == LayerNext \/ WorldNext \/ PublishNext

Spec == Init /\ [][Next]_vars

\* A process that is running keeps running: every Publish call in flight
\* takes its next step.  Nothing is assumed of callers or of crashes.
FairSpec == Spec /\ \A h \in Handles : WF_vars(PublishStep(h))

-----------------------------------------------------------------------------
(* Type correctness.                                                       *)

IsTable(table, keys, rows) ==
    DOMAIN table \subseteq keys /\ table \in [DOMAIN table -> rows]

\* Every table holds rows of its schema (the CREATE TABLE statements).
TypeOK ==
    /\ versions \in Seq(VersionRow)
    /\ IsTable(attempts, Operations, AttemptRow)
    /\ objects \in Seq(Checkpoint)
    /\ heads \in [Layers -> Seq(Event)]
    /\ IsTable(layerAttempts, Operations, LayerAttemptRow)
    /\ IsTable(publications, Operations, PublicationRow)
    /\ DOMAIN layerPaths = Layers
    /\ \A l \in Layers : IsTable(layerPaths[l], Paths, PathRow)
    /\ blame \in Seq(BlameRow) /\ Len(blame) = Len(versions)
    /\ IsTable(calls, Handles, Call)

-----------------------------------------------------------------------------
(* What `check` demands of a repository: it accepts every reachable state. *)

VersionValid(n) ==
    LET world == versions[n + 1]
    IN  /\ WellFormed(world.tree)
        /\ Canonical(TreeOf(n - 1), world.changes)
        /\ world.tree = Apply(TreeOf(n - 1), world.changes)
        /\ world.operation \in DOMAIN attempts
        /\ LET attempt == attempts[world.operation]
           IN  /\ attempt.accepted
               /\ attempt.result = n
               /\ attempt.expected = n - 1
               /\ attempt.tree \in {None, world.tree}

\* history_in: every World is its parent plus a changeset that `normalize`
\* returns unchanged, keeps files and directories apart, and was produced
\* by the operation whose accepted attempt names it.
HistoryValid ==
    /\ versions[1] = [tree |-> EmptyTree, changes |-> NoChanges, operation |-> None]
    /\ \A n \in 1..WorldHead : VersionValid(n)

AttemptValid(op) ==
    LET attempt == attempts[op]
    IN  /\ attempt.result \in 0..WorldHead
        /\ IF attempt.accepted
           THEN attempt.result = attempt.expected + 1
                  /\ versions[attempt.result + 1].operation = op
           ELSE attempt.result > attempt.expected
        /\ attempt.tree = None => op \in DOMAIN publications

\* Attempt::outcome: the recorded outcome of a World attempt can be read
\* back, and an attempt without a candidate tree is a publication.
AttemptsValid == \A op \in DOMAIN attempts : AttemptValid(op)

\* check_events.
EventValid(l, r) ==
    /\ EventAt(l, r).checkpoint \in DOMAIN objects
    /\ CheckpointAt(l, r).base = CheckpointAt(l, 0).base
    /\ r = 0 => EventAt(l, r).operation = None /\ ~EventAt(l, r).discarded
    /\ r > 0 =>
          /\ ~EventAt(l, r - 1).discarded
          /\ EventAt(l, r).operation \in DOMAIN layerAttempts
          /\ LET row == layerAttempts[EventAt(l, r).operation]
             IN  row.accepted /\ row.layer = l /\ row.result = r

\* check_layers: the outcome of every Layer attempt can be read back from the
\* events it names and kept the Stack ancestry; one Layer keeps one base, its
\* discard is last, and each later event belongs to the attempt that made it.
LayersValid ==
    /\ \A op \in DOMAIN layerAttempts : LayerAttemptValid(op)
    /\ \A l \in Layers : \A r \in 0..Latest(l) : EventValid(l, r)

CheckpointValid(id) ==
    /\ objects[id].base \in 0..WorldHead
    /\ Canonical(TreeOf(objects[id].base), objects[id].changes)
    /\ objects[id].sources \subseteq 1..(id - 1)

\* checkpoint_node: every stored checkpoint is canonical against its exact
\* base World, and its Stack ancestry has no cycle.
CheckpointsValid == \A id \in DOMAIN objects : CheckpointValid(id)

\* receipt_in: a stored receipt is still justified by the records it names,
\* whatever was captured, published or advanced since.
ReceiptValid(op) ==
    LET row == publications[op]
        request == [operation |-> op, layer |-> row.layer, expected |-> row.expected,
                    attribution |-> row.attribution]
        exact == Exact(request, row.observed)
    IN  /\ VerifyHead(row.layer, row.expected)
        /\ row.observed.revision \in row.expected..Latest(row.layer)
        /\ row.against \in 0..WorldHead
        /\ CheckpointAt(row.layer, row.expected).base <= row.against
        /\ IF row.observed.status = "published"
           THEN /\ row.observed.operation \in PublishedBy(row.layer) \ {op}
                /\ publications[row.observed.operation].result <= row.against
                /\ row.observed = SuccessState(row.observed.operation)
           ELSE row.observed = EventState(row.layer, row.observed.revision)
        /\ \A other \in PublishedBy(row.layer) :
              publications[other].result <= row.against =>
                 row.observed.operation = other
        /\ CASE row.outcome = "published" ->
                   /\ exact
                   /\ row.result = row.against + 1
                   /\ row.result <= WorldHead
                   /\ Latest(row.layer) = row.expected
                   /\ ComposeConflicts(request, row.against) = {}
                   /\ op \in DOMAIN attempts
                   /\ versions[row.result + 1] =
                        [tree |-> ComposeTree(request, row.against),
                         changes |-> CheckpointAt(row.layer, row.expected).changes,
                         operation |-> op]
             [] row.outcome = "conflict" ->
                   /\ exact
                   /\ op \notin DOMAIN attempts
                   /\ row.paths = ComposeConflicts(request, row.against)
                   /\ row.paths # {}
             [] row.outcome = "stale" -> ~exact /\ op \notin DOMAIN attempts

\* check_publications: every receipt is valid and no Layer is published twice.
ReceiptsValid ==
    /\ \A op \in DOMAIN publications : ReceiptValid(op)
    /\ \A l \in Layers : Cardinality(PublishedBy(l)) <= 1

\* attribution_in: each changed path of a head with the checkpoint that last
\* set its entry, folded from the Layer's head events.
Attribution(events, stored, r) ==
    LET fold[i \in 0..r] ==
          LET changes == stored[events[i + 1].checkpoint].changes
              before == IF i = 0 THEN Untracked ELSE fold[i - 1]
          IN  [p \in DOMAIN changes |->
                 IF p \in DOMAIN before /\ before[p].entry = changes[p]
                 THEN before[p]
                 ELSE [entry |-> changes[p], checkpoint |-> events[i + 1].checkpoint]]
    IN  fold[r]

AttributionOf(l, r) == Attribution(heads[l], objects, r)

RadarOf(l) ==
    IF heads[l] # <<>> /\ StateOf(l).status = "active"
    THEN AttributionOf(l, Latest(l))
    ELSE Untracked

\* check_radar: the incrementally kept index equals the one rebuilt from the
\* history of every live Layer, and holds nothing of a Layer that ended.
RadarExact == \A l \in Layers : layerPaths[l] = RadarOf(l)

BlameOf(n) ==
    LET op == versions[n + 1].operation
    IN  IF op \in DOMAIN publications
        THEN LET row == publications[op]
                 attribution == AttributionOf(row.layer, row.expected)
             IN  [p \in Paths |-> IF p \in DOMAIN versions[n + 1].changes
                                  THEN attribution[p].checkpoint ELSE None]
        ELSE Unblamed

\* check_blame: each published World's blame is what its Layer's history
\* attributes, path by path; a direct advance has none.
BlameExact == \A n \in 0..WorldHead : blame[n + 1] = BlameOf(n)

-----------------------------------------------------------------------------
(* What callers rely on.                                                   *)

\* A Publish never overwrites what landed in the World after its Layer's
\* base: a path that moved since then keeps its World entry.
NoLostUpdate ==
    \A op \in DOMAIN publications :
       publications[op].outcome = "published" =>
          LET row == publications[op]
              base == CheckpointAt(row.layer, row.expected).base
          IN  \A p \in Moved(TreeOf(base), TreeOf(row.against)) :
                 TreeOf(row.result)[p] = TreeOf(row.against)[p]

\* An Active Layer can always be decided: composing its head with the
\* current World yields a candidate or a conflict, never an error.
NeverWedged ==
    \A l \in Layers :
       heads[l] # <<>> /\ StateOf(l).status = "active" =>
          Composes([operation |-> None, layer |-> l, expected |-> Latest(l),
                    attribution |-> "human"], WorldHead)

LiveLayer(l) == heads[l] # <<>> /\ StateOf(l).status = "active"

\* radar, WorldCollisions: the Layer's paths that the World already moved.
WorldCollisions(l) ==
    ComposeConflicts([layer |-> l, expected |-> Latest(l)], WorldHead)

\* radar, LayerCollision: the pairs of paths a live Layer m would collide on,
\* read from the index.
LayerCollisions(l, m) ==
    LET ours == CheckpointAt(l, Latest(l))
        live == [p \in DOMAIN layerPaths[m] |-> layerPaths[m][p].entry]
    IN  Collisions(TreeOf(ours.base), ours.changes, live)

\* The radar is exact for each other live Layer: with `theirs` landing
\* first, a reported pair makes our Publish conflict, and no report together
\* with a World free of collisions lets it through.
RadarPredicts ==
    \A l, m \in Layers :
       l # m /\ LiveLayer(l) /\ LiveLayer(m) =>
          LET ours == CheckpointAt(l, Latest(l))
              theirs == CheckpointAt(m, Latest(m)).changes
              after == Intersections(TreeOf(ours.base), Apply(TreeOf(WorldHead), theirs),
                                     ours.changes)
          IN  /\ LayerCollisions(l, m) # {} => after # {}
              /\ LayerCollisions(l, m) = {} /\ WorldCollisions(l) = {} => after = {}

-----------------------------------------------------------------------------
(* What a step may never do.                                               *)

Extends(new, old) ==
    DOMAIN old \subseteq DOMAIN new /\ \A k \in DOMAIN old : new[k] = old[k]

Grows ==
    /\ Extends(versions', versions)
    /\ Extends(objects', objects)
    /\ Extends(blame', blame)
    /\ \A l \in Layers : Extends(heads'[l], heads[l])
    /\ Extends(attempts', attempts)
    /\ Extends(layerAttempts', layerAttempts)
    /\ Extends(publications', publications)

\* The immutability triggers: World history, checkpoints, head events and
\* every recorded outcome only ever grow.
AppendOnly == [][Grows]_vars

KeepsTerminal ==
    \A l \in Layers :
       heads[l] # <<>> /\ StateOf(l).status # "active" =>
          heads'[l] = heads[l] /\ StateOf(l)' = StateOf(l)

\* Published and discarded are terminal: the Layer's state and history stay.
TerminalLayers == [][KeepsTerminal]_vars

RepliesAgain ==
    \A op \in DOMAIN layerAttempts :
       LET first == Retry(op)
       IN  first.reply \in {"applied", "stale"} /\ Retry(op)' = first

\* capture_layer, discard_layer and commit_stack repeated with one operation
\* and one request return the first reply, down to the Layer state in it,
\* whatever was captured, discarded, stacked or published since: the call is
\* not refused, prepares the recorded candidate again and reads the recorded
\* event, not the Layer as it is now.
RetryReplays == [][RepliesAgain]_vars

\* A Publish call that is left to run returns: a call is sent back to
\* prepare only because some other operation committed.
PublishReturns ==
    \A h \in Handles : h \in DOMAIN calls ~> h \notin DOMAIN calls
=============================================================================
