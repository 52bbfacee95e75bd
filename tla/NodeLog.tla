------------------------------ MODULE NodeLog -------------------------------
(***************************************************************************)
(* The World log of a node: PublishLayer and LayerAppend over one          *)
(* repository and a second database, node.db, which records every decided  *)
(* PublishLayer with its outcome (crates/javelin-node/src/world_log.rs,    *)
(* layer.rs; crates/javelin-protocol/src/receiver.rs).                     *)
(*                                                                         *)
(* The node holds an exclusive lock and handles one message at a time.  A  *)
(* PublishLayer reaches the repository's Publish and then records the      *)
(* outcome, so the node may stop between the two commits.  Clients retry   *)
(* any request at any time; a reply is what PublishReply or AppendReply    *)
(* yields, and replies that change nothing are not steps.                  *)
(***************************************************************************)
EXTENDS Repository, FiniteSetsExt

VARIABLES
    decided,  \* node.db: decided PublishLayer requests and outcomes
    staged,   \* node.db: uploaded changes objects
    serving   \* the PublishLayer in progress, None when idle

nodeVars == <<decided, staged, serving>>

allVars == <<vars, nodeVars>>

\* The node has its repository open.
ASSUME HandlesAssumption == Handles # {}

\* The node is the one handle of its repository.
node == CHOOSE h \in Handles : TRUE

\* PublishLayer names the expected head by its checkpoint, and the base.
PublishMessage == [operation : Operations, layer : Layers, expected : Nat,
                   base : Nat, attribution : Attributions]

AppendMessage == [operation : Operations, layer : Layers, parent : Nat,
                  changes : InputChanges]

Refused(code) == <<"refused", code>>

HeadOf(l) == EventAt(l, Latest(l)).checkpoint

-----------------------------------------------------------------------------
(* PublishLayer.                                                           *)

\* outcome: the reply for a receipt.  The node alone writes, so its Publish
\* never meets a Layer that moved.
Outcome(op) ==
    IF publications[op].outcome = "published"
    THEN <<"published", publications[op].result>>
    ELSE <<"conflict", publications[op].paths>>

\* Mutant of ReceiptMatches: the base of the request is not compared.
ReceiptMatchesAnyBase(q) ==
    LET row == publications[q.operation]
    IN  /\ row.layer = q.layer
        /\ EventAt(row.layer, row.expected).checkpoint = q.expected
        /\ row.attribution = q.attribution

\* receipt_matches.
ReceiptMatches(q) ==
    LET row == publications[q.operation]
    IN  /\ row.layer = q.layer
        /\ EventAt(row.layer, row.expected).checkpoint = q.expected
        /\ row.attribution = q.attribution
        /\ CheckpointAt(row.layer, row.expected).base = q.base

\* publish, up to the point where the operation would be decided.
PublishReply(q) ==
    LET op == q.operation
    IN  IF op \in DOMAIN decided
        THEN IF decided[op].request = q THEN decided[op].outcome ELSE Refused("reused")
        ELSE IF op \in DOMAIN publications
             THEN IF ReceiptMatches(q) THEN Outcome(op) ELSE Refused("reused")
             ELSE <<"undecided">>

\* Mutant of Undecided: the repository's receipt is not looked for.
UndecidedUnlessRecorded(q) == q.operation \notin DOMAIN decided

Undecided(q) ==
    q.operation \notin DOMAIN decided /\ q.operation \notin DOMAIN publications

\* decide: the refusal of an undecided request by the Layer as it is now, as
\* a set of at most one outcome.
LayerRefusals(q) ==
    LET l == q.layer
    IN  IF heads[l] = <<>> THEN {Refused("unknown_layer")}
        ELSE IF StateOf(l).status # "active" THEN {Refused("layer_published")}
        ELSE IF HeadOf(l) # q.expected THEN {<<"stale", HeadOf(l)>>}
        ELSE IF objects[HeadOf(l)].base # q.base THEN {Refused("invalid_input")}
        ELSE {}

\* The refusal of publish_layer itself, once the checks let the head pass.
PublishRefusals(q) ==
    IF q.operation \in DOMAIN attempts THEN {Refused("reused")}
    ELSE IF ~AcceptedAttribution(q.attribution) THEN {Refused("attribution")}
    ELSE {}

Refusals(q) ==
    IF LayerRefusals(q) # {} THEN LayerRefusals(q) ELSE PublishRefusals(q)

\* record.
Record(q, outcome) == decided' = Put(decided, q.operation, [request |-> q, outcome |-> outcome])

\* A refusal is decided for good, although the repository knows nothing of it.
NodeRefuse(q) ==
    /\ serving = None
    /\ Undecided(q)
    /\ \E refusal \in Refusals(q) : Record(q, refusal)
    /\ UNCHANGED <<vars, staged, serving>>

\* checks::gate refuses the head under the policy of the moment.
NodeGate(q) ==
    /\ serving = None
    /\ Undecided(q)
    /\ LayerRefusals(q) = {}
    /\ Record(q, Refused("checks"))
    /\ UNCHANGED <<vars, staged, serving>>

\* publish_layer prepares in the repository.
NodePublish(q) ==
    /\ serving = None
    /\ Undecided(q)
    /\ Refusals(q) = {}
    /\ PublishLayer(node, [operation |-> q.operation, layer |-> q.layer,
                           expected |-> Latest(q.layer), attribution |-> q.attribution])
    /\ serving' = q
    /\ UNCHANGED <<decided, staged>>

\* publish_layer commits a version or a conflict.
NodeLand ==
    /\ serving # None
    /\ PublishAdvance(node) \/ PublishConflict(node)
    /\ UNCHANGED nodeVars

NodeRecord ==
    /\ serving # None
    /\ node \notin DOMAIN calls
    /\ serving.operation \in DOMAIN publications
    /\ Record(serving, Outcome(serving.operation))
    /\ serving' = None
    /\ UNCHANGED <<vars, staged>>

\* The process stops, or a database fails, at any point of a PublishLayer.
NodeStop ==
    /\ serving # None
    /\ serving' = None
    /\ calls' = [h \in DOMAIN calls \ {node} |-> calls[h]]
    /\ UNCHANGED <<versions, attempts, objects, heads, layerAttempts, publications,
                   layerPaths, blame, decided, staged>>

\* A retry finds the receipt of a publication whose record was lost.
NodeComplete(q) ==
    /\ serving = None
    /\ q.operation \notin DOMAIN decided
    /\ q.operation \in DOMAIN publications
    /\ ReceiptMatches(q)
    /\ Record(q, Outcome(q.operation))
    /\ UNCHANGED <<vars, staged, serving>>

-----------------------------------------------------------------------------
(* LayerAppend.                                                            *)

\* Mutant of Parents: only the latest head with the checkpoint is tried.
ParentsLatest(l, parent) ==
    LET all == {r \in 0..Latest(l) :
                   ~EventAt(l, r).discarded /\ EventAt(l, r).checkpoint = parent}
    IN  {r \in all : \A s \in all : s <= r}

\* The heads the Layer has held at the named checkpoint, which may recur.
Parents(l, parent) ==
    {r \in 0..Latest(l) : ~EventAt(l, r).discarded /\ EventAt(l, r).checkpoint = parent}

\* capture_layer finds this very request recorded under its operation.
SameAttempt(q, r) ==
    LET row == layerAttempts[q.operation]
        before == CheckpointAt(q.layer, r)
    IN  /\ row.layer = q.layer /\ row.expected = r
        /\ ~row.discard /\ row.source = None
        /\ objects[row.checkpoint] =
              PrepareCheckpoint(before.base, q.changes, before.sources, None)

\* The request is the one its operation was recorded for.
Recorded(q) ==
    /\ q.operation \in DOMAIN layerAttempts
    /\ \E r \in 0..Latest(q.layer) :
          /\ EventAt(q.layer, r).checkpoint = q.parent
          /\ SameAttempt(q, r)

\* stale_or_refused.
StaleReply(l, status, checkpoint) ==
    IF status = "active" THEN <<"stale", checkpoint>> ELSE Refused("layer_" \o status)

\* append, up to the point where a new attempt would be recorded.  Heads are
\* tried from the latest back until one does not call the operation reused.
AppendReply(q) ==
    LET l == q.layer
        op == q.operation
        row == layerAttempts[op]
        parents == Parents(l, q.parent)
    IN  IF heads[l] = <<>> THEN Refused("unknown_layer")
        ELSE IF parents = {} THEN StaleReply(l, StateOf(l).status, HeadOf(l))
        ELSE IF RefusePublished(op, l) THEN Refused("layer_published")
        ELSE IF ~Normalizes(TreeOf(CheckpointAt(l, 0).base), q.changes)
             THEN Refused("invalid_input")
        ELSE IF op \notin DOMAIN layerAttempts THEN <<"undecided">>
        ELSE IF ~\E r \in parents : SameAttempt(q, r) THEN Refused("reused")
        ELSE IF row.accepted THEN <<"accepted", row.result, row.checkpoint>>
        ELSE StaleReply(l, EventState(l, row.result).status,
                        EventAt(l, row.result).checkpoint)

\* store_changes.
StoreChanges(ch) ==
    /\ serving = None
    /\ staged' = staged \cup {ch}
    /\ UNCHANGED <<vars, decided, serving>>

\* append for a new operation: one capture on the latest matching head, which
\* is recorded even when that head is not the Layer's.
LayerAppend(q) ==
    /\ serving = None
    /\ q.changes \in staged
    /\ heads[q.layer] # <<>>
    /\ Parents(q.layer, q.parent) # {}
    /\ CaptureLayer(q.operation, q.layer, Max(Parents(q.layer, q.parent)), q.changes, None)
    /\ UNCHANGED nodeVars

\* create_layer.
NodeCreateLayer(l, base) ==
    /\ serving = None
    /\ CreateLayer(l, base)
    /\ UNCHANGED nodeVars

-----------------------------------------------------------------------------
NodeInit ==
    /\ Init
    /\ decided = [op \in {} |-> None]
    /\ staged = {}
    /\ serving = None

\* The requests clients may send: any stored or unknown checkpoint, any base.
PublishMessages == [operation : Operations, layer : Layers,
                    expected : 1..(Len(objects) + 1), base : 0..WorldHead,
                    attribution : Attributions]

AppendMessages == [operation : Operations, layer : Layers,
                   parent : 1..(Len(objects) + 1), changes : InputChanges]

NodeNext ==
    \/ \E q \in PublishMessages : NodeRefuse(q)
    \/ \E q \in PublishMessages : NodeGate(q)
    \/ \E q \in PublishMessages : NodePublish(q)
    \/ NodeLand
    \/ NodeRecord
    \/ NodeStop
    \/ \E q \in PublishMessages : NodeComplete(q)
    \/ \E ch \in InputChanges : StoreChanges(ch)
    \/ \E q \in AppendMessages : LayerAppend(q)
    \/ \E l \in Layers, base \in 0..WorldHead : NodeCreateLayer(l, base)

NodeSpec == NodeInit /\ [][NodeNext]_allVars

-----------------------------------------------------------------------------
\* Both databases hold rows of their schemas, and a PublishLayer in progress
\* is undecided in node.db.
NodeTypeOK ==
    /\ TypeOK
    /\ staged \subseteq InputChanges
    /\ serving \in PublishMessage \cup {None}
    /\ DOMAIN decided \subseteq Operations
    /\ \A op \in DOMAIN decided :
          decided[op].request \in PublishMessage /\ decided[op].request.operation = op
    /\ serving # None => serving.operation \notin DOMAIN decided

\* node.db never contradicts the World: an operation with a receipt has that
\* receipt's outcome on record, for the request that was published, and an
\* outcome of publication or conflict is on record only with its receipt.
RecordsAgree ==
    \A op \in DOMAIN decided :
       LET record == decided[op]
       IN  /\ op \in DOMAIN publications =>
                 record.outcome = Outcome(op) /\ ReceiptMatches(record.request)
           /\ record.outcome[1] \in {"published", "conflict"} =>
                 op \in DOMAIN publications

PublishStands ==
    \A q \in PublishMessages :
       PublishReply(q) # <<"undecided">> => PublishReply(q)' = PublishReply(q)

\* "A retry after a lost reply is answered the same way however the Layer has
\* changed since": once an operation is decided in either database, every
\* request that carries it gets one reply for good, across the crash between
\* the two commits.
PublishReplays == [][PublishStands]_allVars

AppendStands ==
    \A q \in AppendMessages :
       Recorded(q) => AppendReply(q)' = AppendReply(q)

\* Once an append is recorded, its retry gets the recorded reply for good,
\* although its parent was superseded, recurred since, or was published.
AppendReplays == [][AppendStands]_allVars
=============================================================================
