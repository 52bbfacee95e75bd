--------------------------- MODULE NodeLogProofs ----------------------------
(***************************************************************************)
(* A node's World log: its two databases agree and its replies stand, for  *)
(* any number of Layers, operations and requests.                          *)
(***************************************************************************)
EXTENDS NodeLog, RepositoryProofs

-----------------------------------------------------------------------------
(* A node only takes steps of its repository.                              *)

\* The maximum of a nonempty set of revisions is one of them.
LEMMA MaxOfRevisions ==
    ASSUME NEW k \in Int, NEW S \in SUBSET (0..k), S # {}
    PROVE  Max(S) \in S
<1> DEFINE T == {n \in Nat : k - n \in S}
<1>1. T \in SUBSET Nat /\ T # {}
  <2>1. PICK x \in S : TRUE
    OBVIOUS
  <2>2. k - x \in Nat /\ k - (k - x) = x
    BY <2>1
  <2> QED BY <2>1, <2>2
<1>2. PICK n \in T : \A m \in T : n <= m
  BY <1>1, LeastNatural
<1>3. \A y \in S : k - n >= y
  <2>1. SUFFICES ASSUME NEW y \in S PROVE k - n >= y
    OBVIOUS
  <2>2. y \in Int /\ k - y \in Nat /\ k - (k - y) = y
    OBVIOUS
  <2>3. n <= k - y
    BY <1>2, <2>2
  <2> QED BY <1>2, <2>2, <2>3
<1>4. k - n \in S
  BY <1>2
<1> QED BY <1>3, <1>4 DEF Max

\* Every Layer's revision stays within its width.
RevisionsBounded == \A l \in Layers : Latest(l) <= MaxRevision

\* update_layer refuses a revision past its width, so no step passes it.
LEMMA RevisionsStep ==
    ASSUME IInv, IInv', RevisionsBounded, [Next]_vars
    PROVE  RevisionsBounded'
<1>1. \A l \in Layers : heads'[l] = heads[l] => Latest(l)' <= MaxRevision
  BY DEF RevisionsBounded, Latest
<1>2. CASE ~LayerNext
  BY <1>1, <1>2, OtherKeepsLayers DEF RevisionsBounded
<1>3. CASE LayerNext
  <2>1. PICK l \in Layers :
            \/ \E cp \in Checkpoint : CreateIn(l, cp)
            \/ \E op \in Operations, r \in 0..Latest(l), cp \in Checkpoint,
                  discard \in BOOLEAN, source \in Nat \cup {None},
                  res \in Resolutions \cup {None} :
                     /\ UpdateIn(op, l, r, cp, discard, source, res)
                     /\ Descends(cp, l, r, discard, source)
    BY <1>3, LayerForms
  <2>2. heads \in [Layers -> Seq(Event)]
    BY DEF IInv, TypeOK
  <2>3. ASSUME NEW cp, CreateIn(l, cp)
        PROVE  RevisionsBounded'
    <3>1. PICK event : heads' = [heads EXCEPT ![l] = <<event>>]
      BY <2>3 DEF CreateIn
    <3>2. Latest(l)' = 0 /\ \A m \in Layers \ {l} : heads'[m] = heads[m]
      BY <2>2, <3>1 DEF Latest
    <3> QED BY <1>1, <3>2, BoundsAssumption DEF RevisionsBounded
  <2>4. ASSUME NEW op \in Operations, NEW r \in 0..Latest(l), NEW cp \in Checkpoint,
               NEW discard \in BOOLEAN, NEW source \in Nat \cup {None},
               NEW res \in Resolutions \cup {None},
               UpdateIn(op, l, r, cp, discard, source, res)
        PROVE  RevisionsBounded'
    <3>1. Updates(op, l, r, cp, discard, source, res)
      BY <2>4, UpdateHeads, Zenon
    <3>2. CASE Accepts(l, r)
      <4>1. /\ r \in Nat /\ Latest(l)' = r + 1
            /\ \A m \in Layers \ {l} : heads'[m] = heads[m]
        BY <3>1, <3>2 DEF Updates
      <4>2. r < MaxRevision
        BY <2>4, <3>2 DEF UpdateIn, Accepts
      <4>3. Latest(l)' <= MaxRevision
        BY <4>1, <4>2, BoundsAssumption
      <4> QED BY <1>1, <4>1, <4>3 DEF RevisionsBounded
    <3>3. CASE ~Accepts(l, r)
      BY <1>1, <3>1, <3>3 DEF Updates, RevisionsBounded
    <3> QED BY <3>2, <3>3
  <2> QED BY <2>1, <2>3, <2>4
<1> QED BY <1>2, <1>3

\* Every step of a node is one of its repository, or leaves it alone.
LEMMA NodeSteps ==
    ASSUME IInv, RevisionsBounded, [NodeNext]_allVars
    PROVE  [Next]_vars
<1>1. node \in Handles
  BY HandlesAssumption DEF node
<1>2. heads \in [Layers -> Seq(Event)]
  BY DEF IInv, TypeOK
<1>3. ASSUME NEW q \in PublishMessages, NodePublish(q)
      PROVE  Next
  <2> DEFINE request == [operation |-> q.operation, layer |-> q.layer,
                         expected |-> Latest(q.layer), attribution |-> q.attribution]
  <2>1. /\ q.operation \in Operations /\ q.layer \in Layers
        /\ q.attribution \in Attributions
    BY DEF PublishMessages
  <2>2. PublishLayer(node, request)
    BY <1>3 DEF NodePublish
  <2>3. Latest(q.layer) + 1 \in DOMAIN heads[q.layer]
    BY <2>2 DEF PublishLayer, Admissible, VerifyHead
  <2>4. Latest(q.layer) \in 0..MaxRevision
    BY <1>2, <2>1, <2>3, BoundsAssumption DEF RevisionsBounded, Latest
  <2>5. request \in [operation : Operations, layer : Layers,
                     expected : 0..MaxRevision, attribution : Attributions]
    BY <2>1, <2>4
  <2> HIDE DEF request
  <2> QED BY <1>1, <2>2, <2>5 DEF Next, PublishNext
<1>4. NodeLand => Next
  BY <1>1 DEF NodeLand, Next, PublishNext, PublishStep
<1>5. NodeStop => [Next]_vars
  <2>1. SUFFICES ASSUME NodeStop PROVE [Next]_vars
    OBVIOUS
  <2>2. /\ calls' = [h \in DOMAIN calls \ {node} |-> calls[h]]
        /\ UNCHANGED <<versions, attempts, objects, heads, layerAttempts, publications,
                       layerPaths, blame>>
    BY <2>1 DEF NodeStop
  <2>3. CASE node \in DOMAIN calls
    <3>1. PublishAbandon(node)
      BY <2>2, <2>3 DEF PublishAbandon, Remove
    <3> QED BY <1>1, <3>1 DEF Next, PublishNext
  <2>4. CASE node \notin DOMAIN calls
    <3>1. calls = [h \in DOMAIN calls |-> calls[h]]
      BY DEF IInv, TypeOK, IsTable
    <3>2. DOMAIN calls \ {node} = DOMAIN calls
      BY <2>4
    <3>3. calls' = calls
      BY <2>2, <3>1, <3>2
    <3> QED BY <2>2, <3>3 DEF vars
  <2> QED BY <2>3, <2>4
<1>6. ASSUME NEW q \in AppendMessages, LayerAppend(q)
      PROVE  Next
  <2> DEFINE r == Max(Parents(q.layer, q.parent))
  <2>1. q.operation \in Operations /\ q.layer \in Layers /\ q.changes \in InputChanges
    BY DEF AppendMessages
  <2>2. /\ CaptureLayer(q.operation, q.layer, r, q.changes, None)
        /\ Parents(q.layer, q.parent) # {}
    BY <1>6 DEF LayerAppend
  <2>3. Latest(q.layer) \in Int
    BY <1>2, <2>1 DEF Latest
  <2>4. Parents(q.layer, q.parent) \in SUBSET (0..Latest(q.layer))
    BY DEF Parents
  <2>5. r \in 0..Latest(q.layer)
    BY <2>2, <2>3, <2>4, MaxOfRevisions
  <2> HIDE DEF r
  <2> QED BY <2>1, <2>2, <2>5 DEF Next, LayerNext
<1>7. ASSUME NEW l \in Layers, NEW base \in 0..WorldHead, NodeCreateLayer(l, base)
      PROVE  Next
  BY <1>7 DEF NodeCreateLayer, Next, LayerNext
<1>8. ASSUME UNCHANGED vars PROVE [Next]_vars
  BY <1>8
<1> QED BY <1>3, <1>4, <1>5, <1>6, <1>7, <1>8
        DEF NodeNext, NodeRefuse, NodeGate, NodeRecord, NodeComplete, StoreChanges, allVars

\* What the node's repository keeps.
RepositoryInv ==
    /\ IInv
    /\ RevisionsBounded
    /\ ReceiptsInv
    /\ ObjectsDistinct
    /\ LayersValid

\* The repository of a node keeps what it keeps for any caller.
LEMMA NodeRepository ==
    ASSUME RepositoryInv, [NodeNext]_allVars
    PROVE  RepositoryInv' /\ [Next]_vars /\ Grows
<1>1. [Next]_vars
  BY NodeSteps DEF RepositoryInv
<1>2. IInv'
  BY <1>1, InvarianceStep DEF RepositoryInv
<1>3. Grows
  BY <1>1, GrowthStep DEF RepositoryInv
<1> QED BY <1>1, <1>2, <1>3, RevisionsStep, ReceiptsStep, DistinctStep, LayersStep
        DEF RepositoryInv

\* A node starts on an empty repository.
LEMMA NodeStart == NodeInit => RepositoryInv
<1>1. SUFFICES ASSUME NodeInit PROVE RepositoryInv
  OBVIOUS
<1>2. Init
  BY <1>1 DEF NodeInit
<1>3. IInv
  BY <1>2, InitInvariant
<1>4. RevisionsBounded
  BY <1>2, BoundsAssumption DEF Init, RevisionsBounded, Latest
<1>5. ReceiptsInv
  BY <1>2 DEF Init, ReceiptsInv, CallsVerified, PublishedOnce
<1> QED BY <1>2, <1>3, <1>4, <1>5, LayersStart DEF RepositoryInv

-----------------------------------------------------------------------------
(* Both databases agree.                                                   *)

\* A receipt for the request, whatever its other fields.
Matches(row, q) ==
    /\ row.layer = q.layer
    /\ EventAt(row.layer, row.expected).checkpoint = q.expected
    /\ row.attribution = q.attribution
    /\ CheckpointAt(row.layer, row.expected).base = q.base

\* The PublishLayer in progress: its call in the repository and its receipt
\* are for the very request that is being served.
ServingSound ==
    serving # None =>
       /\ node \in DOMAIN calls =>
             /\ calls[node].request.operation = serving.operation
             /\ Matches(calls[node].request, serving)
       /\ serving.operation \in DOMAIN publications =>
             Matches(publications[serving.operation], serving)

\* The inductive invariant of a node.
NodeInv == RepositoryInv /\ NodeTypeOK /\ ServingSound /\ RecordsAgree

\* Messages are requests with a checkpoint and a World (PublishLayer).
LEMMA MessagesTyped ==
    ASSUME IInv
    PROVE  PublishMessages \subseteq PublishMessage
<1>1. WorldHead \in Nat
  BY VersionFacts DEF IInv
<1>2. 0..WorldHead \subseteq Nat /\ 1..(Len(objects) + 1) \subseteq Nat
  BY <1>1
<1> QED BY <1>2 DEF PublishMessages, PublishMessage

\* What a recorded event matches, it matches for good.
LEMMA MatchesKept ==
    ASSUME IInv, IInv', Grows, NEW row, NEW q, row.layer \in Layers, row.expected \in Nat,
           row.expected + 1 \in DOMAIN heads[row.layer]
    PROVE  Matches(row, q)' <=> Matches(row, q)
BY GrowthFacts DEF Matches

\* A receipt and its reply stay what they are (publications are immutable).
LEMMA ReceiptsStand ==
    ASSUME RepositoryInv, RepositoryInv', Grows, NEW op \in DOMAIN publications
    PROVE  /\ op \in DOMAIN publications'
           /\ Outcome(op)' = Outcome(op)
           /\ \A q : Matches(publications[op], q)' <=> Matches(publications[op], q)
<1>1. op \in DOMAIN publications' /\ publications'[op] = publications[op]
  BY DEF Grows, Extends
<1>2. PICK row : row = publications[op]
  OBVIOUS
<1>3. row.layer \in Layers /\ row.expected \in Nat /\ VerifyHead(row.layer, row.expected)
  BY <1>2, ReceiptEvent DEF RepositoryInv
<1>4. \A q : Matches(row, q)' <=> Matches(row, q)
  BY <1>3, MatchesKept DEF VerifyHead, RepositoryInv
<1>5. row = publications'[op]
  BY <1>1, <1>2
<1> QED BY <1>1, <1>2, <1>4, <1>5 DEF Outcome

\* What a record in node.db owes the repository.
Agrees(op, q, outcome) ==
    /\ op \in DOMAIN publications =>
          outcome = Outcome(op) /\ Matches(publications[op], q)
    /\ outcome[1] \in {"published", "conflict"} => op \in DOMAIN publications

AllAgree ==
    \A op \in DOMAIN decided : Agrees(op, decided[op].request, decided[op].outcome)

\* RecordsAgree, record by record, before and after a step.
LEMMA RecordsMeaning ==
    /\ NodeTypeOK => (RecordsAgree <=> AllAgree)
    /\ NodeTypeOK' => (RecordsAgree' <=> AllAgree')
BY DEF RecordsAgree, AllAgree, Agrees, ReceiptMatches, Matches, NodeTypeOK

\* Records stay in agreement while no decided operation gains a receipt.
LEMMA RecordsKept ==
    ASSUME RepositoryInv, RepositoryInv', Grows,
           NEW op, NEW q, NEW outcome, Agrees(op, q, outcome),
           op \in DOMAIN publications' => op \in DOMAIN publications
    PROVE  Agrees(op, q, outcome)'
<1>1. CASE op \in DOMAIN publications
  BY <1>1, ReceiptsStand DEF Agrees
<1>2. CASE op \notin DOMAIN publications
  BY <1>2 DEF Agrees
<1> QED BY <1>1, <1>2

\* A step that records one outcome, which agrees with the repository.
LEMMA RecordStep ==
    ASSUME NodeInv, UNCHANGED vars, RepositoryInv', Grows,
           NEW q \in PublishMessage, NEW outcome, q.operation \notin DOMAIN decided,
           Record(q, outcome), Agrees(q.operation, q, outcome),
           staged' = staged, serving' = serving \/ serving' = None,
           serving' # None => serving'.operation # q.operation
    PROVE  NodeInv'
<1>1. /\ q.operation \in Operations
      /\ decided' = [k \in DOMAIN decided \cup {q.operation} |->
                       IF k = q.operation THEN [request |-> q, outcome |-> outcome]
                       ELSE decided[k]]
  BY DEF PublishMessage, Record, Put
<1>2. NodeTypeOK'
  BY <1>1 DEF NodeInv, NodeTypeOK, RepositoryInv, IInv
<1>3. ServingSound'
  BY DEF NodeInv, ServingSound, vars, Matches, EventAt, CheckpointAt
<1>4. \A op \in DOMAIN decided : Agrees(op, decided[op].request, decided[op].outcome)
  BY RecordsMeaning DEF NodeInv, AllAgree
<1>5. \A op, r, o : Agrees(op, r, o) => Agrees(op, r, o)'
  BY RecordsKept DEF NodeInv, vars
<1>6. AllAgree'
  <2>1. SUFFICES ASSUME NEW op \in DOMAIN decided'
                 PROVE  Agrees(op, decided[op].request, decided[op].outcome)'
    BY DEF AllAgree
  <2>2. CASE op = q.operation
    <3>1. decided'[op].request = q /\ decided'[op].outcome = outcome
      BY <1>1, <2>2
    <3>2. Agrees(op, q, outcome)'
      BY <1>5, <2>2
    <3> QED BY <3>1, <3>2
  <2>3. CASE op # q.operation
    <3>1. op \in DOMAIN decided /\ decided'[op] = decided[op]
      BY <1>1, <2>1, <2>3
    <3>2. PICK r, o : r = decided[op].request /\ o = decided[op].outcome
      OBVIOUS
    <3>3. Agrees(op, r, o)'
      BY <1>4, <1>5, <3>1, <3>2
    <3>4. r = decided'[op].request /\ o = decided'[op].outcome
      BY <3>1, <3>2
    <3> QED BY <3>3, <3>4
  <2> QED BY <2>2, <2>3
<1>7. RecordsAgree'
  BY <1>2, <1>6, RecordsMeaning
<1> QED BY <1>2, <1>3, <1>7 DEF NodeInv

\* A step that records nothing, and gives no recorded operation a receipt.
LEMMA UnrecordedStep ==
    ASSUME NodeInv, RepositoryInv', Grows, decided' = decided,
           \A op \in DOMAIN decided : op \in DOMAIN publications' => op \in DOMAIN publications,
           NodeTypeOK', ServingSound'
    PROVE  NodeInv'
<1>1. AllAgree
  BY RecordsMeaning DEF NodeInv
<1>2. AllAgree'
  <2>1. SUFFICES ASSUME NEW op \in DOMAIN decided
                 PROVE  Agrees(op, decided[op].request, decided[op].outcome)'
    BY DEF AllAgree
  <2>2. PICK q, o : q = decided[op].request /\ o = decided[op].outcome
    OBVIOUS
  <2>3. Agrees(op, q, o)
    BY <1>1, <2>2 DEF AllAgree
  <2>4. Agrees(op, q, o)'
    BY <2>3, RecordsKept DEF NodeInv
  <2>5. q = decided'[op].request /\ o = decided'[op].outcome
    BY <2>2
  <2> QED BY <2>4, <2>5
<1> QED BY <1>2, RecordsMeaning DEF NodeInv

\* decide refuses or calls the head stale; it never claims a publication.
LEMMA RefusalsRefuse ==
    ASSUME NEW q, NEW o \in Refusals(q)
    PROVE  o[1] \notin {"published", "conflict"}
<1>1. \A code : Refused(code)[1] = "refused"
  BY DEF Refused
<1>2. \A v : <<"stale", v>>[1] = "stale"
  OBVIOUS
<1>3. \/ \E code : o = Refused(code)
      \/ o = <<"stale", HeadOf(q.layer)>>
  BY DEF Refusals, LayerRefusals, PublishRefusals
<1> QED BY <1>1, <1>2, <1>3

\* publish_layer is called for the head and base that the request names.
LEMMA PublishServes ==
    ASSUME NodeInv, NEW q \in PublishMessages, NodePublish(q)
    PROVE  /\ calls'[node].request.operation = q.operation
           /\ Matches(calls'[node].request, q)
           /\ UNCHANGED <<objects, heads, publications>>
<1> DEFINE request == [operation |-> q.operation, layer |-> q.layer,
                       expected |-> Latest(q.layer), attribution |-> q.attribution]
<1>1. /\ PublishLayer(node, request) /\ Refusals(q) = {}
  BY DEF NodePublish
<1>2. LayerRefusals(q) = {}
  BY <1>1 DEF Refusals
<1>3. HeadOf(q.layer) = q.expected /\ objects[HeadOf(q.layer)].base = q.base
  BY <1>2 DEF LayerRefusals
<1>4. Matches(request, q)
  BY <1>3 DEF Matches, HeadOf, CheckpointAt
<1>5. calls'[node].request = request
  BY <1>1 DEF PublishLayer, Prepare, Put
<1> QED BY <1>1, <1>4, <1>5 DEF PublishLayer

\* The repository answers the call with a receipt for its request.
LEMMA LandServes ==
    ASSUME NodeInv, NodeLand
    PROVE  /\ UNCHANGED <<objects, heads>>
           /\ node \notin DOMAIN calls'
           /\ DOMAIN publications' = DOMAIN publications \cup {serving.operation}
           /\ Matches(publications'[serving.operation], serving)
<1>1. node \in Handles /\ node \in DOMAIN calls /\ serving # None
  BY HandlesAssumption DEF node, NodeLand, PublishAdvance, PublishConflict
<1>2. /\ calls[node].request.operation = serving.operation
      /\ Matches(calls[node].request, serving)
  BY <1>1 DEF NodeInv, ServingSound
<1>3. PICK outcome, result, paths : CommitReceipt(node, outcome, result, paths)
  BY DEF NodeLand, PublishAdvance, PublishConflict
<1>4. UNCHANGED <<objects, heads>>
  BY DEF NodeLand, PublishAdvance, PublishConflict
<1>5. /\ node \notin DOMAIN calls'
      /\ DOMAIN publications' = DOMAIN publications \cup {serving.operation}
      /\ publications'[serving.operation] = Receipt(calls[node], outcome, result, paths)
  BY <1>2, <1>3 DEF CommitReceipt, Put, Remove
<1>6. Matches(publications'[serving.operation], serving)
  BY <1>2, <1>5 DEF Matches, Receipt
<1> QED BY <1>4, <1>5, <1>6

\* Every step of the node keeps its invariant, the crash included.
LEMMA NodeInvStep ==
    ASSUME NodeInv, [NodeNext]_allVars
    PROVE  NodeInv'
<1>1. RepositoryInv' /\ Grows
  BY NodeRepository DEF NodeInv
<1>2. IInv /\ NodeTypeOK /\ PublishMessages \subseteq PublishMessage /\ TypeOK'
  BY <1>1, MessagesTyped DEF NodeInv, RepositoryInv, IInv
<1>3. ASSUME NEW q \in PublishMessages, NodeRefuse(q) \/ NodeGate(q)
      PROVE  NodeInv'
  <2>1. /\ serving = None /\ Undecided(q)
        /\ UNCHANGED <<vars, staged, serving>>
    BY <1>3 DEF NodeRefuse, NodeGate
  <2>2. PICK o : Record(q, o) /\ o[1] \notin {"published", "conflict"}
    <3>1. CASE NodeRefuse(q)
      BY <3>1, RefusalsRefuse DEF NodeRefuse
    <3>2. CASE NodeGate(q)
      BY <3>2 DEF NodeGate, Refused
    <3> QED BY <1>3, <3>1, <3>2
  <2>3. Agrees(q.operation, q, o) /\ q.operation \notin DOMAIN decided
    BY <2>1, <2>2 DEF Agrees, Undecided
  <2>4. q \in PublishMessage /\ UNCHANGED vars /\ staged' = staged /\ serving' = None
    BY <1>2, <2>1
  <2> QED BY <1>1, <2>2, <2>3, <2>4, RecordStep
<1>4. ASSUME NEW q \in PublishMessages, NodeComplete(q)
      PROVE  NodeInv'
  <2>1. PICK o : o = Outcome(q.operation)
    OBVIOUS
  <2>2. /\ Record(q, o) /\ q.operation \notin DOMAIN decided
        /\ UNCHANGED vars /\ staged' = staged /\ serving' = None
    BY <1>4, <2>1 DEF NodeComplete
  <2>3. Agrees(q.operation, q, o)
    BY <1>4, <2>1 DEF NodeComplete, Agrees, ReceiptMatches, Matches
  <2>4. q \in PublishMessage
    BY <1>2
  <2> QED BY <1>1, <2>2, <2>3, <2>4, RecordStep
<1>5. ASSUME NodeRecord PROVE NodeInv'
  <2>1. PICK q, o : q = serving /\ o = Outcome(serving.operation)
    OBVIOUS
  <2>2. /\ q \in PublishMessage /\ q.operation \notin DOMAIN decided
        /\ q.operation \in DOMAIN publications
        /\ Record(q, o)
        /\ UNCHANGED vars /\ staged' = staged /\ serving' = None
    BY <1>2, <1>5, <2>1 DEF NodeRecord, NodeTypeOK
  <2>3. Agrees(q.operation, q, o)
    BY <1>5, <2>1, <2>2 DEF NodeRecord, Agrees, NodeInv, ServingSound
  <2> QED BY <1>1, <2>2, <2>3, RecordStep
<1>6. ASSUME NEW q \in PublishMessages, NodePublish(q)
      PROVE  NodeInv'
  <2>1. /\ decided' = decided /\ staged' = staged /\ serving' = q
        /\ q.operation \notin DOMAIN decided /\ q.operation \notin DOMAIN publications
    BY <1>6 DEF NodePublish, Undecided
  <2>2. /\ calls'[node].request.operation = q.operation
        /\ Matches(calls'[node].request, q)
        /\ UNCHANGED <<objects, heads, publications>>
    BY <1>6, PublishServes
  <2>3. NodeTypeOK'
    BY <1>2, <2>1 DEF NodeTypeOK
  <2>4. Matches(calls[node].request, q)'
    BY <2>2 DEF Matches, EventAt, CheckpointAt
  <2>5. ServingSound'
    BY <2>1, <2>2, <2>4 DEF ServingSound
  <2> QED BY <1>1, <2>1, <2>2, <2>3, <2>5, UnrecordedStep
<1>7. ASSUME NodeLand PROVE NodeInv'
  <2>1. /\ UNCHANGED <<objects, heads>>
        /\ node \notin DOMAIN calls'
        /\ DOMAIN publications' = DOMAIN publications \cup {serving.operation}
        /\ Matches(publications'[serving.operation], serving)
    BY <1>7, LandServes
  <2>2. serving # None /\ UNCHANGED <<decided, staged, serving>>
    BY <1>7 DEF NodeLand, nodeVars
  <2>3. NodeTypeOK'
    BY <1>2, <2>2 DEF NodeTypeOK
  <2>4. Matches(publications[serving.operation], serving)'
    BY <2>1, <2>2 DEF Matches, EventAt, CheckpointAt
  <2>5. ServingSound'
    BY <2>1, <2>4 DEF ServingSound
  <2>6. serving.operation \notin DOMAIN decided
    BY <1>2, <2>2 DEF NodeTypeOK
  <2> QED BY <1>1, <2>1, <2>2, <2>3, <2>5, <2>6, UnrecordedStep
<1>8. ASSUME serving' = None, decided' = decided, staged' \subseteq InputChanges,
             DOMAIN publications' = DOMAIN publications
      PROVE  NodeInv'
  <2>1. NodeTypeOK' /\ ServingSound'
    BY <1>2, <1>8 DEF NodeTypeOK, ServingSound
  <2> QED BY <1>1, <1>8, <2>1, UnrecordedStep
<1>9. staged \subseteq InputChanges
  BY <1>2 DEF NodeTypeOK
<1>10. NodeStop => NodeInv'
  BY <1>8, <1>9 DEF NodeStop
<1>11. ASSUME NEW ch \in InputChanges, StoreChanges(ch) PROVE NodeInv'
  BY <1>8, <1>9, <1>11 DEF StoreChanges, vars
<1>12. ASSUME NEW q \in AppendMessages, LayerAppend(q) PROVE NodeInv'
  BY <1>8, <1>9, <1>12 DEF LayerAppend, CaptureLayer, UpdateIn, nodeVars
<1>13. ASSUME NEW l \in Layers, NEW base \in 0..WorldHead, NodeCreateLayer(l, base)
       PROVE  NodeInv'
  BY <1>8, <1>9, <1>13 DEF NodeCreateLayer, CreateLayer, CreateIn, nodeVars
<1>14. ASSUME UNCHANGED allVars PROVE NodeInv'
  <2>1. UNCHANGED vars /\ UNCHANGED <<decided, staged, serving>>
    BY <1>14 DEF allVars, nodeVars
  <2>2. NodeTypeOK'
    BY <1>2, <2>1 DEF NodeTypeOK
  <2>3. ServingSound'
    BY <2>1 DEF NodeInv, ServingSound, vars, Matches, EventAt, CheckpointAt
  <2>4. publications' = publications
    BY <2>1 DEF vars
  <2> QED BY <1>1, <2>1, <2>2, <2>3, <2>4, UnrecordedStep
<1> QED BY <1>3, <1>4, <1>5, <1>6, <1>7, <1>10, <1>11, <1>12, <1>13, <1>14 DEF NodeNext

\* A node's two databases and the call it serves always fit together.
LEMMA NodeInvariance == NodeSpec => []NodeInv
<1>1. NodeInit => NodeInv
  <2>1. SUFFICES ASSUME NodeInit PROVE NodeInv
    OBVIOUS
  <2>2. RepositoryInv
    BY <2>1, NodeStart
  <2>3. decided = [op \in {} |-> None] /\ staged = {} /\ serving = None
    BY <2>1 DEF NodeInit
  <2>4. NodeTypeOK /\ RecordsAgree /\ ServingSound
    BY <2>2, <2>3 DEF NodeTypeOK, RecordsAgree, ServingSound, RepositoryInv, IInv
  <2> QED BY <2>2, <2>4 DEF NodeInv
<1> QED BY <1>1, NodeInvStep, PTL DEF NodeSpec

\* Both databases of a node always hold rows of their schemas, and the
\* PublishLayer in progress is undecided.
THEOREM NodeTypeCorrect == NodeSpec => []NodeTypeOK
BY NodeInvariance, PTL DEF NodeInv

\* node.db never contradicts the World, whatever is retried, refused, gated or
\* cut off between the Publish and its record (world_log.rs, publish).
THEOREM NodeRecordsAgree == NodeSpec => []RecordsAgree
BY NodeInvariance, PTL DEF NodeInv

-----------------------------------------------------------------------------
(* Replies stand.                                                          *)

\* A decided PublishLayer is never decided again (the primary key of node.db).
LEMMA DecidedKept ==
    ASSUME NodeInv, [NodeNext]_allVars, NEW op \in DOMAIN decided
    PROVE  op \in DOMAIN decided' /\ decided'[op] = decided[op]
<1>1. ASSUME NEW q, NEW o, q.operation \notin DOMAIN decided, Record(q, o)
      PROVE  op \in DOMAIN decided' /\ decided'[op] = decided[op]
  BY <1>1 DEF Record, Put
<1>2. ASSUME NEW q, NodeRefuse(q) \/ NodeGate(q) \/ NodeComplete(q)
      PROVE  op \in DOMAIN decided' /\ decided'[op] = decided[op]
  <2>1. PICK o : q.operation \notin DOMAIN decided /\ Record(q, o)
    BY <1>2 DEF NodeRefuse, NodeGate, NodeComplete, Undecided
  <2> QED BY <1>1, <2>1
<1>3. ASSUME NodeRecord
      PROVE  op \in DOMAIN decided' /\ decided'[op] = decided[op]
  <2>1. PICK q, o : q = serving /\ q.operation \notin DOMAIN decided /\ Record(q, o)
    BY <1>3 DEF NodeRecord, NodeInv, NodeTypeOK
  <2> QED BY <1>1, <2>1
<1>4. \/ decided' = decided
      \/ NodeRecord
      \/ \E q : NodeRefuse(q) \/ NodeGate(q) \/ NodeComplete(q)
  BY DEF NodeNext, NodePublish, NodeLand, NodeStop, StoreChanges, LayerAppend,
         NodeCreateLayer, allVars, nodeVars
<1> QED BY <1>2, <1>3, <1>4

\* A message is its fields.
LEMMA SameMessage ==
    ASSUME NEW a \in PublishMessage, NEW b \in PublishMessage,
           a.operation = b.operation, a.layer = b.layer, a.expected = b.expected,
           a.base = b.base, a.attribution = b.attribution
    PROVE  a = b
<1>1. ASSUME NEW q \in PublishMessage
      PROVE  q = [operation |-> q.operation, layer |-> q.layer,
                  expected |-> q.expected, base |-> q.base, attribution |-> q.attribution]
  BY DEF PublishMessage
<1> QED BY <1>1

\* One reply per decided operation, for good.
LEMMA PublishStandsStep ==
    ASSUME NodeInv, NodeInv', [NodeNext]_allVars
    PROVE  PublishStands
<1>1. SUFFICES ASSUME NEW q \in PublishMessages, PublishReply(q) # <<"undecided">>
               PROVE  PublishReply(q)' = PublishReply(q)
  BY DEF PublishStands
<1>2. PICK op : op = q.operation
  OBVIOUS
<1>3. RepositoryInv /\ RepositoryInv' /\ Grows /\ q \in PublishMessage
  BY NodeRepository, MessagesTyped DEF NodeInv, RepositoryInv
<1>4. CASE op \in DOMAIN decided
  BY <1>2, <1>4, DecidedKept DEF PublishReply
<1>5. CASE op \notin DOMAIN decided
  <2>1. op \in DOMAIN publications
    BY <1>1, <1>2, <1>5 DEF PublishReply
  <2>2. /\ op \in DOMAIN publications' /\ Outcome(op)' = Outcome(op)
        /\ \A r : Matches(publications[op], r)' <=> Matches(publications[op], r)
    BY <1>3, <2>1, ReceiptsStand
  <2>3. /\ ReceiptMatches(q) <=> Matches(publications[op], q)
        /\ ReceiptMatches(q)' <=> Matches(publications[op], q)'
    BY <1>2 DEF ReceiptMatches, Matches
  <2>4. PublishReply(q) = IF Matches(publications[op], q) THEN Outcome(op)
                          ELSE Refused("reused")
    BY <1>2, <1>5, <2>1, <2>3 DEF PublishReply
  <2>5. CASE op \notin DOMAIN decided'
    BY <1>2, <2>2, <2>3, <2>4, <2>5 DEF PublishReply
  <2>6. CASE op \in DOMAIN decided'
    <3>1. PICK r : r = decided'[op].request
      OBVIOUS
    <3>2. /\ r \in PublishMessage /\ r.operation = op
          /\ Agrees(op, decided[op].request, decided[op].outcome)'
      BY <2>6, <3>1, RecordsMeaning DEF NodeInv, NodeTypeOK, AllAgree
    <3>3. decided'[op].outcome = Outcome(op)' /\ Matches(publications[op], r)'
      BY <2>2, <3>1, <3>2 DEF Agrees
    <3>4. Matches(publications[op], q) => q = r
      <4>1. ASSUME Matches(publications[op], q)' PROVE q = r
        <5>1. /\ publications'[op].layer = q.layer /\ publications'[op].layer = r.layer
              /\ publications'[op].attribution = q.attribution
              /\ publications'[op].attribution = r.attribution
              /\ q.expected = r.expected /\ q.base = r.base
          BY <3>3, <4>1 DEF Matches
        <5>2. /\ q.layer = r.layer /\ q.attribution = r.attribution
              /\ q.operation = r.operation
          BY <1>2, <3>2, <5>1
        <5> QED BY <1>3, <3>2, <5>1, <5>2, SameMessage
      <4> QED BY <2>2, <4>1
    <3>5. q = r => Matches(publications[op], q)
      BY <2>2, <3>3
    <3>6. PublishReply(q)' = IF r = q THEN decided'[op].outcome ELSE Refused("reused")
      BY <1>2, <2>6, <3>1 DEF PublishReply, Refused
    <3> QED BY <2>2, <2>4, <3>3, <3>4, <3>5, <3>6
  <2> QED BY <2>5, <2>6
<1> QED BY <1>4, <1>5

\* "A retry after a lost reply is answered the same way however the Layer has
\* changed since": no step of the node, and no crash between its two commits,
\* changes a reply once its operation is decided.
THEOREM PublishRepliesStand == NodeSpec => PublishReplays
<1>1. NodeInv /\ NodeInv' /\ [NodeNext]_allVars => [PublishStands]_allVars
  BY PublishStandsStep
<1> QED BY <1>1, NodeInvariance, PTL DEF NodeSpec, PublishReplays

\* The reply to a recorded append, from its row.
ReplyOf(q, row) ==
    IF ~Normalizes(TreeOf(CheckpointAt(q.layer, 0).base), q.changes)
    THEN Refused("invalid_input")
    ELSE IF row.accepted THEN <<"accepted", row.result, row.checkpoint>>
    ELSE StaleReply(q.layer, EventState(q.layer, row.result).status,
                    EventAt(q.layer, row.result).checkpoint)

RepliesFromRows ==
    \A q : RepositoryInv /\ q.layer \in Layers /\ Recorded(q)
             => AppendReply(q) = ReplyOf(q, layerAttempts[q.operation])

\* append answers a recorded request from its row: the head it was recorded on
\* is still among those the named checkpoint stands for.
LEMMA RecordedReply == RepliesFromRows
<1>1. SUFFICES ASSUME NEW q, RepositoryInv, q.layer \in Layers, Recorded(q)
               PROVE  AppendReply(q) = ReplyOf(q, layerAttempts[q.operation])
  BY DEF RepliesFromRows
<1>2. PICK r \in 0..Latest(q.layer) :
            /\ EventAt(q.layer, r).checkpoint = q.parent
            /\ SameAttempt(q, r)
  BY <1>1 DEF Recorded
<1>3. /\ layerAttempts[q.operation].layer = q.layer
      /\ layerAttempts[q.operation].expected = r
      /\ q.operation \in DOMAIN layerAttempts
  BY <1>1, <1>2 DEF SameAttempt, Recorded
<1>4. VerifyHead(q.layer, r)
  BY <1>1, <1>3 DEF RepositoryInv, LayersValid, LayerAttemptValid
<1>5. r \in Parents(q.layer, q.parent)
  BY <1>2, <1>4 DEF Parents, VerifyHead
<1>6. heads[q.layer] # <<>>
  BY <1>4 DEF VerifyHead
<1> QED BY <1>2, <1>3, <1>5, <1>6 DEF AppendReply, ReplyOf, RefusePublished

\* A recorded append stays recorded, and its reply stands.
LEMMA AppendStandsStep ==
    ASSUME NodeInv, NodeInv', [NodeNext]_allVars
    PROVE  AppendStands
<1>1. SUFFICES ASSUME NEW q \in AppendMessages, Recorded(q)
               PROVE  AppendReply(q)' = AppendReply(q)
  BY DEF AppendStands
<1>2. PICK l, op, row : l = q.layer /\ op = q.operation /\ row = layerAttempts[op]
  OBVIOUS
<1>3. RepositoryInv /\ RepositoryInv' /\ Grows /\ IInv /\ IInv' /\ LayersValid
  BY NodeRepository DEF NodeInv, RepositoryInv
<1>4. l \in Layers /\ op \in DOMAIN layerAttempts
  BY <1>1, <1>2 DEF AppendMessages, Recorded
<1>5. PICK r \in 0..Latest(l) : EventAt(l, r).checkpoint = q.parent /\ SameAttempt(q, r)
  BY <1>1, <1>2 DEF Recorded
<1>6. /\ row \in LayerAttemptRow /\ row.layer = l /\ row.expected = r
      /\ VerifyHead(l, r) /\ row.result <= Latest(l) /\ row.result \in Nat
      /\ row.checkpoint \in DOMAIN objects
  <2>1. row \in LayerAttemptRow
    BY <1>2, <1>3, <1>4 DEF IInv, TypeOK, IsTable
  <2>2. row.layer = l /\ row.expected = r
    BY <1>2, <1>5 DEF SameAttempt
  <2>3. LayerAttemptValid(op)
    BY <1>3, <1>4 DEF LayersValid
  <2> QED BY <1>2, <2>1, <2>2, <2>3 DEF LayerAttemptValid, LayerAttemptRow
<1>7. op \in DOMAIN layerAttempts' /\ layerAttempts'[op] = row
  BY <1>2, <1>3, <1>4 DEF Grows, Extends
<1>8. heads[l] \in Seq(Event) /\ r \in Nat /\ Latest(l) \in Nat
  BY <1>3, <1>4, <1>5 DEF IInv, TypeOK, Latest
<1>9. ASSUME NEW n \in 0..Latest(l)
      PROVE  /\ EventAt(l, n)' = EventAt(l, n) /\ CheckpointAt(l, n)' = CheckpointAt(l, n)
             /\ n \in 0..Latest(l)'
             /\ TreeOf(CheckpointAt(l, n).base)' = TreeOf(CheckpointAt(l, n).base)
  <2>1. n \in Nat /\ n + 1 \in DOMAIN heads[l]
    BY <1>8 DEF Latest
  <2>2. /\ EventAt(l, n)' = EventAt(l, n) /\ CheckpointAt(l, n)' = CheckpointAt(l, n)
        /\ Latest(l)' \in Int /\ Latest(l) <= Latest(l)'
    BY <1>3, <1>4, <2>1, GrowthFacts
  <2>3. EventAt(l, n).checkpoint \in DOMAIN objects
    BY <1>3, <1>4, <2>1 DEF IInv, EventsStored, EventAt
  <2>4. PICK base : base = CheckpointAt(l, n).base
    OBVIOUS
  <2>5. base \in 0..WorldHead
    BY <1>3, <2>3, <2>4 DEF IInv, CheckpointsValid, CheckpointValid, CheckpointAt
  <2>6. TreeOf(base)' = TreeOf(base) /\ base = CheckpointAt(l, n)'.base
    BY <1>3, <2>2, <2>4, <2>5, GrowthFacts
  <2> QED BY <1>8, <2>2, <2>4, <2>6
<1>10. objects'[row.checkpoint] = objects[row.checkpoint]
  BY <1>3, <1>6 DEF Grows, Extends
<1>11. SameAttempt(q, r)'
  <2>1. /\ CheckpointAt(l, r)' = CheckpointAt(l, r)
        /\ TreeOf(CheckpointAt(l, r).base)' = TreeOf(CheckpointAt(l, r).base)
    BY <1>5, <1>9
  <2> QED BY <1>2, <1>5, <1>7, <1>10, <2>1 DEF SameAttempt, PrepareCheckpoint
<1>12. Recorded(q)'
  BY <1>2, <1>5, <1>7, <1>9, <1>11 DEF Recorded
<1>13. AppendReply(q) = ReplyOf(q, row)
  BY <1>1, <1>2, <1>3, <1>4, RecordedReply DEF RepliesFromRows
<1>14. RepliesFromRows'
  BY RecordedReply, PTL
<1>15. AppendReply(q)' = ReplyOf(q, layerAttempts[op])'
  BY <1>2, <1>3, <1>4, <1>12, <1>14 DEF RepliesFromRows
<1>16. ReplyOf(q, row)' = ReplyOf(q, row)
  <2>1. 0 \in 0..Latest(l) /\ row.result \in 0..Latest(l)
    BY <1>6, <1>8
  <2> QED BY <1>2, <1>9, <2>1 DEF ReplyOf, EventState, StaleReply
<1> QED BY <1>7, <1>13, <1>15, <1>16

\* Once an append is recorded, its retry gets the recorded reply for good,
\* although its parent was superseded, recurred or was published since
\* (receiver.rs, append).
THEOREM AppendRepliesStand == NodeSpec => AppendReplays
<1>1. NodeInv /\ NodeInv' /\ [NodeNext]_allVars => [AppendStands]_allVars
  BY AppendStandsStep
<1> QED BY <1>1, NodeInvariance, PTL DEF NodeSpec, AppendReplays
=============================================================================
