-------------------------- MODULE RepositoryProofs --------------------------
(***************************************************************************)
(* Type correctness and the integrity of the World history, for any number *)
(* of Layers, operations, handles, paths and versions; and what no step of *)
(* the repository may do: change a recorded fact, move a Layer that ended, *)
(* or overwrite World entries a Layer never saw.  What its records say     *)
(* stays true: World attempts, Layer attempts and head events, Publish     *)
(* receipts, the radar index and blame.                                    *)
(***************************************************************************)
EXTENDS RepositoryRefinement, FileTreesProofs, SequenceTheorems, WellFoundedInduction,
        FiniteSetTheorems

-----------------------------------------------------------------------------
(* Tables, sequences and content addressing.                               *)

\* Inserting a row (Put) keeps a table a table.
LEMMA PutTable ==
    ASSUME NEW table, NEW keys, NEW rows, IsTable(table, keys, rows),
           NEW key \in keys, NEW row \in rows
    PROVE  /\ IsTable(Put(table, key, row), keys, rows)
           /\ DOMAIN Put(table, key, row) = DOMAIN table \cup {key}
           /\ Put(table, key, row)[key] = row
           /\ \A k \in DOMAIN table \ {key} : Put(table, key, row)[k] = table[k]
BY DEF IsTable, Put

\* Appending a row to an append-only table.
LEMMA AppendFacts ==
    ASSUME NEW S, NEW s \in Seq(S), NEW e \in S
    PROVE  /\ Append(s, e) \in Seq(S)
           /\ Len(Append(s, e)) = Len(s) + 1
           /\ DOMAIN Append(s, e) = 1..(Len(s) + 1)
           /\ \A i \in 1..Len(s) : Append(s, e)[i] = s[i]
           /\ Append(s, e)[Len(s) + 1] = e
OBVIOUS

\* Storing a checkpoint keeps every stored one and gives it its ID.
LEMMA InsertFacts ==
    ASSUME objects \in Seq(Checkpoint), NEW cp \in Checkpoint
    PROVE  /\ Insert(cp) \in Seq(Checkpoint)
           /\ IdOf(cp) \in DOMAIN Insert(cp)
           /\ IdOf(cp) \in Nat
           /\ Insert(cp)[IdOf(cp)] = cp
           /\ DOMAIN objects \subseteq DOMAIN Insert(cp)
           /\ \A i \in DOMAIN objects : Insert(cp)[i] = objects[i]
           /\ \A i \in DOMAIN Insert(cp) \ DOMAIN objects :
                 Insert(cp)[i] = cp /\ i = Len(objects) + 1
<1>1. CASE \E i \in DOMAIN objects : objects[i] = cp
  <2>1. PICK i \in DOMAIN objects : objects[i] = cp
    BY <1>1
  <2>2. IdOf(cp) \in DOMAIN objects /\ objects[IdOf(cp)] = cp
    BY <1>1 DEF IdOf
  <2>3. Insert(cp) = objects
    BY <1>1 DEF Insert
  <2>4. DOMAIN objects = 1..Len(objects) /\ Len(objects) \in Nat
    OBVIOUS
  <2>5. QED
    BY <2>2, <2>3, <2>4
<1>2. CASE ~\E i \in DOMAIN objects : objects[i] = cp
  <2>1. Insert(cp) = Append(objects, cp) /\ IdOf(cp) = Len(objects) + 1
    BY <1>2 DEF Insert, IdOf
  <2>2. DOMAIN objects = 1..Len(objects) /\ Len(objects) \in Nat
    OBVIOUS
  <2>3. QED
    BY <2>1, <2>2, AppendFacts
<1>3. QED
  BY <1>1, <1>2

\* A Layer without radar rows (untrack_in).
LEMMA UntrackedTable ==
    \A rows : IsTable(Untracked, Paths, rows)
BY DEF IsTable, Untracked

\* Moving a Layer's radar rows keeps them rows of layer_paths (track_in).
LEMMA TrackTable ==
    ASSUME NEW rows, IsTable(rows, Paths, PathRow), NEW ch \in Changes,
           NEW id \in Nat
    PROVE  IsTable(Track(rows, ch, id), Paths, PathRow)
<1>1. DOMAIN ch \subseteq Paths /\ \A p \in DOMAIN ch : ch[p] \in Entries
  BY ChangesType
<1>2. \A p \in DOMAIN rows : rows[p] \in PathRow
  BY DEF IsTable
<1>3. \A p \in DOMAIN ch : [entry |-> ch[p], checkpoint |-> id] \in PathRow
  BY <1>1 DEF PathRow
<1>4. QED
  BY <1>1, <1>2, <1>3 DEF IsTable, Track

-----------------------------------------------------------------------------
(* The inductive invariant.                                                *)

\* Every head event names a stored checkpoint.
EventsStored ==
    \A l \in Layers : \A i \in DOMAIN heads[l] :
       heads[l][i].checkpoint \in DOMAIN objects

\* A call in flight was prepared for an event that exists, against a World
\* that exists.
CallsSound ==
    \A h \in DOMAIN calls :
       /\ calls[h].request.expected + 1 \in DOMAIN heads[calls[h].request.layer]
       /\ calls[h].against \in 0..WorldHead

IInv ==
    /\ TypeOK
    /\ versions # <<>>
    /\ HistoryValid
    /\ CheckpointsValid
    /\ EventsStored
    /\ CallsSound

\* Every World from genesis to the head is stored (head_in, version_in).
LEMMA VersionFacts ==
    ASSUME TypeOK, versions # <<>>
    PROVE  /\ Len(versions) \in Nat \ {0}
           /\ WorldHead \in Nat
           /\ DOMAIN versions = 1..Len(versions)
           /\ \A n \in 0..WorldHead :
                 /\ n + 1 \in DOMAIN versions
                 /\ versions[n + 1] \in VersionRow
                 /\ TreeOf(n) \in Tree
<1>1. versions \in Seq(VersionRow)
  BY DEF TypeOK
<1>2. Len(versions) \in Nat \ {0} /\ DOMAIN versions = 1..Len(versions)
  BY <1>1
<1>3. \A i \in DOMAIN versions : versions[i] \in VersionRow
  BY <1>1
<1>4. \A n \in 0..WorldHead : n + 1 \in DOMAIN versions
  BY <1>2 DEF WorldHead
<1>5. QED
  BY <1>2, <1>3, <1>4 DEF WorldHead, TreeOf, VersionRow

\* Every World snapshot keeps files and directories apart.
LEMMA WorldsWellFormed ==
    ASSUME IInv
    PROVE  \A n \in 0..WorldHead : TreeOf(n) \in Tree /\ WellFormed(TreeOf(n))
<1>1. \A n \in 0..WorldHead : TreeOf(n) \in Tree
  BY VersionFacts DEF IInv
<1>2. WellFormed(TreeOf(0))
  BY EmptyTyped DEF IInv, HistoryValid, VersionValid, TreeOf
<1>3. \A n \in 1..WorldHead : WellFormed(TreeOf(n))
  BY DEF IInv, HistoryValid, VersionValid, TreeOf
<1>4. WorldHead \in Nat
  BY VersionFacts DEF IInv
<1>5. QED
  BY <1>1, <1>2, <1>3, <1>4

\* The checkpoint behind an existing head event.
LEMMA HeadFacts ==
    ASSUME IInv, NEW l \in Layers, NEW r \in Nat, r + 1 \in DOMAIN heads[l]
    PROVE  /\ EventAt(l, r) \in Event
           /\ EventAt(l, r).checkpoint \in DOMAIN objects
           /\ CheckpointAt(l, r) \in Checkpoint
           /\ CheckpointAt(l, r).base \in 0..WorldHead
           /\ CheckpointAt(l, r).changes \in Changes
           /\ Canonical(TreeOf(CheckpointAt(l, r).base), CheckpointAt(l, r).changes)
           /\ CheckpointAt(l, r).sources \subseteq DOMAIN objects
<1>1. heads[l] \in Seq(Event) /\ objects \in Seq(Checkpoint)
  BY DEF IInv, TypeOK
<1>2. EventAt(l, r) \in Event /\ EventAt(l, r).checkpoint \in DOMAIN objects
  BY <1>1 DEF EventAt, IInv, EventsStored
<1>3. CheckpointAt(l, r) \in Checkpoint
  BY <1>1, <1>2 DEF CheckpointAt
<1>4. /\ CheckpointAt(l, r).base \in 0..WorldHead
      /\ Canonical(TreeOf(CheckpointAt(l, r).base), CheckpointAt(l, r).changes)
      /\ CheckpointAt(l, r).sources \subseteq 1..(EventAt(l, r).checkpoint - 1)
  BY <1>2 DEF IInv, CheckpointsValid, CheckpointValid, CheckpointAt
<1>5. CheckpointAt(l, r).changes \in Changes
  BY <1>3 DEF Checkpoint
<1>6. CheckpointAt(l, r).sources \subseteq DOMAIN objects
  BY <1>1, <1>2, <1>4
<1>7. QED
  BY <1>2, <1>3, <1>4, <1>5, <1>6

-----------------------------------------------------------------------------
(* Steps on Layers.                                                        *)

\* What prepare_checkpoint builds may be stored.
LEMMA PrepareFacts ==
    ASSUME IInv, NEW base \in 0..WorldHead, NEW ch \in Changes,
           Normalizes(TreeOf(base), ch), NEW sources \in SUBSET DOMAIN objects,
           NEW pv \in Provenances \cup {None}
    PROVE  LET cp == PrepareCheckpoint(base, ch, sources, pv)
           IN  /\ cp \in Checkpoint
               /\ cp.base \in 0..WorldHead
               /\ Canonical(TreeOf(cp.base), cp.changes)
               /\ cp.sources \subseteq DOMAIN objects
<1> DEFINE cp == PrepareCheckpoint(base, ch, sources, pv)
<1>1. TreeOf(base) \in Tree
  BY WorldsWellFormed
<1>2. Normalize(TreeOf(base), ch) \in Changes
  BY <1>1, NormalizeTyped
<1>3. Canonical(TreeOf(base), Normalize(TreeOf(base), ch))
  BY <1>1, NormalizeCanonical
<1>4. objects \in Seq(Checkpoint) /\ WorldHead \in Nat
  BY VersionFacts DEF IInv, TypeOK
<1>5. sources \in SUBSET Nat /\ base \in Nat
  BY <1>4
<1>6. cp = [base |-> base, changes |-> Normalize(TreeOf(base), ch),
            sources |-> sources, provenance |-> pv]
  BY DEF PrepareCheckpoint
<1>7. cp \in Checkpoint
  BY <1>2, <1>5, <1>6 DEF Checkpoint
<1>8. QED
  BY <1>3, <1>6, <1>7

\* Storing an acceptable checkpoint keeps every stored one acceptable.
LEMMA StoreCheckpoint ==
    ASSUME IInv, NEW cp \in Checkpoint, cp.base \in 0..WorldHead,
           Canonical(TreeOf(cp.base), cp.changes),
           cp.sources \subseteq DOMAIN objects,
           objects' = Insert(cp), versions' = versions
    PROVE  /\ objects' \in Seq(Checkpoint)
           /\ IdOf(cp) \in DOMAIN objects'
           /\ IdOf(cp) \in Nat
           /\ DOMAIN objects \subseteq DOMAIN objects'
           /\ CheckpointsValid'
<1>1. objects \in Seq(Checkpoint)
  BY DEF IInv, TypeOK
<1>2. /\ objects' \in Seq(Checkpoint)
      /\ IdOf(cp) \in DOMAIN objects'
      /\ IdOf(cp) \in Nat
      /\ DOMAIN objects \subseteq DOMAIN objects'
      /\ \A i \in DOMAIN objects : objects'[i] = objects[i]
      /\ \A i \in DOMAIN objects' \ DOMAIN objects :
            objects'[i] = cp /\ i = Len(objects) + 1
  BY <1>1, InsertFacts
<1>3. DOMAIN objects = 1..Len(objects) /\ Len(objects) \in Nat
  BY <1>1
<1>4. WorldHead' = WorldHead /\ \A n : TreeOf(n)' = TreeOf(n)
  BY DEF WorldHead, TreeOf
<1>5. ASSUME NEW i \in DOMAIN objects'
      PROVE  /\ objects'[i].base \in 0..WorldHead
             /\ Canonical(TreeOf(objects'[i].base), objects'[i].changes)
             /\ objects'[i].sources \subseteq 1..(i - 1)
  <2>1. CASE i \in DOMAIN objects
    BY <1>2, <2>1 DEF IInv, CheckpointsValid, CheckpointValid
  <2>2. CASE i \notin DOMAIN objects
    BY <1>2, <1>3, <2>2
  <2>3. QED
    BY <2>1, <2>2
<1>6. CheckpointsValid'
  BY <1>4, <1>5 DEF CheckpointsValid, CheckpointValid, TreeOf
<1>7. QED
  BY <1>2, <1>6

\* The World history stays valid when attempts are only added.
LEMMA HistoryKept ==
    ASSUME HistoryValid, versions' = versions,
           \A op \in DOMAIN attempts :
              op \in DOMAIN attempts' /\ attempts'[op] = attempts[op]
    PROVE  HistoryValid' /\ WorldHead' = WorldHead
<1>1. WorldHead' = WorldHead /\ \A n : TreeOf(n)' = TreeOf(n)
  BY DEF WorldHead, TreeOf
<1>2. ASSUME NEW n \in 1..WorldHead
      PROVE  LET world == versions[n + 1]
             IN  /\ WellFormed(world.tree)
                 /\ Canonical(TreeOf(n - 1), world.changes)
                 /\ world.tree = Apply(TreeOf(n - 1), world.changes)
                 /\ world.operation \in DOMAIN attempts'
                 /\ LET attempt == attempts'[world.operation]
                    IN  /\ attempt.accepted
                        /\ attempt.result = n
                        /\ attempt.expected = n - 1
                        /\ attempt.tree \in {None, world.tree}
  <2>1. versions[n + 1].operation \in DOMAIN attempts
    BY DEF HistoryValid, VersionValid
  <2>2. attempts'[versions[n + 1].operation] = attempts[versions[n + 1].operation]
    BY <2>1
  <2>3. QED
    BY <2>1, <2>2 DEF HistoryValid, VersionValid
<1>3. QED
  BY <1>1, <1>2 DEF HistoryValid, VersionValid, TreeOf

\* create_layer and clone_layer.
LEMMA CreateStep ==
    ASSUME IInv, NEW l \in Layers, NEW cp \in Checkpoint,
           cp.base \in 0..WorldHead,
           Canonical(TreeOf(cp.base), cp.changes),
           cp.sources \subseteq DOMAIN objects,
           CreateIn(l, cp)
    PROVE  IInv'
<1>1. /\ objects' = Insert(cp) /\ heads[l] = <<>>
      /\ heads' = [heads EXCEPT ![l] =
            <<[checkpoint |-> IdOf(cp), discarded |-> FALSE, operation |-> None]>>]
      /\ layerPaths' = [layerPaths EXCEPT ![l] = Track(@, cp.changes, IdOf(cp))]
      /\ UNCHANGED <<versions, attempts, layerAttempts, publications, blame, calls>>
  BY DEF CreateIn
<1>2. /\ objects' \in Seq(Checkpoint)
      /\ IdOf(cp) \in DOMAIN objects'
      /\ IdOf(cp) \in Nat
      /\ DOMAIN objects \subseteq DOMAIN objects'
      /\ CheckpointsValid'
  BY <1>1, StoreCheckpoint
<1>3. HistoryValid' /\ WorldHead' = WorldHead
  BY <1>1, HistoryKept DEF IInv
<1> DEFINE event == [checkpoint |-> IdOf(cp), discarded |-> FALSE, operation |-> None]
<1>4. heads \in [Layers -> Seq(Event)]
  BY DEF IInv, TypeOK
<1>5. event \in Event
  BY <1>2 DEF Event
<1>6. /\ heads' \in [Layers -> Seq(Event)]
      /\ heads'[l] = <<event>>
      /\ \A m \in Layers \ {l} : heads'[m] = heads[m]
  <2>1. <<event>> \in Seq(Event)
    BY <1>5
  <2>2. QED
    BY <1>1, <1>4, <2>1
<1>7. EventsStored'
  <2>1. ASSUME NEW m \in Layers, NEW i \in DOMAIN heads'[m]
        PROVE  heads'[m][i].checkpoint \in DOMAIN objects'
    <3>1. CASE m = l
      BY <1>2, <1>6, <3>1
    <3>2. CASE m # l
      BY <1>2, <1>6, <3>2 DEF IInv, EventsStored
    <3>3. QED
      BY <3>1, <3>2
  <2>2. QED
    BY <2>1 DEF EventsStored
<1>8. CallsSound'
  <2>1. ASSUME NEW h \in DOMAIN calls
        PROVE  /\ calls[h].request.expected + 1 \in DOMAIN heads'[calls[h].request.layer]
               /\ calls[h].against \in 0..WorldHead
    <3>1. /\ calls[h].request.expected + 1 \in DOMAIN heads[calls[h].request.layer]
          /\ calls[h].against \in 0..WorldHead
      BY DEF IInv, CallsSound
    <3>2. calls[h].request.layer \in Layers
      BY DEF IInv, TypeOK, IsTable, Call, Request
    <3>3. calls[h].request.layer # l
      BY <1>1, <3>1
    <3>4. QED
      BY <1>6, <3>1, <3>2, <3>3
  <2>2. QED
    BY <1>1, <1>3, <2>1 DEF CallsSound
<1>9. TypeOK'
  <2>1. /\ DOMAIN layerPaths' = Layers
        /\ \A m \in Layers : IsTable(layerPaths'[m], Paths, PathRow)
    <3>1. cp.changes \in Changes
      BY DEF Checkpoint
    <3>2. IsTable(Track(layerPaths[l], cp.changes, IdOf(cp)), Paths, PathRow)
      BY <1>2, <3>1, TrackTable DEF IInv, TypeOK
    <3>3. QED
      BY <1>1, <3>2 DEF IInv, TypeOK
  <2>2. QED
    BY <1>1, <1>2, <1>6, <2>1 DEF IInv, TypeOK
<1>10. QED
  BY <1>1, <1>2, <1>3, <1>7, <1>8, <1>9 DEF IInv

\* update_in, for capture, discard and Stack, accepted or stale.
LEMMA UpdateStep ==
    ASSUME IInv, NEW op \in Operations, NEW l \in Layers, NEW r \in 0..Latest(l),
           NEW cp \in Checkpoint, cp.base \in 0..WorldHead,
           Canonical(TreeOf(cp.base), cp.changes),
           cp.sources \subseteq DOMAIN objects,
           NEW discard \in BOOLEAN, NEW source \in Nat \cup {None},
           NEW resolution \in Resolutions \cup {None},
           UpdateIn(op, l, r, cp, discard, source, resolution)
    PROVE  IInv'
<1> DEFINE accepted == Latest(l) = r /\ ~EventAt(l, Latest(l)).discarded
           result == IF accepted THEN r + 1 ELSE Latest(l)
           row == [layer |-> l, expected |-> r, checkpoint |-> IdOf(cp),
                   discard |-> discard, accepted |-> accepted, result |-> result,
                   source |-> source, resolution |-> resolution]
           event == [checkpoint |-> IdOf(cp), discarded |-> discard,
                     operation |-> op]
<1>1. /\ objects' = Insert(cp)
      /\ layerAttempts' = Put(layerAttempts, op, row)
      /\ heads' = IF accepted THEN [heads EXCEPT ![l] = Append(@, event)] ELSE heads
      /\ layerPaths' =
            IF accepted
            THEN [layerPaths EXCEPT ![l] =
                    IF discard THEN Untracked ELSE Track(@, cp.changes, IdOf(cp))]
            ELSE layerPaths
      /\ UNCHANGED <<versions, attempts, publications, blame, calls>>
  BY DEF UpdateIn
<1> HIDE DEF accepted
<1>2. /\ objects' \in Seq(Checkpoint)
      /\ IdOf(cp) \in DOMAIN objects'
      /\ IdOf(cp) \in Nat
      /\ DOMAIN objects \subseteq DOMAIN objects'
      /\ CheckpointsValid'
  BY <1>1, StoreCheckpoint
<1>3. HistoryValid' /\ WorldHead' = WorldHead
  BY <1>1, HistoryKept DEF IInv
<1>4. /\ heads \in [Layers -> Seq(Event)]
      /\ IsTable(layerAttempts, Operations, LayerAttemptRow)
      /\ DOMAIN layerPaths = Layers
      /\ \A m \in Layers : IsTable(layerPaths[m], Paths, PathRow)
  BY DEF IInv, TypeOK
<1>5. event \in Event
  BY <1>2 DEF Event
<1>6. Latest(l) \in Nat /\ r \in Nat
  BY <1>4 DEF Latest
<1>7. /\ heads' \in [Layers -> Seq(Event)]
      /\ \A m \in Layers :
            /\ DOMAIN heads[m] \subseteq DOMAIN heads'[m]
            /\ \A i \in DOMAIN heads'[m] :
                  IF i \in DOMAIN heads[m] THEN heads'[m][i] = heads[m][i]
                                           ELSE heads'[m][i] = event
  <2>1. CASE accepted
    <3>1. heads' = [heads EXCEPT ![l] = Append(heads[l], event)]
      BY <1>1, <2>1
    <3>2. /\ Append(heads[l], event) \in Seq(Event)
          /\ DOMAIN Append(heads[l], event) = 1..(Len(heads[l]) + 1)
          /\ \A i \in 1..Len(heads[l]) : Append(heads[l], event)[i] = heads[l][i]
          /\ Append(heads[l], event)[Len(heads[l]) + 1] = event
      BY <1>4, <1>5, AppendFacts
    <3>3. DOMAIN heads[l] = 1..Len(heads[l]) /\ Len(heads[l]) \in Nat
      BY <1>4
    <3>4. heads'[l] = Append(heads[l], event)
            /\ \A m \in Layers \ {l} : heads'[m] = heads[m]
      BY <1>4, <3>1
    <3>5. heads' \in [Layers -> Seq(Event)]
      BY <1>4, <3>1, <3>2
    <3>6. ASSUME NEW i \in DOMAIN heads'[l], i \notin DOMAIN heads[l]
          PROVE  heads'[l][i] = event
      BY <3>2, <3>3, <3>4, <3>6
    <3>7. /\ DOMAIN heads[l] \subseteq DOMAIN heads'[l]
          /\ \A i \in DOMAIN heads[l] : heads'[l][i] = heads[l][i]
      BY <3>2, <3>3, <3>4
    <3> HIDE DEF event
    <3>8. QED
      BY <3>4, <3>5, <3>6, <3>7
  <2>2. CASE ~accepted
    BY <1>1, <1>4, <2>2
  <2>3. QED
    BY <2>1, <2>2
<1>8. EventsStored'
  BY <1>2, <1>7 DEF IInv, EventsStored
<1>9. CallsSound'
  <2>1. \A h \in DOMAIN calls : calls[h].request.layer \in Layers
    BY DEF IInv, TypeOK, IsTable, Call, Request
  <2>2. QED
    BY <1>1, <1>3, <1>7, <2>1 DEF IInv, CallsSound
<1>10. IsTable(layerAttempts', Operations, LayerAttemptRow)
  <2>1. accepted \in BOOLEAN
    BY DEF accepted
  <2>2. result \in Nat
    BY <1>6
  <2>3. row \in LayerAttemptRow
    BY <1>2, <1>6, <2>1, <2>2 DEF LayerAttemptRow
  <2>4. QED
    BY <1>1, <1>4, <2>3, PutTable
<1>11. /\ DOMAIN layerPaths' = Layers
       /\ \A m \in Layers : IsTable(layerPaths'[m], Paths, PathRow)
  <2>1. cp.changes \in Changes
    BY DEF Checkpoint
  <2>2. IsTable(Track(layerPaths[l], cp.changes, IdOf(cp)), Paths, PathRow)
    BY <1>2, <1>4, <2>1, TrackTable
  <2>3. IsTable(Untracked, Paths, PathRow)
    BY UntrackedTable
  <2>4. QED
    BY <1>1, <1>4, <2>2, <2>3
<1>12. TypeOK'
  BY <1>1, <1>2, <1>7, <1>10, <1>11 DEF IInv, TypeOK
<1>13. QED
  BY <1>1, <1>2, <1>3, <1>8, <1>9, <1>12 DEF IInv

\* Every step on a Layer keeps the invariant.
LEMMA LayerStep ==
    ASSUME IInv, LayerNext
    PROVE  IInv'
<1>1. PICK l \in Layers :
       \/ \E base \in 0..WorldHead : CreateLayer(l, base)
       \/ \E id \in DOMAIN objects : CloneLayer(l, id)
       \/ \E op \in Operations, r \in 0..Latest(l) :
             \/ \E ch \in InputChanges, pv \in Provenances \cup {None} :
                   CaptureLayer(op, l, r, ch, pv)
             \/ \E ch \in StackChanges, pv \in Provenances \cup {None},
                   source \in DOMAIN objects, res \in Resolutions \cup {None} :
                   CommitStack(op, l, r, source, ch, res, pv)
             \/ DiscardLayer(op, l, r)
  BY DEF LayerNext
<1>2. ASSUME NEW base \in 0..WorldHead, CreateLayer(l, base)
      PROVE  IInv'
  <2>1. TreeOf(base) \in Tree /\ NoChanges \in Changes
    BY WorldsWellFormed, EmptyTyped
  <2>2. Normalizes(TreeOf(base), NoChanges)
    BY DEF Normalizes, Delta, NoChanges
  <2>3. QED
    BY <1>2, <2>1, <2>2, PrepareFacts, CreateStep DEF CreateLayer
<1>3. ASSUME NEW id \in DOMAIN objects, CloneLayer(l, id)
      PROVE  IInv'
  <2>1. objects \in Seq(Checkpoint)
    BY DEF IInv, TypeOK
  <2>2. objects[id] \in Checkpoint
    BY <2>1
  <2>3. /\ objects[id].base \in 0..WorldHead
        /\ Canonical(TreeOf(objects[id].base), objects[id].changes)
        /\ objects[id].sources \subseteq DOMAIN objects
    BY <2>1 DEF IInv, CheckpointsValid, CheckpointValid
  <2>4. QED
    BY <1>3, <2>2, <2>3, CreateStep DEF CloneLayer
<1>4. ASSUME NEW op \in Operations, NEW r \in 0..Latest(l), VerifyHead(l, r)
      PROVE  /\ CheckpointAt(l, r) \in Checkpoint
             /\ CheckpointAt(l, r).base \in 0..WorldHead
             /\ CheckpointAt(l, r).changes \in Changes
             /\ Canonical(TreeOf(CheckpointAt(l, r).base), CheckpointAt(l, r).changes)
             /\ CheckpointAt(l, r).sources \subseteq DOMAIN objects
  <2>1. r \in Nat
    BY DEF IInv, TypeOK, Latest
  <2>2. QED
    BY <1>4, <2>1, HeadFacts DEF VerifyHead
<1>5. ASSUME NEW op \in Operations, NEW r \in 0..Latest(l), NEW ch \in InputChanges,
             NEW pv \in Provenances \cup {None}, CaptureLayer(op, l, r, ch, pv)
      PROVE  IInv'
  <2>1. ch \in Changes
    BY InputsAssumption
  <2> DEFINE before == CheckpointAt(l, r)
             cp == PrepareCheckpoint(before.base, ch, before.sources, pv)
  <2>2. VerifyHead(l, r) /\ Normalizes(TreeOf(before.base), ch)
          /\ UpdateIn(op, l, r, cp, FALSE, None, None)
    BY <1>5 DEF CaptureLayer
  <2>3. /\ cp \in Checkpoint /\ cp.base \in 0..WorldHead
        /\ Canonical(TreeOf(cp.base), cp.changes)
        /\ cp.sources \subseteq DOMAIN objects
    BY <1>4, <2>1, <2>2, PrepareFacts
  <2> HIDE DEF cp
  <2>4. QED
    BY <2>2, <2>3, UpdateStep
<1>6. ASSUME NEW op \in Operations, NEW r \in 0..Latest(l), NEW ch \in StackChanges,
             NEW pv \in Provenances \cup {None}, NEW source \in DOMAIN objects,
             NEW res \in Resolutions \cup {None},
             CommitStack(op, l, r, source, ch, res, pv)
      PROVE  IInv'
  <2>1. ch \in Changes
    BY InputsAssumption
  <2> DEFINE before == CheckpointAt(l, r)
             sources == before.sources \cup {source}
             cp == PrepareCheckpoint(before.base, ch, sources, pv)
  <2>2. VerifyHead(l, r) /\ Normalizes(TreeOf(before.base), ch)
          /\ UpdateIn(op, l, r, cp, FALSE, source, res)
    BY <1>6 DEF CommitStack
  <2>3. sources \in SUBSET DOMAIN objects /\ before.base \in 0..WorldHead
    BY <1>4, <2>2
  <2>4. /\ cp \in Checkpoint /\ cp.base \in 0..WorldHead
        /\ Canonical(TreeOf(cp.base), cp.changes)
        /\ cp.sources \subseteq DOMAIN objects
    BY <2>1, <2>2, <2>3, PrepareFacts
  <2>5. source \in Nat
    BY DEF IInv, TypeOK
  <2> HIDE DEF cp
  <2>6. QED
    BY <2>2, <2>4, <2>5, UpdateStep
<1>7. ASSUME NEW op \in Operations, NEW r \in 0..Latest(l), DiscardLayer(op, l, r)
      PROVE  IInv'
  <2>1. VerifyHead(l, r) /\ UpdateIn(op, l, r, CheckpointAt(l, r), TRUE, None, None)
    BY <1>7 DEF DiscardLayer
  <2>2. QED
    BY <1>4, <2>1, UpdateStep
<1>8. QED
  BY <1>1, <1>2, <1>3, <1>5, <1>6, <1>7

-----------------------------------------------------------------------------
(* Steps on the World.                                                     *)

\* append_version_in with its attempt, for a direct advance and a Publish.
LEMMA AppendStep ==
    ASSUME IInv, NEW op \in Operations, op \notin DOMAIN attempts,
           NEW ch \in Changes, NEW tree \in Tree, WellFormed(tree),
           Canonical(TreeOf(WorldHead), ch),
           tree = Apply(TreeOf(WorldHead), ch),
           NEW candidate \in {None, tree}, NEW attributed \in BlameRow,
           attempts' = Put(attempts, op,
              [expected |-> WorldHead, tree |-> candidate, accepted |-> TRUE,
               result |-> WorldHead + 1]),
           AppendVersion(op, ch, tree, attributed),
           objects' = objects
    PROVE  /\ versions' \in Seq(VersionRow)
           /\ versions' # <<>>
           /\ WorldHead' = WorldHead + 1
           /\ blame' \in Seq(BlameRow) /\ Len(blame') = Len(versions')
           /\ IsTable(attempts', Operations, AttemptRow)
           /\ HistoryValid'
           /\ CheckpointsValid'
<1> DEFINE world == [tree |-> tree, changes |-> ch, operation |-> op]
           row == [expected |-> WorldHead, tree |-> candidate, accepted |-> TRUE,
                   result |-> WorldHead + 1]
<1>1. /\ versions \in Seq(VersionRow)
      /\ blame \in Seq(BlameRow) /\ Len(blame) = Len(versions)
      /\ IsTable(attempts, Operations, AttemptRow)
  BY DEF IInv, TypeOK
<1>2. WorldHead \in Nat /\ Len(versions) = WorldHead + 1
        /\ DOMAIN versions = 1..Len(versions)
  BY VersionFacts DEF IInv, WorldHead
<1>3. world \in VersionRow
  BY DEF VersionRow
<1>4. versions' = Append(versions, world) /\ blame' = Append(blame, attributed)
  BY DEF AppendVersion
<1>5. /\ versions' \in Seq(VersionRow)
      /\ Len(versions') = Len(versions) + 1
      /\ \A i \in 1..Len(versions) : versions'[i] = versions[i]
      /\ versions'[Len(versions) + 1] = world
  BY <1>1, <1>3, <1>4, AppendFacts
<1>6. blame' \in Seq(BlameRow) /\ Len(blame') = Len(versions')
  BY <1>1, <1>4, <1>5, AppendFacts
<1>7. WorldHead' = WorldHead + 1 /\ versions' # <<>>
  BY <1>2, <1>5 DEF WorldHead
<1>8. row \in AttemptRow
  BY <1>2 DEF AttemptRow
<1>9. /\ IsTable(attempts', Operations, AttemptRow)
      /\ DOMAIN attempts' = DOMAIN attempts \cup {op}
      /\ attempts'[op] = row
      /\ \A o \in DOMAIN attempts : attempts'[o] = attempts[o]
  <2>1. attempts' = Put(attempts, op, row)
    OBVIOUS
  <2> HIDE DEF row
  <2>2. IsTable(attempts', Operations, AttemptRow)
    BY <1>1, <1>8, <2>1 DEF IsTable, Put
  <2>3. QED
    BY <2>1, <2>2 DEF Put
<1>10. /\ \A n \in 0..WorldHead : versions'[n + 1] = versions[n + 1]
       /\ versions'[WorldHead + 2] = world
  BY <1>2, <1>5
<1> HIDE DEF world, row
<1>11. HistoryValid'
  <2>1. versions'[1] = versions[1]
    BY <1>2, <1>5
  <2>2. ASSUME NEW n \in 1..WorldHead'
        PROVE  /\ WellFormed(versions'[n + 1].tree)
               /\ Canonical(versions'[n].tree, versions'[n + 1].changes)
               /\ versions'[n + 1].tree =
                     Apply(versions'[n].tree, versions'[n + 1].changes)
               /\ versions'[n + 1].operation \in DOMAIN attempts'
               /\ attempts'[versions'[n + 1].operation].accepted
               /\ attempts'[versions'[n + 1].operation].result = n
               /\ attempts'[versions'[n + 1].operation].expected = n - 1
               /\ attempts'[versions'[n + 1].operation].tree
                     \in {None, versions'[n + 1].tree}
    <3>1. CASE n \in 1..WorldHead
      <4>1. versions'[n + 1] = versions[n + 1] /\ versions'[n] = versions[n]
        BY <1>2, <1>5, <3>1
      <4>2. (n - 1) + 1 = n
        OBVIOUS
      <4>3. /\ WellFormed(versions[n + 1].tree)
            /\ Canonical(versions[n].tree, versions[n + 1].changes)
            /\ versions[n + 1].tree = Apply(versions[n].tree, versions[n + 1].changes)
            /\ versions[n + 1].operation \in DOMAIN attempts
            /\ attempts[versions[n + 1].operation].accepted
            /\ attempts[versions[n + 1].operation].result = n
            /\ attempts[versions[n + 1].operation].expected = n - 1
            /\ attempts[versions[n + 1].operation].tree
                  \in {None, versions[n + 1].tree}
        BY <3>1, <4>2 DEF IInv, HistoryValid, VersionValid, TreeOf
      <4>4. QED
        BY <1>9, <4>1, <4>3
    <3>2. CASE n = WorldHead + 1
      <4>1. versions'[n + 1] = world /\ versions'[n] = versions[WorldHead + 1]
        BY <1>2, <1>5, <3>2
      <4>2. /\ versions'[n + 1].tree = tree
            /\ versions'[n + 1].changes = ch
            /\ versions'[n + 1].operation = op
            /\ versions'[n].tree = TreeOf(WorldHead)
        BY <4>1 DEF world, TreeOf
      <4>3. /\ row.accepted /\ row.result = n
            /\ row.expected = n - 1 /\ row.tree \in {None, tree}
        BY <1>2, <3>2 DEF row
      <4>4. QED
        BY <1>9, <4>2, <4>3
    <3>3. QED
      BY <1>2, <1>7, <3>1, <3>2
  <2>3. \A n \in 1..WorldHead' : (n - 1) + 1 = n
    BY <1>2, <1>7
  <2>4. QED
    BY <2>1, <2>2, <2>3 DEF IInv, HistoryValid, VersionValid, TreeOf
<1>12. CheckpointsValid'
  <2>1. \A n \in 0..WorldHead : TreeOf(n)' = TreeOf(n) /\ n \in 0..WorldHead'
    BY <1>2, <1>7, <1>10 DEF TreeOf
  <2>2. QED
    BY <2>1 DEF IInv, CheckpointsValid, CheckpointValid, TreeOf
<1>13. QED
  BY <1>5, <1>6, <1>7, <1>9, <1>11, <1>12

\* compare_and_advance, accepted or stale.
LEMMA AdvanceStep ==
    ASSUME IInv, NEW op \in Operations, NEW expected \in 0..WorldHead,
           NEW tree \in InputTrees, CompareAndAdvance(op, expected, tree)
    PROVE  IInv'
<1>1. tree \in Tree /\ WellFormed(tree)
  BY InputsAssumption
<1>2. /\ UNCHANGED <<objects, heads, layerAttempts, publications, layerPaths, calls>>
      /\ op \notin DOMAIN attempts
  BY DEF CompareAndAdvance
<1>3. WorldHead \in Nat
  BY VersionFacts DEF IInv
<1>4. CASE expected = WorldHead
  <2>1. TreeOf(WorldHead) \in Tree /\ WellFormed(TreeOf(WorldHead))
    BY <1>3, WorldsWellFormed
  <2> DEFINE ch == Diff(TreeOf(WorldHead), tree)
  <2>2. ch \in Changes /\ Canonical(TreeOf(WorldHead), ch)
          /\ tree = Apply(TreeOf(WorldHead), ch)
    BY <1>1, <2>1, DiffTyped, DiffCanonical
  <2>3. Unblamed \in BlameRow
    BY DEF Unblamed, BlameRow
  <2>4. attempts' = Put(attempts, op,
              [expected |-> WorldHead, tree |-> tree, accepted |-> TRUE,
               result |-> WorldHead + 1])
    BY <1>4 DEF CompareAndAdvance, AdvanceResult
  <2>5. AppendVersion(op, ch, tree, Unblamed)
    BY <1>4 DEF CompareAndAdvance
  <2> HIDE DEF ch
  <2>6. /\ versions' \in Seq(VersionRow)
        /\ versions' # <<>>
        /\ WorldHead' = WorldHead + 1
        /\ blame' \in Seq(BlameRow) /\ Len(blame') = Len(versions')
        /\ IsTable(attempts', Operations, AttemptRow)
        /\ HistoryValid'
        /\ CheckpointsValid'
    BY <1>1, <1>2, <2>2, <2>3, <2>4, <2>5, AppendStep
  <2>7. TypeOK'
    BY <1>2, <2>6 DEF IInv, TypeOK
  <2>8. EventsStored' /\ CallsSound'
    BY <1>2, <1>3, <2>6 DEF IInv, EventsStored, CallsSound
  <2>9. QED
    BY <2>6, <2>7, <2>8 DEF IInv
<1>5. CASE expected # WorldHead
  <2> DEFINE row == [expected |-> expected, tree |-> tree, accepted |-> FALSE,
                     result |-> WorldHead]
  <2>1. attempts' = Put(attempts, op, row) /\ UNCHANGED <<versions, blame>>
    BY <1>5 DEF CompareAndAdvance, AdvanceResult
  <2>2. row \in AttemptRow
    BY <1>1, <1>3 DEF AttemptRow
  <2>3. IsTable(attempts', Operations, AttemptRow)
    BY <2>1, <2>2 DEF IInv, TypeOK, IsTable, Put
  <2>4. \A o \in DOMAIN attempts : o \in DOMAIN attempts' /\ attempts'[o] = attempts[o]
    BY <1>2, <2>1 DEF Put
  <2>5. WorldHead' = WorldHead /\ \A n : TreeOf(n)' = TreeOf(n)
    BY <2>1 DEF WorldHead, TreeOf
  <2>6. HistoryValid'
    BY <2>1, <2>4, HistoryKept DEF IInv
  <2>7. CheckpointsValid' /\ EventsStored' /\ CallsSound'
    BY <1>2, <2>1 DEF IInv, CheckpointsValid, CheckpointValid, EventsStored,
                      CallsSound, WorldHead, TreeOf
  <2>8. TypeOK'
    BY <1>2, <2>1, <2>3 DEF IInv, TypeOK
  <2>9. QED
    BY <2>1, <2>6, <2>7, <2>8 DEF IInv
<1>6. QED
  BY <1>4, <1>5

\* A step that only changes the Publish calls and the receipts.
LEMMA CallStep ==
    ASSUME IInv, IsTable(calls', Handles, Call), CallsSound',
           IsTable(publications', Operations, PublicationRow),
           UNCHANGED <<versions, attempts, objects, heads, layerAttempts,
                       layerPaths, blame>>
    PROVE  IInv'
<1>1. HistoryValid' /\ CheckpointsValid' /\ EventsStored' /\ versions' # <<>>
  BY DEF IInv, HistoryValid, VersionValid, CheckpointsValid, CheckpointValid,
         EventsStored, WorldHead, TreeOf
<1>2. TypeOK'
  BY DEF IInv, TypeOK
<1>3. QED
  BY <1>1, <1>2 DEF IInv

\* A step that only ends calls leaves the others as they were prepared.
LEMMA CallsKept ==
    ASSUME IInv, NEW h, calls' = Remove(calls, h),
           UNCHANGED <<versions, heads>>
    PROVE  IsTable(calls', Handles, Call) /\ CallsSound'
<1>1. IsTable(calls', Handles, Call)
  BY DEF IInv, TypeOK, IsTable, Remove
<1>2. CallsSound'
  BY DEF IInv, CallsSound, Remove, WorldHead
<1>3. QED
  BY <1>1, <1>2

\* layer_state_in returns a Layer state.
LEMMA StateTyped ==
    ASSUME IInv, NEW l \in Layers, heads[l] # <<>>
    PROVE  StateOf(l) \in LayerState
<1>1. Latest(l) \in Nat
  BY DEF IInv, TypeOK, Latest
<1>2. CASE PublishedBy(l) # {}
  <2>1. PICK op \in PublishedBy(l) : StateOf(l) = SuccessState(op)
    BY <1>2 DEF StateOf
  <2>2. op \in Operations /\ publications[op] \in PublicationRow
    BY DEF PublishedBy, IInv, TypeOK, IsTable
  <2>3. QED
    BY <2>1, <2>2 DEF SuccessState, LayerState, PublicationRow
<1>3. CASE PublishedBy(l) = {}
  BY <1>1, <1>3 DEF StateOf, EventState, LayerState
<1>4. QED
  BY <1>2, <1>3

\* publish_layer prepares, at first or again.
LEMMA PrepareStep ==
    ASSUME IInv, NEW h \in Handles, NEW request \in Request,
           Admissible(request), Prepare(h, request),
           UNCHANGED <<versions, attempts, objects, heads, layerAttempts,
                       publications, layerPaths, blame>>
    PROVE  IInv'
<1> DEFINE call == [request |-> request, phase |-> "prepared",
                    against |-> WorldHead, actual |-> StateOf(request.layer)]
<1>1. calls' = Put(calls, h, call)
  BY DEF Prepare
<1>2. request.expected + 1 \in DOMAIN heads[request.layer]
  BY DEF Admissible, VerifyHead
<1>3. request.layer \in Layers /\ request.expected \in Nat
  BY DEF Request
<1>4. heads[request.layer] # <<>>
  BY <1>2
<1>5. WorldHead \in Nat /\ WorldHead' = WorldHead
  BY VersionFacts DEF IInv, WorldHead
<1>6. call \in Call
  BY <1>3, <1>4, <1>5, StateTyped DEF Call
<1>7. /\ call.request.expected + 1 \in DOMAIN heads[call.request.layer]
      /\ call.against \in 0..WorldHead
  BY <1>2, <1>5
<1> HIDE DEF call
<1>8. IsTable(calls', Handles, Call)
  BY <1>1, <1>6 DEF IInv, TypeOK, IsTable, Put
<1>9. CallsSound'
  BY <1>1, <1>5, <1>7 DEF IInv, CallsSound, Put
<1>10. IsTable(publications', Operations, PublicationRow)
  BY DEF IInv, TypeOK
<1>11. QED
  BY <1>8, <1>9, <1>10, CallStep

\* The facts a call in flight carries.
LEMMA CallFacts ==
    ASSUME IInv, NEW h \in DOMAIN calls
    PROVE  /\ calls[h] \in Call
           /\ calls[h].request \in Request
           /\ calls[h].request.operation \in Operations
           /\ calls[h].request.layer \in Layers
           /\ calls[h].request.expected \in Nat
           /\ calls[h].against \in 0..WorldHead
           /\ calls[h].request.expected + 1 \in DOMAIN heads[calls[h].request.layer]
<1>1. calls[h] \in Call
  BY DEF IInv, TypeOK, IsTable
<1>2. calls[h].request \in Request
  BY <1>1 DEF Call
<1>3. QED
  BY <1>1, <1>2 DEF Request, IInv, CallsSound

\* The receipt of a call is a row of the publications table.
LEMMA ReceiptTyped ==
    ASSUME IInv, NEW h \in DOMAIN calls, NEW result \in Nat,
           NEW paths \in SUBSET Paths,
           NEW outcome \in {"published", "conflict", "stale"},
           CommitReceipt(h, outcome, result, paths)
    PROVE  IsTable(publications', Operations, PublicationRow)
<1> DEFINE row == Receipt(calls[h], outcome, result, paths)
<1>1. publications' = Put(publications, calls[h].request.operation, row)
  BY DEF CommitReceipt
<1>2. calls[h] \in Call /\ calls[h].request \in Request
  BY CallFacts
<1>3. row \in PublicationRow
  BY <1>2 DEF Receipt, PublicationRow, Call, Request
<1>4. calls[h].request.operation \in Operations
  BY CallFacts
<1> HIDE DEF row
<1>5. QED
  BY <1>1, <1>3, <1>4 DEF IInv, TypeOK, IsTable, Put

\* A Publish that lands.
LEMMA PublishStepAdvance ==
    ASSUME IInv, NEW h \in Handles, PublishAdvance(h)
    PROVE  IInv'
<1> DEFINE request == calls[h].request
           against == calls[h].against
           cp == CheckpointAt(request.layer, request.expected)
           changes == cp.changes
<1>1. /\ h \in DOMAIN calls
      /\ StillCurrent(calls[h])
      /\ ComposeConflicts(request, against) = {}
      /\ DOMAIN changes \subseteq DOMAIN layerPaths[request.layer]
      /\ attempts' = Put(attempts, request.operation,
              [expected |-> against, tree |-> None, accepted |-> TRUE,
               result |-> against + 1])
      /\ AppendVersion(request.operation, changes,
                         ComposeTree(request, against),
                         Attributed(request.layer, changes))
      /\ layerPaths' = [layerPaths EXCEPT ![request.layer] = Untracked]
      /\ CommitReceipt(h, "published", against + 1, {})
      /\ UNCHANGED <<objects, heads, layerAttempts>>
  BY DEF PublishAdvance
<1>2. /\ request \in Request
      /\ request.operation \in Operations
      /\ request.layer \in Layers
      /\ request.expected \in Nat
      /\ request.expected + 1 \in DOMAIN heads[request.layer]
  BY <1>1, CallFacts
<1>3. against = WorldHead /\ request.operation \notin DOMAIN attempts
  BY <1>1 DEF StillCurrent
<1>4. /\ cp.base \in 0..WorldHead /\ changes \in Changes
      /\ Canonical(TreeOf(cp.base), changes)
  BY <1>2, HeadFacts
<1>5. WorldHead \in Nat
  BY VersionFacts DEF IInv
<1>6. /\ TreeOf(WorldHead) \in Tree /\ WellFormed(TreeOf(WorldHead))
      /\ TreeOf(cp.base) \in Tree
  BY <1>4, <1>5, WorldsWellFormed
<1>7. Intersections(TreeOf(cp.base), TreeOf(WorldHead), changes) = {}
  BY <1>1, <1>3 DEF ComposeConflicts
<1> DEFINE tree == ComposeTree(request, against)
<1>8. tree = Apply(TreeOf(WorldHead), changes)
  BY <1>3 DEF ComposeTree
<1>9. Canonical(TreeOf(WorldHead), changes) /\ WellFormed(tree) /\ tree \in Tree
  BY <1>4, <1>6, <1>7, <1>8, ComposeCanonical, CanonicalWellFormed, ApplyTyped
<1> DEFINE attributed == Attributed(request.layer, changes)
<1>10. attributed \in BlameRow
  <2>1. IsTable(layerPaths[request.layer], Paths, PathRow)
    BY <1>2 DEF IInv, TypeOK
  <2>2. \A p \in DOMAIN changes : layerPaths[request.layer][p].checkpoint \in Nat
    BY <1>1, <2>1 DEF IsTable, PathRow
  <2>3. QED
    BY <2>2 DEF Attributed, BlameRow
<1> HIDE DEF request, against, cp, tree, attributed
<1>11. /\ versions' \in Seq(VersionRow)
       /\ versions' # <<>>
       /\ WorldHead' = WorldHead + 1
       /\ blame' \in Seq(BlameRow) /\ Len(blame') = Len(versions')
       /\ IsTable(attempts', Operations, AttemptRow)
       /\ HistoryValid'
       /\ CheckpointsValid'
  <2>1. attempts' = Put(attempts, request.operation,
              [expected |-> WorldHead, tree |-> None, accepted |-> TRUE,
               result |-> WorldHead + 1])
    BY <1>1, <1>3
  <2>2. AppendVersion(request.operation, changes, tree, attributed)
    BY <1>1 DEF tree, attributed
  <2>3. objects' = objects
    BY <1>1
  <2> HIDE DEF changes
  <2>4. QED
    BY <1>2, <1>3, <1>4, <1>8, <1>9, <1>10, <2>1, <2>2, <2>3, AppendStep
<1>12. IsTable(publications', Operations, PublicationRow)
  BY <1>1, <1>3, <1>5, ReceiptTyped
<1>13. calls' = Remove(calls, h)
  BY <1>1 DEF CommitReceipt
<1>14. IsTable(calls', Handles, Call)
  BY <1>13 DEF IInv, TypeOK, IsTable, Remove
<1>15. CallsSound' /\ EventsStored'
  BY <1>1, <1>5, <1>11, <1>13 DEF IInv, CallsSound, EventsStored, Remove
<1>16. /\ DOMAIN layerPaths' = Layers
       /\ \A m \in Layers : IsTable(layerPaths'[m], Paths, PathRow)
  BY <1>1, UntrackedTable DEF IInv, TypeOK
<1>17. TypeOK'
  BY <1>1, <1>11, <1>12, <1>14, <1>16 DEF IInv, TypeOK
<1>18. QED
  BY <1>11, <1>15, <1>17 DEF IInv

\* Every step of a Publish call keeps the invariant.
LEMMA PublishNextStep ==
    ASSUME IInv, PublishNext
    PROVE  IInv'
<1>1. PICK h \in Handles :
         \/ \E request \in [operation : Operations, layer : Layers,
                            expected : 0..MaxRevision, attribution : Attributions] :
               PublishLayer(h, request)
         \/ PublishStep(h)
         \/ PublishAbandon(h)
  BY DEF PublishNext
<1>2. ASSUME NEW request \in [operation : Operations, layer : Layers,
                              expected : 0..MaxRevision, attribution : Attributions],
             PublishLayer(h, request)
      PROVE  IInv'
  <2>1. request \in Request
    BY BoundsAssumption DEF Request
  <2>2. QED
    BY <1>2, <2>1, PrepareStep DEF PublishLayer
<1>3. IsTable(publications, Operations, PublicationRow)
  BY DEF IInv, TypeOK
<1>4. CASE PublishMoved(h)
  <2>1. h \in DOMAIN calls /\ calls' = [calls EXCEPT ![h].phase = "moved"]
    BY <1>4 DEF PublishMoved
  <2>2. calls[h] \in Call
    BY <2>1, CallFacts
  <2>3. calls' = [calls EXCEPT ![h] = [calls[h] EXCEPT !.phase = "moved"]]
    BY <2>1
  <2>4. [calls[h] EXCEPT !.phase = "moved"] \in Call
    BY <2>2 DEF Call
  <2>5. IsTable(calls', Handles, Call)
    BY <2>3, <2>4 DEF IInv, TypeOK, IsTable
  <2>6. DOMAIN calls' = DOMAIN calls
          /\ \A g \in DOMAIN calls : /\ calls'[g].request = calls[g].request
                                     /\ calls'[g].against = calls[g].against
    BY <2>2, <2>3 DEF Call
  <2>7. CallsSound'
    BY <1>4, <2>6 DEF PublishMoved, IInv, CallsSound, WorldHead
  <2>8. QED
    BY <1>3, <1>4, <2>5, <2>7, CallStep DEF PublishMoved
<1>5. CASE PublishPrepareAgain(h)
  BY <1>5, CallFacts, PrepareStep DEF PublishPrepareAgain
<1>6. CASE PublishReturn(h) \/ PublishRefused(h) \/ PublishAbandon(h)
  <2>1. /\ calls' = Remove(calls, h)
        /\ UNCHANGED <<versions, attempts, objects, heads, layerAttempts,
                       publications, layerPaths, blame>>
    BY <1>6 DEF PublishReturn, PublishRefused, PublishAbandon
  <2>2. IsTable(calls', Handles, Call) /\ CallsSound'
    BY <2>1, CallsKept
  <2>3. QED
    BY <1>3, <2>1, <2>2, CallStep
<1>7. CASE PublishStale(h)
  <2>1. /\ h \in DOMAIN calls /\ CommitReceipt(h, "stale", 0, {})
        /\ UNCHANGED <<versions, attempts, objects, heads, layerAttempts,
                       layerPaths, blame>>
    BY <1>7 DEF PublishStale
  <2>2. IsTable(publications', Operations, PublicationRow)
    BY <2>1, ReceiptTyped
  <2>3. IsTable(calls', Handles, Call) /\ CallsSound'
    BY <2>1, CallsKept DEF CommitReceipt
  <2>4. QED
    BY <2>1, <2>2, <2>3, CallStep
<1>8. CASE PublishConflict(h)
  <2> DEFINE paths == ComposeConflicts(calls[h].request, calls[h].against)
  <2>1. /\ h \in DOMAIN calls /\ CommitReceipt(h, "conflict", 0, paths)
        /\ UNCHANGED <<versions, attempts, objects, heads, layerAttempts,
                       layerPaths, blame>>
    BY <1>8 DEF PublishConflict
  <2>2. paths \in SUBSET Paths
    <3>1. CheckpointAt(calls[h].request.layer, calls[h].request.expected).changes
            \in Changes
      BY <2>1, CallFacts, HeadFacts
    <3>2. QED
      BY <3>1, ChangesType DEF ComposeConflicts, Intersections, Moved
  <2> HIDE DEF paths
  <2>3. IsTable(publications', Operations, PublicationRow)
    BY <2>1, <2>2, ReceiptTyped
  <2>4. IsTable(calls', Handles, Call) /\ CallsSound'
    BY <2>1, CallsKept DEF CommitReceipt
  <2>5. QED
    BY <2>1, <2>3, <2>4, CallStep
<1>9. CASE PublishAdvance(h)
  BY <1>9, PublishStepAdvance
<1>10. QED
  BY <1>1, <1>2, <1>4, <1>5, <1>6, <1>7, <1>8, <1>9 DEF PublishStep

-----------------------------------------------------------------------------
(* Invariance.                                                             *)

\* Every step of the repository keeps the invariant.
LEMMA InvarianceStep ==
    ASSUME IInv, [Next]_vars
    PROVE  IInv'
<1>1. CASE LayerNext
  BY <1>1, LayerStep
<1>2. CASE WorldNext
  <2>1. PICK op \in Operations :
           \/ \E n \in 0..WorldHead, t \in InputTrees : CompareAndAdvance(op, n, t)
           \/ UNCHANGED vars
    BY <1>2 DEF WorldNext, ReplayUpdate, ReplayAdvance, ReplayPublish
  <2>2. ASSUME UNCHANGED vars
        PROVE  IInv'
    BY <2>2 DEF vars, IInv, TypeOK, HistoryValid, VersionValid, CheckpointsValid,
                CheckpointValid, EventsStored,
                CallsSound, WorldHead, TreeOf
  <2>3. QED
    BY <2>1, <2>2, AdvanceStep
<1>3. CASE PublishNext
  BY <1>3, PublishNextStep
<1>4. CASE UNCHANGED vars
  BY <1>4 DEF vars, IInv, TypeOK, HistoryValid, VersionValid, CheckpointsValid,
              CheckpointValid, EventsStored,
              CallsSound, WorldHead, TreeOf
<1>5. QED
  BY <1>1, <1>2, <1>3, <1>4 DEF Next

\* A new repository, holding only World 0, satisfies the inductive invariant.
LEMMA InitInvariant == Init => IInv
<1> SUFFICES ASSUME Init PROVE IInv
  OBVIOUS
<1> DEFINE genesis == [tree |-> EmptyTree, changes |-> NoChanges, operation |-> None]
<1>1. versions = <<genesis>> /\ genesis \in VersionRow
  BY EmptyTyped DEF Init, VersionRow
<1>2. versions \in Seq(VersionRow) /\ Len(versions) = 1 /\ versions[1] = genesis
  BY <1>1
<1>3. blame = <<Unblamed>> /\ Unblamed \in BlameRow
  BY DEF Unblamed, BlameRow, Init
<1>4. blame \in Seq(BlameRow) /\ Len(blame) = 1
  BY <1>3
<1>5. TypeOK
  <2>1. /\ IsTable(attempts, Operations, AttemptRow)
        /\ IsTable(layerAttempts, Operations, LayerAttemptRow)
        /\ IsTable(publications, Operations, PublicationRow)
        /\ IsTable(calls, Handles, Call)
    BY DEF Init, IsTable
  <2>2. objects \in Seq(Checkpoint) /\ heads \in [Layers -> Seq(Event)]
    BY DEF Init
  <2>3. DOMAIN layerPaths = Layers
          /\ \A l \in Layers : IsTable(layerPaths[l], Paths, PathRow)
    BY UntrackedTable DEF Init
  <2>4. QED
    BY <1>2, <1>4, <2>1, <2>2, <2>3 DEF TypeOK
<1>6. versions # <<>>
  BY <1>2
<1>7. HistoryValid
  BY <1>2 DEF HistoryValid, VersionValid, WorldHead
<1>8. CheckpointsValid /\ EventsStored /\ CallsSound
  BY DEF Init, CheckpointsValid, CheckpointValid, EventsStored, CallsSound
<1>9. QED
  BY <1>5, <1>6, <1>7, <1>8 DEF IInv

\* Every reachable repository satisfies the inductive invariant.
THEOREM Invariance == Spec => []IInv
<1>1. Init => IInv
  BY InitInvariant
<1>2. IInv /\ [Next]_vars => IInv'
  BY InvarianceStep
<1>3. QED
  BY <1>1, <1>2, PTL DEF Spec

\* Every table always holds rows of its schema.
THEOREM TypeCorrect == Spec => []TypeOK
BY Invariance, PTL DEF IInv

\* history_in accepts every reachable World history: a direct advance and a
\* Publish that composed with any number of later Worlds append alike.
THEOREM HistoryCorrect == Spec => []HistoryValid
BY Invariance, PTL DEF IInv

\* checkpoint_node accepts every stored checkpoint, whatever was captured,
\* cloned, stacked or discarded.
THEOREM CheckpointsCorrect == Spec => []CheckpointsValid
BY Invariance, PTL DEF IInv

\* An Active Layer always composes with the current World or conflicts with
\* it: compose_in never fails, so publish_layer never wedges a Layer.
THEOREM LayersNeverWedge == Spec => []NeverWedged
<1>1. IInv => NeverWedged
  <2>1. SUFFICES ASSUME IInv, NEW l \in Layers, heads[l] # <<>>
                 PROVE  Composes([operation |-> None, layer |-> l,
                                  expected |-> Latest(l),
                                  attribution |-> "human"], WorldHead)
    BY DEF NeverWedged
  <2> DEFINE cp == CheckpointAt(l, Latest(l))
  <2>2. Latest(l) \in Nat /\ Latest(l) + 1 \in DOMAIN heads[l]
    BY <2>1 DEF IInv, TypeOK, Latest
  <2>3. /\ cp.base \in 0..WorldHead /\ cp.changes \in Changes
        /\ Canonical(TreeOf(cp.base), cp.changes)
    BY <2>1, <2>2, HeadFacts
  <2>4. WorldHead \in Nat
    BY <2>1, VersionFacts DEF IInv
  <2>5. /\ TreeOf(WorldHead) \in Tree /\ WellFormed(TreeOf(WorldHead))
        /\ TreeOf(cp.base) \in Tree
    BY <2>1, <2>3, <2>4, WorldsWellFormed
  <2>6. \/ Intersections(TreeOf(cp.base), TreeOf(WorldHead), cp.changes) # {}
        \/ Applies(TreeOf(WorldHead), cp.changes)
    BY <2>3, <2>5, ComposeCanonical
  <2>7. cp.base <= WorldHead
    BY <2>3, <2>4
  <2>8. QED
    BY <2>6, <2>7 DEF Composes, ComposeConflicts
<1>2. QED
  BY <1>1, Invariance, PTL

-----------------------------------------------------------------------------
(* The tables only grow.                                                   *)

\* A sequence is extended by appending to it.
LEMMA AppendExtends ==
    ASSUME NEW S, NEW s \in Seq(S), NEW e
    PROVE  Extends(Append(s, e), s)
<1>1. s \in Seq(S \cup {e})
  OBVIOUS
<1>2. /\ DOMAIN Append(s, e) = 1..(Len(s) + 1)
      /\ \A i \in 1..Len(s) : Append(s, e)[i] = s[i]
  BY <1>1, AppendFacts
<1>3. DOMAIN s = 1..Len(s) /\ Len(s) \in Nat
  OBVIOUS
<1>4. QED
  BY <1>2, <1>3 DEF Extends

\* A table is extended by a row under a new key.
LEMMA PutExtends ==
    ASSUME NEW table, NEW key, key \notin DOMAIN table, NEW row
    PROVE  Extends(Put(table, key, row), table)
BY DEF Extends, Put

\* Storing a checkpoint extends the store.
LEMMA InsertExtends ==
    ASSUME IInv, NEW cp
    PROVE  Extends(Insert(cp), objects)
<1>1. objects \in Seq(Checkpoint)
  BY DEF IInv, TypeOK
<1>2. Extends(objects, objects)
  BY DEF Extends
<1>3. QED
  BY <1>1, <1>2, AppendExtends DEF Insert

\* Replacing one Layer's history by a longer one.
LEMMA HeadsExtend ==
    ASSUME IInv, NEW l \in Layers, NEW events, Extends(events, heads[l]),
           heads' = [heads EXCEPT ![l] = events]
    PROVE  \A m \in Layers : Extends(heads'[m], heads[m])
BY DEF IInv, TypeOK, Extends

\* A step on a Layer is a creation or an update.
LEMMA LayerSteps ==
    ASSUME LayerNext
    PROVE  \E l \in Layers :
              \/ \E cp : CreateIn(l, cp)
              \/ \E op \in Operations, r \in 0..Latest(l) :
                    \E cp, discard, source, res :
                       UpdateIn(op, l, r, cp, discard, source, res)
<1>1. PICK l \in Layers :
       \/ \E base \in 0..WorldHead : CreateLayer(l, base)
       \/ \E id \in DOMAIN objects : CloneLayer(l, id)
       \/ \E op \in Operations, r \in 0..Latest(l) :
             \/ \E ch \in InputChanges, pv \in Provenances \cup {None} :
                   CaptureLayer(op, l, r, ch, pv)
             \/ \E ch \in StackChanges, pv \in Provenances \cup {None},
                   source \in DOMAIN objects, res \in Resolutions \cup {None} :
                   CommitStack(op, l, r, source, ch, res, pv)
             \/ DiscardLayer(op, l, r)
  BY DEF LayerNext
<1>2. CASE \E base \in 0..WorldHead : CreateLayer(l, base)
  BY <1>2 DEF CreateLayer
<1>3. CASE \E id \in DOMAIN objects : CloneLayer(l, id)
  BY <1>3 DEF CloneLayer
<1>4. ASSUME NEW op \in Operations, NEW r \in 0..Latest(l), NEW ch, NEW pv,
             CaptureLayer(op, l, r, ch, pv)
      PROVE  \E cp, discard, source, res :
                UpdateIn(op, l, r, cp, discard, source, res)
  BY <1>4 DEF CaptureLayer
<1>5. ASSUME NEW op \in Operations, NEW r \in 0..Latest(l), NEW ch, NEW pv,
             NEW source, NEW res, CommitStack(op, l, r, source, ch, res, pv)
      PROVE  \E cp, discard, src, resolution :
                UpdateIn(op, l, r, cp, discard, src, resolution)
  BY <1>5 DEF CommitStack
<1>6. ASSUME NEW op \in Operations, NEW r \in 0..Latest(l), DiscardLayer(op, l, r)
      PROVE  \E cp, discard, source, res :
                UpdateIn(op, l, r, cp, discard, source, res)
  BY <1>6 DEF DiscardLayer
<1>7. QED
  BY <1>1, <1>2, <1>3, <1>4, <1>5, <1>6

\* A step on a Layer writes neither receipts nor World versions.
LEMMA LayerKeepsReceipts ==
    ASSUME LayerNext
    PROVE  UNCHANGED <<versions, attempts, publications, blame, calls>>
<1>1. PICK l \in Layers :
          \/ \E cp : CreateIn(l, cp)
          \/ \E op \in Operations, r \in 0..Latest(l) :
                \E cp, discard, source, res :
                   UpdateIn(op, l, r, cp, discard, source, res)
  BY LayerSteps
<1>2. ASSUME NEW cp, CreateIn(l, cp)
      PROVE  UNCHANGED <<versions, attempts, publications, blame, calls>>
  BY <1>2 DEF CreateIn
<1>3. ASSUME NEW op, NEW r, NEW cp, NEW discard, NEW source, NEW res,
             UpdateIn(op, l, r, cp, discard, source, res)
      PROVE  UNCHANGED <<versions, attempts, publications, blame, calls>>
  BY <1>3 DEF UpdateIn
<1>4. QED
  BY <1>1, <1>2, <1>3

\* No step changes a recorded version, attempt, checkpoint, event or receipt.
LEMMA GrowthStep ==
    ASSUME IInv, [Next]_vars
    PROVE  Grows
<1>1. \A x : Extends(x, x)
  BY DEF Extends
<1>2. CASE UNCHANGED vars
  BY <1>1, <1>2 DEF vars, Grows
<1>3. CASE LayerNext
  <2>1. PICK l \in Layers :
              \/ \E cp : CreateIn(l, cp)
              \/ \E op \in Operations, r \in 0..Latest(l) :
                    \E cp, discard, source, res :
                       UpdateIn(op, l, r, cp, discard, source, res)
    BY <1>3, LayerSteps
  <2>2. ASSUME NEW cp, CreateIn(l, cp)
        PROVE  Grows
    <3>1. /\ objects' = Insert(cp) /\ heads[l] = <<>>
          /\ heads' = [heads EXCEPT ![l] = <<[checkpoint |-> IdOf(cp),
                                discarded |-> FALSE, operation |-> None]>>]
          /\ UNCHANGED <<versions, attempts, layerAttempts, publications, blame>>
      BY <2>2 DEF CreateIn
    <3>2. \A events : Extends(events, heads[l])
      BY <3>1 DEF Extends
    <3>3. QED
      BY <1>1, <3>1, <3>2, InsertExtends, HeadsExtend DEF Grows
  <2>3. ASSUME NEW op \in Operations, NEW r \in 0..Latest(l), NEW cp, NEW discard,
               NEW source, NEW res, UpdateIn(op, l, r, cp, discard, source, res)
        PROVE  Grows
    <3>1. /\ objects' = Insert(cp)
          /\ op \notin DOMAIN layerAttempts
          /\ \E row : layerAttempts' = Put(layerAttempts, op, row)
          /\ \/ heads' = heads
             \/ \E event : heads' = [heads EXCEPT ![l] = Append(heads[l], event)]
          /\ UNCHANGED <<versions, attempts, publications, blame>>
      BY <2>3 DEF UpdateIn
    <3>2. heads[l] \in Seq(Event)
      BY DEF IInv, TypeOK
    <3>3. \A m \in Layers : Extends(heads'[m], heads[m])
      BY <1>1, <3>1, <3>2, AppendExtends, HeadsExtend
    <3>4. Extends(layerAttempts', layerAttempts)
      BY <3>1, PutExtends
    <3>5. QED
      BY <1>1, <3>1, <3>3, <3>4, InsertExtends DEF Grows
  <2>4. QED
    BY <2>1, <2>2, <2>3
<1>4. CASE WorldNext
  <2>1. \/ UNCHANGED vars
        \/ \E op \in Operations, n \in 0..WorldHead, t \in InputTrees :
              CompareAndAdvance(op, n, t)
    BY <1>4 DEF WorldNext, ReplayUpdate, ReplayAdvance, ReplayPublish
  <2>2. ASSUME NEW op, NEW n, NEW t, CompareAndAdvance(op, n, t)
        PROVE  Grows
    <3>1. /\ op \notin DOMAIN attempts
          /\ \E row : attempts' = Put(attempts, op, row)
          /\ \/ versions' = versions /\ blame' = blame
             \/ \E world, attributed : /\ versions' = Append(versions, world)
                                       /\ blame' = Append(blame, attributed)
          /\ UNCHANGED <<objects, heads, layerAttempts, publications>>
      BY <2>2 DEF CompareAndAdvance, AppendVersion
    <3>2. versions \in Seq(VersionRow) /\ blame \in Seq(BlameRow)
      BY DEF IInv, TypeOK
    <3>3. Extends(versions', versions) /\ Extends(blame', blame)
      BY <1>1, <3>1, <3>2, AppendExtends
    <3>4. Extends(attempts', attempts)
      BY <3>1, PutExtends
    <3>5. QED
      BY <1>1, <3>1, <3>3, <3>4 DEF Grows
  <2>3. QED
    BY <1>2, <2>1, <2>2
<1>5. CASE PublishNext
  <2>1. PICK h \in Handles :
          \/ UNCHANGED <<versions, attempts, objects, heads, layerAttempts,
                         publications, blame>>
          \/ PublishStale(h) \/ PublishConflict(h) \/ PublishAdvance(h)
    BY <1>5 DEF PublishNext, PublishStep, PublishLayer, PublishMoved,
                PublishPrepareAgain, PublishReturn, PublishRefused, PublishAbandon
  <2>2. CASE UNCHANGED <<versions, attempts, objects, heads, layerAttempts,
                         publications, blame>>
    BY <1>1, <2>2 DEF Grows
  <2>3. CASE PublishStale(h) \/ PublishConflict(h) \/ PublishAdvance(h)
    <3>1. /\ calls[h].request.operation \notin DOMAIN publications
          /\ \E row : publications' = Put(publications, calls[h].request.operation, row)
      BY <2>3 DEF PublishStale, PublishConflict, PublishAdvance, StillCurrent,
                  CommitReceipt
    <3>2. Extends(publications', publications)
      BY <3>1, PutExtends
    <3>3. /\ calls[h].request.operation \notin DOMAIN attempts
          /\ \/ UNCHANGED <<versions, attempts, blame>>
             \/ \E row, world, attributed :
                   /\ attempts' = Put(attempts, calls[h].request.operation, row)
                   /\ versions' = Append(versions, world)
                   /\ blame' = Append(blame, attributed)
          /\ UNCHANGED <<objects, heads, layerAttempts>>
      BY <2>3 DEF PublishStale, PublishConflict, PublishAdvance, StillCurrent,
                  AppendVersion
    <3>4. versions \in Seq(VersionRow) /\ blame \in Seq(BlameRow)
      BY DEF IInv, TypeOK
    <3>5. /\ Extends(versions', versions) /\ Extends(blame', blame)
          /\ Extends(attempts', attempts)
      BY <1>1, <3>3, <3>4, AppendExtends, PutExtends
    <3>6. QED
      BY <1>1, <3>2, <3>3, <3>5 DEF Grows
  <2>4. QED
    BY <2>1, <2>2, <2>3
<1>6. QED
  BY <1>2, <1>3, <1>4, <1>5 DEF Next

\* Recorded facts are immutable in every behaviour.
THEOREM RecordsAppendOnly == Spec => AppendOnly
<1>1. IInv /\ [Next]_vars => [Grows]_vars
  BY GrowthStep
<1>2. QED
  BY <1>1, Invariance, PTL DEF Spec, AppendOnly

\* A new successful receipt comes from a Publish that lands in this step.
LEMMA NewReceipt ==
    ASSUME [Next]_vars, NEW op \in DOMAIN publications' \ DOMAIN publications,
           publications'[op].outcome = "published"
    PROVE  \E h \in Handles :
              /\ PublishAdvance(h) /\ op = calls[h].request.operation
              /\ publications'[op].layer = calls[h].request.layer
<1>1. CASE LayerNext
  BY <1>1, LayerKeepsReceipts
<1>2. CASE WorldNext \/ UNCHANGED vars
  <2>1. publications' = publications
    BY <1>2 DEF WorldNext, ReplayUpdate, ReplayAdvance, ReplayPublish,
                CompareAndAdvance, vars
  <2>2. QED
    BY <2>1
<1>3. CASE PublishNext
  <2>1. PICK h \in Handles :
           PublishStale(h) \/ PublishConflict(h) \/ PublishAdvance(h)
    BY <1>3 DEF PublishNext, PublishStep, PublishLayer, PublishMoved,
         PublishPrepareAgain, PublishReturn, PublishRefused, PublishAbandon
  <2>2. PICK outcome, result, paths :
           /\ CommitReceipt(h, outcome, result, paths)
           /\ outcome = "published" => PublishAdvance(h)
    BY <2>1 DEF PublishStale, PublishConflict, PublishAdvance
  <2>3. /\ op = calls[h].request.operation
        /\ publications'[op] = Receipt(calls[h], outcome, result, paths)
    BY <2>2 DEF CommitReceipt, Put
  <2>4. QED
    BY <2>2, <2>3 DEF Receipt
<1>4. QED
  BY <1>1, <1>2, <1>3 DEF Next

-----------------------------------------------------------------------------
(* Terminal Layers.                                                        *)

\* A Layer that was published or discarded never changes again: a Publish
\* prepared before cannot land on it, and captures become stale or refused.
LEMMA TerminalStep ==
    ASSUME IInv, [Next]_vars
    PROVE  KeepsTerminal
<1>1. SUFFICES ASSUME NEW l \in Layers, heads[l] # <<>>,
                      StateOf(l).status # "active"
               PROVE  heads'[l] = heads[l] /\ StateOf(l)' = StateOf(l)
  BY DEF KeepsTerminal
<1>2. Grows
  BY GrowthStep
<1>3. heads'[l] = heads[l]
  <2>1. CASE LayerNext
    <3>1. PICK m \in Layers :
              \/ \E cp : CreateIn(m, cp)
              \/ \E op \in Operations, r \in 0..Latest(m) :
                    \E cp, discard, source, res :
                       UpdateIn(op, m, r, cp, discard, source, res)
      BY <2>1, LayerSteps
    <3>2. heads \in [Layers -> Seq(Event)]
      BY DEF IInv, TypeOK
    <3>3. ASSUME NEW cp, CreateIn(m, cp)
          PROVE  heads'[l] = heads[l]
      <4>1. m # l
        BY <1>1, <3>3 DEF CreateIn
      <4>2. QED
        BY <3>2, <3>3, <4>1 DEF CreateIn
    <3>4. ASSUME NEW op \in Operations, NEW r \in 0..Latest(m), NEW cp, NEW discard,
                 NEW source, NEW res, UpdateIn(op, m, r, cp, discard, source, res)
          PROVE  heads'[l] = heads[l]
      <4>1. CASE m # l
        BY <3>2, <3>4, <4>1 DEF UpdateIn
      <4>2. CASE m = l
        <5>1. PublishedBy(l) = {}
          BY <3>4, <4>2 DEF UpdateIn, RefusePublished
        <5>2. EventAt(l, Latest(l)).discarded
          BY <1>1, <5>1 DEF StateOf, EventState
        <5>3. QED
          BY <3>4, <4>2, <5>2 DEF UpdateIn
      <4>3. QED
        BY <4>1, <4>2
    <3>5. QED
      BY <3>1, <3>3, <3>4
  <2>2. CASE ~LayerNext
    BY <2>2 DEF Next, WorldNext, ReplayUpdate, ReplayAdvance, ReplayPublish,
         CompareAndAdvance, PublishNext, PublishStep, PublishLayer, PublishMoved,
         PublishPrepareAgain, PublishReturn, PublishStale, PublishConflict,
         PublishAdvance, PublishRefused, PublishAbandon, vars
  <2>3. QED
    BY <2>1, <2>2
<1>4. PublishedBy(l)' = PublishedBy(l)
  <2>1. ASSUME NEW op \in DOMAIN publications' \ DOMAIN publications,
               publications'[op].layer = l, publications'[op].outcome = "published"
        PROVE  FALSE
    <3>1. PICK h \in Handles :
             /\ PublishAdvance(h) /\ op = calls[h].request.operation
             /\ publications'[op].layer = calls[h].request.layer
      BY <2>1, NewReceipt
    <3>2. calls[h].request.layer = l
      BY <2>1, <3>1
    <3>3. /\ calls[h].actual = StateOf(calls[h].request.layer)
          /\ calls[h].actual.status = "active"
      BY <3>1 DEF PublishAdvance, StillCurrent, Exact
    <3>4. QED
      BY <1>1, <3>2, <3>3
  <2>2. /\ DOMAIN publications \subseteq DOMAIN publications'
        /\ \A op \in DOMAIN publications : publications'[op] = publications[op]
    BY <1>2 DEF Grows, Extends
  <2>3. QED
    BY <2>1, <2>2 DEF PublishedBy
<1>5. StateOf(l)' = StateOf(l)
  <2>1. CASE PublishedBy(l) # {}
    <3> DEFINE op == CHOOSE o \in PublishedBy(l) : TRUE
    <3>1. op \in PublishedBy(l)
      BY <2>1
    <3>2. op \in DOMAIN publications
      BY <3>1 DEF PublishedBy
    <3>3. publications'[op] = publications[op]
      BY <1>2, <3>2 DEF Grows, Extends
    <3>4. StateOf(l) = SuccessState(op)
      BY <2>1 DEF StateOf
    <3>5. StateOf(l)' = [status |-> "published",
                         revision |-> publications'[op].expected, operation |-> op]
      BY <1>4, <2>1 DEF StateOf, SuccessState
    <3>6. QED
      BY <3>3, <3>4, <3>5 DEF SuccessState
  <2>2. CASE PublishedBy(l) = {}
    <3>1. StateOf(l) = EventState(l, Latest(l))
      BY <2>2 DEF StateOf
    <3>2. StateOf(l)' = EventState(l, Latest(l))'
      BY <1>4, <2>2 DEF StateOf
    <3>3. EventState(l, Latest(l))' = EventState(l, Latest(l))
      BY <1>3 DEF EventState, EventAt, Latest
    <3>4. QED
      BY <3>1, <3>2, <3>3
  <2>3. QED
    BY <2>1, <2>2
<1>6. QED
  BY <1>3, <1>5

\* Published and discarded are terminal in every behaviour.
THEOREM LayersStayTerminal == Spec => TerminalLayers
<1>1. IInv /\ [Next]_vars => [KeepsTerminal]_vars
  BY TerminalStep
<1>2. QED
  BY <1>1, Invariance, PTL DEF Spec, TerminalLayers

-----------------------------------------------------------------------------
(* No lost update.                                                         *)

\* A receipt that says "published" still describes the World it made.
PublishedSound(op) ==
    LET row == publications[op]
        cp == CheckpointAt(row.layer, row.expected)
    IN  /\ row.layer \in Layers /\ row.expected \in Nat
        /\ row.expected + 1 \in DOMAIN heads[row.layer]
        /\ row.against \in Nat /\ row.result = row.against + 1
        /\ row.result <= WorldHead
        /\ Intersections(TreeOf(cp.base), TreeOf(row.against), cp.changes) = {}
        /\ TreeOf(row.result) = Apply(TreeOf(row.against), cp.changes)

PublishedInv ==
    \A op \in DOMAIN publications :
       publications[op].outcome = "published" => PublishedSound(op)

\* Growth keeps every event, checkpoint and World a receipt names.
LEMMA PublishedKept ==
    ASSUME IInv, Grows, versions' \in Seq(VersionRow),
           NEW op \in DOMAIN publications, PublishedSound(op)
    PROVE  PublishedSound(op)'
<1> DEFINE row == publications[op]
           cp == CheckpointAt(row.layer, row.expected)
<1>1. publications'[op] = row
  BY DEF Grows, Extends
<1>2. /\ row.layer \in Layers /\ row.expected \in Nat
      /\ row.expected + 1 \in DOMAIN heads[row.layer]
      /\ row.against \in Nat /\ row.result = row.against + 1
      /\ row.result <= WorldHead
  BY DEF PublishedSound
<1>3. /\ row.expected + 1 \in DOMAIN heads'[row.layer]
      /\ heads'[row.layer][row.expected + 1] = heads[row.layer][row.expected + 1]
  BY <1>2 DEF Grows, Extends
<1>4. /\ EventAt(row.layer, row.expected).checkpoint \in DOMAIN objects
      /\ cp.base \in 0..WorldHead
  BY <1>2, HeadFacts
<1>5. objects'[EventAt(row.layer, row.expected).checkpoint] = cp
  BY <1>4 DEF Grows, Extends, CheckpointAt
<1>6. objects'[heads'[row.layer][row.expected + 1].checkpoint] = cp
  BY <1>3, <1>5 DEF EventAt
<1>7. /\ WorldHead \in Nat
      /\ \A n \in 0..WorldHead : n + 1 \in DOMAIN versions
  BY VersionFacts DEF IInv
<1>8. \A n \in 0..WorldHead : versions'[n + 1] = versions[n + 1]
  BY <1>7 DEF Grows, Extends
<1>9. WorldHead <= WorldHead' /\ WorldHead' \in Int
  <2>1. Len(versions) \in DOMAIN versions
    BY VersionFacts DEF IInv
  <2>2. Len(versions) \in DOMAIN versions'
    BY <2>1 DEF Grows, Extends
  <2>3. DOMAIN versions' = 1..Len(versions') /\ Len(versions') \in Nat
    OBVIOUS
  <2>4. Len(versions) \in Nat
    BY VersionFacts DEF IInv
  <2>5. QED
    BY <2>2, <2>3, <2>4 DEF WorldHead
<1>10. /\ versions'[cp.base + 1].tree = TreeOf(cp.base)
       /\ versions'[row.against + 1].tree = TreeOf(row.against)
       /\ versions'[row.result + 1].tree = TreeOf(row.result)
  <2> HIDE DEF row, cp
  <2>1. \A n \in 0..WorldHead : versions'[n + 1].tree = TreeOf(n)
    BY <1>8 DEF TreeOf
  <2>2. row.against \in 0..WorldHead /\ row.result \in 0..WorldHead
    BY <1>2, <1>7
  <2>3. QED
    BY <1>4, <2>1, <2>2
<1>11. /\ Intersections(TreeOf(cp.base), TreeOf(row.against), cp.changes) = {}
       /\ TreeOf(row.result) = Apply(TreeOf(row.against), cp.changes)
  BY DEF PublishedSound
<1> HIDE DEF row, cp
<1>12. row.result <= WorldHead'
  BY <1>2, <1>7, <1>9
<1>13. QED
  BY <1>1, <1>2, <1>3, <1>6, <1>10, <1>11, <1>12
     DEF PublishedSound, CheckpointAt, EventAt, TreeOf

\* A Publish that lands records exactly what it did.
LEMMA PublishedNow ==
    ASSUME IInv, NEW h \in Handles, PublishAdvance(h),
           NEW op, op = calls[h].request.operation
    PROVE  PublishedSound(op)'
<1> DEFINE request == calls[h].request
           cp == CheckpointAt(request.layer, request.expected)
<1>1. /\ h \in DOMAIN calls
      /\ calls[h].against = WorldHead
      /\ ComposeConflicts(request, WorldHead) = {}
      /\ versions' = Append(versions,
            [tree |-> ComposeTree(request, WorldHead), changes |-> cp.changes,
             operation |-> request.operation])
      /\ publications' = Put(publications, request.operation,
            Receipt(calls[h], "published", WorldHead + 1, {}))
      /\ UNCHANGED <<objects, heads>>
  BY DEF PublishAdvance, StillCurrent, AppendVersion, CommitReceipt
<1>2. /\ request.layer \in Layers
      /\ request.expected \in Nat
      /\ request.expected + 1 \in DOMAIN heads[request.layer]
  BY <1>1, CallFacts
<1>3. cp.base \in 0..WorldHead
  BY <1>2, HeadFacts
<1>4. /\ WorldHead \in Nat /\ Len(versions) = WorldHead + 1
      /\ versions \in Seq(VersionRow)
  BY VersionFacts DEF IInv, TypeOK, WorldHead
<1>5. IInv'
  BY PublishStepAdvance
<1>6. versions' \in Seq(VersionRow) /\ Len(versions') = WorldHead + 2
  BY <1>1, <1>4, <1>5 DEF IInv, TypeOK
<1>7. /\ \A n \in 0..WorldHead : versions'[n + 1].tree = TreeOf(n)
      /\ versions'[WorldHead + 2].tree = ComposeTree(request, WorldHead)
  BY <1>1, <1>4 DEF TreeOf
<1>8. /\ Intersections(TreeOf(cp.base), TreeOf(WorldHead), cp.changes) = {}
      /\ ComposeTree(request, WorldHead) = Apply(TreeOf(WorldHead), cp.changes)
  BY <1>1 DEF ComposeConflicts, ComposeTree
<1> DEFINE row == publications'[op]
<1>9. /\ row.layer = request.layer /\ row.expected = request.expected
      /\ row.against = WorldHead /\ row.result = WorldHead + 1
  BY <1>1 DEF Put, Receipt
<1>10. objects'[heads'[row.layer][row.expected + 1].checkpoint] = cp
  BY <1>1, <1>9 DEF CheckpointAt, EventAt
<1>11. WorldHead' = WorldHead + 1
  BY <1>4, <1>6 DEF WorldHead
<1>12. /\ versions'[cp.base + 1].tree = TreeOf(cp.base)
       /\ versions'[row.against + 1].tree = TreeOf(WorldHead)
       /\ versions'[row.result + 1].tree = ComposeTree(request, WorldHead)
  BY <1>3, <1>4, <1>7, <1>9
<1>13. /\ row.layer \in Layers /\ row.expected \in Nat
       /\ row.expected + 1 \in DOMAIN heads'[row.layer]
       /\ row.against \in Nat /\ row.result = row.against + 1
       /\ row.result <= WorldHead'
  BY <1>1, <1>2, <1>4, <1>9, <1>11
<1> HIDE DEF row, cp
<1>14. /\ Intersections(versions'[cp.base + 1].tree,
                        versions'[row.against + 1].tree, cp.changes) = {}
       /\ versions'[row.result + 1].tree =
             Apply(versions'[row.against + 1].tree, cp.changes)
  BY <1>8, <1>12
<1>15. QED
  BY <1>10, <1>13, <1>14 DEF PublishedSound, CheckpointAt, EventAt, TreeOf, row

\* A Publish never overwrites what the World changed since its Layer's base,
\* whatever happened between its preparation and its commit.
THEOREM NoUpdateLost == Spec => []NoLostUpdate
<1>1. Init => PublishedInv
  BY DEF Init, PublishedInv
<1>2. IInv /\ PublishedInv /\ [Next]_vars => PublishedInv'
  <2> SUFFICES ASSUME IInv, PublishedInv, [Next]_vars,
                      NEW op \in DOMAIN publications',
                      publications'[op].outcome = "published"
               PROVE  PublishedSound(op)'
    BY DEF PublishedInv
  <2>1. Grows
    BY GrowthStep
  <2>2. IInv'
    BY InvarianceStep
  <2>3. CASE op \in DOMAIN publications
    <3>1. publications'[op] = publications[op]
      BY <2>1, <2>3 DEF Grows, Extends
    <3>2. PublishedSound(op)
      BY <2>3, <3>1 DEF PublishedInv
    <3>3. versions' \in Seq(VersionRow)
      BY <2>2 DEF IInv, TypeOK
    <3>4. QED
      BY <2>1, <2>3, <3>2, <3>3, PublishedKept
  <2>4. CASE op \notin DOMAIN publications
    <3>1. PICK h \in Handles :
             PublishAdvance(h) /\ op = calls[h].request.operation
      BY <2>4, NewReceipt
    <3>2. QED
      BY <3>1, PublishedNow
  <2>5. QED
    BY <2>3, <2>4
<1>3. IInv /\ PublishedInv => NoLostUpdate
  <2> SUFFICES ASSUME IInv, PublishedInv, NEW op \in DOMAIN publications,
                      publications[op].outcome = "published"
               PROVE  LET row == publications[op]
                          base == CheckpointAt(row.layer, row.expected).base
                      IN  \A p \in Moved(TreeOf(base), TreeOf(row.against)) :
                             TreeOf(row.result)[p] = TreeOf(row.against)[p]
    BY DEF NoLostUpdate
  <2> DEFINE row == publications[op]
             cp == CheckpointAt(row.layer, row.expected)
  <2>1. /\ row.layer \in Layers /\ row.expected \in Nat
        /\ row.expected + 1 \in DOMAIN heads[row.layer]
        /\ row.against \in Nat /\ row.result = row.against + 1
        /\ row.result <= WorldHead
        /\ Intersections(TreeOf(cp.base), TreeOf(row.against), cp.changes) = {}
        /\ TreeOf(row.result) = Apply(TreeOf(row.against), cp.changes)
    BY DEF PublishedInv, PublishedSound
  <2>2. cp.base \in 0..WorldHead /\ cp.changes \in Changes
    BY <2>1, HeadFacts
  <2>3. WorldHead \in Nat
    BY VersionFacts DEF IInv
  <2> HIDE DEF row, cp
  <2>4. row.against \in 0..WorldHead
    BY <2>1, <2>3
  <2>5. TreeOf(cp.base) \in Tree /\ TreeOf(row.against) \in Tree
    BY <2>2, <2>4, WorldsWellFormed
  <2>6. \A p \in Moved(TreeOf(cp.base), TreeOf(row.against)) :
           TreeOf(row.result)[p] = TreeOf(row.against)[p]
    BY <2>1, <2>2, <2>5, ComposeKeepsMoved
  <2>7. QED
    BY <2>6 DEF row, cp
<1>4. QED
  BY <1>1, <1>2, <1>3, Invariance, PTL DEF Spec

-----------------------------------------------------------------------------
(* Induction and the attribution fold.                                     *)

\* Every set of naturals has a least element.
LEMMA LeastNatural ==
    ASSUME NEW S \in SUBSET Nat, S # {}
    PROVE  \E n \in S : \A m \in S : n <= m
<1> DEFINE R == OpToRel(<, Nat)
<1>1. IsWellFoundedOn(R, Nat)
  BY NatLessThanWellFounded
<1>2. PICK n \in S : \A m \in S : ~(<<m, n>> \in R)
  <2> HIDE DEF R
  <2> QED BY <1>1, WFMin
<1>3. \A m \in S : ~(m < n)
  BY <1>2 DEF OpToRel
<1> QED BY <1>3

\* One step of attribution_in moves the rows as track_in does.
FoldsTo(f, events, stored, k) ==
    f = [i \in 0..k |->
           LET changes == stored[events[i + 1].checkpoint].changes
               before == IF i = 0 THEN Untracked ELSE f[i - 1]
           IN  [p \in DOMAIN changes |->
                  IF p \in DOMAIN before /\ before[p].entry = changes[p]
                  THEN before[p]
                  ELSE [entry |-> changes[p], checkpoint |-> events[i + 1].checkpoint]]]

FoldStep(before, events, stored, i) ==
    Track(before, stored[events[i + 1].checkpoint].changes, events[i + 1].checkpoint)

\* The fold, step by step.
LEMMA FoldMeaning ==
    ASSUME NEW f, NEW events, NEW stored, NEW k \in Nat
    PROVE  FoldsTo(f, events, stored, k) <=>
              f = [i \in 0..k |->
                     FoldStep(IF i = 0 THEN Untracked ELSE f[i - 1], events, stored, i)]
BY Zenon DEF FoldsTo, FoldStep, Track

\* Each element of the fold follows from the one before it.
LEMMA FoldAt ==
    ASSUME NEW f, NEW events, NEW stored, NEW k \in Nat, FoldsTo(f, events, stored, k)
    PROVE  \A i \in 0..k :
              f[i] = FoldStep(IF i = 0 THEN Untracked ELSE f[i - 1], events, stored, i)
<1>1. f = [i \in 0..k |->
             FoldStep(IF i = 0 THEN Untracked ELSE f[i - 1], events, stored, i)]
  BY FoldMeaning
<1> QED BY <1>1

\* The fold's equation has a solution.
LEMMA FoldExists ==
    ASSUME NEW events, NEW stored, NEW k \in Nat
    PROVE  \E f : FoldsTo(f, events, stored, k)
<1> DEFINE Bad == {n \in Nat : ~\E f : FoldsTo(f, events, stored, n)}
<1>1. SUFFICES ASSUME Bad # {} PROVE FALSE
  OBVIOUS
<1>2. PICK n \in Bad : \A m \in Bad : n <= m
  BY <1>1, LeastNatural
<1>3. n # 0
  <2>1. SUFFICES ASSUME n = 0 PROVE FALSE
    OBVIOUS
  <2> DEFINE g == [i \in 0..0 |-> FoldStep(Untracked, events, stored, 0)]
  <2>2. g = [i \in 0..0 |->
              FoldStep(IF i = 0 THEN Untracked ELSE g[i - 1], events, stored, i)]
    <3> DEFINE s == FoldStep(Untracked, events, stored, 0)
    <3>1. \A i \in 0..0 :
            s = FoldStep(IF i = 0 THEN Untracked ELSE g[i - 1], events, stored, i)
      OBVIOUS
    <3> QED BY <3>1
  <2>3. FoldsTo(g, events, stored, 0)
    BY <2>2, FoldMeaning
  <2> QED BY <2>1, <2>3
<1>4. n - 1 \in Nat /\ n - 1 \notin Bad
  BY <1>2, <1>3
<1>5. PICK f : FoldsTo(f, events, stored, n - 1)
  BY <1>4
<1>6. f = [i \in 0..(n - 1) |->
             FoldStep(IF i = 0 THEN Untracked ELSE f[i - 1], events, stored, i)]
  BY <1>4, <1>5, FoldMeaning
<1> DEFINE g == [i \in 0..n |-> IF i = n THEN FoldStep(f[n - 1], events, stored, n)
                                ELSE f[i]]
<1>7. ASSUME NEW i \in 0..n
      PROVE  g[i] = FoldStep(IF i = 0 THEN Untracked ELSE g[i - 1], events, stored, i)
  <2>1. CASE i = n
    <3>1. g[n - 1] = f[n - 1]
      BY <1>3, <1>4
    <3> QED BY <1>3, <2>1, <3>1
  <2>2. CASE i # n
    <3>1. i \in 0..(n - 1) /\ g[i] = f[i]
      BY <2>2
    <3>2. i # 0 => g[i - 1] = f[i - 1]
      BY <3>1
    <3>3. f[i] = FoldStep(IF i = 0 THEN Untracked ELSE f[i - 1], events, stored, i)
      BY <1>6, <3>1
    <3> QED BY <3>1, <3>2, <3>3
  <2> QED BY <2>1, <2>2
<1>8. g = [i \in 0..n |->
             FoldStep(IF i = 0 THEN Untracked ELSE g[i - 1], events, stored, i)]
  BY <1>7
<1>9. FoldsTo(g, events, stored, n)
  <2> HIDE DEF g
  <2> QED BY <1>8, FoldMeaning
<1> QED BY <1>2, <1>9

\* The fold computes what its equation says (attribution_in).
LEMMA AttributionFold ==
    ASSUME NEW events, NEW stored, NEW k \in Nat
    PROVE  \E f : FoldsTo(f, events, stored, k) /\ Attribution(events, stored, k) = f[k]
<1> DEFINE f == CHOOSE f : FoldsTo(f, events, stored, k)
<1>1. FoldsTo(f, events, stored, k)
  BY FoldExists
<1>2. Attribution(events, stored, k) = f[k]
  BY DEF Attribution, FoldsTo
<1> QED BY <1>1, <1>2

\* The first head attributes every path to its checkpoint.
LEMMA AttributionZero ==
    ASSUME NEW events, NEW stored
    PROVE  Attribution(events, stored, 0) = FoldStep(Untracked, events, stored, 0)
<1>1. PICK f : FoldsTo(f, events, stored, 0) /\ Attribution(events, stored, 0) = f[0]
  BY AttributionFold
<1>2. \A i \in 0..0 :
         f[i] = FoldStep(IF i = 0 THEN Untracked ELSE f[i - 1], events, stored, i)
  BY <1>1, FoldAt
<1>3. f[0] = FoldStep(Untracked, events, stored, 0)
  BY <1>2
<1> QED BY <1>1, <1>3

\* A later head is attributed from the head before it.
LEMMA AttributionNext ==
    ASSUME NEW events, NEW stored, NEW k \in Nat
    PROVE  Attribution(events, stored, k + 1) =
              FoldStep(Attribution(events, stored, k), events, stored, k + 1)
<1>1. PICK f : FoldsTo(f, events, stored, k) /\ Attribution(events, stored, k) = f[k]
  BY AttributionFold
<1>2. PICK g : /\ FoldsTo(g, events, stored, k + 1)
               /\ Attribution(events, stored, k + 1) = g[k + 1]
  BY AttributionFold
<1>3. \A i \in 0..k :
         f[i] = FoldStep(IF i = 0 THEN Untracked ELSE f[i - 1], events, stored, i)
  BY <1>1, FoldAt
<1>4. \A i \in 0..(k + 1) :
         g[i] = FoldStep(IF i = 0 THEN Untracked ELSE g[i - 1], events, stored, i)
  <2>1. k + 1 \in Nat
    OBVIOUS
  <2> QED BY <1>2, <2>1, FoldAt
<1>5. f[k] = g[k]
  <2> DEFINE Bad == {i \in 0..k : f[i] # g[i]}
  <2>1. SUFFICES ASSUME Bad # {} PROVE FALSE
    OBVIOUS
  <2>2. PICK n \in Bad : \A m \in Bad : n <= m
    <3>1. Bad \in SUBSET Nat
      OBVIOUS
    <3> QED BY <2>1, <3>1, LeastNatural
  <2>3. n # 0
    <3>1. f[0] = FoldStep(Untracked, events, stored, 0)
      BY <1>3
    <3>2. g[0] = FoldStep(Untracked, events, stored, 0)
      BY <1>4
    <3> QED BY <2>2, <3>1, <3>2
  <2>4. f[n - 1] = g[n - 1]
    <3>1. n - 1 \in 0..k /\ n - 1 \notin Bad
      BY <2>2, <2>3
    <3> QED BY <3>1
  <2>5. f[n] = FoldStep(f[n - 1], events, stored, n)
    BY <1>3, <2>3
  <2>6. g[n] = FoldStep(g[n - 1], events, stored, n)
    BY <1>4, <2>3
  <2> QED BY <2>4, <2>5, <2>6
<1>6. g[k + 1] = FoldStep(g[k], events, stored, k + 1)
  <2>1. k + 1 \in 0..(k + 1) /\ k + 1 # 0 /\ (k + 1) - 1 = k
    OBVIOUS
  <2> QED BY <1>4, <2>1
<1> QED BY <1>1, <1>2, <1>5, <1>6

\* Later events and checkpoints do not change what a head is attributed.
LEMMA AttributionSame ==
    ASSUME NEW events, NEW stored, NEW events2, NEW stored2, NEW k \in Nat,
           \A i \in 0..k : /\ events2[i + 1] = events[i + 1]
                           /\ stored2[events[i + 1].checkpoint] =
                                 stored[events[i + 1].checkpoint]
    PROVE  Attribution(events2, stored2, k) = Attribution(events, stored, k)
<1> DEFINE Bad == {n \in 0..k : Attribution(events2, stored2, n) #
                                   Attribution(events, stored, n)}
<1>1. SUFFICES ASSUME Bad # {} PROVE FALSE
  OBVIOUS
<1>2. PICK n \in Bad : \A m \in Bad : n <= m
  <2>1. Bad \in SUBSET Nat
    OBVIOUS
  <2> QED BY <1>1, <2>1, LeastNatural
<1>3. \A rows : FoldStep(rows, events2, stored2, n) = FoldStep(rows, events, stored, n)
  BY <1>2 DEF FoldStep
<1>4. n # 0
  BY <1>2, <1>3, AttributionZero
<1>5. n - 1 \in 0..k /\ n - 1 \notin Bad /\ (n - 1) + 1 = n
  BY <1>2, <1>4
<1>6. Attribution(events2, stored2, n - 1) = Attribution(events, stored, n - 1)
  BY <1>5
<1>7. /\ Attribution(events2, stored2, n) =
            FoldStep(Attribution(events2, stored2, n - 1), events2, stored2, n)
      /\ Attribution(events, stored, n) =
            FoldStep(Attribution(events, stored, n - 1), events, stored, n)
  <2>1. n - 1 \in Nat
    BY <1>5
  <2> QED BY <1>5, <2>1, AttributionNext
<1> QED BY <1>2, <1>3, <1>6, <1>7

\* Every row carries its path's entry in the head.
LEMMA AttributionRows ==
    ASSUME NEW events, NEW stored, NEW k \in Nat
    PROVE  LET changes == stored[events[k + 1].checkpoint].changes
               rows == Attribution(events, stored, k)
           IN  /\ DOMAIN rows = DOMAIN changes
               /\ \A p \in DOMAIN changes : rows[p].entry = changes[p]
<1>1. \E before : Attribution(events, stored, k) = FoldStep(before, events, stored, k)
  <2>1. CASE k = 0
    BY <2>1, AttributionZero
  <2>2. CASE k # 0
    <3>1. k - 1 \in Nat /\ (k - 1) + 1 = k
      BY <2>2
    <3> QED BY <3>1, AttributionNext
  <2> QED BY <2>1, <2>2
<1> QED BY <1>1 DEF FoldStep, Track

-----------------------------------------------------------------------------
(* Steps.                                                                  *)

\* What an update stores: a checkpoint on the expected head's base, with its
\* ancestry and the source; a discard stores the head's own.
Descends(cp, l, r, discard, source) ==
    /\ cp \in Checkpoint
    /\ VerifyHead(l, r)
    /\ cp.base = CheckpointAt(l, r).base
    /\ cp.sources = CheckpointAt(l, r).sources
                      \cup (IF source = None THEN {} ELSE {source})
    /\ discard => cp = CheckpointAt(l, r)

\* A step on a Layer is a creation or an update that descends from its head.
LEMMA LayerForms ==
    ASSUME IInv, LayerNext
    PROVE  \E l \in Layers :
              \/ \E cp \in Checkpoint : CreateIn(l, cp)
              \/ \E op \in Operations, r \in 0..Latest(l), cp \in Checkpoint,
                    discard \in BOOLEAN, source \in Nat \cup {None},
                    res \in Resolutions \cup {None} :
                       /\ UpdateIn(op, l, r, cp, discard, source, res)
                       /\ Descends(cp, l, r, discard, source)
<1>1. PICK l \in Layers :
       \/ \E base \in 0..WorldHead : CreateLayer(l, base)
       \/ \E id \in DOMAIN objects : CloneLayer(l, id)
       \/ \E op \in Operations, r \in 0..Latest(l) :
             \/ \E ch \in InputChanges, pv \in Provenances \cup {None} :
                   CaptureLayer(op, l, r, ch, pv)
             \/ \E ch \in StackChanges, pv \in Provenances \cup {None},
                   source \in DOMAIN objects, res \in Resolutions \cup {None} :
                   CommitStack(op, l, r, source, ch, res, pv)
             \/ DiscardLayer(op, l, r)
  BY DEF LayerNext
<1>2. objects \in Seq(Checkpoint) /\ heads \in [Layers -> Seq(Event)]
  BY DEF IInv, TypeOK
<1>3. ASSUME NEW base \in 0..WorldHead, CreateLayer(l, base)
      PROVE  \E cp \in Checkpoint : CreateIn(l, cp)
  <2>1. TreeOf(base) \in Tree /\ NoChanges \in Changes
    BY WorldsWellFormed, EmptyTyped
  <2>2. Normalizes(TreeOf(base), NoChanges)
    BY DEF Normalizes, Delta, NoChanges
  <2>3. PrepareCheckpoint(base, NoChanges, {}, None) \in Checkpoint
    BY <2>1, <2>2, PrepareFacts
  <2> QED BY <1>3, <2>3 DEF CreateLayer
<1>4. ASSUME NEW id \in DOMAIN objects, CloneLayer(l, id)
      PROVE  \E cp \in Checkpoint : CreateIn(l, cp)
  BY <1>2, <1>4 DEF CloneLayer
<1>5. ASSUME NEW r \in 0..Latest(l), VerifyHead(l, r)
      PROVE  /\ CheckpointAt(l, r) \in Checkpoint
             /\ CheckpointAt(l, r).base \in 0..WorldHead
             /\ CheckpointAt(l, r).sources \in SUBSET DOMAIN objects
  <2>1. r \in Nat
    BY <1>2 DEF Latest
  <2> QED BY <1>5, <2>1, HeadFacts DEF VerifyHead
<1>6. ASSUME NEW op \in Operations, NEW r \in 0..Latest(l), NEW ch \in InputChanges,
             NEW pv \in Provenances \cup {None}, CaptureLayer(op, l, r, ch, pv)
      PROVE  \E cp \in Checkpoint :
                /\ UpdateIn(op, l, r, cp, FALSE, None, None)
                /\ Descends(cp, l, r, FALSE, None)
  <2> DEFINE before == CheckpointAt(l, r)
             cp == PrepareCheckpoint(before.base, ch, before.sources, pv)
  <2>1. /\ VerifyHead(l, r) /\ Normalizes(TreeOf(before.base), ch)
        /\ UpdateIn(op, l, r, cp, FALSE, None, None)
    BY <1>6 DEF CaptureLayer
  <2>2. cp \in Checkpoint
    BY <1>5, <2>1, PrepareFacts, InputsAssumption
  <2>3. cp.base = before.base /\ cp.sources = before.sources
    BY DEF PrepareCheckpoint
  <2> HIDE DEF cp
  <2> QED BY <2>1, <2>2, <2>3 DEF Descends
<1>7. ASSUME NEW op \in Operations, NEW r \in 0..Latest(l), NEW ch \in StackChanges,
             NEW pv \in Provenances \cup {None}, NEW source \in DOMAIN objects,
             NEW res \in Resolutions \cup {None},
             CommitStack(op, l, r, source, ch, res, pv)
      PROVE  \E cp \in Checkpoint :
                /\ UpdateIn(op, l, r, cp, FALSE, source, res)
                /\ Descends(cp, l, r, FALSE, source)
  <2> DEFINE before == CheckpointAt(l, r)
             cp == PrepareCheckpoint(before.base, ch, before.sources \cup {source}, pv)
  <2>1. /\ VerifyHead(l, r) /\ Normalizes(TreeOf(before.base), ch)
        /\ UpdateIn(op, l, r, cp, FALSE, source, res)
    BY <1>7 DEF CommitStack
  <2>2. before.sources \cup {source} \in SUBSET DOMAIN objects
    BY <1>5, <2>1
  <2>3. cp \in Checkpoint
    BY <1>5, <2>1, <2>2, PrepareFacts, InputsAssumption
  <2>4. cp.base = before.base /\ cp.sources = before.sources \cup {source}
    BY DEF PrepareCheckpoint
  <2>5. source # None
    BY <1>2, NoneAssumption
  <2> HIDE DEF cp
  <2> QED BY <2>1, <2>3, <2>4, <2>5 DEF Descends
<1>8. ASSUME NEW op \in Operations, NEW r \in 0..Latest(l), DiscardLayer(op, l, r)
      PROVE  \E cp \in Checkpoint :
                /\ UpdateIn(op, l, r, cp, TRUE, None, None)
                /\ Descends(cp, l, r, TRUE, None)
  <2>1. VerifyHead(l, r) /\ UpdateIn(op, l, r, CheckpointAt(l, r), TRUE, None, None)
    BY <1>8 DEF DiscardLayer
  <2> QED BY <1>5, <2>1 DEF Descends
<1>9. DOMAIN objects \subseteq Nat
  BY <1>2
<1>10. CASE \E op \in Operations, r \in 0..Latest(l) :
             \/ \E ch \in InputChanges, pv \in Provenances \cup {None} :
                   CaptureLayer(op, l, r, ch, pv)
             \/ \E ch \in StackChanges, pv \in Provenances \cup {None},
                   source \in DOMAIN objects, res \in Resolutions \cup {None} :
                   CommitStack(op, l, r, source, ch, res, pv)
             \/ DiscardLayer(op, l, r)
  <2>1. PICK op \in Operations, r \in 0..Latest(l) :
             \/ \E ch \in InputChanges, pv \in Provenances \cup {None} :
                   CaptureLayer(op, l, r, ch, pv)
             \/ \E ch \in StackChanges, pv \in Provenances \cup {None},
                   source \in DOMAIN objects, res \in Resolutions \cup {None} :
                   CommitStack(op, l, r, source, ch, res, pv)
             \/ DiscardLayer(op, l, r)
    BY <1>10
  <2>2. \E cp \in Checkpoint, discard \in BOOLEAN, source \in Nat \cup {None},
           res \in Resolutions \cup {None} :
              /\ UpdateIn(op, l, r, cp, discard, source, res)
              /\ Descends(cp, l, r, discard, source)
    BY <1>6, <1>7, <1>8, <1>9, <2>1
  <2> QED BY <2>2
<1> QED BY <1>1, <1>3, <1>4, <1>10

\* Every other step writes a World attempt, or a receipt, or no record.
LEMMA OtherForms ==
    ASSUME [Next]_vars, ~LayerNext
    PROVE  \/ \E op \in Operations, n \in 0..WorldHead, t \in InputTrees :
                 CompareAndAdvance(op, n, t)
           \/ \E h \in Handles : PublishStale(h) \/ PublishConflict(h) \/ PublishAdvance(h)
           \/ UNCHANGED <<versions, attempts, objects, heads, layerAttempts,
                          publications, layerPaths, blame>>
BY DEF Next, WorldNext, ReplayUpdate, ReplayAdvance, ReplayPublish, PublishNext,
   PublishStep, PublishLayer, PublishMoved, PublishPrepareAgain, PublishReturn,
   PublishRefused, PublishAbandon, vars

\* Steps that are not on a Layer leave Layers and checkpoints alone.
LEMMA OtherKeepsLayers ==
    ASSUME [Next]_vars, ~LayerNext
    PROVE  UNCHANGED <<objects, heads, layerAttempts>>
BY OtherForms DEF CompareAndAdvance, PublishStale, PublishConflict, PublishAdvance

\* What was recorded reads the same after a step.
LEMMA GrowthFacts ==
    ASSUME IInv, IInv', Grows
    PROVE  /\ \A l \in Layers : \A r \in Nat : r + 1 \in DOMAIN heads[l] =>
                 /\ r + 1 \in DOMAIN heads'[l]
                 /\ EventAt(l, r)' = EventAt(l, r)
                 /\ CheckpointAt(l, r)' = CheckpointAt(l, r)
           /\ \A l \in Layers : /\ Latest(l) \in Int /\ Latest(l)' \in Int
                                /\ Latest(l) <= Latest(l)'
           /\ WorldHead \in Nat /\ WorldHead' \in Nat /\ WorldHead <= WorldHead'
           /\ \A n \in 0..WorldHead : /\ versions'[n + 1] = versions[n + 1]
                                      /\ TreeOf(n)' = TreeOf(n)
<1>1. ASSUME NEW l \in Layers, NEW r \in Nat, r + 1 \in DOMAIN heads[l]
      PROVE  /\ r + 1 \in DOMAIN heads'[l]
             /\ EventAt(l, r)' = EventAt(l, r)
             /\ CheckpointAt(l, r)' = CheckpointAt(l, r)
  <2>1. r + 1 \in DOMAIN heads'[l] /\ heads'[l][r + 1] = heads[l][r + 1]
    BY <1>1 DEF Grows, Extends
  <2>2. EventAt(l, r).checkpoint \in DOMAIN objects
    BY <1>1, HeadFacts
  <2>3. objects'[EventAt(l, r).checkpoint] = objects[EventAt(l, r).checkpoint]
    BY <2>2 DEF Grows, Extends
  <2> QED BY <2>1, <2>3 DEF EventAt, CheckpointAt
<1>2. ASSUME NEW l \in Layers
      PROVE  Latest(l) \in Int /\ Latest(l)' \in Int /\ Latest(l) <= Latest(l)'
  <2>1. heads[l] \in Seq(Event) /\ heads'[l] \in Seq(Event)
    BY DEF IInv, TypeOK
  <2>2. DOMAIN heads[l] \subseteq DOMAIN heads'[l]
    BY DEF Grows, Extends
  <2>3. 1..Len(heads[l]) \subseteq 1..Len(heads'[l])
    BY <2>1, <2>2
  <2>4. Len(heads[l]) \in Nat /\ Len(heads'[l]) \in Nat
    BY <2>1
  <2>5. Len(heads[l]) <= Len(heads'[l])
    BY <2>3, <2>4
  <2> QED BY <2>4, <2>5 DEF Latest
<1>3. /\ WorldHead \in Nat
      /\ \A n \in 0..WorldHead : n + 1 \in DOMAIN versions
  BY VersionFacts DEF IInv
<1>4. WorldHead' \in Nat /\ WorldHead <= WorldHead'
  <2>1. versions' \in Seq(VersionRow) /\ Len(versions) \in DOMAIN versions
    BY VersionFacts DEF IInv, TypeOK
  <2>2. Len(versions) \in DOMAIN versions'
    BY <2>1 DEF Grows, Extends
  <2>3. DOMAIN versions' = 1..Len(versions') /\ Len(versions') \in Nat
    BY <2>1
  <2>4. Len(versions) \in Nat
    BY VersionFacts DEF IInv
  <2> QED BY <2>2, <2>3, <2>4 DEF WorldHead
<1>5. \A n \in 0..WorldHead : versions'[n + 1] = versions[n + 1]
  BY <1>3 DEF Grows, Extends
<1> QED BY <1>1, <1>2, <1>3, <1>4, <1>5 DEF TreeOf

-----------------------------------------------------------------------------
(* Layer attempts and head events.                                         *)

\* Content addressing stores a checkpoint once (insert_object).
ObjectsDistinct ==
    \A i, j \in DOMAIN objects : objects[i] = objects[j] => i = j

\* No step stores a checkpoint a second time.
LEMMA DistinctStep ==
    ASSUME IInv, ObjectsDistinct, [Next]_vars
    PROVE  ObjectsDistinct'
<1>1. objects \in Seq(Checkpoint)
  BY DEF IInv, TypeOK
<1>2. ASSUME NEW cp \in Checkpoint, objects' = Insert(cp)
      PROVE  ObjectsDistinct'
  <2>1. CASE \E i \in DOMAIN objects : objects[i] = cp
    BY <1>2, <2>1 DEF Insert, ObjectsDistinct
  <2>2. CASE ~\E i \in DOMAIN objects : objects[i] = cp
    <3>1. objects' = Append(objects, cp)
      BY <1>2, <2>2 DEF Insert
    <3>2. /\ DOMAIN objects' = 1..(Len(objects) + 1)
          /\ \A i \in 1..Len(objects) : objects'[i] = objects[i]
          /\ objects'[Len(objects) + 1] = cp
      BY <1>1, <3>1, AppendFacts
    <3>3. DOMAIN objects = 1..Len(objects) /\ Len(objects) \in Nat
      BY <1>1
    <3> QED BY <2>2, <3>2, <3>3 DEF ObjectsDistinct
  <2> QED BY <2>1, <2>2
<1>3. CASE LayerNext
  <2>1. PICK l \in Layers :
            \/ \E cp \in Checkpoint : CreateIn(l, cp)
            \/ \E op \in Operations, r \in 0..Latest(l), cp \in Checkpoint,
                  discard \in BOOLEAN, source \in Nat \cup {None},
                  res \in Resolutions \cup {None} :
                     /\ UpdateIn(op, l, r, cp, discard, source, res)
                     /\ Descends(cp, l, r, discard, source)
    BY <1>3, LayerForms
  <2>2. ASSUME NEW cp, CreateIn(l, cp)
        PROVE  objects' = Insert(cp)
    BY <2>2 DEF CreateIn
  <2>3. ASSUME NEW op, NEW r, NEW cp, NEW discard, NEW source, NEW res,
               UpdateIn(op, l, r, cp, discard, source, res)
        PROVE  objects' = Insert(cp)
    BY <2>3 DEF UpdateIn
  <2> QED BY <1>2, <2>1, <2>2, <2>3
<1>4. CASE ~LayerNext
  BY <1>4, OtherKeepsLayers DEF ObjectsDistinct
<1> QED BY <1>3, <1>4

\* An update is accepted on the latest head that is not a discard.
Accepts(l, r) == Latest(l) = r /\ ~EventAt(l, Latest(l)).discarded

\* The row an update records.
NewRow(l, r, id, discard, source, res) ==
    [layer |-> l, expected |-> r, checkpoint |-> id, discard |-> discard,
     accepted |-> Accepts(l, r),
     result |-> IF Accepts(l, r) THEN r + 1 ELSE Latest(l),
     source |-> source, resolution |-> res]

\* The effect of an update on the events, checkpoints and attempts.
Updates(op, l, r, cp, discard, source, res) ==
    /\ r \in Nat /\ Latest(l) \in Nat /\ VerifyHead(l, r)
    /\ ~Accepts(l, r) => heads' = heads /\ r < Latest(l)
    /\ Accepts(l, r) =>
          /\ \A m \in Layers \ {l} : heads'[m] = heads[m]
          /\ Latest(l)' = r + 1
          /\ EventAt(l, r + 1)' =
                [checkpoint |-> IdOf(cp), discarded |-> discard, operation |-> op]
    /\ objects' = Insert(cp)
    /\ IdOf(cp) \in DOMAIN objects' /\ objects'[IdOf(cp)] = cp
    /\ op \notin DOMAIN layerAttempts
    /\ DOMAIN layerAttempts' = DOMAIN layerAttempts \cup {op}
    /\ layerAttempts'[op] = NewRow(l, r, IdOf(cp), discard, source, res)

\* update_in has that effect.
LEMMA UpdateHeads ==
    ASSUME IInv, NEW op \in Operations, NEW l \in Layers, NEW r \in 0..Latest(l),
           NEW cp \in Checkpoint, NEW discard \in BOOLEAN,
           NEW source \in Nat \cup {None}, NEW res \in Resolutions \cup {None},
           UpdateIn(op, l, r, cp, discard, source, res)
    PROVE  Updates(op, l, r, cp, discard, source, res)
<1> DEFINE accepted == Accepts(l, r)
           event == [checkpoint |-> IdOf(cp), discarded |-> discard, operation |-> op]
           row == NewRow(l, r, IdOf(cp), discard, source, res)
<1>1. /\ VerifyHead(l, r)
      /\ op \notin DOMAIN layerAttempts
      /\ objects' = Insert(cp)
      /\ layerAttempts' = Put(layerAttempts, op, row)
      /\ heads' = IF accepted THEN [heads EXCEPT ![l] = Append(@, event)] ELSE heads
  BY DEF UpdateIn, Accepts, NewRow
<1>2. heads \in [Layers -> Seq(Event)] /\ objects \in Seq(Checkpoint)
  BY DEF IInv, TypeOK
<1>3. r \in Nat /\ Latest(l) \in Nat /\ Len(heads[l]) = Latest(l) + 1
  BY <1>2 DEF Latest
<1>4. ~accepted => r < Latest(l)
  BY <1>1, <1>3 DEF VerifyHead, Accepts
<1>5. IdOf(cp) \in DOMAIN objects' /\ objects'[IdOf(cp)] = cp
  BY <1>1, <1>2, InsertFacts
<1>6. DOMAIN layerAttempts' = DOMAIN layerAttempts \cup {op} /\ layerAttempts'[op] = row
  BY <1>1 DEF Put
<1>7. ASSUME accepted
      PROVE  /\ \A m \in Layers \ {l} : heads'[m] = heads[m]
             /\ Latest(l)' = r + 1
             /\ EventAt(l, r + 1)' = event
  <2>1. /\ heads'[l] = Append(heads[l], event)
        /\ \A m \in Layers \ {l} : heads'[m] = heads[m]
    BY <1>1, <1>2, <1>7
  <2>2. /\ Len(Append(heads[l], event)) = Len(heads[l]) + 1
        /\ Append(heads[l], event)[Len(heads[l]) + 1] = event
    <3>1. heads[l] \in Seq(Event \cup {event}) /\ event \in Event \cup {event}
      BY <1>2
    <3> QED BY <3>1, AppendFacts
  <2>3. Len(heads[l]) = r + 1
    BY <1>3, <1>7 DEF Accepts
  <2> HIDE DEF event
  <2> QED BY <1>3, <2>1, <2>2, <2>3 DEF Latest, EventAt
<1> HIDE DEF event, row
<1> QED BY <1>1, <1>3, <1>4, <1>5, <1>6, <1>7 DEF Updates, event, row

\* A recorded attempt still reads back (attempt_outcome_in).
LEMMA AttemptKept ==
    ASSUME IInv, IInv', Grows, NEW op \in DOMAIN layerAttempts, LayerAttemptValid(op)
    PROVE  LayerAttemptValid(op)'
<1>1. PICK row \in LayerAttemptRow : row = layerAttempts[op]
  BY DEF IInv, TypeOK, IsTable
<1>2. op \in DOMAIN layerAttempts' /\ layerAttempts'[op] = row
  BY <1>1 DEF Grows, Extends
<1>3. /\ row.layer \in Layers /\ row.expected \in Nat /\ row.result \in Nat
  BY DEF LayerAttemptRow
<1>4. /\ row.expected + 1 \in DOMAIN heads[row.layer]
      /\ row.result <= Latest(row.layer)
      /\ row.checkpoint \in DOMAIN objects
  BY <1>1 DEF LayerAttemptValid, VerifyHead
<1>5. row.result + 1 \in DOMAIN heads[row.layer]
  <2>1. heads[row.layer] \in Seq(Event)
    BY <1>3 DEF IInv, TypeOK
  <2>2. DOMAIN heads[row.layer] = 1..Len(heads[row.layer]) /\ Len(heads[row.layer]) \in Nat
    BY <2>1
  <2> QED BY <1>3, <1>4, <2>2 DEF Latest
<1>6. /\ row.expected + 1 \in DOMAIN heads'[row.layer]
      /\ EventAt(row.layer, row.expected)' = EventAt(row.layer, row.expected)
      /\ EventAt(row.layer, row.result)' = EventAt(row.layer, row.result)
      /\ Latest(row.layer) <= Latest(row.layer)'
      /\ Latest(row.layer) \in Int /\ Latest(row.layer)' \in Int
  BY <1>3, <1>4, <1>5, GrowthFacts
<1>7. EventAt(row.layer, row.expected).checkpoint \in DOMAIN objects
  BY <1>3, <1>4, HeadFacts
<1>8. /\ row.checkpoint \in DOMAIN objects'
      /\ objects'[row.checkpoint] = objects[row.checkpoint]
      /\ objects'[EventAt(row.layer, row.expected).checkpoint]
            = objects[EventAt(row.layer, row.expected).checkpoint]
  BY <1>4, <1>7 DEF Grows, Extends
<1>9. row.result <= Latest(row.layer)'
  BY <1>3, <1>4, <1>6
<1>10. VerifyHead(row.layer, row.expected)'
  BY <1>1, <1>6 DEF LayerAttemptValid, VerifyHead
<1> QED BY <1>1, <1>2, <1>6, <1>8, <1>9, <1>10 DEF LayerAttemptValid

\* A recorded head event still checks (check_events).
LEMMA EventKept ==
    ASSUME IInv, IInv', Grows, NEW l \in Layers, NEW r \in 0..Latest(l), EventValid(l, r)
    PROVE  EventValid(l, r)'
<1>1. heads[l] \in Seq(Event)
  BY DEF IInv, TypeOK
<1>2. /\ r \in Nat /\ r + 1 \in DOMAIN heads[l] /\ 0 + 1 \in DOMAIN heads[l]
      /\ r > 0 => r - 1 \in Nat /\ (r - 1) + 1 \in DOMAIN heads[l]
  BY <1>1 DEF Latest
<1>3. /\ EventAt(l, r)' = EventAt(l, r) /\ CheckpointAt(l, r)' = CheckpointAt(l, r)
      /\ CheckpointAt(l, 0)' = CheckpointAt(l, 0)
      /\ r > 0 => EventAt(l, r - 1)' = EventAt(l, r - 1)
  BY <1>2, GrowthFacts
<1>4. /\ DOMAIN objects \subseteq DOMAIN objects'
      /\ DOMAIN layerAttempts \subseteq DOMAIN layerAttempts'
      /\ \A op \in DOMAIN layerAttempts : layerAttempts'[op] = layerAttempts[op]
  BY DEF Grows, Extends
<1> QED BY <1>3, <1>4 DEF EventValid

\* The new attempt of an update reads back (attempt_outcome_in).
LEMMA AttemptNow ==
    ASSUME IInv, IInv', Grows, ObjectsDistinct,
           NEW op \in Operations, NEW l \in Layers, NEW r \in 0..Latest(l),
           NEW cp \in Checkpoint, NEW discard \in BOOLEAN,
           NEW source \in Nat \cup {None}, NEW res \in Resolutions \cup {None},
           UpdateIn(op, l, r, cp, discard, source, res),
           Descends(cp, l, r, discard, source)
    PROVE  LayerAttemptValid(op)'
<1> DEFINE accepted == Accepts(l, r)
           row == NewRow(l, r, IdOf(cp), discard, source, res)
<1>0. Updates(op, l, r, cp, discard, source, res)
  BY UpdateHeads, Zenon
<1>1. /\ r \in Nat /\ Latest(l) \in Nat /\ VerifyHead(l, r)
      /\ ~accepted => heads' = heads /\ r < Latest(l)
      /\ accepted => /\ \A m \in Layers \ {l} : heads'[m] = heads[m]
                     /\ Latest(l)' = r + 1
                     /\ EventAt(l, r + 1)' =
                           [checkpoint |-> IdOf(cp), discarded |-> discard,
                            operation |-> op]
      /\ objects' = Insert(cp)
      /\ IdOf(cp) \in DOMAIN objects' /\ objects'[IdOf(cp)] = cp
      /\ op \notin DOMAIN layerAttempts
      /\ DOMAIN layerAttempts' = DOMAIN layerAttempts \cup {op}
      /\ layerAttempts'[op] = row
  BY <1>0 DEF Updates
<1>2. /\ EventAt(l, r)' = EventAt(l, r) /\ CheckpointAt(l, r)' = CheckpointAt(l, r)
      /\ r + 1 \in DOMAIN heads'[l]
  BY <1>1, GrowthFacts DEF VerifyHead
<1>3. VerifyHead(l, r)'
  BY <1>1, <1>2 DEF VerifyHead
<1>4. row.result <= Latest(l)'
  BY <1>1 DEF Latest, NewRow
<1>5. discard => IdOf(cp) = EventAt(l, r).checkpoint
  <2>1. SUFFICES ASSUME discard PROVE IdOf(cp) = EventAt(l, r).checkpoint
    OBVIOUS
  <2>2. /\ EventAt(l, r).checkpoint \in DOMAIN objects
        /\ objects[EventAt(l, r).checkpoint] = cp
    BY <1>1, <2>1, HeadFacts DEF Descends, CheckpointAt, VerifyHead
  <2>3. IdOf(cp) \in DOMAIN objects /\ objects[IdOf(cp)] = cp
    BY <2>2 DEF IdOf
  <2> QED BY <2>2, <2>3 DEF ObjectsDistinct
<1>6. /\ objects'[EventAt(l, r)'.checkpoint].base = objects'[IdOf(cp)].base
      /\ objects'[IdOf(cp)].sources = objects'[EventAt(l, r)'.checkpoint].sources
            \cup (IF source = None THEN {} ELSE {source})
  BY <1>1, <1>2 DEF Descends, CheckpointAt
<1>7. /\ row.accepted => /\ row.result = row.expected + 1
                         /\ EventAt(l, r + 1)' =
                               [checkpoint |-> row.checkpoint,
                                discarded |-> row.discard, operation |-> op]
      /\ ~row.accepted => row.result > row.expected
  BY <1>1 DEF NewRow
<1>8. /\ row.layer = l /\ row.expected = r /\ row.checkpoint = IdOf(cp)
      /\ row.discard = discard /\ row.source = source
  BY DEF NewRow
<1> HIDE DEF row
<1> QED BY <1>1, <1>2, <1>3, <1>4, <1>5, <1>6, <1>7, <1>8 DEF LayerAttemptValid

\* Every Layer's records check after a step (check_layers).
LEMMA LayersStep ==
    ASSUME IInv, IInv', Grows, ObjectsDistinct, LayersValid, [Next]_vars
    PROVE  LayersValid'
<1>1. \A op \in DOMAIN layerAttempts : LayerAttemptValid(op)'
  BY AttemptKept DEF LayersValid
<1>2. \A l \in Layers : \A r \in 0..Latest(l) : EventValid(l, r)'
  BY EventKept DEF LayersValid
<1>3. CASE ~LayerNext
  <2>1. UNCHANGED <<objects, heads, layerAttempts>>
    BY <1>3, OtherKeepsLayers
  <2> QED BY <1>1, <1>2, <2>1 DEF LayersValid, Latest
<1>4. CASE LayerNext
  <2>1. PICK l \in Layers :
            \/ \E cp \in Checkpoint : CreateIn(l, cp)
            \/ \E op \in Operations, r \in 0..Latest(l), cp \in Checkpoint,
                  discard \in BOOLEAN, source \in Nat \cup {None},
                  res \in Resolutions \cup {None} :
                     /\ UpdateIn(op, l, r, cp, discard, source, res)
                     /\ Descends(cp, l, r, discard, source)
    BY <1>4, LayerForms
  <2>2. ASSUME NEW cp \in Checkpoint, CreateIn(l, cp)
        PROVE  LayersValid'
    <3> DEFINE event == [checkpoint |-> IdOf(cp), discarded |-> FALSE, operation |-> None]
    <3>1. /\ heads' = [heads EXCEPT ![l] = <<event>>] /\ heads[l] = <<>>
          /\ layerAttempts' = layerAttempts /\ objects' = Insert(cp)
      BY <2>2 DEF CreateIn
    <3>2. heads \in [Layers -> Seq(Event)]
      BY DEF IInv, TypeOK
    <3>3. heads'[l] = <<event>> /\ \A m \in Layers \ {l} : heads'[m] = heads[m]
      BY <3>1, <3>2
    <3>4. Latest(l)' = 0 /\ EventAt(l, 0)' = event
      BY <3>3 DEF Latest, EventAt
    <3>5. EventAt(l, 0)'.checkpoint \in DOMAIN objects'
      BY <3>1, <3>4, InsertFacts DEF IInv, TypeOK
    <3>6. EventValid(l, 0)'
      BY <3>4, <3>5 DEF EventValid
    <3>7. \A m \in Layers \ {l} : Latest(m)' = Latest(m)
      BY <3>3 DEF Latest
    <3>8. \A m \in Layers : \A r \in 0..Latest(m)' : EventValid(m, r)'
      BY <1>2, <3>4, <3>6, <3>7
    <3> QED BY <1>1, <3>1, <3>8 DEF LayersValid
  <2>3. ASSUME NEW op \in Operations, NEW r \in 0..Latest(l), NEW cp \in Checkpoint,
               NEW discard \in BOOLEAN, NEW source \in Nat \cup {None},
               NEW res \in Resolutions \cup {None},
               UpdateIn(op, l, r, cp, discard, source, res),
               Descends(cp, l, r, discard, source)
        PROVE  LayersValid'
    <3> DEFINE accepted == Accepts(l, r)
               event == [checkpoint |-> IdOf(cp), discarded |-> discard, operation |-> op]
    <3>0. Updates(op, l, r, cp, discard, source, res)
      BY <2>3, UpdateHeads, Zenon
    <3>1. /\ r \in Nat /\ Latest(l) \in Nat /\ VerifyHead(l, r)
          /\ ~accepted => heads' = heads
          /\ accepted => /\ \A m \in Layers \ {l} : heads'[m] = heads[m]
                         /\ Latest(l)' = r + 1
                         /\ EventAt(l, r + 1)' = event
          /\ IdOf(cp) \in DOMAIN objects' /\ objects'[IdOf(cp)] = cp
          /\ DOMAIN layerAttempts' = DOMAIN layerAttempts \cup {op}
          /\ layerAttempts'[op] = NewRow(l, r, IdOf(cp), discard, source, res)
      BY <3>0 DEF Updates
    <3>2. \A o \in DOMAIN layerAttempts' : LayerAttemptValid(o)'
      <4>1. LayerAttemptValid(op)'
        BY <2>3, AttemptNow, Zenon
      <4> QED BY <1>1, <3>1, <4>1
    <3>3. ASSUME accepted PROVE EventValid(l, r + 1)'
      <4>1. (r + 1) - 1 = r /\ r + 1 # 0 /\ r + 1 > 0
        BY <3>1
      <4>2. ~EventAt(l, r)'.discarded /\ CheckpointAt(l, r)' = CheckpointAt(l, r)
        BY <3>1, GrowthFacts DEF VerifyHead
      <4>3. CheckpointAt(l, r + 1)' = cp
        BY <3>1, <3>3 DEF CheckpointAt
      <4>4. CheckpointAt(l, r)'.base = CheckpointAt(l, 0)'.base
        BY <1>2 DEF EventValid
      <4>5. CheckpointAt(l, r + 1)'.base = CheckpointAt(l, 0)'.base
        BY <2>3, <4>2, <4>3, <4>4 DEF Descends
      <4>6. LET row == layerAttempts'[op]
            IN  row.accepted /\ row.layer = l /\ row.result = r + 1
        BY <3>1, <3>3 DEF NewRow
      <4>7. /\ EventAt(l, r + 1)'.checkpoint \in DOMAIN objects'
            /\ EventAt(l, r + 1)'.operation = op /\ op \in DOMAIN layerAttempts'
        BY <3>1, <3>3
      <4> QED BY <4>1, <4>2, <4>5, <4>6, <4>7 DEF EventValid
    <3>4. ASSUME accepted
          PROVE  \A m \in Layers : \A k \in 0..Latest(m)' : EventValid(m, k)'
      <4>1. \A m \in Layers \ {l} : Latest(m)' = Latest(m)
        BY <3>1, <3>4 DEF Latest
      <4>2. \A k \in 0..Latest(l)' : k \in 0..Latest(l) \/ k = r + 1
        BY <3>1, <3>4 DEF Accepts
      <4> QED BY <1>2, <3>3, <3>4, <4>1, <4>2
    <3>5. ASSUME ~accepted
          PROVE  \A m \in Layers : \A k \in 0..Latest(m)' : EventValid(m, k)'
      BY <1>2, <3>1, <3>5 DEF Latest
    <3>6. \A m \in Layers : \A k \in 0..Latest(m)' : EventValid(m, k)'
      BY <3>4, <3>5
    <3> QED BY <3>2, <3>6 DEF LayersValid
  <2> QED BY <2>1, <2>2, <2>3
<1> QED BY <1>3, <1>4

\* Nothing is recorded of Layers at the start.
LEMMA LayersStart ==
    ASSUME Init
    PROVE  ObjectsDistinct /\ LayersValid
<1>1. ObjectsDistinct
  BY DEF Init, ObjectsDistinct
<1>2. \A op \in DOMAIN layerAttempts : LayerAttemptValid(op)
  BY DEF Init
<1>3. \A l \in Layers : Latest(l) = -1
  BY DEF Init, Latest
<1> QED BY <1>1, <1>2, <1>3 DEF LayersValid

\* Capture, discard and Stack outcomes read back for ever and head events
\* belong to the attempts that made them, whatever order the calls came in.
THEOREM LayersCorrect == Spec => []LayersValid
<1>1. Init => ObjectsDistinct /\ LayersValid
  BY LayersStart
<1>2. /\ IInv /\ IInv' /\ ObjectsDistinct /\ LayersValid /\ [Next]_vars
      => ObjectsDistinct' /\ LayersValid'
  BY GrowthStep, DistinctStep, LayersStep
<1> QED BY <1>1, <1>2, Invariance, PTL DEF Spec

\* A repeated call reaches its recorded outcome: the token is still one of a
\* Layer that was not discarded there, a recorded operation is not refused, and
\* the sent delta, canonical when it was stored, normalizes to itself, so the
\* candidate is the recorded checkpoint.
LEMMA RetryMeaning ==
    ASSUME IInv, LayersValid, NEW op \in DOMAIN layerAttempts
    PROVE  Retry(op) = AttemptOutcome(op)
<1>1. PICK row \in LayerAttemptRow : row = layerAttempts[op]
  BY DEF IInv, TypeOK, IsTable
<1>2. /\ row.layer \in Layers /\ row.expected \in Nat
      /\ VerifyHead(row.layer, row.expected)
      /\ row.checkpoint \in DOMAIN objects
  BY <1>1 DEF LayersValid, LayerAttemptValid, LayerAttemptRow
<1>3. PICK before : before = CheckpointAt(row.layer, row.expected)
  OBVIOUS
<1>4. PICK sent \in Checkpoint : sent = objects[row.checkpoint]
  BY <1>2 DEF IInv, TypeOK
<1>5. /\ before.base = sent.base
      /\ row.discard => sent = before
      /\ sent.sources = before.sources
                          \cup (IF row.source = None THEN {} ELSE {row.source})
  BY <1>1, <1>3, <1>4 DEF LayersValid, LayerAttemptValid, CheckpointAt
<1>6. Normalize(TreeOf(sent.base), sent.changes) = sent.changes
  BY <1>2, <1>4 DEF IInv, CheckpointsValid, CheckpointValid, Canonical
<1>7. sent = [base |-> sent.base, changes |-> sent.changes, sources |-> sent.sources,
              provenance |-> sent.provenance]
  BY DEF Checkpoint
<1>8. Candidate(row.layer, row.expected, sent.changes, row.discard, row.source,
                sent.provenance) = sent
  <2>1. PrepareCheckpoint(before.base, sent.changes,
           before.sources \cup (IF row.source = None THEN {} ELSE {row.source}),
           sent.provenance) = sent
    BY <1>5, <1>6, <1>7 DEF PrepareCheckpoint
  <2> QED BY <1>3, <1>5, <2>1 DEF Candidate
<1>9. ~RefusePublished(op, row.layer)
  BY DEF RefusePublished
<1> QED BY <1>1, <1>2, <1>4, <1>8, <1>9, Zenon DEF Retry, UpdateReply

\* The recorded outcome of an attempt does not change with the Layer.
LEMMA OutcomeKept ==
    ASSUME IInv, IInv', Grows, NEW op \in DOMAIN layerAttempts, LayerAttemptValid(op)
    PROVE  AttemptOutcome(op)' = AttemptOutcome(op)
<1>1. PICK row \in LayerAttemptRow : row = layerAttempts[op]
  BY DEF IInv, TypeOK, IsTable
<1>2. layerAttempts'[op] = row
  BY <1>1 DEF Grows, Extends
<1>3. /\ row.layer \in Layers /\ row.expected \in Nat /\ row.result \in Nat
      /\ row.result <= Latest(row.layer)
  BY <1>1 DEF LayerAttemptRow, LayerAttemptValid
<1>4. row.result + 1 \in DOMAIN heads[row.layer]
  <2>1. heads[row.layer] \in Seq(Event)
    BY <1>3 DEF IInv, TypeOK
  <2>2. /\ DOMAIN heads[row.layer] = 1..Len(heads[row.layer])
        /\ Len(heads[row.layer]) \in Nat
    BY <2>1
  <2> QED BY <1>3, <2>2 DEF Latest
<1>5. EventAt(row.layer, row.result)' = EventAt(row.layer, row.result)
  BY <1>3, <1>4, GrowthFacts
<1>6. LayerAttemptValid(op)'
  BY AttemptKept
<1>7. EventState(row.layer, row.result)' = EventState(row.layer, row.result)
  BY <1>5 DEF EventState
<1> QED BY <1>1, <1>2, <1>6, <1>7 DEF AttemptOutcome

\* Every recorded call, made again, is answered with its recorded outcome.
AnswersOutcome == \A op \in DOMAIN layerAttempts : Retry(op) = AttemptOutcome(op)

\* A repeated capture, discard or Stack returns the reply it first returned,
\* for ever, although its Layer moved on, ended or was published (update_in,
\* refuse_published_in, attempt_outcome_in).
THEOREM RetriesReplay == Spec => RetryReplays
<1>1. IInv /\ LayersValid => AnswersOutcome
  BY RetryMeaning DEF AnswersOutcome
<1>2. ASSUME IInv, IInv', LayersValid, AnswersOutcome, AnswersOutcome', [Next]_vars
      PROVE  RepliesAgain
  <2>1. ASSUME NEW op \in DOMAIN layerAttempts
        PROVE  Retry(op).reply \in {"applied", "stale"} /\ Retry(op)' = Retry(op)
    <3>1. Grows
      BY <1>2, GrowthStep
    <3>2. LayerAttemptValid(op) /\ op \in DOMAIN layerAttempts'
      BY <1>2, <3>1 DEF LayersValid, Grows, Extends
    <3>3. Retry(op) = AttemptOutcome(op) /\ Retry(op)' = AttemptOutcome(op)'
      BY <1>2, <3>2 DEF AnswersOutcome
    <3>4. AttemptOutcome(op)' = AttemptOutcome(op)
      BY <1>2, <3>1, <3>2, OutcomeKept
    <3>5. AttemptOutcome(op).reply \in {"applied", "stale"}
      BY <3>2 DEF AttemptOutcome
    <3> QED BY <3>3, <3>4, <3>5
  <2> QED BY <2>1, Zenon DEF RepliesAgain
<1>3. /\ IInv /\ IInv' /\ LayersValid /\ AnswersOutcome /\ AnswersOutcome' /\ [Next]_vars
      => [RepliesAgain]_vars
  BY <1>2
<1> QED BY <1>1, <1>3, LayersCorrect, Invariance, PTL DEF Spec, RetryReplays

-----------------------------------------------------------------------------
(* Publish commits, in terms of the request.                               *)

\* The receipt of a request that was still current at its commit.
ReceiptOf(q, outcome, result, paths) ==
    [layer |-> q.layer, expected |-> q.expected, attribution |-> q.attribution,
     against |-> WorldHead, observed |-> StateOf(q.layer), outcome |-> outcome,
     result |-> result, paths |-> paths]

\* What holds of any request that commits.
Commits(q) ==
    /\ q.operation \in Operations /\ q.layer \in Layers /\ q.expected \in Nat
    /\ q.operation \notin DOMAIN publications
    /\ q.operation \notin DOMAIN attempts
    /\ q.expected + 1 \in DOMAIN heads[q.layer]
    /\ UNCHANGED <<objects, heads, layerAttempts>>

\* A request lands: a new World, its attempt, its blame and its receipt.
Lands(q) ==
    LET changes == CheckpointAt(q.layer, q.expected).changes
    IN  /\ Commits(q)
        /\ Exact(q, StateOf(q.layer))
        /\ ComposeConflicts(q, WorldHead) = {}
        /\ attempts' = Put(attempts, q.operation,
              [expected |-> WorldHead, tree |-> None, accepted |-> TRUE,
               result |-> WorldHead + 1])
        /\ versions' = Append(versions,
              [tree |-> ComposeTree(q, WorldHead), changes |-> changes,
               operation |-> q.operation])
        /\ blame' = Append(blame, Attributed(q.layer, changes))
        /\ layerPaths' = [layerPaths EXCEPT ![q.layer] = Untracked]
        /\ publications' = Put(publications, q.operation,
              ReceiptOf(q, "published", WorldHead + 1, {}))

\* A request is recorded as stale or as a conflict.
Declines(q) ==
    /\ Commits(q)
    /\ \/ /\ ~Exact(q, StateOf(q.layer))
          /\ publications' = Put(publications, q.operation, ReceiptOf(q, "stale", 0, {}))
       \/ /\ Exact(q, StateOf(q.layer))
          /\ ComposeConflicts(q, WorldHead) # {}
          /\ publications' = Put(publications, q.operation,
                ReceiptOf(q, "conflict", 0, ComposeConflicts(q, WorldHead)))
    /\ UNCHANGED <<versions, attempts, blame, layerPaths>>

\* A call that commits does so for its request on the current World and Layer.
LEMMA CommitForms ==
    ASSUME IInv, NEW h \in Handles
    PROVE  /\ PublishAdvance(h) => Lands(calls[h].request)
           /\ PublishStale(h) \/ PublishConflict(h) => Declines(calls[h].request)
<1>1. ASSUME h \in DOMAIN calls, StillCurrent(calls[h])
      PROVE  LET q == calls[h].request
             IN  /\ q.operation \in Operations /\ q.layer \in Layers /\ q.expected \in Nat
                 /\ q.operation \notin DOMAIN publications
                 /\ q.operation \notin DOMAIN attempts
                 /\ q.expected + 1 \in DOMAIN heads[q.layer]
                 /\ calls[h].against = WorldHead
                 /\ calls[h].actual = StateOf(q.layer)
                 /\ \A outcome, result, paths :
                       CommitReceipt(h, outcome, result, paths) =>
                          publications' = Put(publications, q.operation,
                             ReceiptOf(q, outcome, result, paths))
  BY <1>1, CallFacts DEF StillCurrent, CommitReceipt, Receipt, ReceiptOf
<1>2. PublishAdvance(h) => Lands(calls[h].request)
  <2>1. SUFFICES ASSUME PublishAdvance(h) PROVE Lands(calls[h].request)
    OBVIOUS
  <2>2. h \in DOMAIN calls /\ StillCurrent(calls[h])
    BY <2>1 DEF PublishAdvance
  <2> QED BY <1>1, <2>1, <2>2 DEF PublishAdvance, Lands, Commits, AppendVersion
<1>3. PublishStale(h) => Declines(calls[h].request)
  BY <1>1 DEF PublishStale, Declines, Commits
<1>4. PublishConflict(h) => Declines(calls[h].request)
  BY <1>1 DEF PublishConflict, Declines, Commits
<1> QED BY <1>2, <1>3, <1>4

\* Every step is one on a Layer, a direct advance, a Publish that commits, or
\* writes no record.
LEMMA StepForms ==
    ASSUME IInv, [Next]_vars
    PROVE  \/ LayerNext
           \/ \E op \in Operations, n \in 0..WorldHead, t \in InputTrees :
                 CompareAndAdvance(op, n, t)
           \/ \E q : Lands(q)
           \/ \E q : Declines(q)
           \/ UNCHANGED <<versions, attempts, objects, heads, layerAttempts,
                          publications, layerPaths, blame>>
BY OtherForms, CommitForms

-----------------------------------------------------------------------------
(* World attempts.                                                         *)

\* A recorded World attempt still reads back (Attempt::outcome).
LEMMA WorldAttemptKept ==
    ASSUME IInv, IInv', Grows, NEW op \in DOMAIN attempts, AttemptValid(op)
    PROVE  AttemptValid(op)'
<1>1. PICK row \in AttemptRow : row = attempts[op]
  BY DEF IInv, TypeOK, IsTable
<1>2. /\ attempts'[op] = row
      /\ DOMAIN publications \subseteq DOMAIN publications'
  BY <1>1 DEF Grows, Extends
<1>3. row.result \in 0..WorldHead
  BY <1>1 DEF AttemptValid
<1>4. versions'[row.result + 1] = versions[row.result + 1] /\ row.result \in 0..WorldHead'
  BY <1>3, GrowthFacts
<1> QED BY <1>1, <1>2, <1>4 DEF AttemptValid

\* append_version_in makes the next World.
LEMMA WorldAppended ==
    ASSUME IInv, NEW world, versions' = Append(versions, world)
    PROVE  /\ WorldHead \in Nat
           /\ WorldHead' = WorldHead + 1
           /\ versions'[WorldHead + 2] = world
           /\ \A n \in 0..WorldHead : versions'[n + 1] = versions[n + 1]
<1>1. /\ versions \in Seq(VersionRow) /\ WorldHead \in Nat
      /\ Len(versions) = WorldHead + 1
  BY VersionFacts DEF IInv, TypeOK, WorldHead
<1>2. versions \in Seq(VersionRow \cup {world}) /\ world \in VersionRow \cup {world}
  BY <1>1
<1>3. /\ Len(versions') = WorldHead + 2 /\ versions'[WorldHead + 2] = world
      /\ \A i \in 1..Len(versions) : versions'[i] = versions[i]
  BY <1>1, <1>2, AppendFacts
<1> QED BY <1>1, <1>3 DEF WorldHead

\* The outcome of every World attempt reads back after a step.
LEMMA WorldAttemptsStep ==
    ASSUME IInv, IInv', Grows, AttemptsValid, [Next]_vars
    PROVE  AttemptsValid'
<1>1. \A op \in DOMAIN attempts : AttemptValid(op)'
  BY WorldAttemptKept DEF AttemptsValid
<1>2. /\ versions \in Seq(VersionRow) /\ WorldHead \in Nat
      /\ Len(versions) = WorldHead + 1
  BY VersionFacts DEF IInv, TypeOK, WorldHead
<1>3. ASSUME NEW world, versions' = Append(versions, world)
      PROVE  WorldHead' = WorldHead + 1 /\ versions'[WorldHead + 2] = world
  BY <1>3, WorldAppended
<1>4. ASSUME NEW op \in Operations, NEW n \in 0..WorldHead, NEW t \in InputTrees,
             CompareAndAdvance(op, n, t)
      PROVE  AttemptsValid'
  <2>1. t # None
    BY NoneAssumption, InputsAssumption
  <2>2. CASE n = WorldHead
    <3>1. /\ attempts' = Put(attempts, op, [expected |-> n, tree |-> t, accepted |-> TRUE,
                                            result |-> WorldHead + 1])
          /\ versions' = Append(versions,
                [tree |-> t, changes |-> Diff(TreeOf(WorldHead), t), operation |-> op])
      BY <1>4, <2>2 DEF CompareAndAdvance, AppendVersion, AdvanceResult
    <3>2. WorldHead' = WorldHead + 1 /\ versions'[WorldHead + 2].operation = op
      <4>1. PICK world : versions' = Append(versions, world) /\ world.operation = op
        BY <3>1
      <4> QED BY <1>3, <4>1
    <3>3. AttemptValid(op)'
      BY <1>2, <2>1, <2>2, <3>1, <3>2 DEF AttemptValid, Put
    <3> QED BY <1>1, <3>1, <3>3 DEF AttemptsValid, Put
  <2>3. CASE n # WorldHead
    <3>1. /\ attempts' = Put(attempts, op, [expected |-> n, tree |-> t, accepted |-> FALSE,
                                            result |-> WorldHead])
          /\ versions' = versions
      BY <1>4, <2>3 DEF CompareAndAdvance, AdvanceResult
    <3>2. WorldHead' = WorldHead
      BY <3>1 DEF WorldHead
    <3>3. AttemptValid(op)'
      BY <1>2, <2>1, <2>3, <3>1, <3>2 DEF AttemptValid, Put
    <3> QED BY <1>1, <3>1, <3>3 DEF AttemptsValid, Put
  <2> QED BY <2>2, <2>3
<1>5. ASSUME NEW q, Lands(q)
      PROVE  AttemptsValid'
  <2> DEFINE op == q.operation
  <2>1. /\ attempts' = Put(attempts, op, [expected |-> WorldHead, tree |-> None,
                                          accepted |-> TRUE, result |-> WorldHead + 1])
        /\ \E world : versions' = Append(versions, world) /\ world.operation = op
        /\ op \in DOMAIN publications'
    BY <1>5 DEF Lands, Put
  <2>2. WorldHead' = WorldHead + 1 /\ versions'[WorldHead + 2].operation = op
    BY <1>3, <2>1
  <2>3. AttemptValid(op)'
    BY <1>2, <2>1, <2>2 DEF AttemptValid, Put
  <2> QED BY <1>1, <2>1, <2>3 DEF AttemptsValid, Put
<1>6. ASSUME attempts' = attempts
      PROVE  AttemptsValid'
  BY <1>1, <1>6 DEF AttemptsValid
<1>7. LayerNext => attempts' = attempts
  BY LayerKeepsReceipts
<1>8. ASSUME NEW q, Declines(q) PROVE attempts' = attempts
  BY <1>8 DEF Declines
<1> QED BY <1>4, <1>5, <1>6, <1>7, <1>8, StepForms

\* A World attempt's outcome can be read back for ever: it was accepted as the
\* version it names, or names a World that made it stale.
THEOREM AttemptsCorrect == Spec => []AttemptsValid
<1>1. Init => AttemptsValid
  BY DEF Init, AttemptsValid
<1>2. IInv /\ IInv' /\ AttemptsValid /\ [Next]_vars => AttemptsValid'
  BY GrowthStep, WorldAttemptsStep
<1> QED BY <1>1, <1>2, Invariance, PTL DEF Spec

-----------------------------------------------------------------------------
(* Receipts.                                                               *)

\* The token of every call in flight was verified when it was prepared.
CallsVerified ==
    \A h \in DOMAIN calls : VerifyHead(calls[h].request.layer, calls[h].request.expected)

\* A Layer is published by one operation (the unique index on publications).
PublishedOnce ==
    \A a, b \in DOMAIN publications :
       /\ publications[a].outcome = "published" /\ publications[b].outcome = "published"
       /\ publications[a].layer = publications[b].layer
       => a = b

ReceiptsInv ==
    /\ CallsVerified
    /\ PublishedOnce
    /\ \A op \in DOMAIN publications : ReceiptValid(op)

\* Tokens of calls in flight stay verified.
LEMMA CallsVerifiedStep ==
    ASSUME IInv, IInv', Grows, CallsVerified, [Next]_vars
    PROVE  CallsVerified'
<1>1. ASSUME NEW l \in Layers, NEW r \in Nat, VerifyHead(l, r)
      PROVE  VerifyHead(l, r)'
  BY <1>1, GrowthFacts DEF VerifyHead
<1>3. ASSUME NEW h \in DOMAIN calls, NEW q, q = calls[h].request
      PROVE  VerifyHead(q.layer, q.expected)'
  BY <1>1, <1>3, CallFacts DEF CallsVerified
<1>4. ASSUME NEW h \in Handles, NEW q \in Request, Admissible(q), Prepare(h, q),
             heads' = heads
      PROVE  CallsVerified'
  <2>1. VerifyHead(q.layer, q.expected)'
    BY <1>4 DEF Admissible, VerifyHead, EventAt
  <2>2. /\ DOMAIN calls' = DOMAIN calls \cup {h} /\ calls'[h].request = q
        /\ \A k \in DOMAIN calls \ {h} : calls'[k] = calls[k]
    BY <1>4 DEF Prepare, Put
  <2> QED BY <1>3, <2>1, <2>2 DEF CallsVerified
<1>5. ASSUME DOMAIN calls' \subseteq DOMAIN calls,
             \A k \in DOMAIN calls' : calls'[k].request = calls[k].request
      PROVE  CallsVerified'
  BY <1>3, <1>5 DEF CallsVerified
<1>6. \/ /\ DOMAIN calls' \subseteq DOMAIN calls
         /\ \A k \in DOMAIN calls' : calls'[k].request = calls[k].request
      \/ \E h \in Handles : \E q \in Request :
            Admissible(q) /\ Prepare(h, q) /\ heads' = heads
  <2>1. CASE PublishNext
    <3>1. PICK h \in Handles :
            \/ \E request \in [operation : Operations, layer : Layers,
                               expected : 0..MaxRevision, attribution : Attributions] :
                  PublishLayer(h, request)
            \/ PublishStep(h)
            \/ PublishAbandon(h)
      BY <2>1 DEF PublishNext
    <3>2. ASSUME NEW q \in [operation : Operations, layer : Layers,
                            expected : 0..MaxRevision, attribution : Attributions],
                 PublishLayer(h, q)
          PROVE  q \in Request /\ Admissible(q) /\ Prepare(h, q) /\ heads' = heads
      BY <3>2, BoundsAssumption DEF PublishLayer, Request
    <3>3. CASE PublishPrepareAgain(h)
      BY <3>3, CallFacts DEF PublishPrepareAgain
    <3>4. CASE PublishMoved(h)
      <4>1. /\ h \in DOMAIN calls /\ calls[h] \in Call
            /\ calls' = [calls EXCEPT ![h].phase = "moved"]
        BY <3>4, CallFacts DEF PublishMoved
      <4> QED BY <4>1 DEF Call
    <3>5. ASSUME calls' = Remove(calls, h)
          PROVE  /\ DOMAIN calls' \subseteq DOMAIN calls
                 /\ \A k \in DOMAIN calls' : calls'[k].request = calls[k].request
      BY <3>5 DEF Remove
    <3>6. PublishStep(h) \/ PublishAbandon(h) =>
            PublishPrepareAgain(h) \/ PublishMoved(h) \/ calls' = Remove(calls, h)
      BY DEF PublishStep, PublishReturn, PublishStale, PublishConflict, PublishAdvance,
             PublishRefused, PublishAbandon, CommitReceipt
    <3> QED BY <3>1, <3>2, <3>3, <3>4, <3>5, <3>6
  <2>2. CASE ~PublishNext
    <3>1. calls' = calls
      BY <2>2, LayerKeepsReceipts DEF Next, WorldNext, ReplayUpdate, ReplayAdvance,
         ReplayPublish, CompareAndAdvance, vars
    <3> QED BY <3>1
  <2> QED BY <2>1, <2>2
<1> QED BY <1>4, <1>5, <1>6

\* A receipt that appears as published names the World of this step.
LEMMA PublishedGrows ==
    ASSUME IInv, Grows, [Next]_vars, NEW l
    PROVE  /\ PublishedBy(l) \subseteq PublishedBy(l)'
           /\ \A op \in PublishedBy(l)' \ PublishedBy(l) :
                 /\ op \notin DOMAIN publications
                 /\ publications'[op].result = WorldHead + 1
                 /\ \E q : Lands(q) /\ q.layer = l /\ q.operation = op
<1>1. /\ DOMAIN publications \subseteq DOMAIN publications'
      /\ \A op \in DOMAIN publications : publications'[op] = publications[op]
  BY DEF Grows, Extends
<1>2. PublishedBy(l) \subseteq PublishedBy(l)'
  BY <1>1 DEF PublishedBy
<1>3. ASSUME NEW op \in PublishedBy(l)' \ PublishedBy(l)
      PROVE  /\ op \notin DOMAIN publications
             /\ publications'[op].result = WorldHead + 1
             /\ \E q : Lands(q) /\ q.layer = l /\ q.operation = op
  <2>1. /\ op \in DOMAIN publications' \ DOMAIN publications
        /\ publications'[op].outcome = "published" /\ publications'[op].layer = l
    BY <1>1 DEF PublishedBy
  <2>2. PICK h \in Handles : /\ PublishAdvance(h) /\ op = calls[h].request.operation
                             /\ publications'[op].layer = calls[h].request.layer
    BY <2>1, NewReceipt
  <2>3. Lands(calls[h].request)
    BY <2>2, CommitForms
  <2>4. publications'[op] = ReceiptOf(calls[h].request, "published", WorldHead + 1, {})
    BY <2>2, <2>3 DEF Lands, Put
  <2> QED BY <2>1, <2>2, <2>3, <2>4 DEF ReceiptOf
<1> QED BY <1>2, <1>3

\* The request a receipt stands for.
RequestOf(op, row) ==
    [operation |-> op, layer |-> row.layer, expected |-> row.expected,
     attribution |-> row.attribution]

\* What a receipt says of the Layer it found.
Observes(op, row) ==
    /\ IF row.observed.status = "published"
       THEN /\ row.observed.operation \in PublishedBy(row.layer) \ {op}
            /\ publications[row.observed.operation].result <= row.against
            /\ row.observed = SuccessState(row.observed.operation)
       ELSE row.observed = EventState(row.layer, row.observed.revision)
    /\ \A other \in PublishedBy(row.layer) :
          publications[other].result <= row.against => row.observed.operation = other

\* What a receipt says of its outcome.
Decides(op, row) ==
    LET request == RequestOf(op, row)
        exact == Exact(request, row.observed)
    IN  /\ row.outcome = "published" =>
              /\ exact
              /\ row.result = row.against + 1
              /\ row.result <= WorldHead
              /\ Latest(row.layer) = row.expected
              /\ ComposeConflicts(request, row.against) = {}
              /\ op \in DOMAIN attempts
              /\ versions[row.result + 1] =
                   [tree |-> ComposeTree(request, row.against),
                    changes |-> CheckpointAt(row.layer, row.expected).changes,
                    operation |-> op]
        /\ row.outcome = "conflict" =>
              /\ exact
              /\ op \notin DOMAIN attempts
              /\ row.paths = ComposeConflicts(request, row.against)
              /\ row.paths # {}
        /\ row.outcome = "stale" => ~exact /\ op \notin DOMAIN attempts

ReceiptHolds(op, row) ==
    /\ VerifyHead(row.layer, row.expected)
    /\ row.observed.revision \in row.expected..Latest(row.layer)
    /\ row.against \in 0..WorldHead
    /\ CheckpointAt(row.layer, row.expected).base <= row.against
    /\ Observes(op, row)
    /\ Decides(op, row)

\* The parts of a receipt's validity (receipt_in), before and after a step.
LEMMA ReceiptParts ==
    ASSUME NEW op, NEW row, row.outcome \in {"published", "conflict", "stale"}
    PROVE  /\ publications[op] = row => (ReceiptValid(op) <=> ReceiptHolds(op, row))
           /\ publications'[op] = row => (ReceiptValid(op)' <=> ReceiptHolds(op, row)')
<1>1. CASE row.outcome = "published"
  BY <1>1 DEF ReceiptValid, ReceiptHolds, Observes, Decides, RequestOf
<1>2. CASE row.outcome = "conflict"
  BY <1>2 DEF ReceiptValid, ReceiptHolds, Observes, Decides, RequestOf
<1>3. CASE row.outcome = "stale"
  BY <1>3 DEF ReceiptValid, ReceiptHolds, Observes, Decides, RequestOf
<1> QED BY <1>1, <1>2, <1>3

\* A composition of recorded parts reads the same after a step.
LEMMA ComposeKept ==
    ASSUME IInv, IInv', Grows, NEW q, q.layer \in Layers, q.expected \in Nat,
           q.expected + 1 \in DOMAIN heads[q.layer], NEW n \in 0..WorldHead
    PROVE  /\ ComposeConflicts(q, n)' = ComposeConflicts(q, n)
           /\ ComposeTree(q, n)' = ComposeTree(q, n)
<1>1. CheckpointAt(q.layer, q.expected)' = CheckpointAt(q.layer, q.expected)
  BY GrowthFacts
<1>2. CheckpointAt(q.layer, q.expected).base \in 0..WorldHead
  BY HeadFacts
<1>3. TreeOf(n)' = TreeOf(n)
  BY GrowthFacts
<1>4. PICK b : b = CheckpointAt(q.layer, q.expected).base
  OBVIOUS
<1>5. TreeOf(b)' = TreeOf(b)
  BY <1>2, <1>4, GrowthFacts
<1> QED BY <1>1, <1>3, <1>4, <1>5 DEF ComposeConflicts, ComposeTree

\* A receipt never becomes a World attempt of another kind: the operation of a
\* recorded receipt is not written to the attempts again.
LEMMA ReservedOperations ==
    ASSUME IInv, [Next]_vars, NEW op \in DOMAIN publications, op \notin DOMAIN attempts
    PROVE  op \notin DOMAIN attempts'
<1>1. ASSUME NEW o, NEW n, NEW t, CompareAndAdvance(o, n, t)
      PROVE  op \notin DOMAIN attempts'
  BY <1>1 DEF CompareAndAdvance, Put
<1>2. ASSUME NEW q, Lands(q)
      PROVE  op \notin DOMAIN attempts'
  BY <1>2 DEF Lands, Commits, Put
<1>3. ASSUME NEW q, Declines(q)
      PROVE  op \notin DOMAIN attempts'
  BY <1>3 DEF Declines
<1>4. LayerNext => attempts' = attempts
  BY LayerKeepsReceipts
<1> QED BY <1>1, <1>2, <1>3, <1>4, StepForms

\* A recorded receipt is still justified after a step (receipt_in).
LEMMA ReceiptKept ==
    ASSUME IInv, IInv', Grows, KeepsTerminal, ReceiptsInv, [Next]_vars,
           NEW op \in DOMAIN publications
    PROVE  ReceiptValid(op)'
<1>1. PICK row \in PublicationRow : row = publications[op]
  BY DEF IInv, TypeOK, IsTable
<1>2. /\ row.layer \in Layers /\ row.expected \in Nat /\ row.against \in Nat
      /\ row.result \in Nat /\ row.outcome \in {"published", "conflict", "stale"}
      /\ row.observed \in LayerState
  BY DEF PublicationRow
<1>3. /\ DOMAIN publications \subseteq DOMAIN publications'
      /\ \A o \in DOMAIN publications : publications'[o] = publications[o]
      /\ publications'[op] = row
  BY <1>1 DEF Grows, Extends
<1>4. /\ VerifyHead(row.layer, row.expected)
      /\ row.observed.revision \in row.expected..Latest(row.layer)
      /\ row.against \in 0..WorldHead
      /\ CheckpointAt(row.layer, row.expected).base <= row.against
      /\ Observes(op, row)
      /\ Decides(op, row)
  BY <1>1, <1>2, ReceiptParts DEF ReceiptsInv, ReceiptHolds
<1>5. /\ row.expected + 1 \in DOMAIN heads[row.layer]
      /\ ~EventAt(row.layer, row.expected).discarded
  BY <1>4 DEF VerifyHead
<1>6. /\ VerifyHead(row.layer, row.expected)'
      /\ CheckpointAt(row.layer, row.expected)' = CheckpointAt(row.layer, row.expected)
      /\ Latest(row.layer) \in Int /\ Latest(row.layer)' \in Int
      /\ Latest(row.layer) <= Latest(row.layer)'
      /\ WorldHead \in Nat /\ WorldHead' \in Nat /\ WorldHead <= WorldHead'
  BY <1>2, <1>5, GrowthFacts DEF VerifyHead
<1>7. /\ row.observed.revision \in row.expected..Latest(row.layer)'
      /\ row.against \in 0..WorldHead'
  BY <1>2, <1>4, <1>6
<1>8. Observes(op, row)'
  <2>1. /\ PublishedBy(row.layer) \subseteq PublishedBy(row.layer)'
        /\ \A o \in PublishedBy(row.layer)' \ PublishedBy(row.layer) :
              publications'[o].result = WorldHead + 1
    BY PublishedGrows
  <2>2. \A o \in PublishedBy(row.layer) : publications'[o] = publications[o]
    BY <1>3 DEF PublishedBy
  <2>3. ASSUME NEW other \in PublishedBy(row.layer)',
               publications'[other].result <= row.against
        PROVE  row.observed.operation = other
    <3>1. other \in PublishedBy(row.layer)
      BY <1>4, <1>6, <2>1, <2>3
    <3> QED BY <1>4, <2>2, <2>3, <3>1 DEF Observes
  <2>4. CASE row.observed.status = "published"
    <3>1. /\ row.observed.operation \in PublishedBy(row.layer) \ {op}
          /\ publications[row.observed.operation].result <= row.against
          /\ row.observed = SuccessState(row.observed.operation)
      BY <1>4, <2>4 DEF Observes
    <3>2. publications'[row.observed.operation] = publications[row.observed.operation]
      BY <2>2, <3>1
    <3> QED BY <2>1, <2>3, <2>4, <3>1, <3>2 DEF Observes, SuccessState
  <2>5. CASE row.observed.status # "published"
    <3>1. row.observed = EventState(row.layer, row.observed.revision)
      BY <1>4, <2>5 DEF Observes
    <3>2. row.observed.revision \in Nat /\
          row.observed.revision + 1 \in DOMAIN heads[row.layer]
      <4>1. heads[row.layer] \in Seq(Event)
        BY <1>2 DEF IInv, TypeOK
      <4>2. DOMAIN heads[row.layer] = 1..Len(heads[row.layer])
              /\ Len(heads[row.layer]) \in Nat
        BY <4>1
      <4> QED BY <1>2, <1>4, <4>2 DEF Latest
    <3>3. EventAt(row.layer, row.observed.revision)'
            = EventAt(row.layer, row.observed.revision)
      BY <1>2, <3>2, GrowthFacts
    <3>4. EventState(row.layer, row.observed.revision)' = row.observed
      BY <3>1, <3>3 DEF EventState
    <3> QED BY <2>3, <2>5, <3>4 DEF Observes
  <2> QED BY <2>4, <2>5
<1>9. Decides(op, row)'
  <2> DEFINE q == RequestOf(op, row)
  <2>1. /\ q.layer = row.layer /\ q.expected = row.expected
    BY DEF RequestOf
  <2>2. /\ ComposeConflicts(q, row.against)' = ComposeConflicts(q, row.against)
        /\ ComposeTree(q, row.against)' = ComposeTree(q, row.against)
    <3> HIDE DEF q
    <3> QED BY <1>2, <1>4, <1>5, <2>1, ComposeKept
  <2>3. CASE row.outcome = "published"
    <3>1. /\ Exact(q, row.observed)
          /\ row.result = row.against + 1
          /\ row.result <= WorldHead
          /\ Latest(row.layer) = row.expected
          /\ ComposeConflicts(q, row.against) = {}
          /\ op \in DOMAIN attempts
          /\ versions[row.result + 1] =
               [tree |-> ComposeTree(q, row.against),
                changes |-> CheckpointAt(row.layer, row.expected).changes,
                operation |-> op]
      BY <1>4, <2>3 DEF Decides
    <3>2. op \in DOMAIN attempts'
      BY <3>1 DEF Grows, Extends
    <3>3. row.result <= WorldHead' /\ versions'[row.result + 1] = versions[row.result + 1]
      <4>1. row.result \in 0..WorldHead
        BY <1>2, <1>6, <3>1
      <4> QED BY <1>6, <4>1, GrowthFacts
    <3>4. Latest(row.layer)' = Latest(row.layer)
      <4>1. op \in PublishedBy(row.layer)
        BY <1>1, <2>3 DEF PublishedBy
      <4>2. StateOf(row.layer).status = "published"
        BY <4>1 DEF StateOf, SuccessState
      <4>3. heads[row.layer] # <<>>
        BY <1>5
      <4>4. heads'[row.layer] = heads[row.layer]
        BY <1>2, <4>2, <4>3 DEF KeepsTerminal
      <4> QED BY <4>4 DEF Latest
    <3>5. CheckpointAt(row.layer, row.expected)'.changes
            = CheckpointAt(row.layer, row.expected).changes
      BY <1>6
    <3> HIDE DEF q
    <3>6. versions'[row.result + 1] =
               [tree |-> ComposeTree(q, row.against)',
                changes |-> CheckpointAt(row.layer, row.expected)'.changes,
                operation |-> op]
      BY <2>2, <3>1, <3>3, <3>5
    <3> QED BY <2>2, <2>3, <3>1, <3>2, <3>3, <3>4, <3>6 DEF Decides, q
  <2>4. CASE row.outcome = "conflict"
    <3>1. /\ Exact(q, row.observed) /\ op \notin DOMAIN attempts
          /\ row.paths = ComposeConflicts(q, row.against) /\ row.paths # {}
      BY <1>4, <2>4 DEF Decides
    <3>2. op \notin DOMAIN attempts'
      BY <3>1, ReservedOperations
    <3> HIDE DEF q
    <3> QED BY <2>2, <2>4, <3>1, <3>2 DEF Decides, q
  <2>5. CASE row.outcome = "stale"
    <3>1. ~Exact(q, row.observed) /\ op \notin DOMAIN attempts
      BY <1>4, <2>5 DEF Decides
    <3>2. op \notin DOMAIN attempts'
      BY <3>1, ReservedOperations
    <3> QED BY <2>5, <3>1, <3>2 DEF Decides
  <2> QED BY <1>2, <2>3, <2>4, <2>5
<1>10. CheckpointAt(row.layer, row.expected)'.base <= row.against
  BY <1>4, <1>6
<1>11. ReceiptHolds(op, row)'
  BY <1>6, <1>7, <1>8, <1>9, <1>10 DEF ReceiptHolds
<1> QED BY <1>2, <1>3, <1>11, ReceiptParts

\* What layer_state_in reads, in terms of the receipts and events.
LEMMA StateFacts ==
    ASSUME IInv, ReceiptsInv, NEW l \in Layers, heads[l] # <<>>
    PROVE  /\ Latest(l) \in Nat /\ Latest(l) + 1 \in DOMAIN heads[l]
           /\ StateOf(l).revision = Latest(l)
           /\ StateOf(l).status = "published" <=> PublishedBy(l) # {}
           /\ PublishedBy(l) # {} =>
                 /\ StateOf(l).operation \in PublishedBy(l)
                 /\ StateOf(l) = SuccessState(StateOf(l).operation)
                 /\ publications[StateOf(l).operation].result <= WorldHead
                 /\ \A o \in PublishedBy(l) : o = StateOf(l).operation
           /\ PublishedBy(l) = {} => StateOf(l) = EventState(l, Latest(l))
<1>1. heads[l] \in Seq(Event)
  BY DEF IInv, TypeOK
<1>2. Latest(l) \in Nat /\ Latest(l) + 1 \in DOMAIN heads[l]
  BY <1>1 DEF Latest
<1>3. CASE PublishedBy(l) = {}
  BY <1>2, <1>3 DEF StateOf, EventState
<1>4. CASE PublishedBy(l) # {}
  <2>1. PICK o \in PublishedBy(l) : StateOf(l) = SuccessState(o)
    BY <1>4 DEF StateOf
  <2>2. PICK row \in PublicationRow : row = publications[o]
    BY <2>1 DEF PublishedBy, IInv, TypeOK, IsTable
  <2>3. row.layer = l /\ row.outcome = "published" /\ o \in DOMAIN publications
    BY <2>1, <2>2 DEF PublishedBy
  <2>4. Decides(o, row)
    BY <2>2, <2>3, ReceiptParts DEF ReceiptsInv, ReceiptHolds
  <2>5. Latest(l) = row.expected /\ row.result <= WorldHead
    BY <2>3, <2>4 DEF Decides
  <2>6. \A p \in PublishedBy(l) : p = o
    BY <2>1 DEF PublishedBy, ReceiptsInv, PublishedOnce
  <2>7. /\ StateOf(l).operation = o /\ StateOf(l).status = "published"
        /\ StateOf(l).revision = row.expected
    BY <2>1, <2>2 DEF SuccessState
  <2> QED BY <1>2, <1>4, <2>1, <2>2, <2>5, <2>6, <2>7
<1> QED BY <1>3, <1>4

\* The new receipt of a Publish that commits is justified (receipt_in).
LEMMA ReceiptNow ==
    ASSUME IInv, IInv', Grows, ReceiptsInv, [Next]_vars, NEW q,
           Lands(q) \/ Declines(q), VerifyHead(q.layer, q.expected)
    PROVE  ReceiptValid(q.operation)'
<1> DEFINE op == q.operation
           l == q.layer
<1>1. /\ op \in Operations /\ l \in Layers /\ q.expected \in Nat
      /\ op \notin DOMAIN publications /\ op \notin DOMAIN attempts
      /\ q.expected + 1 \in DOMAIN heads[l]
      /\ UNCHANGED <<objects, heads, layerAttempts>>
  BY DEF Lands, Declines, Commits
<1>2. PICK row \in PublicationRow :
        /\ publications'[op] = row
        /\ row.layer = l /\ row.expected = q.expected /\ row.against = WorldHead
        /\ row.attribution = q.attribution /\ row.observed = StateOf(l)
        /\ row.outcome \in {"published", "conflict", "stale"}
        /\ row.outcome = "published" => row.result = WorldHead + 1 /\ Lands(q)
        /\ row.outcome = "conflict" =>
              /\ row.paths = ComposeConflicts(q, WorldHead)
              /\ Declines(q) /\ Exact(q, StateOf(l)) /\ row.paths # {}
        /\ row.outcome = "stale" => Declines(q) /\ ~Exact(q, StateOf(l))
  <2>1. op \in DOMAIN publications' /\ publications'[op] \in PublicationRow
    BY DEF Lands, Declines, Put, IInv, TypeOK, IsTable
  <2>2. CASE Lands(q)
    <3>1. publications'[op] = ReceiptOf(q, "published", WorldHead + 1, {})
      BY <2>2 DEF Lands, Put
    <3> QED BY <2>1, <2>2, <3>1 DEF ReceiptOf
  <2>3. CASE Declines(q)
    <3>1. \/ /\ publications'[op] = ReceiptOf(q, "stale", 0, {})
             /\ ~Exact(q, StateOf(l))
          \/ /\ publications'[op] =
                   ReceiptOf(q, "conflict", 0, ComposeConflicts(q, WorldHead))
             /\ Exact(q, StateOf(l)) /\ ComposeConflicts(q, WorldHead) # {}
      BY <2>3 DEF Declines, Put
    <3> QED BY <2>1, <2>3, <3>1 DEF ReceiptOf
  <2> QED BY <2>2, <2>3
<1>3. heads[l] # <<>>
  BY <1>1
<1>4. /\ Latest(l) \in Nat /\ Latest(l) + 1 \in DOMAIN heads[l]
      /\ StateOf(l).revision = Latest(l)
      /\ StateOf(l).status = "published" <=> PublishedBy(l) # {}
      /\ PublishedBy(l) # {} =>
            /\ StateOf(l).operation \in PublishedBy(l)
            /\ StateOf(l) = SuccessState(StateOf(l).operation)
            /\ publications[StateOf(l).operation].result <= WorldHead
            /\ \A o \in PublishedBy(l) : o = StateOf(l).operation
      /\ PublishedBy(l) = {} => StateOf(l) = EventState(l, Latest(l))
  BY <1>1, <1>3, StateFacts
<1>5. Latest(l)' = Latest(l) /\ q.expected <= Latest(l)
  <2>1. heads[l] \in Seq(Event)
    BY <1>1 DEF IInv, TypeOK
  <2>2. DOMAIN heads[l] = 1..Len(heads[l]) /\ Len(heads[l]) \in Nat
    BY <2>1
  <2> QED BY <1>1, <2>2 DEF Latest
<1>6. WorldHead \in Nat /\ WorldHead' \in Nat /\ WorldHead <= WorldHead'
  BY GrowthFacts
<1>7. /\ VerifyHead(row.layer, row.expected)'
      /\ CheckpointAt(row.layer, row.expected)'.base <= row.against
      /\ CheckpointAt(l, q.expected)' = CheckpointAt(l, q.expected)
  <2>1. /\ EventAt(l, q.expected)' = EventAt(l, q.expected)
        /\ CheckpointAt(l, q.expected)' = CheckpointAt(l, q.expected)
    BY <1>1 DEF EventAt, CheckpointAt
  <2>2. CheckpointAt(l, q.expected).base \in 0..WorldHead
    BY <1>1, HeadFacts
  <2> QED BY <1>1, <1>2, <1>6, <2>1, <2>2 DEF VerifyHead
<1>8. row.observed.revision \in row.expected..Latest(row.layer)'
  BY <1>1, <1>2, <1>4, <1>5
<1>9. row.against \in 0..WorldHead'
  BY <1>2, <1>6
<1>10. Observes(op, row)'
  <2>1. /\ PublishedBy(l) \subseteq PublishedBy(l)'
        /\ \A o \in PublishedBy(l)' \ PublishedBy(l) :
              publications'[o].result = WorldHead + 1
    BY PublishedGrows
  <2>2. \A o \in PublishedBy(l) :
           o \in DOMAIN publications /\ publications'[o] = publications[o]
    BY DEF PublishedBy, Grows, Extends
  <2>3. ASSUME NEW other \in PublishedBy(l)', publications'[other].result <= row.against
        PROVE  row.observed.operation = other
    BY <1>2, <1>4, <1>6, <2>1, <2>3
  <2>4. CASE PublishedBy(l) # {}
    <3>1. PICK o : o = StateOf(l).operation
      OBVIOUS
    <3>2. /\ o \in PublishedBy(l)' \ {op} /\ publications'[o].result <= row.against
          /\ row.observed.operation = o /\ row.observed.status = "published"
      BY <1>1, <1>2, <1>4, <2>1, <2>2, <2>4, <3>1
    <3>3. row.observed = SuccessState(o)'
      BY <1>2, <1>4, <2>2, <2>4, <3>1 DEF SuccessState
    <3> QED BY <1>2, <2>3, <3>2, <3>3 DEF Observes
  <2>5. CASE PublishedBy(l) = {}
    <3>1. row.observed.status # "published" /\ row.observed.revision = Latest(l)
      BY <1>2, <1>4, <2>5
    <3>2. row.observed = EventState(l, Latest(l))
      BY <1>2, <1>4, <2>5
    <3>3. PICK n : n = Latest(l)
      OBVIOUS
    <3>4. EventState(l, n)' = EventState(l, n)
      BY <1>1 DEF EventState, EventAt
    <3>5. row.observed = EventState(row.layer, row.observed.revision)'
      BY <1>2, <3>1, <3>2, <3>3, <3>4
    <3> QED BY <1>2, <2>3, <3>1, <3>5 DEF Observes
  <2> QED BY <2>4, <2>5
<1>11. Decides(op, row)'
  <2>1. /\ RequestOf(op, row).layer = l /\ RequestOf(op, row).expected = q.expected
        /\ Exact(RequestOf(op, row), row.observed) <=> Exact(q, StateOf(l))
    BY <1>2 DEF RequestOf, Exact
  <2>2. /\ ComposeConflicts(RequestOf(op, row), WorldHead) = ComposeConflicts(q, WorldHead)
        /\ ComposeTree(RequestOf(op, row), WorldHead) = ComposeTree(q, WorldHead)
    BY <2>1 DEF ComposeConflicts, ComposeTree
  <2>3. PICK n : n = WorldHead
    OBVIOUS
  <2>4. /\ ComposeConflicts(RequestOf(op, row), n)' = ComposeConflicts(q, WorldHead)
        /\ ComposeTree(RequestOf(op, row), n)' = ComposeTree(q, WorldHead)
    BY <1>1, <1>6, <2>1, <2>2, <2>3, ComposeKept
  <2>5. CASE row.outcome = "published"
    <3>1. Lands(q) /\ row.result = WorldHead + 1
      BY <1>2, <2>5
    <3>2. /\ Exact(q, StateOf(l)) /\ ComposeConflicts(q, WorldHead) = {}
          /\ op \in DOMAIN attempts'
          /\ versions' = Append(versions,
              [tree |-> ComposeTree(q, WorldHead),
               changes |-> CheckpointAt(l, q.expected).changes, operation |-> op])
      BY <3>1 DEF Lands, Put
    <3>3. /\ WorldHead' = WorldHead + 1
          /\ versions'[WorldHead + 2] =
                [tree |-> ComposeTree(q, WorldHead),
                 changes |-> CheckpointAt(l, q.expected).changes, operation |-> op]
      BY <3>2, WorldAppended
    <3>4. Latest(l) = q.expected
      BY <1>4, <3>2 DEF Exact
    <3>5. row.result + 1 = WorldHead + 2
      BY <1>6, <3>1
    <3>6. /\ Exact(RequestOf(op, row), row.observed)
          /\ row.result = row.against + 1 /\ row.result <= WorldHead'
          /\ Latest(row.layer)' = row.expected
      BY <1>2, <1>5, <1>6, <2>1, <3>1, <3>2, <3>3, <3>4
    <3>7. ComposeConflicts(RequestOf(op, row), row.against)' = {}
      BY <1>2, <2>3, <2>4, <3>2
    <3>8. versions'[row.result + 1] =
             [tree |-> ComposeTree(RequestOf(op, row), row.against)',
              changes |-> CheckpointAt(row.layer, row.expected)'.changes,
              operation |-> op]
      BY <1>2, <1>7, <2>3, <2>4, <3>3, <3>5
    <3> QED BY <2>5, <3>2, <3>6, <3>7, <3>8 DEF Decides
  <2>6. CASE row.outcome # "published"
    <3>1. op \notin DOMAIN attempts'
      BY <1>1, <1>2, <2>6 DEF Declines
    <3> QED BY <1>2, <2>1, <2>3, <2>4, <2>6, <3>1 DEF Decides
  <2> QED BY <2>5, <2>6
<1>12. ReceiptHolds(op, row)'
  BY <1>7, <1>8, <1>9, <1>10, <1>11 DEF ReceiptHolds
<1> QED BY <1>2, <1>12, ReceiptParts

\* Receipts stay justified, and a Layer is published once.
LEMMA ReceiptsStep ==
    ASSUME IInv, IInv', ReceiptsInv, [Next]_vars
    PROVE  ReceiptsInv'
<1>1. Grows /\ KeepsTerminal
  BY GrowthStep, TerminalStep
<1>2. CallsVerified'
  BY <1>1, CallsVerifiedStep DEF ReceiptsInv
<1>3. \A op \in DOMAIN publications : ReceiptValid(op)'
  BY <1>1, ReceiptKept
<1>4. ASSUME NEW q, Lands(q) \/ Declines(q), VerifyHead(q.layer, q.expected)
      PROVE  \A op \in DOMAIN publications' : ReceiptValid(op)'
  <2>1. ReceiptValid(q.operation)'
    BY <1>1, <1>4, ReceiptNow
  <2>2. DOMAIN publications' = DOMAIN publications \cup {q.operation}
    BY <1>4 DEF Lands, Declines, Put
  <2> QED BY <1>3, <2>1, <2>2
<1>5. \A op \in DOMAIN publications' : ReceiptValid(op)'
  <2>1. CASE publications' = publications
    BY <1>3, <2>1
  <2>2. ASSUME NEW h \in Handles,
               PublishStale(h) \/ PublishConflict(h) \/ PublishAdvance(h)
        PROVE  \A op \in DOMAIN publications' : ReceiptValid(op)'
    <3>1. Lands(calls[h].request) \/ Declines(calls[h].request)
      BY <2>2, CommitForms
    <3>2. h \in DOMAIN calls
      BY <2>2 DEF PublishStale, PublishConflict, PublishAdvance
    <3>3. VerifyHead(calls[h].request.layer, calls[h].request.expected)
      BY <3>2 DEF ReceiptsInv, CallsVerified
    <3> QED BY <1>4, <3>1, <3>3
  <2>3. CASE LayerNext
    BY <2>1, <2>3, LayerKeepsReceipts
  <2>4. ASSUME NEW op, NEW n, NEW t, CompareAndAdvance(op, n, t)
        PROVE  publications' = publications
    BY <2>4 DEF CompareAndAdvance
  <2>5. CASE ~LayerNext
    BY <2>1, <2>2, <2>4, <2>5, OtherForms
  <2> QED BY <2>3, <2>5
<1>6. PublishedOnce'
  <2>1. SUFFICES ASSUME NEW a \in DOMAIN publications', NEW b \in DOMAIN publications',
                        publications'[a].outcome = "published",
                        publications'[b].outcome = "published",
                        publications'[a].layer = publications'[b].layer
                 PROVE  a = b
    BY DEF PublishedOnce
  <2>2. PICK l : l = publications'[a].layer
    OBVIOUS
  <2>3. a \in PublishedBy(l)' /\ b \in PublishedBy(l)'
    BY <2>1, <2>2 DEF PublishedBy
  <2>4. ASSUME NEW x \in PublishedBy(l)' \ PublishedBy(l), NEW y \in PublishedBy(l)'
        PROVE  x = y
    <3>1. PICK q : Lands(q) /\ q.layer = l /\ q.operation = x
      BY <1>1, <2>4, PublishedGrows
    <3>2. l \in Layers /\ heads[l] # <<>> /\ StateOf(l).status = "active"
      BY <3>1 DEF Lands, Commits, Exact
    <3>3. PublishedBy(l) = {}
      BY <3>2 DEF StateOf, SuccessState
    <3>4. DOMAIN publications' = DOMAIN publications \cup {x}
      BY <3>1 DEF Lands, Put
    <3>5. y \notin DOMAIN publications
      BY <1>1, <3>3, PublishedGrows
    <3>6. y \in DOMAIN publications'
      BY DEF PublishedBy
    <3> QED BY <3>4, <3>5, <3>6
  <2>5. CASE a \in PublishedBy(l) /\ b \in PublishedBy(l)
    BY <2>5 DEF PublishedBy, ReceiptsInv, PublishedOnce
  <2> QED BY <2>3, <2>4, <2>5
<1> QED BY <1>2, <1>5, <1>6 DEF ReceiptsInv

\* At most one successful receipt per Layer, counted.
LEMMA PublishedCount ==
    ASSUME PublishedOnce, NEW l
    PROVE  Cardinality(PublishedBy(l)) <= 1
<1>1. CASE PublishedBy(l) = {}
  BY <1>1, FS_EmptySet
<1>2. CASE PublishedBy(l) # {}
  <2>1. PICK o : o \in PublishedBy(l)
    BY <1>2
  <2>2. PublishedBy(l) = {o}
    BY <2>1 DEF PublishedBy, PublishedOnce
  <2> QED BY <2>2, FS_Singleton
<1> QED BY <1>1, <1>2

\* Every call starts with a verified token and no receipt.
LEMMA ReceiptsInvariant == Spec => []ReceiptsInv
<1>1. Init => ReceiptsInv
  BY DEF Init, ReceiptsInv, CallsVerified, PublishedOnce
<1>2. IInv /\ IInv' /\ ReceiptsInv /\ [Next]_vars => ReceiptsInv'
  BY ReceiptsStep
<1> QED BY <1>1, <1>2, Invariance, PTL DEF Spec

\* Every Publish receipt stays justified by the records it names, and no Layer
\* is published twice, whatever was captured, published or advanced since.
THEOREM ReceiptsCorrect == Spec => []ReceiptsValid
<1>1. ReceiptsInv => ReceiptsValid
  BY PublishedCount DEF ReceiptsInv, ReceiptsValid
<1> QED BY <1>1, ReceiptsInvariant, PTL

-----------------------------------------------------------------------------
(* The radar index.                                                        *)

\* A Layer no step touched is in the same state.
LEMMA StateSame ==
    ASSUME Grows, NEW l, heads'[l] = heads[l], PublishedBy(l)' = PublishedBy(l)
    PROVE  StateOf(l)' = StateOf(l)
<1>1. CASE PublishedBy(l) # {}
  <2>1. PICK op : op = CHOOSE o \in PublishedBy(l) : TRUE
    OBVIOUS
  <2>2. op \in DOMAIN publications
    BY <1>1, <2>1 DEF PublishedBy
  <2>3. publications'[op] = publications[op]
    BY <2>2 DEF Grows, Extends
  <2>4. StateOf(l) = SuccessState(op) /\ StateOf(l)' = SuccessState(op)'
    BY <1>1, <2>1 DEF StateOf, SuccessState
  <2> QED BY <2>3, <2>4 DEF SuccessState
<1>2. CASE PublishedBy(l) = {}
  BY <1>2 DEF StateOf, EventState, EventAt, Latest
<1> QED BY <1>1, <1>2

\* Growth does not change what an existing head is attributed.
LEMMA AttributionKept ==
    ASSUME IInv, Grows, NEW l \in Layers, NEW r \in Nat, r + 1 \in DOMAIN heads[l]
    PROVE  AttributionOf(l, r)' = AttributionOf(l, r)
<1>1. heads[l] \in Seq(Event)
  BY DEF IInv, TypeOK
<1>2. \A i \in 0..r : i \in Nat /\ i + 1 \in DOMAIN heads[l]
  BY <1>1
<1>3. \A i \in 0..r : heads'[l][i + 1] = heads[l][i + 1]
  BY <1>2 DEF Grows, Extends
<1>4. \A i \in 0..r : heads[l][i + 1].checkpoint \in DOMAIN objects
  BY <1>2 DEF IInv, EventsStored
<1>5. \A i \in 0..r :
         objects'[heads[l][i + 1].checkpoint] = objects[heads[l][i + 1].checkpoint]
  BY <1>4 DEF Grows, Extends
<1> QED BY <1>3, <1>5, AttributionSame DEF AttributionOf

\* The index rebuilt for a Layer no step touched is the same.
LEMMA RadarSame ==
    ASSUME IInv, Grows, NEW l \in Layers, heads'[l] = heads[l],
           PublishedBy(l)' = PublishedBy(l)
    PROVE  RadarOf(l)' = RadarOf(l)
<1>1. StateOf(l)' = StateOf(l)
  BY StateSame
<1>2. CASE heads[l] = <<>>
  BY <1>2 DEF RadarOf
<1>3. CASE heads[l] # <<>>
  <2>1. PICK r : r = Latest(l)
    OBVIOUS
  <2>2. r \in Nat /\ r + 1 \in DOMAIN heads[l]
    BY <1>3, <2>1 DEF IInv, TypeOK, Latest
  <2>3. AttributionOf(l, r)' = AttributionOf(l, r)
    BY <2>2, AttributionKept
  <2>4. Latest(l)' = r
    BY <2>1 DEF Latest
  <2> QED BY <1>1, <2>1, <2>3, <2>4 DEF RadarOf
<1> QED BY <1>2, <1>3

\* No receipt names a Layer that does not exist yet.
LEMMA UnpublishedBeforeCreation ==
    ASSUME IInv, ReceiptsInv, NEW l \in Layers, heads[l] = <<>>
    PROVE  PublishedBy(l) = {}
<1>1. SUFFICES ASSUME NEW op \in PublishedBy(l) PROVE FALSE
  OBVIOUS
<1>2. op \in DOMAIN publications /\ publications[op].layer = l
  BY DEF PublishedBy
<1>3. PICK row \in PublicationRow : row = publications[op]
  BY <1>2 DEF IInv, TypeOK, IsTable
<1>4. row.outcome \in {"published", "conflict", "stale"}
  BY DEF PublicationRow
<1>5. VerifyHead(l, row.expected)
  BY <1>2, <1>3, <1>4, ReceiptParts DEF ReceiptsInv, ReceiptHolds
<1> QED BY <1>5 DEF VerifyHead

\* A new Layer's rows name its first checkpoint (create_in).
LEMMA RadarCreated ==
    ASSUME IInv, IInv', Grows, ReceiptsInv, RadarExact, NEW l \in Layers,
           NEW cp \in Checkpoint, CreateIn(l, cp)
    PROVE  layerPaths'[l] = RadarOf(l)'
<1> DEFINE event == [checkpoint |-> IdOf(cp), discarded |-> FALSE, operation |-> None]
<1>1. /\ heads[l] = <<>>
      /\ heads' = [heads EXCEPT ![l] = <<event>>]
      /\ objects' = Insert(cp)
      /\ layerPaths' = [layerPaths EXCEPT ![l] = Track(@, cp.changes, IdOf(cp))]
      /\ UNCHANGED <<publications>>
  BY DEF CreateIn
<1>2. /\ heads \in [Layers -> Seq(Event)] /\ DOMAIN layerPaths = Layers
      /\ objects \in Seq(Checkpoint)
  BY DEF IInv, TypeOK
<1>3. heads'[l] = <<event>>
  BY <1>1, <1>2
<1>4. layerPaths[l] = Untracked
  BY <1>1 DEF RadarExact, RadarOf
<1>5. layerPaths'[l] = Track(Untracked, cp.changes, IdOf(cp))
  BY <1>1, <1>2, <1>4
<1>6. objects'[IdOf(cp)] = cp
  BY <1>1, <1>2, InsertFacts
<1>7. Latest(l)' = 0 /\ heads'[l] # <<>> /\ EventAt(l, 0)' = event
  BY <1>3 DEF Latest, EventAt
<1>8. PublishedBy(l)' = {}
  <2>1. PublishedBy(l) = {}
    BY <1>1, UnpublishedBeforeCreation
  <2> QED BY <1>1, <2>1 DEF PublishedBy
<1>9. StateOf(l)'.status = "active"
  BY <1>7, <1>8 DEF StateOf, EventState
<1>10. AttributionOf(l, 0)' = FoldStep(Untracked, heads'[l], objects', 0)
  BY AttributionZero DEF AttributionOf
<1>11. heads'[l][0 + 1].checkpoint = IdOf(cp)
  BY <1>3
<1>12. AttributionOf(l, 0)' = Track(Untracked, cp.changes, IdOf(cp))
  BY <1>6, <1>10, <1>11 DEF FoldStep
<1> QED BY <1>5, <1>7, <1>9, <1>12 DEF RadarOf

\* A new head moves the rows of its Layer, a discard drops them (update_in).
LEMMA RadarUpdated ==
    ASSUME IInv, IInv', Grows, RadarExact,
           NEW op \in Operations, NEW l \in Layers, NEW r \in 0..Latest(l),
           NEW cp \in Checkpoint, NEW discard \in BOOLEAN,
           NEW source \in Nat \cup {None}, NEW res \in Resolutions \cup {None},
           UpdateIn(op, l, r, cp, discard, source, res), Accepts(l, r)
    PROVE  layerPaths'[l] = RadarOf(l)'
<1> DEFINE event == [checkpoint |-> IdOf(cp), discarded |-> discard, operation |-> op]
<1>1. /\ layerPaths' = [layerPaths EXCEPT ![l] =
                          IF discard THEN Untracked ELSE Track(@, cp.changes, IdOf(cp))]
      /\ op \notin DOMAIN layerAttempts
      /\ ~RefusePublished(op, l)
      /\ publications' = publications
  BY DEF UpdateIn, Accepts
<1>0. Updates(op, l, r, cp, discard, source, res)
  BY UpdateHeads, Zenon
<1>2. /\ r \in Nat /\ Latest(l) \in Nat /\ VerifyHead(l, r)
      /\ Latest(l)' = r + 1 /\ EventAt(l, r + 1)' = event
      /\ objects'[IdOf(cp)] = cp
  BY <1>0 DEF Updates
<1>3. DOMAIN layerPaths = Layers
  BY DEF IInv, TypeOK
<1>4. PublishedBy(l) = {} /\ PublishedBy(l)' = {}
  BY <1>1 DEF RefusePublished, PublishedBy
<1>5. r + 1 \in DOMAIN heads[l] /\ heads[l] # <<>> /\ heads'[l] # <<>>
  <2>1. r + 1 \in DOMAIN heads'[l]
    BY <1>2, GrowthFacts DEF VerifyHead
  <2> QED BY <1>2, <2>1 DEF VerifyHead
<1>6. layerPaths[l] = AttributionOf(l, r)
  <2>1. Latest(l) = r /\ ~EventAt(l, Latest(l)).discarded
    BY DEF Accepts
  <2>2. StateOf(l).status = "active"
    BY <1>4, <2>1 DEF StateOf, EventState
  <2> QED BY <1>5, <2>1, <2>2 DEF RadarExact, RadarOf
<1>7. CASE discard
  <2>1. layerPaths'[l] = Untracked
    BY <1>1, <1>3, <1>7
  <2>2. StateOf(l)'.status = "discarded"
    BY <1>2, <1>4, <1>7 DEF StateOf, EventState
  <2> QED BY <2>1, <2>2 DEF RadarOf
<1>8. CASE ~discard
  <2>1. layerPaths'[l] = Track(AttributionOf(l, r), cp.changes, IdOf(cp))
    BY <1>1, <1>3, <1>6, <1>8
  <2>2. StateOf(l)'.status = "active"
    BY <1>2, <1>4, <1>8 DEF StateOf, EventState
  <2>3. AttributionOf(l, r)' = AttributionOf(l, r)
    BY <1>2, <1>5, AttributionKept
  <2>4. AttributionOf(l, r + 1)' =
           FoldStep(AttributionOf(l, r)', heads'[l], objects', r + 1)
    BY <1>2, AttributionNext DEF AttributionOf
  <2>5. heads'[l][(r + 1) + 1].checkpoint = IdOf(cp)
    BY <1>2 DEF EventAt
  <2>6. AttributionOf(l, r + 1)' = Track(AttributionOf(l, r), cp.changes, IdOf(cp))
    BY <1>2, <2>3, <2>4, <2>5 DEF FoldStep
  <2> QED BY <1>2, <1>5, <2>1, <2>2, <2>6 DEF RadarOf
<1> QED BY <1>7, <1>8

\* The index is the rebuilt one after every step.
LEMMA RadarStep ==
    ASSUME IInv, IInv', ReceiptsInv, RadarExact, [Next]_vars
    PROVE  RadarExact'
<1>1. Grows
  BY GrowthStep
<1>2. ASSUME NEW l \in Layers, heads'[l] = heads[l], PublishedBy(l)' = PublishedBy(l),
             layerPaths'[l] = layerPaths[l]
      PROVE  layerPaths'[l] = RadarOf(l)'
  BY <1>1, <1>2, RadarSame DEF RadarExact
<1>3. /\ heads \in [Layers -> Seq(Event)] /\ DOMAIN layerPaths = Layers
  BY DEF IInv, TypeOK
<1>4. CASE LayerNext
  <2>1. PICK l \in Layers :
            \/ \E cp \in Checkpoint : CreateIn(l, cp)
            \/ \E op \in Operations, r \in 0..Latest(l), cp \in Checkpoint,
                  discard \in BOOLEAN, source \in Nat \cup {None},
                  res \in Resolutions \cup {None} :
                     /\ UpdateIn(op, l, r, cp, discard, source, res)
                     /\ Descends(cp, l, r, discard, source)
    BY <1>4, LayerForms
  <2>2. \A m : PublishedBy(m)' = PublishedBy(m)
    BY <1>4, LayerKeepsReceipts DEF PublishedBy
  <2>3. ASSUME NEW cp \in Checkpoint, CreateIn(l, cp)
        PROVE  RadarExact'
    <3>1. layerPaths'[l] = RadarOf(l)'
      BY <1>1, <2>3, RadarCreated
    <3>2. \A m \in Layers \ {l} : heads'[m] = heads[m] /\ layerPaths'[m] = layerPaths[m]
      BY <1>3, <2>3 DEF CreateIn
    <3> QED BY <1>2, <2>2, <3>1, <3>2 DEF RadarExact
  <2>4. ASSUME NEW op \in Operations, NEW r \in 0..Latest(l), NEW cp \in Checkpoint,
               NEW discard \in BOOLEAN, NEW source \in Nat \cup {None},
               NEW res \in Resolutions \cup {None},
               UpdateIn(op, l, r, cp, discard, source, res)
        PROVE  RadarExact'
    <3>1. CASE Accepts(l, r)
      <4>1. layerPaths'[l] = RadarOf(l)'
        BY <1>1, <2>4, <3>1, RadarUpdated, Zenon
      <4>2. \A m \in Layers \ {l} : heads'[m] = heads[m] /\ layerPaths'[m] = layerPaths[m]
        BY <1>3, <2>4 DEF UpdateIn
      <4> QED BY <1>2, <2>2, <4>1, <4>2 DEF RadarExact
    <3>2. CASE ~Accepts(l, r)
      <4>1. heads' = heads /\ layerPaths' = layerPaths
        BY <2>4, <3>2 DEF UpdateIn, Accepts
      <4> QED BY <1>2, <2>2, <4>1 DEF RadarExact
    <3> QED BY <3>1, <3>2
  <2> QED BY <2>1, <2>3, <2>4
<1>5. ASSUME NEW q, Lands(q)
      PROVE  RadarExact'
  <2>1. /\ q.layer \in Layers /\ heads' = heads
        /\ layerPaths' = [layerPaths EXCEPT ![q.layer] = Untracked]
        /\ publications' = Put(publications, q.operation,
              ReceiptOf(q, "published", WorldHead + 1, {}))
        /\ q.operation \notin DOMAIN publications
    BY <1>5 DEF Lands, Commits
  <2>2. q.operation \in PublishedBy(q.layer)'
    BY <2>1 DEF PublishedBy, Put, ReceiptOf
  <2>3. StateOf(q.layer)'.status = "published"
    BY <2>2 DEF StateOf, SuccessState
  <2>4. layerPaths'[q.layer] = RadarOf(q.layer)'
    BY <1>3, <2>1, <2>3 DEF RadarOf
  <2>5. ASSUME NEW m \in Layers \ {q.layer}
        PROVE  PublishedBy(m)' = PublishedBy(m) /\ layerPaths'[m] = layerPaths[m]
    BY <1>3, <2>1 DEF PublishedBy, Put, ReceiptOf
  <2> QED BY <1>2, <2>1, <2>4, <2>5 DEF RadarExact
<1>6. ASSUME NEW q, Declines(q)
      PROVE  RadarExact'
  <2>1. /\ heads' = heads /\ layerPaths' = layerPaths
        /\ \E row : /\ row.outcome # "published"
                    /\ publications' = Put(publications, q.operation, row)
        /\ q.operation \notin DOMAIN publications
    BY <1>6 DEF Declines, Commits, ReceiptOf
  <2>2. \A m : PublishedBy(m)' = PublishedBy(m)
    BY <2>1 DEF PublishedBy, Put
  <2> QED BY <1>2, <2>1, <2>2 DEF RadarExact
<1>7. ASSUME heads' = heads, layerPaths' = layerPaths, publications' = publications
      PROVE  RadarExact'
  <2>1. \A m : PublishedBy(m)' = PublishedBy(m)
    BY <1>7 DEF PublishedBy
  <2> QED BY <1>2, <1>7, <2>1 DEF RadarExact
<1>8. ASSUME NEW op, NEW n, NEW t, CompareAndAdvance(op, n, t)
      PROVE  heads' = heads /\ layerPaths' = layerPaths /\ publications' = publications
  BY <1>8 DEF CompareAndAdvance
<1> QED BY <1>4, <1>5, <1>6, <1>7, <1>8, StepForms

\* The radar index kept step by step is the one rebuilt from the history of
\* every live Layer, and holds nothing of a Layer that ended.
THEOREM RadarStaysExact == Spec => []RadarExact
<1>1. Init => RadarExact
  BY DEF Init, RadarExact, RadarOf
<1>2. IInv /\ IInv' /\ ReceiptsInv /\ RadarExact /\ [Next]_vars => RadarExact'
  BY RadarStep
<1> QED BY <1>1, <1>2, Invariance, ReceiptsInvariant, PTL DEF Spec

\* The rows of a live Layer hold exactly the delta of its head.
LEMMA LiveRows ==
    ASSUME IInv, RadarExact, NEW m \in Layers, LiveLayer(m)
    PROVE  /\ Latest(m) \in Nat /\ Latest(m) + 1 \in DOMAIN heads[m]
           /\ [p \in DOMAIN layerPaths[m] |-> layerPaths[m][p].entry] =
                 CheckpointAt(m, Latest(m)).changes
<1> DEFINE changes == CheckpointAt(m, Latest(m)).changes
<1>1. Latest(m) \in Nat /\ Latest(m) + 1 \in DOMAIN heads[m]
  BY DEF IInv, TypeOK, Latest, LiveLayer
<1>2. layerPaths[m] = Attribution(heads[m], objects, Latest(m))
  BY DEF RadarExact, RadarOf, AttributionOf, LiveLayer
<1>3. /\ DOMAIN layerPaths[m] = DOMAIN changes
      /\ \A p \in DOMAIN changes : layerPaths[m][p].entry = changes[p]
  BY <1>1, <1>2, AttributionRows DEF CheckpointAt, EventAt
<1>4. changes \in Changes
  BY <1>1, HeadFacts
<1>5. changes = [p \in DOMAIN changes |-> changes[p]]
  BY <1>4 DEF Changes
<1> HIDE DEF changes
<1>6. [p \in DOMAIN layerPaths[m] |-> layerPaths[m][p].entry] = changes
  BY <1>3, <1>5
<1> QED BY <1>1, <1>6 DEF changes

\* The radar's report about another live Layer is exact: a reported pair makes
\* our Publish conflict once theirs landed, and no report lets it through.
THEOREM RadarForesees == Spec => []RadarPredicts
<1>1. IInv /\ RadarExact => RadarPredicts
  <2>1. SUFFICES ASSUME IInv, RadarExact, NEW l \in Layers, NEW m \in Layers,
                        LiveLayer(l), LiveLayer(m)
                 PROVE  LET ours == CheckpointAt(l, Latest(l))
                            theirs == CheckpointAt(m, Latest(m)).changes
                            after == Intersections(TreeOf(ours.base),
                                        Apply(TreeOf(WorldHead), theirs), ours.changes)
                        IN  /\ LayerCollisions(l, m) # {} => after # {}
                            /\ LayerCollisions(l, m) = {} /\ WorldCollisions(l) = {}
                                 => after = {}
    BY DEF RadarPredicts
  <2> DEFINE ours == CheckpointAt(l, Latest(l))
             theirs == CheckpointAt(m, Latest(m)).changes
  <2>2. /\ Latest(l) \in Nat /\ Latest(l) + 1 \in DOMAIN heads[l]
        /\ Latest(m) \in Nat /\ Latest(m) + 1 \in DOMAIN heads[m]
        /\ [p \in DOMAIN layerPaths[m] |-> layerPaths[m][p].entry] = theirs
    BY <2>1, LiveRows
  <2>3. /\ ours.base \in 0..WorldHead /\ ours.changes \in Changes /\ theirs \in Changes
    BY <2>1, <2>2, HeadFacts
  <2>4. TreeOf(ours.base) \in Tree /\ TreeOf(WorldHead) \in Tree
    BY <2>1, <2>3, WorldsWellFormed, VersionFacts DEF IInv
  <2>5. LayerCollisions(l, m) = Collisions(TreeOf(ours.base), ours.changes, theirs)
    BY <2>2 DEF LayerCollisions
  <2>6. WorldCollisions(l) = Intersections(TreeOf(ours.base), TreeOf(WorldHead), ours.changes)
    BY DEF WorldCollisions, ComposeConflicts
  <2> HIDE DEF ours, theirs
  <2> QED BY <2>3, <2>4, <2>5, <2>6, CollisionsPredict DEF ours, theirs
<1> QED BY <1>1, Invariance, RadarStaysExact, PTL

-----------------------------------------------------------------------------
(* Blame.                                                                  *)

\* The event a receipt names exists.
LEMMA ReceiptEvent ==
    ASSUME IInv, ReceiptsInv, NEW op \in DOMAIN publications
    PROVE  /\ publications[op].layer \in Layers /\ publications[op].expected \in Nat
           /\ VerifyHead(publications[op].layer, publications[op].expected)
<1>1. PICK row \in PublicationRow : row = publications[op]
  BY DEF IInv, TypeOK, IsTable
<1>2. /\ row.outcome \in {"published", "conflict", "stale"}
      /\ row.layer \in Layers /\ row.expected \in Nat
  BY DEF PublicationRow
<1>3. VerifyHead(row.layer, row.expected)
  BY <1>1, <1>2, ReceiptParts DEF ReceiptsInv, ReceiptHolds
<1> QED BY <1>1, <1>2, <1>3

\* The operation of a recorded World gains no receipt later.
LEMMA WorldOperations ==
    ASSUME IInv, [Next]_vars, NEW n \in 0..WorldHead
    PROVE  versions[n + 1].operation \in DOMAIN publications' =>
              versions[n + 1].operation \in DOMAIN publications
<1> DEFINE op == versions[n + 1].operation
<1>1. op = None \/ op \in DOMAIN attempts
  <2>1. WorldHead \in Nat
    BY VersionFacts DEF IInv
  <2>2. CASE n = 0
    BY <2>2 DEF IInv, HistoryValid
  <2>3. CASE n # 0
    <3>1. n \in 1..WorldHead
      BY <2>1, <2>3
    <3>2. VersionValid(n)
      BY <3>1 DEF IInv, HistoryValid
    <3> QED BY <3>2 DEF VersionValid
  <2> QED BY <2>2, <2>3
<1>2. ASSUME NEW q, Lands(q) \/ Declines(q)
      PROVE  /\ DOMAIN publications' = DOMAIN publications \cup {q.operation}
             /\ q.operation # op
  <2>1. q.operation \in Operations /\ q.operation \notin DOMAIN attempts
    BY <1>2 DEF Lands, Declines, Commits
  <2>2. DOMAIN publications' = DOMAIN publications \cup {q.operation}
    BY <1>2 DEF Lands, Declines, Put
  <2> QED BY <1>1, <2>1, <2>2, NoneAssumption
<1>3. LayerNext => publications' = publications
  BY LayerKeepsReceipts
<1>4. ASSUME NEW o, NEW k, NEW t, CompareAndAdvance(o, k, t)
      PROVE  publications' = publications
  BY <1>4 DEF CompareAndAdvance
<1> HIDE DEF op
<1>5. op \in DOMAIN publications' => op \in DOMAIN publications
  BY <1>2, <1>3, <1>4, StepForms
<1> QED BY <1>5 DEF op

\* A recorded World is blamed on the same checkpoints after a step.
LEMMA BlameKept ==
    ASSUME IInv, IInv', ReceiptsInv, Grows, [Next]_vars, NEW n \in 0..WorldHead
    PROVE  BlameOf(n)' = BlameOf(n)
<1>1. PICK world : world = versions[n + 1]
  OBVIOUS
<1>2. versions'[n + 1] = world
  BY <1>1, GrowthFacts
<1>3. world.operation \in DOMAIN publications' <=> world.operation \in DOMAIN publications
  BY <1>1, WorldOperations DEF Grows, Extends
<1>4. CASE world.operation \notin DOMAIN publications
  BY <1>1, <1>2, <1>3, <1>4 DEF BlameOf
<1>5. CASE world.operation \in DOMAIN publications
  <2>1. PICK row : row = publications[world.operation]
    OBVIOUS
  <2>2. publications'[world.operation] = row
    BY <1>5, <2>1 DEF Grows, Extends
  <2>3. row.layer \in Layers /\ row.expected \in Nat /\ VerifyHead(row.layer, row.expected)
    BY <1>5, <2>1, ReceiptEvent
  <2>4. AttributionOf(row.layer, row.expected)' = AttributionOf(row.layer, row.expected)
    BY <2>3, AttributionKept DEF VerifyHead
  <2> QED BY <1>1, <1>2, <1>3, <1>5, <2>1, <2>2, <2>4 DEF BlameOf
<1> QED BY <1>4, <1>5

\* The World a Publish made is blamed on its Layer's attribution (record_in).
LEMMA BlameLanded ==
    ASSUME IInv, IInv', ReceiptsInv, RadarExact, Grows, NEW q, Lands(q)
    PROVE  /\ WorldHead' = WorldHead + 1
           /\ Attributed(q.layer, CheckpointAt(q.layer, q.expected).changes)
                = BlameOf(WorldHead)'
<1> DEFINE changes == CheckpointAt(q.layer, q.expected).changes
           world == [tree |-> ComposeTree(q, WorldHead), changes |-> changes,
                     operation |-> q.operation]
<1>1. /\ q.layer \in Layers /\ q.expected \in Nat
      /\ q.expected + 1 \in DOMAIN heads[q.layer]
      /\ Exact(q, StateOf(q.layer))
      /\ versions' = Append(versions, world)
      /\ publications' = Put(publications, q.operation,
              ReceiptOf(q, "published", WorldHead + 1, {}))
  BY DEF Lands, Commits
<1>2. WorldHead \in Nat /\ WorldHead' = WorldHead + 1 /\ versions'[WorldHead + 2] = world
  BY <1>1, WorldAppended
<1>3. Latest(q.layer) = q.expected /\ heads[q.layer] # <<>>
  BY <1>1, StateFacts DEF Exact
<1>4. layerPaths[q.layer] = AttributionOf(q.layer, q.expected)
  BY <1>1, <1>3 DEF RadarExact, RadarOf, Exact
<1>5. AttributionOf(q.layer, q.expected)' = AttributionOf(q.layer, q.expected)
  BY <1>1, AttributionKept
<1>6. /\ q.operation \in DOMAIN publications'
      /\ publications'[q.operation].layer = q.layer
      /\ publications'[q.operation].expected = q.expected
  BY <1>1 DEF Put, ReceiptOf
<1>7. PICK n : n = WorldHead + 1
  OBVIOUS
<1>8. versions'[n + 1].operation = q.operation /\ versions'[n + 1].changes = changes
  <2>1. n + 1 = WorldHead + 2
    BY <1>2, <1>7
  <2> QED BY <1>2, <2>1
<1>9. BlameOf(n)' = [p \in Paths |-> IF p \in DOMAIN changes
                      THEN AttributionOf(q.layer, q.expected)[p].checkpoint ELSE None]
  <2> HIDE DEF changes
  <2> QED BY <1>5, <1>6, <1>8 DEF BlameOf
<1>10. Attributed(q.layer, changes) = BlameOf(n)'
  <2> HIDE DEF changes
  <2> QED BY <1>4, <1>9 DEF Attributed
<1> QED BY <1>2, <1>7, <1>10

\* Every World's blame is what its Layer's history attributes, after a step.
LEMMA BlameStep ==
    ASSUME IInv, IInv', ReceiptsInv, RadarExact, BlameExact, [Next]_vars
    PROVE  BlameExact'
<1>1. Grows
  BY GrowthStep
<1>2. /\ blame \in Seq(BlameRow) /\ Len(blame) = WorldHead + 1 /\ WorldHead \in Nat
  BY VersionFacts DEF IInv, TypeOK, WorldHead
<1>3. ASSUME NEW n \in 0..WorldHead
      PROVE  blame'[n + 1] = BlameOf(n)'
  <2>1. n + 1 \in DOMAIN blame
    BY <1>2
  <2>2. blame'[n + 1] = blame[n + 1]
    BY <1>1, <2>1 DEF Grows, Extends
  <2>3. BlameOf(n)' = BlameOf(n)
    BY <1>1, BlameKept
  <2> QED BY <2>2, <2>3 DEF BlameExact
<1>4. CASE versions' = versions
  <2>1. WorldHead' = WorldHead
    BY <1>4 DEF WorldHead
  <2> QED BY <1>3, <2>1 DEF BlameExact
<1>5. ASSUME NEW attributed, blame' = Append(blame, attributed),
             WorldHead' = WorldHead + 1, attributed = BlameOf(WorldHead)'
      PROVE  BlameExact'
  <2>1. blame'[WorldHead + 2] = attributed
    <3>1. blame \in Seq(BlameRow \cup {attributed}) /\ attributed \in BlameRow \cup {attributed}
      BY <1>2
    <3> QED BY <1>2, <1>5, <3>1, AppendFacts
  <2>2. PICK k : k = WorldHead'
    OBVIOUS
  <2>3. blame'[k + 1] = BlameOf(k)'
    BY <1>2, <1>5, <2>1, <2>2
  <2>4. \A n \in 0..k : n \in 0..WorldHead \/ n = k
    BY <1>2, <1>5, <2>2
  <2>5. \A n \in 0..k : blame'[n + 1] = BlameOf(n)'
    BY <1>3, <2>3, <2>4
  <2> QED BY <2>2, <2>5 DEF BlameExact
<1>6. ASSUME NEW q, Lands(q)
      PROVE  BlameExact'
  <2>1. blame' = Append(blame,
                   Attributed(q.layer, CheckpointAt(q.layer, q.expected).changes))
    BY <1>6 DEF Lands
  <2> QED BY <1>1, <1>5, <1>6, <2>1, BlameLanded
<1>7. ASSUME NEW op \in Operations, NEW n \in 0..WorldHead, NEW t \in InputTrees,
             CompareAndAdvance(op, n, t), n = WorldHead
      PROVE  BlameExact'
  <2>1. /\ versions' = Append(versions,
              [tree |-> t, changes |-> Diff(TreeOf(WorldHead), t), operation |-> op])
        /\ blame' = Append(blame, Unblamed)
        /\ op \notin DOMAIN publications'
    BY <1>7 DEF CompareAndAdvance, AppendVersion
  <2>2. PICK world : versions' = Append(versions, world) /\ world.operation = op
    BY <2>1
  <2>3. WorldHead' = WorldHead + 1 /\ versions'[WorldHead + 2] = world
    BY <2>2, WorldAppended
  <2>4. versions'[WorldHead' + 1].operation = op
    <3>1. WorldHead' + 1 = WorldHead + 2
      BY <1>2, <2>3
    <3> QED BY <2>2, <2>3, <3>1
  <2>5. BlameOf(WorldHead)' = Unblamed
    BY <2>1, <2>4 DEF BlameOf, Unblamed
  <2> QED BY <1>5, <2>1, <2>3, <2>5
<1>8. ASSUME NEW op, NEW n, NEW t, CompareAndAdvance(op, n, t), n # WorldHead
      PROVE  versions' = versions
  BY <1>8 DEF CompareAndAdvance
<1>9. LayerNext => versions' = versions
  BY LayerKeepsReceipts
<1>10. ASSUME NEW q, Declines(q) PROVE versions' = versions
  BY <1>10 DEF Declines
<1> QED BY <1>4, <1>6, <1>7, <1>8, <1>9, <1>10, StepForms

\* Each published World is blamed path by path on the checkpoint its Layer's
\* history attributes, for ever; a direct advance has no blame.
THEOREM BlameStaysExact == Spec => []BlameExact
<1>1. Init => BlameExact
  <2>1. SUFFICES ASSUME Init PROVE BlameExact
    OBVIOUS
  <2>2. WorldHead = 0 /\ DOMAIN publications = {} /\ blame[1] = Unblamed
    BY <2>1 DEF Init, WorldHead
  <2>3. \A n \in 0..0 : n = 0
    OBVIOUS
  <2> QED BY <2>2, <2>3 DEF BlameExact, BlameOf
<1>2. /\ IInv /\ IInv' /\ ReceiptsInv /\ RadarExact /\ BlameExact /\ [Next]_vars
      => BlameExact'
  BY BlameStep
<1> QED BY <1>1, <1>2, Invariance, ReceiptsInvariant, RadarStaysExact, PTL DEF Spec

-----------------------------------------------------------------------------
(* The repository implements WorldLog.                                     *)

\* Both modules speak of the same trees and changesets.
LEMMA SameTrees ==
    /\ World!EmptyTree = EmptyTree /\ World!NoChanges = NoChanges
    /\ World!Changes = Changes
    /\ \A t, ch : World!Apply(t, ch) = Apply(t, ch)
    /\ \A t, ch : World!Canonical(t, ch) <=> Canonical(t, ch)
<1>1. World!EmptyTree = EmptyTree /\ World!NoChanges = NoChanges
  BY DEF World!EmptyTree, EmptyTree, World!NoChanges, NoChanges
<1>2. World!Changes = Changes
  BY DEF World!Changes, Changes, World!Entries, Entries
<1>3. \A t, ch : World!Apply(t, ch) = Apply(t, ch)
  BY DEF World!Apply, Apply
<1>4. \A t, ch : World!Delta(t, ch) = Delta(t, ch)
  BY DEF World!Delta, Delta
<1>5. /\ \A p, q : World!Below(p, q) <=> Below(p, q)
      /\ \A t, p : World!FilesUnder(t, p) = FilesUnder(t, p)
      /\ \A t, p : World!IsDir(t, p) <=> IsDir(t, p)
  BY DEF World!Below, Below, World!FilesUnder, FilesUnder, World!IsDir, IsDir
<1>6. \A t, ch : World!Normalizes(t, ch) <=> Normalizes(t, ch)
  BY <1>4, <1>5 DEF World!Normalizes, Normalizes
<1>7. \A t, ch : World!Normalize(t, ch) = Normalize(t, ch)
  BY <1>4 DEF World!Normalize, Normalize
<1> QED BY <1>1, <1>2, <1>3, <1>6, <1>7 DEF World!Canonical, Canonical

\* One operation is decided in a step, the others keep their outcome.
LEMMA DecidedRecords ==
    ASSUME NEW op, NEW number, op \notin DOMAIN attempts, op \notin DOMAIN publications,
           DOMAIN attempts' \cup DOMAIN publications' =
              DOMAIN attempts \cup DOMAIN publications \cup {op},
           DOMAIN attempts \subseteq DOMAIN attempts',
           DOMAIN attempts' \subseteq DOMAIN attempts \cup {op},
           \A o \in DOMAIN attempts : attempts'[o] = attempts[o],
           number = IF op \in DOMAIN attempts' /\ attempts'[op].accepted
                    THEN attempts'[op].result ELSE 0
    PROVE  op \notin DOMAIN DecidedMap /\ World!Record(op, number)
<1> DEFINE keys == DOMAIN attempts \cup DOMAIN publications
           value(o) == IF o \in DOMAIN attempts /\ attempts[o].accepted
                       THEN attempts[o].result ELSE 0
           after(o) == IF o \in DOMAIN attempts' /\ attempts'[o].accepted
                       THEN attempts'[o].result ELSE 0
<1>1. DecidedMap = [o \in keys |-> value(o)]
  BY DEF DecidedMap
<1>2. DecidedMap' = [o \in keys \cup {op} |-> after(o)]
  BY DEF DecidedMap
<1>3. \A o \in keys : o # op /\ after(o) = value(o)
  OBVIOUS
<1>4. after(op) = number
  OBVIOUS
<1> HIDE DEF keys, value, after
<1>5. DOMAIN DecidedMap = keys /\ op \notin keys /\ \A o \in keys : DecidedMap[o] = value(o)
  BY <1>1, <1>3
<1>6. DecidedMap' = [o \in keys \cup {op} |-> IF o = op THEN number ELSE DecidedMap[o]]
  BY <1>2, <1>3, <1>4, <1>5
<1> QED BY <1>5, <1>6 DEF World!Record

\* A direct advance is accepted or rejected by the log.
LEMMA AdvanceRefines ==
    ASSUME IInv, NEW op \in Operations, NEW n \in 0..WorldHead, NEW t \in InputTrees,
           CompareAndAdvance(op, n, t)
    PROVE  World!Next
<1>1. /\ op \notin DOMAIN publications /\ op \notin DOMAIN attempts
      /\ publications' = publications
  BY DEF CompareAndAdvance
<1>2. SpentMap' = SpentMap
  BY <1>1 DEF SpentMap, PublishedBy
<1>3. /\ WorldHead \in Nat /\ Len(versions) = WorldHead + 1
      /\ TreeOf(WorldHead) \in Tree /\ WellFormed(TreeOf(WorldHead))
  BY VersionFacts, WorldsWellFormed DEF IInv, WorldHead
<1>4. CASE n = WorldHead
  <2> DEFINE ch == Diff(TreeOf(WorldHead), t)
  <2>1. /\ attempts' = Put(attempts, op, [expected |-> n, tree |-> t, accepted |-> TRUE,
                                          result |-> WorldHead + 1])
        /\ versions' = Append(versions, [tree |-> t, changes |-> ch, operation |-> op])
    BY <1>4 DEF CompareAndAdvance, AppendVersion, AdvanceResult
  <2>2. /\ ch \in Changes /\ Canonical(TreeOf(WorldHead), ch)
        /\ t = Apply(TreeOf(WorldHead), ch)
    BY <1>3, InputsAssumption, DiffTyped, DiffCanonical
  <2>3. World!LastTree = TreeOf(WorldHead)
    BY <1>3 DEF World!LastTree, TreeOf
  <2>4. op \notin DOMAIN DecidedMap /\ World!Record(op, Len(versions))
    BY <1>1, <1>3, <2>1, DecidedRecords DEF Put
  <2>5. None \notin SpentMap
    BY NoneAssumption DEF SpentMap
  <2> HIDE DEF ch
  <2>6. World!Accept(op, None, ch)
    BY <1>2, <2>1, <2>2, <2>3, <2>4, <2>5, SameTrees DEF World!Accept
  <2>7. ch \in World!Changes
    BY <2>2, SameTrees
  <2> QED BY <2>6, <2>7 DEF World!Next
<1>5. CASE n # WorldHead
  <2>1. /\ attempts' = Put(attempts, op, [expected |-> n, tree |-> t, accepted |-> FALSE,
                                          result |-> WorldHead])
        /\ versions' = versions
    BY <1>5 DEF CompareAndAdvance, AdvanceResult
  <2>2. op \notin DOMAIN DecidedMap /\ World!Record(op, 0)
    BY <1>1, <2>1, DecidedRecords DEF Put
  <2>3. World!Reject(op)
    BY <1>2, <2>1, <2>2 DEF World!Reject
  <2> QED BY <2>3 DEF World!Next
<1> QED BY <1>4, <1>5

\* A Publish that lands is accepted by the log and spends its Layer.
LEMMA LandRefines ==
    ASSUME IInv, NEW q, Lands(q)
    PROVE  World!Next
<1> DEFINE op == q.operation
           cp == CheckpointAt(q.layer, q.expected)
<1>1. /\ op \in Operations /\ q.layer \in Layers /\ q.expected \in Nat
      /\ op \notin DOMAIN publications /\ op \notin DOMAIN attempts
      /\ q.expected + 1 \in DOMAIN heads[q.layer]
      /\ Exact(q, StateOf(q.layer))
      /\ ComposeConflicts(q, WorldHead) = {}
      /\ attempts' = Put(attempts, op,
            [expected |-> WorldHead, tree |-> None, accepted |-> TRUE,
             result |-> WorldHead + 1])
      /\ versions' = Append(versions,
            [tree |-> ComposeTree(q, WorldHead), changes |-> cp.changes, operation |-> op])
      /\ publications' = Put(publications, op, ReceiptOf(q, "published", WorldHead + 1, {}))
  BY DEF Lands, Commits
<1>2. /\ WorldHead \in Nat /\ Len(versions) = WorldHead + 1
      /\ TreeOf(WorldHead) \in Tree /\ WellFormed(TreeOf(WorldHead))
  BY VersionFacts, WorldsWellFormed DEF IInv, WorldHead
<1>3. /\ cp.base \in 0..WorldHead /\ cp.changes \in Changes
      /\ Canonical(TreeOf(cp.base), cp.changes)
  BY <1>1, HeadFacts
<1>4. TreeOf(cp.base) \in Tree
  BY <1>3, WorldsWellFormed
<1>5. /\ Intersections(TreeOf(cp.base), TreeOf(WorldHead), cp.changes) = {}
      /\ ComposeTree(q, WorldHead) = Apply(TreeOf(WorldHead), cp.changes)
  BY <1>1 DEF ComposeConflicts, ComposeTree
<1>6. Canonical(TreeOf(WorldHead), cp.changes)
  BY <1>2, <1>3, <1>4, <1>5, ComposeCanonical
<1>7. World!LastTree = TreeOf(WorldHead)
  BY <1>2 DEF World!LastTree, TreeOf
<1>8. op \notin DOMAIN DecidedMap /\ World!Record(op, Len(versions))
  BY <1>1, <1>2, DecidedRecords DEF Put
<1>9. q.layer \notin SpentMap /\ SpentMap' = SpentMap \cup {q.layer}
  <2>1. PublishedBy(q.layer) = {}
    BY <1>1 DEF Exact, StateOf, SuccessState
  <2>2. PublishedBy(q.layer)' # {}
    <3>1. op \in PublishedBy(q.layer)'
      BY <1>1 DEF PublishedBy, Put, ReceiptOf
    <3> QED BY <3>1
  <2>3. \A m \in Layers \ {q.layer} : PublishedBy(m)' = PublishedBy(m)
    BY <1>1 DEF PublishedBy, Put, ReceiptOf
  <2> QED BY <1>1, <2>1, <2>2, <2>3 DEF SpentMap
<1>10. q.layer # None
  BY <1>1, NoneAssumption
<1> HIDE DEF op, cp
<1>11. World!Accept(op, q.layer, cp.changes)
  BY <1>1, <1>5, <1>6, <1>7, <1>8, <1>9, <1>10, SameTrees DEF World!Accept
<1>12. cp.changes \in World!Changes
  BY <1>3, SameTrees
<1> QED BY <1>1, <1>11, <1>12 DEF World!Next

\* A Publish that is stale or in conflict is rejected by the log.
LEMMA DeclineRefines ==
    ASSUME IInv, NEW q, Declines(q)
    PROVE  World!Next
<1> DEFINE op == q.operation
<1>1. /\ op \in Operations
      /\ op \notin DOMAIN publications /\ op \notin DOMAIN attempts
      /\ \E row : row.outcome # "published" /\ publications' = Put(publications, op, row)
      /\ UNCHANGED <<versions, attempts>>
  BY DEF Declines, Commits, ReceiptOf
<1>2. op \notin DOMAIN DecidedMap /\ World!Record(op, 0)
  BY <1>1, DecidedRecords DEF Put
<1>3. \A m : PublishedBy(m)' = PublishedBy(m)
  BY <1>1 DEF PublishedBy, Put
<1>4. SpentMap' = SpentMap
  BY <1>3 DEF SpentMap
<1> HIDE DEF op
<1>5. World!Reject(op)
  BY <1>1, <1>2, <1>4 DEF World!Reject
<1> QED BY <1>1, <1>5 DEF World!Next

\* The repository, with its races between preparation and commit, implements
\* the simple log: no operation is decided twice, no Layer lands twice, and no
\* version is built on anything but the current World.
THEOREM RepositoryImplementsLog == Spec => ImplementsWorldLog
<1>1. Init => World!Init
  <2>1. SUFFICES ASSUME Init PROVE World!Init
    OBVIOUS
  <2>2. DecidedMap = [op \in {} |-> 0]
    BY <2>1 DEF Init, DecidedMap
  <2>3. SpentMap = {}
    BY <2>1 DEF Init, SpentMap, PublishedBy
  <2> QED BY <2>1, <2>2, <2>3, SameTrees DEF Init, World!Init
<1>2. IInv /\ [Next]_vars => [World!Next]_<<versions, DecidedMap, SpentMap>>
  <2>1. SUFFICES ASSUME IInv, [Next]_vars
                 PROVE  World!Next \/ UNCHANGED <<versions, DecidedMap, SpentMap>>
    OBVIOUS
  <2>2. ASSUME UNCHANGED <<versions, attempts, publications>>
        PROVE  UNCHANGED <<versions, DecidedMap, SpentMap>>
    BY <2>2 DEF DecidedMap, SpentMap, PublishedBy
  <2>3. LayerNext => UNCHANGED <<versions, attempts, publications>>
    BY LayerKeepsReceipts
  <2> QED BY <2>1, <2>2, <2>3, StepForms, AdvanceRefines, LandRefines, DeclineRefines
<1> QED BY <1>1, <1>2, Invariance, PTL DEF Spec, ImplementsWorldLog, World!Spec
=============================================================================
