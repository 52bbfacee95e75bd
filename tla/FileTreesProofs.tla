--------------------------- MODULE FileTreesProofs ---------------------------
(***************************************************************************)
(* Facts about snapshots and changesets, for every set of paths and        *)
(* contents: what `normalize` returns is canonical, what it accepts keeps  *)
(* files and directories apart, and a delta that intersects nothing the    *)
(* World changed since its base is canonical against that World too.       *)
(***************************************************************************)
EXTENDS FileTrees, TLAPS

\* A deletion is an entry of a changeset.
LEMMA AbsentIsEntry == Absent \in Entries
BY DEF Entries

\* The domain and the entries of a changeset (SparseChanges).
LEMMA ChangesType ==
    ASSUME NEW ch \in Changes
    PROVE  /\ DOMAIN ch \subseteq Paths
           /\ \A p \in DOMAIN ch : ch[p] \in Entries
           /\ ch = [p \in DOMAIN ch |-> ch[p]]
BY DEF Changes

\* Any map from paths to entries is a changeset (SparseChanges::new).
LEMMA MakeChanges ==
    ASSUME NEW S \in SUBSET Paths, NEW ch \in [S -> Entries]
    PROVE  ch \in Changes
BY DEF Changes

\* The genesis snapshot and the empty changeset.
LEMMA EmptyTyped ==
    /\ EmptyTree \in Tree
    /\ NoChanges \in Changes
    /\ WellFormed(EmptyTree)
<1>1. NoChanges \in [{} -> Entries]
  BY DEF NoChanges
<1>2. QED
  BY <1>1, AbsentIsEntry, MakeChanges DEF EmptyTree, Tree, WellFormed

\* Applying a changeset to a snapshot gives a snapshot (SparseChanges::apply).
LEMMA ApplyTyped ==
    ASSUME NEW t \in Tree, NEW ch \in Changes
    PROVE  Apply(t, ch) \in Tree
BY ChangesType DEF Apply, Tree

\* The difference of two snapshots is a changeset (Trees::diff).
LEMMA DiffTyped ==
    ASSUME NEW from \in Tree, NEW to \in Tree
    PROVE  Diff(from, to) \in Changes
<1>1. Moved(from, to) \in SUBSET Paths
  BY DEF Moved
<1>2. Diff(from, to) \in [Moved(from, to) -> Entries]
  BY <1>1 DEF Diff, Tree
<1>3. QED
  BY <1>1, <1>2, MakeChanges

\* What `normalize` returns is a changeset.
LEMMA NormalizeTyped ==
    ASSUME NEW base \in Tree, NEW ch \in Changes
    PROVE  Normalize(base, ch) \in Changes
<1>1. Delta(base, ch) \in SUBSET Paths
  BY ChangesType DEF Delta
<1>2. Normalize(base, ch) \in [Delta(base, ch) -> Entries]
  BY <1>1, ChangesType DEF Normalize, Delta
<1>3. QED
  BY <1>1, <1>2, MakeChanges

\* The meaning of a canonical changeset, without the no-op bookkeeping.
CanonicalFacts(base, ch) ==
    /\ \A p \in DOMAIN ch : ch[p] # base[p]
    /\ \A p \in DOMAIN ch :
          ch[p] # Absent =>
             /\ \A q \in Ancestors[p] :
                   IF q \in DOMAIN ch THEN ch[q] = Absent ELSE base[q] = Absent
             /\ \A q \in DOMAIN ch : Below(p, q) => ch[q] = Absent
             /\ FilesUnder(base, p) \subseteq DOMAIN ch

\* `normalize` returns a changeset unchanged exactly when it is canonical.
LEMMA CanonicalMeaning ==
    ASSUME NEW base \in Tree, NEW ch \in Changes
    PROVE  Canonical(base, ch) <=> CanonicalFacts(base, ch)
<1>1. ASSUME Canonical(base, ch)
      PROVE  CanonicalFacts(base, ch)
  <2>1. Delta(base, ch) = DOMAIN ch
    BY <1>1 DEF Canonical, Normalize
  <2>2. QED
    BY <1>1, <2>1 DEF Canonical, Normalizes, CanonicalFacts, Delta
<1>2. ASSUME CanonicalFacts(base, ch)
      PROVE  Canonical(base, ch)
  <2>1. Delta(base, ch) = DOMAIN ch
    BY <1>2 DEF CanonicalFacts, Delta
  <2>2. Normalize(base, ch) = ch
    BY <2>1, ChangesType DEF Normalize
  <2>3. Normalizes(base, ch)
    BY <1>2, <2>1 DEF CanonicalFacts, Normalizes
  <2>4. QED
    BY <2>2, <2>3 DEF Canonical
<1>3. QED
  BY <1>1, <1>2

\* What `normalize` returns, it returns again: prepare_checkpoint stores only
\* checkpoints that checkpoint_node accepts.
THEOREM NormalizeCanonical ==
    ASSUME NEW base \in Tree, NEW ch \in Changes, Normalizes(base, ch)
    PROVE  Canonical(base, Normalize(base, ch))
<1> DEFINE norm == Normalize(base, ch)
<1>1. norm \in Changes
  BY NormalizeTyped
<1>2. DOMAIN norm = Delta(base, ch)
  BY DEF Normalize
<1>3. \A p \in DOMAIN norm : norm[p] = ch[p]
  BY DEF Normalize
<1>4. CanonicalFacts(base, norm)
  BY <1>2, <1>3 DEF CanonicalFacts, Normalizes, Delta
<1>5. QED
  BY <1>1, <1>4, CanonicalMeaning

\* Applying a canonical changeset keeps files and directories apart.
THEOREM CanonicalWellFormed ==
    ASSUME NEW base \in Tree, NEW ch \in Changes, WellFormed(base),
           Canonical(base, ch)
    PROVE  WellFormed(Apply(base, ch))
<1>1. CanonicalFacts(base, ch)
  BY CanonicalMeaning
<1>2. SUFFICES ASSUME NEW p \in Paths, NEW q \in Paths, Below(p, q)
               PROVE  Apply(base, ch)[p] = Absent \/ Apply(base, ch)[q] = Absent
  BY DEF WellFormed
<1>3. base[p] = Absent \/ base[q] = Absent
  BY <1>2 DEF WellFormed
<1>4. p \in Ancestors[q]
  BY <1>2 DEF Below
<1>5. CASE p \in DOMAIN ch /\ q \in DOMAIN ch
  BY <1>1, <1>2, <1>5 DEF CanonicalFacts, Apply
<1>6. CASE p \in DOMAIN ch /\ q \notin DOMAIN ch
  BY <1>1, <1>2, <1>6 DEF CanonicalFacts, Apply, FilesUnder
<1>7. CASE p \notin DOMAIN ch /\ q \in DOMAIN ch
  BY <1>1, <1>2, <1>4, <1>7 DEF CanonicalFacts, Apply
<1>8. CASE p \notin DOMAIN ch /\ q \notin DOMAIN ch
  BY <1>3, <1>8 DEF Apply
<1>9. QED
  BY <1>5, <1>6, <1>7, <1>8

\* The changeset between two snapshots is canonical against the first and
\* leads to the second: what advance_in appends, history_in accepts.
THEOREM DiffCanonical ==
    ASSUME NEW from \in Tree, NEW to \in Tree, WellFormed(from), WellFormed(to)
    PROVE  /\ Canonical(from, Diff(from, to))
           /\ Apply(from, Diff(from, to)) = to
<1> DEFINE ch == Diff(from, to)
<1>1. ch \in Changes
  BY DiffTyped
<1>2. DOMAIN ch = Moved(from, to) /\ \A p \in Moved(from, to) : ch[p] = to[p]
  BY DEF Diff
<1>3. Apply(from, ch) = to
  BY <1>2 DEF Apply, Moved, Tree
<1>4. CanonicalFacts(from, ch)
  <2>1. \A p \in Moved(from, to) : ch[p] # from[p]
    BY <1>2 DEF Moved
  <2>2. ASSUME NEW p \in Moved(from, to), to[p] # Absent
        PROVE  /\ \A q \in Ancestors[p] :
                     IF q \in Moved(from, to) THEN to[q] = Absent
                                              ELSE from[q] = Absent
               /\ \A q \in Moved(from, to) : Below(p, q) => to[q] = Absent
               /\ FilesUnder(from, p) \subseteq Moved(from, to)
    BY <2>2, PathsAssumption DEF WellFormed, Below, Moved, FilesUnder
  <2>3. QED
    BY <1>2, <2>1, <2>2 DEF CanonicalFacts
<1>5. QED
  BY <1>1, <1>3, <1>4, CanonicalMeaning

\* Without intersections, the World is the base on and around every path of
\* the delta.
LEMMA NoIntersection ==
    ASSUME NEW base \in Tree, NEW head \in Tree, NEW ch \in Changes,
           Intersections(base, head, ch) = {},
           NEW p \in DOMAIN ch, NEW q \in Paths, Related(p, q)
    PROVE  head[q] = base[q]
BY DEF Intersections, Moved

\* compose_in's claim: a delta canonical against its base is canonical
\* against any World it does not intersect, so the tree can be derived.
THEOREM ComposeCanonical ==
    ASSUME NEW base \in Tree, NEW head \in Tree, NEW ch \in Changes,
           WellFormed(head), Canonical(base, ch),
           Intersections(base, head, ch) = {}
    PROVE  Canonical(head, ch) /\ Applies(head, ch)
<1>1. CanonicalFacts(base, ch)
  BY CanonicalMeaning
<1>2. DOMAIN ch \subseteq Paths
  BY ChangesType
<1>3. \A p \in DOMAIN ch : head[p] = base[p]
  BY <1>2, NoIntersection DEF Related
<1>4. \A p \in DOMAIN ch : \A q \in Paths : Below(p, q) => head[q] = base[q]
  BY NoIntersection DEF Related
<1>5. \A p \in DOMAIN ch : \A q \in Ancestors[p] : head[q] = base[q]
  BY <1>2, NoIntersection, PathsAssumption DEF Related, Below
<1>6. CanonicalFacts(head, ch)
  <2>1. \A p \in DOMAIN ch : FilesUnder(head, p) = FilesUnder(base, p)
    BY <1>4 DEF FilesUnder
  <2>2. QED
    BY <1>1, <1>3, <1>5, <2>1 DEF CanonicalFacts
<1>7. Canonical(head, ch)
  BY <1>6, CanonicalMeaning
<1>8. WellFormed(Apply(head, ch))
  BY <1>7, CanonicalWellFormed
<1>9. QED
  BY <1>6, <1>7, <1>8 DEF Applies, CanonicalFacts

\* A composition keeps every World entry that moved since the base.
THEOREM ComposeKeepsMoved ==
    ASSUME NEW base \in Tree, NEW head \in Tree, NEW ch \in Changes,
           Intersections(base, head, ch) = {},
           NEW p \in Moved(base, head)
    PROVE  Apply(head, ch)[p] = head[p]
<1>1. p \in Paths /\ base[p] # head[p]
  BY DEF Moved
<1>2. p \notin DOMAIN ch
  BY <1>1, NoIntersection DEF Related
<1>3. QED
  BY <1>1, <1>2 DEF Apply

\* The radar's promise: with another Layer's delta on top of the World, a
\* reported pair is a conflict, and no report and no present conflict means
\* none.
THEOREM CollisionsPredict ==
    ASSUME NEW base \in Tree, NEW head \in Tree, NEW ours \in Changes,
           NEW theirs \in Changes
    PROVE  LET after == Intersections(base, Apply(head, theirs), ours)
           IN  /\ Collisions(base, ours, theirs) # {} => after # {}
               /\ Collisions(base, ours, theirs) = {}
                    /\ Intersections(base, head, ours) = {} => after = {}
<1> DEFINE both == Apply(head, theirs)
           after == Intersections(base, both, ours)
<1>1. DOMAIN ours \subseteq Paths /\ DOMAIN theirs \subseteq Paths
  BY ChangesType
<1>2. \A q \in DOMAIN theirs : both[q] = theirs[q]
  BY <1>1 DEF Apply
<1>3. \A q \in Paths \ DOMAIN theirs : both[q] = head[q]
  BY DEF Apply
<1>4. ASSUME Collisions(base, ours, theirs) # {}
      PROVE  after # {}
  <2>1. PICK p \in DOMAIN ours, q \in DOMAIN theirs :
           Related(p, q) /\ theirs[q] # base[q]
    BY <1>4 DEF Collisions
  <2>2. q \in Moved(base, both)
    BY <1>1, <1>2, <2>1 DEF Moved
  <2>3. QED
    BY <2>1, <2>2 DEF Intersections
<1>5. ASSUME Collisions(base, ours, theirs) = {},
             Intersections(base, head, ours) = {}
      PROVE  after = {}
  <2>1. SUFFICES ASSUME NEW p \in DOMAIN ours, NEW q \in Moved(base, both),
                        Related(p, q)
                 PROVE  FALSE
    BY DEF Intersections
  <2>2. q \in Paths /\ base[q] # both[q]
    BY DEF Moved
  <2>3. CASE q \in DOMAIN theirs
    <3>1. <<p, q>> \in Collisions(base, ours, theirs)
      BY <1>2, <2>1, <2>2, <2>3 DEF Collisions
    <3>2. QED
      BY <1>5, <3>1
  <2>4. CASE q \notin DOMAIN theirs
    <3>1. head[q] = base[q]
      BY <1>5, <2>1, <2>2, NoIntersection
    <3>2. QED
      BY <1>3, <2>2, <2>4, <3>1
  <2>5. QED
    BY <2>3, <2>4
<1>6. QED
  BY <1>4, <1>5
=============================================================================
