----------------------------- MODULE FileTrees -----------------------------
(***************************************************************************)
(* Snapshots and changesets of a Javelin World, and the pure operations on *)
(* them: `normalize` and `collisions` (src/src/domain.rs), `apply`, `diff` *)
(* and `intersections` (src/src/tree.rs).                                  *)
(*                                                                         *)
(* A snapshot is a map from paths to file entries.  The prolly tree that   *)
(* stores it, its chunks and its hashes are abstracted: equal roots are    *)
(* equal snapshots, so the walks that skip equal subtrees by hash are      *)
(* modelled by the set of paths they report.                               *)
(***************************************************************************)
EXTENDS Naturals

CONSTANTS
    Paths,      \* repository paths
    Ancestors,  \* [Paths -> SUBSET Paths]: the directory prefixes of a path
    Contents,   \* file entries (kind and content are compared, never read)
    Absent      \* no file at a path; in a changeset, a deletion

ASSUME PathsAssumption ==
    /\ Ancestors \in [Paths -> SUBSET Paths]
    /\ \A p \in Paths : p \notin Ancestors[p]
    /\ \A p, q, r \in Paths :
          p \in Ancestors[q] /\ q \in Ancestors[r] => p \in Ancestors[r]

ASSUME AbsentAssumption == Absent \notin Contents

Entries == Contents \cup {Absent}
Tree == [Paths -> Entries]

\* SparseChanges: the changed paths, each with its entry after the change.
Changes == UNION {[S -> Entries] : S \in SUBSET Paths}

EmptyTree == [p \in Paths |-> Absent]
NoChanges == [p \in {} |-> Absent]

\* q is strictly below p: RepoPath::ancestors and descendant_range.
Below(p, q) == p \in Ancestors[q]

Related(p, q) == p = q \/ Below(p, q) \/ Below(q, p)

\* A node is a file or a directory, never both, so no live file has a live
\* file below it (Manifest::new, Trees::build).
WellFormed(t) ==
    \A p, q \in Paths : Below(p, q) => t[p] = Absent \/ t[q] = Absent

\* The files strictly below a directory (Trees::files_under).
FilesUnder(t, p) == {q \in Paths : Below(p, q) /\ t[q] # Absent}

IsDir(t, p) == FilesUnder(t, p) # {}

\* SparseChanges::apply on entries.
Apply(t, ch) ==
    [p \in Paths |-> IF p \in DOMAIN ch THEN ch[p] ELSE t[p]]

\* Trees::apply refuses a tombstone that names a directory, and a result in
\* which a file and a descendant collide.
Applies(t, ch) ==
    /\ \A p \in DOMAIN ch :
          ch[p] = Absent /\ t[p] = Absent =>
             /\ ~IsDir(t, p)
             /\ \A q \in DOMAIN ch : ~Below(p, q)
    /\ WellFormed(Apply(t, ch))

\* The paths whose entry differs between two snapshots.
Moved(from, to) == {p \in Paths : from[p] # to[p]}

\* Trees::diff: the changeset from one snapshot to another.
Diff(from, to) == [p \in Moved(from, to) |-> to[p]]

\* The paths of a delta that `normalize` keeps: the entry really changes.
Delta(base, ch) == {p \in DOMAIN ch : ch[p] # base[p]}

\* Mutant of Normalizes: only tombstones are checked.
NormalizesTombstones(base, ch) ==
    \A p \in DOMAIN ch :
       ch[p] = Absent /\ base[p] = Absent =>
          /\ \A q \in DOMAIN ch : Below(p, q) => ch[q] = Absent
          /\ ~IsDir(base, p)

\* The delta `normalize` accepts against the snapshot `base`.
Normalizes(base, ch) ==
    LET delta == Delta(base, ch)
        liveAfter(p) == IF p \in delta THEN ch[p] # Absent ELSE base[p] # Absent
    IN  /\ \A p \in DOMAIN ch :
              ch[p] = Absent /\ base[p] = Absent =>
                 /\ \A q \in DOMAIN ch : Below(p, q) => ch[q] = Absent
                 /\ ~IsDir(base, p)
        /\ \A p \in delta :
              ch[p] # Absent =>
                 /\ \A q \in Ancestors[p] : ~liveAfter(q)
                 /\ \A q \in delta : Below(p, q) => ch[q] = Absent
                 /\ FilesUnder(base, p) \subseteq delta

Normalize(base, ch) == [p \in Delta(base, ch) |-> ch[p]]

\* A changeset that `normalize` accepts and returns unchanged: what
\* `history_in` and `checkpoint_node` demand of every stored changeset.
Canonical(base, ch) == Normalizes(base, ch) /\ Normalize(base, ch) = ch

\* Trees::intersections: both endpoints of every exact or
\* ancestor/descendant pair of a changed path and a path that moved between
\* the snapshots `base` and `head`.
Intersections(base, head, ch) ==
    LET moved == Moved(base, head)
    IN  {p \in DOMAIN ch : \E q \in moved : Related(p, q)}
          \cup {q \in moved : \E p \in DOMAIN ch : Related(p, q)}

\* Mutant of Collisions: only equal paths collide.
CollisionsExact(base, ours, theirs) ==
    {pair \in (DOMAIN ours) \X (DOMAIN theirs) :
        pair[1] = pair[2] /\ theirs[pair[2]] # base[pair[2]]}

\* collisions: the pairs (ours, theirs) on which our delta over the snapshot
\* `base` would conflict if `theirs`, another Layer's delta, landed first.
Collisions(base, ours, theirs) ==
    {pair \in (DOMAIN ours) \X (DOMAIN theirs) :
        Related(pair[1], pair[2]) /\ theirs[pair[2]] # base[pair[2]]}
=============================================================================
