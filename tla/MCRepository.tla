---------------------------- MODULE MCRepository ----------------------------
(***************************************************************************)
(* Small instances of Repository for TLC: a directory d, a file d/x below  *)
(* it and a file e beside it.                                              *)
(***************************************************************************)
EXTENDS RepositoryRefinement, TLC

CONSTANTS d, x, e, c1, c2

MCAncestors == (d :> {}) @@ (x :> {d}) @@ (e :> {})

\* A file where another snapshot has a directory, and a file inside it.
MCTrees == {(d :> c1) @@ (x :> Absent) @@ (e :> Absent),
            (d :> Absent) @@ (x :> c1) @@ (e :> Absent)}

\* Deltas that are compatible, that collide on one path, and that collide as
\* file and directory.
MCChanges == {d :> c1, x :> c1, e :> c1}

\* Deltas that add a path to an earlier capture, and a merge that changes one
\* path and keeps the other.
MCEdits == {x :> c1, (x :> c1) @@ (e :> c1)}
MCMerges == {(x :> c2) @@ (e :> c1)}

Symmetry == Permutations(Operations) \cup Permutations(Layers)
              \cup Permutations(Handles)
=============================================================================
