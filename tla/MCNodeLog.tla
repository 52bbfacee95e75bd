----------------------------- MODULE MCNodeLog ------------------------------
(***************************************************************************)
(* Small instances of NodeLog for TLC: one file, which a Layer may add and *)
(* take back, so that a checkpoint recurs in its history.                  *)
(***************************************************************************)
EXTENDS NodeLog, TLC

CONSTANTS x, c1

MCAncestors == x :> {}

MCReverts == {x :> c1, NoChanges}

Symmetry == Permutations(Operations) \cup Permutations(Layers)
=============================================================================
