------------------------------ MODULE MCOutbox ------------------------------
(***************************************************************************)
(* Small instances of Outbox.                                              *)
(***************************************************************************)
EXTENDS Outbox, TLC

Symmetry == Permutations(Operations) \cup Permutations(Handles)
=============================================================================
