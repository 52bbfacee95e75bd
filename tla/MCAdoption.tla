----------------------------- MODULE MCAdoption -----------------------------
(***************************************************************************)
(* Small instances of Adoption: two racing commands, one file, and a       *)
(* remote whose second World deletes it.                                   *)
(***************************************************************************)
EXTENDS Adoption, TLC

CONSTANT f

MCRemoteTree == <<{f}, {}>>

Symmetry == Permutations(Processes) \cup Permutations(AdoptOps)
=============================================================================
