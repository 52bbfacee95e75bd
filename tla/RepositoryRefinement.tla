------------------------ MODULE RepositoryRefinement ------------------------
(***************************************************************************)
(* The repository implements WorldLog: the log is the World history, an    *)
(* operation is decided when a World attempt or a receipt records it, and  *)
(* a Layer is spent by its successful receipt.                             *)
(***************************************************************************)
EXTENDS Repository

DecidedMap ==
    [op \in DOMAIN attempts \cup DOMAIN publications |->
       IF op \in DOMAIN attempts /\ attempts[op].accepted
       THEN attempts[op].result ELSE 0]

SpentMap == {l \in Layers : PublishedBy(l) # {}}

World == INSTANCE WorldLog WITH
            log <- versions, decided <- DecidedMap, spent <- SpentMap

\* Every behaviour of the repository, with its races between preparation and
\* commit, is one of the simple log: no operation is decided twice, no Layer
\* lands twice, and no version is built on anything but the current World.
ImplementsWorldLog == World!Spec
=============================================================================
