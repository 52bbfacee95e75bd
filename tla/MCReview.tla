------------------------------ MODULE MCReview ------------------------------
(***************************************************************************)
(* Small instances of Review for TLC: an author, a reviewer who loses the  *)
(* role in the second epoch, and a maintainer.                             *)
(***************************************************************************)
EXTENDS Review, TLC

CONSTANTS alice, rita, mona, c1, c2, build

MCTree == (c1 :> c1) @@ (c2 :> c2)

Push(epoch, required, reviewer) ==
    [epoch |-> epoch, public |-> FALSE, required |-> required,
     roles |-> (alice :> 2) @@ (rita :> reviewer) @@ (mona :> 3)]

MCPushes == {Push(1, 1, 2), Push(2, 1, 0)}

\* Bound: while checks are required, a request is opened, approved and
\* published for one checkpoint, and results come from the one who is removed
\* or from one who stays; without them there are no results.
Bounded ==
    IF policy = {} THEN results = <<>>
    ELSE /\ \A r \in Requests : \A i \in DOMAIN rows[r] :
               /\ rows[r][i].checkpoint # c2
               /\ rows[r][i].action \in {"open", "approve", "publish"}
         /\ \A r \in Requests : Len(rows[r]) <= 3
         /\ \A op \in DOMAIN receipts : receipts[op].layer # None
         /\ \A i \in DOMAIN results : results[i].reporter # alice

MCPolicies == {{[name |-> build, reporter |-> None]}}

Symmetry == Permutations(Operations) \cup Permutations(Requests)
=============================================================================
