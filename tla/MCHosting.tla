----------------------------- MODULE MCHosting ------------------------------
(***************************************************************************)
(* A small instance of Hosting: trees that share chunks, two senders that  *)
(* race for World 1, and a source repository that is forked by its creator *)
(* and by a reader, and whose fork is forked again.                        *)
(***************************************************************************)
EXTENDS Hosting, TLC

CONSTANTS E, A, C, T1, T2, b1, b2, t1, s1, s2, R1, R2, R3, admin, guest

MCRefs == E :> {} @@ A :> {b1} @@ C :> {A, b2} @@ T1 :> {A, b2} @@ T2 :> {C, b1}

Push(s, tree, n) == [store |-> R1, tree |-> tree, operation |-> s, expected |-> n]

MCJobs == s1 :> {Push(s1, T1, 0)} @@ s2 :> {Push(s2, T2, 0), Push(s2, T2, 1)}

MCPrefixes == {Objects, {T2, C, A, b1, b2}}

Ask(op, kind, name, who, source, at) ==
    [operation |-> op, kind |-> kind, name |-> name, principal |-> who,
     public |-> TRUE, source |-> source, at |-> at]

MCRequests ==
    {Ask("o1", "create", "n1", admin, None, 0),
     Ask("o2", "fork", "n2", guest, "n1", 2),
     Ask("o1", "fork", "n1", admin, "n1", 0),
     Ask("o3", "fork", "n3", admin, "n2", 1)}

MCHostTrees == {A, T1}

\* One create, and one fork of its first version.
MCOneFork ==
    {Ask("o1", "create", "n1", admin, None, 0),
     Ask("o2", "fork", "n2", guest, "n1", 1)}

Symmetry == Permutations(Calls) \cup Permutations(Codes)
                \cup Permutations(Ceremonies)
=============================================================================
