------------------------------ MODULE WorldLog ------------------------------
(***************************************************************************)
(* What a Javelin repository promises about its World: one append-only     *)
(* sequence of snapshots, each its predecessor plus a canonical changeset; *)
(* one durable outcome per operation ID; and one accepted Publish per      *)
(* Layer.  No preparation, retry, checkpoint or index is visible here.     *)
(***************************************************************************)
EXTENDS FileTrees, Sequences

CONSTANTS Operations, Layers, None

VARIABLES
    log,      \* the World's snapshots, oldest first
    decided,  \* operation -> its World number, or 0 when it was not accepted
    spent     \* Layers that were published

LastTree == log[Len(log)].tree

Record(op, number) ==
    decided' = [o \in DOMAIN decided \cup {op} |->
                   IF o = op THEN number ELSE decided[o]]

\* A new operation appends a version; a Layer is spent by it.
Accept(op, layer, ch) ==
    /\ op \notin DOMAIN decided
    /\ layer \notin spent
    /\ log' = Append(log, [tree |-> Apply(LastTree, ch), changes |-> ch,
                           operation |-> op])
    /\ Canonical(LastTree, ch)
    /\ Record(op, Len(log))
    /\ spent' = IF layer = None THEN spent ELSE spent \cup {layer}

\* A new operation is recorded as stale or conflicting.
Reject(op) ==
    /\ op \notin DOMAIN decided
    /\ Record(op, 0)
    /\ UNCHANGED <<log, spent>>

Init ==
    /\ log = <<[tree |-> EmptyTree, changes |-> NoChanges, operation |-> None]>>
    /\ decided = [op \in {} |-> 0]
    /\ spent = {}

Next ==
    \E op \in Operations :
       \/ \E layer \in Layers \cup {None}, ch \in Changes : Accept(op, layer, ch)
       \/ Reject(op)

Spec == Init /\ [][Next]_<<log, decided, spent>>
=============================================================================
