---------------------------- MODULE ReviewProofs ----------------------------
(***************************************************************************)
(* Publish Requests: every recorded command replays, the World and node.db *)
(* agree on what was published, and a revision lands with the approvals    *)
(* and checks of exactly what it is.                                       *)
(***************************************************************************)
EXTENDS Review, WellFoundedInduction, TLAPS

-----------------------------------------------------------------------------
(* Replaying commands.                                                     *)

\* Every set of naturals has a least element.
LEMMA LeastNumber ==
    ASSUME NEW S \in SUBSET Nat, S # {}
    PROVE  \E n \in S : \A m \in S : n <= m
<1> DEFINE R == OpToRel(<, Nat)
<1>1. IsWellFoundedOn(R, Nat)
  BY NatLessThanWellFounded
<1>2. PICK n \in S : \A m \in S : ~(<<m, n>> \in R)
  <2> HIDE DEF R
  <2> QED BY <1>1, WFMin
<1>3. \A m \in S : ~(m < n)
  BY <1>2 DEF OpToRel
<1> QED BY <1>3

\* The states a replay goes through.
Replays(f, s, n) ==
    f = [i \in 0..n |-> IF i = 0 THEN NewReview ELSE Transition(f[i - 1], s[i])]

\* Each state follows from the one before it.
LEMMA ReplaysAt ==
    ASSUME NEW f, NEW s, NEW n \in Nat, Replays(f, s, n)
    PROVE  \A i \in 0..n : f[i] = IF i = 0 THEN NewReview ELSE Transition(f[i - 1], s[i])
<1>1. f = [i \in 0..n |-> IF i = 0 THEN NewReview ELSE Transition(f[i - 1], s[i])]
  BY DEF Replays
<1> QED BY <1>1

\* The equation of a replay has a solution.
LEMMA ReplaysExist ==
    ASSUME NEW s, NEW k \in Nat
    PROVE  \E f : Replays(f, s, k)
<1> DEFINE Bad == {n \in Nat : ~\E f : Replays(f, s, n)}
<1>1. SUFFICES ASSUME Bad # {} PROVE FALSE
  OBVIOUS
<1>2. PICK n \in Bad : \A m \in Bad : n <= m
  BY <1>1, LeastNumber
<1>3. n # 0
  <2>1. SUFFICES ASSUME n = 0 PROVE FALSE
    OBVIOUS
  <2> DEFINE g == [i \in 0..0 |-> NewReview]
  <2>2. g = [i \in 0..0 |-> IF i = 0 THEN NewReview ELSE Transition(g[i - 1], s[i])]
    OBVIOUS
  <2>3. Replays(g, s, 0)
    BY <2>2 DEF Replays
  <2> QED BY <2>1, <2>3
<1>4. n - 1 \in Nat /\ n - 1 \notin Bad
  BY <1>2, <1>3
<1>5. PICK f : Replays(f, s, n - 1)
  BY <1>4
<1>6. \A i \in 0..(n - 1) : f[i] = IF i = 0 THEN NewReview ELSE Transition(f[i - 1], s[i])
  BY <1>4, <1>5, ReplaysAt
<1> DEFINE g == [i \in 0..n |-> IF i = n THEN Transition(f[n - 1], s[n]) ELSE f[i]]
<1>7. ASSUME NEW i \in 0..n
      PROVE  g[i] = IF i = 0 THEN NewReview ELSE Transition(g[i - 1], s[i])
  <2>1. CASE i = n
    <3>1. g[n - 1] = f[n - 1]
      BY <1>3, <1>4
    <3> QED BY <1>3, <2>1, <3>1
  <2>2. CASE i # n
    <3>1. i \in 0..(n - 1) /\ g[i] = f[i]
      BY <2>2
    <3>2. i # 0 => g[i - 1] = f[i - 1]
      BY <3>1
    <3> QED BY <1>6, <3>1, <3>2
  <2> QED BY <2>1, <2>2
<1>8. g = [i \in 0..n |-> IF i = 0 THEN NewReview ELSE Transition(g[i - 1], s[i])]
  BY <1>7
<1>9. Replays(g, s, n)
  <2> HIDE DEF g
  <2> QED BY <1>8 DEF Replays
<1> QED BY <1>2, <1>9

\* A replay computes what its equation says (Review::replay).
LEMMA ReplayMeaning ==
    ASSUME NEW s, NEW n \in Nat
    PROVE  \E f : Replays(f, s, n) /\ Replay(s, n) = f[n]
<1> DEFINE f == CHOOSE f : Replays(f, s, n)
<1>1. Replays(f, s, n)
  BY ReplaysExist
<1>2. Replay(s, n) = f[n]
  BY DEF Replay, Replays
<1> QED BY <1>1, <1>2

\* Two replays of the same commands agree.
LEMMA ReplaysAgree ==
    ASSUME NEW s, NEW t, NEW m \in Nat, NEW n \in Nat, m <= n,
           NEW f, NEW g, Replays(f, s, m), Replays(g, t, n),
           \A i \in 1..m : s[i] = t[i]
    PROVE  f[m] = g[m]
<1> DEFINE Bad == {i \in 0..m : f[i] # g[i]}
<1>1. SUFFICES ASSUME Bad # {} PROVE FALSE
  OBVIOUS
<1>2. PICK i \in Bad : \A j \in Bad : i <= j
  <2>1. Bad \in SUBSET Nat
    OBVIOUS
  <2> QED BY <1>1, <2>1, LeastNumber
<1>3. /\ \A j \in 0..m : f[j] = IF j = 0 THEN NewReview ELSE Transition(f[j - 1], s[j])
      /\ \A j \in 0..n : g[j] = IF j = 0 THEN NewReview ELSE Transition(g[j - 1], t[j])
  BY ReplaysAt
<1>4. i # 0 /\ i - 1 \in 0..m /\ i \in 1..m /\ i \in 0..n
  BY <1>2, <1>3
<1>5. f[i - 1] = g[i - 1]
  BY <1>2, <1>4
<1> QED BY <1>2, <1>3, <1>4, <1>5

\* A replay starts from a new request, moves by transitions, and reads only
\* the commands up to its own.
LEMMA ReplayFacts ==
    ASSUME NEW s
    PROVE  /\ Replay(s, 0) = NewReview
           /\ \A n \in Nat : Replay(s, n + 1) = Transition(Replay(s, n), s[n + 1])
           /\ \A t : \A n \in Nat :
                 (\A i \in 1..n : s[i] = t[i]) => Replay(t, n) = Replay(s, n)
<1>1. Replay(s, 0) = NewReview
  <2>1. PICK f : Replays(f, s, 0) /\ Replay(s, 0) = f[0]
    BY ReplayMeaning
  <2> QED BY <2>1, ReplaysAt
<1>2. ASSUME NEW n \in Nat PROVE Replay(s, n + 1) = Transition(Replay(s, n), s[n + 1])
  <2>1. PICK f : Replays(f, s, n) /\ Replay(s, n) = f[n]
    BY ReplayMeaning
  <2>2. n + 1 \in Nat
    OBVIOUS
  <2>3. PICK g : Replays(g, s, n + 1) /\ Replay(s, n + 1) = g[n + 1]
    BY <2>2, ReplayMeaning
  <2>4. f[n] = g[n]
    <3>1. n <= n + 1 /\ \A i \in 1..n : s[i] = s[i]
      OBVIOUS
    <3> QED BY <2>1, <2>2, <2>3, <3>1, ReplaysAgree
  <2>5. g[n + 1] = Transition(g[n], s[n + 1])
    BY <2>2, <2>3, ReplaysAt
  <2> QED BY <2>1, <2>3, <2>4, <2>5
<1>3. ASSUME NEW t, NEW n \in Nat, \A i \in 1..n : s[i] = t[i]
      PROVE  Replay(t, n) = Replay(s, n)
  <2>1. PICK f : Replays(f, s, n) /\ Replay(s, n) = f[n]
    BY ReplayMeaning
  <2>2. PICK g : Replays(g, t, n) /\ Replay(t, n) = g[n]
    BY ReplayMeaning
  <2>3. PICK k \in Nat : k = n
    OBVIOUS
  <2>4. n <= k /\ Replays(f, s, n) /\ Replays(g, t, k) /\ \A i \in 1..n : s[i] = t[i]
    BY <1>3, <2>1, <2>2, <2>3
  <2>5. f[n] = g[n]
    <3> HIDE <2>3
    <3> QED BY <2>4, ReplaysAgree
  <2> QED BY <2>1, <2>2, <2>5
<1> QED BY <1>1, <1>2, <1>3

-----------------------------------------------------------------------------
(* One transition.                                                         *)

Revision == [checkpoint : Checkpoints, approvals : SUBSET Principals]

ReviewType ==
    [author : Principals \cup {None}, state : {"open", "published"}, epoch : Nat,
     revisions : Seq(Revision)]

\* A command that submits a revision names its checkpoint.
CmdOK(cmd) ==
    /\ cmd \in Cmd
    /\ cmd.action \in {"open", "revise"} => cmd.checkpoint \in Checkpoints

\* A revision that is submitted is new, and the ones before stay.
LEMMA PushFacts ==
    ASSUME NEW v \in ReviewType, NEW cp \in Checkpoints
    PROVE  LET w == PushRevision(v, cp)
           IN  /\ w \in ReviewType /\ Current(w) = Current(v) + 1
               /\ w.author = v.author /\ w.state = v.state
               /\ w.revisions[Current(w)] = [checkpoint |-> cp, approvals |-> {}]
               /\ \A i \in 1..Current(v) : w.revisions[i] = v.revisions[i]
<1>1. PICK x : x = [checkpoint |-> cp, approvals |-> {}]
  OBVIOUS
<1>2. x \in Revision
  BY <1>1 DEF Revision
<1>3. v.revisions \in Seq(Revision)
  BY DEF ReviewType
<1>4. PICK s : s = Append(v.revisions, x)
  OBVIOUS
<1>5. /\ s \in Seq(Revision) /\ Len(s) = Len(v.revisions) + 1 /\ s[Len(s)] = x
      /\ \A i \in 1..Len(v.revisions) : s[i] = v.revisions[i]
  BY <1>2, <1>3, <1>4
<1>6. PushRevision(v, cp) = [v EXCEPT !.revisions = s]
  BY <1>1, <1>4 DEF PushRevision
<1> QED BY <1>1, <1>5, <1>6 DEF ReviewType, Current

\* Only a submission adds a revision, only a publication ends the request,
\* and only an approval of the current revision is added to it.
Moves(v, cmd, w) ==
    /\ w \in ReviewType
    /\ w.epoch = cmd.epoch
    /\ w.author = IF cmd.action = "open" THEN cmd.actor ELSE v.author
    /\ w.state = IF cmd.action = "publish" THEN "published" ELSE v.state
    /\ IF cmd.action \in {"open", "revise"}
       THEN /\ Current(w) = Current(v) + 1
            /\ w.revisions[Current(w)].approvals = {}
       ELSE /\ Current(w) = Current(v)
            /\ IsOpen(v)
            /\ Current(v) \in Nat \ {0}
            /\ w.revisions[Current(w)].approvals =
                  v.revisions[Current(v)].approvals \cup
                     (IF cmd.action = "approve" THEN {cmd.actor} ELSE {})
    /\ \A i \in 1..Current(v) :
          w.revisions[i].checkpoint = v.revisions[i].checkpoint

\* Review::transition moves a request as its command says.
LEMMA TransitionFacts ==
    ASSUME NEW v \in ReviewType, NEW cmd, CmdOK(cmd), CanTransition(v, cmd)
    PROVE  Moves(v, cmd, Transition(v, cmd))
<1> PICK w : w = Transition(v, cmd)
  OBVIOUS
<1>0. SUFFICES Moves(v, cmd, w)
  OBVIOUS
<1>1. /\ cmd \in Cmd /\ cmd.epoch \in Nat /\ cmd.actor \in Principals
      /\ cmd.action \in {"open", "revise", "approve", "comment", "publish"}
  BY DEF CmdOK, Cmd
<1>2. v.revisions \in Seq(Revision) /\ Len(v.revisions) \in Nat
  BY DEF ReviewType
<1>3. CASE cmd.action = "open"
  <2>1. PICK u : u = [v EXCEPT !.author = cmd.actor]
    OBVIOUS
  <2>2. u \in ReviewType /\ u.author = cmd.actor /\ u.state = v.state /\ u.revisions = v.revisions
    BY <1>1, <2>1 DEF ReviewType
  <2>3. PICK x : x = PushRevision(u, cmd.checkpoint)
    OBVIOUS
  <2>4. w = [x EXCEPT !.epoch = cmd.epoch]
    BY <1>3, <2>1, <2>3 DEF Transition
  <2>5. cmd.checkpoint \in Checkpoints
    BY <1>3 DEF CmdOK
  <2>6. /\ x \in ReviewType /\ Current(x) = Current(u) + 1
        /\ x.author = u.author /\ x.state = u.state
        /\ x.revisions[Current(x)] = [checkpoint |-> cmd.checkpoint, approvals |-> {}]
        /\ \A i \in 1..Current(u) : x.revisions[i] = u.revisions[i]
    BY <2>2, <2>3, <2>5, PushFacts
  <2>7. /\ w \in ReviewType /\ w.epoch = cmd.epoch /\ w.revisions = x.revisions
        /\ w.author = x.author /\ w.state = x.state
    BY <1>1, <2>4, <2>6 DEF ReviewType
  <2> QED BY <1>3, <2>2, <2>6, <2>7 DEF Moves, Current
<1>4. CASE cmd.action = "revise"
  <2>3. PICK x : x = PushRevision(v, cmd.checkpoint)
    OBVIOUS
  <2>4. w = [x EXCEPT !.epoch = cmd.epoch]
    BY <1>4, <2>3 DEF Transition
  <2>5. cmd.checkpoint \in Checkpoints
    BY <1>4 DEF CmdOK
  <2>6. /\ x \in ReviewType /\ Current(x) = Current(v) + 1
        /\ x.author = v.author /\ x.state = v.state
        /\ x.revisions[Current(x)] = [checkpoint |-> cmd.checkpoint, approvals |-> {}]
        /\ \A i \in 1..Current(v) : x.revisions[i] = v.revisions[i]
    BY <2>3, <2>5, PushFacts
  <2>7. /\ w \in ReviewType /\ w.epoch = cmd.epoch /\ w.revisions = x.revisions
        /\ w.author = x.author /\ w.state = x.state
    BY <1>1, <2>4, <2>6 DEF ReviewType
  <2> QED BY <1>4, <2>6, <2>7 DEF Moves, Current
<1>5. ASSUME cmd.action \notin {"open", "revise"}
      PROVE  IsOpen(v) /\ Current(v) \in Nat \ {0} /\ Current(v) \in DOMAIN v.revisions
  <2>1. IsOpen(v)
    BY <1>1, <1>5 DEF CanTransition
  <2>2. v.revisions # << >>
    BY <2>1 DEF IsOpen
  <2>3. Len(v.revisions) # 0
    BY <1>2, <2>2
  <2> QED BY <1>2, <2>1, <2>3 DEF Moves, Current
<1>6. CASE cmd.action = "approve"
  <2>1. PICK n : n = Current(v)
    OBVIOUS
  <2>2. n \in DOMAIN v.revisions /\ n \in Nat \ {0} /\ IsOpen(v) /\ n = Len(v.revisions)
    BY <1>5, <1>6, <2>1 DEF Current
  <2>3. v.revisions[n] \in Revision
    BY <1>2, <2>2
  <2>4. PICK a : a = [v.revisions[n] EXCEPT !.approvals = v.revisions[n].approvals \cup {cmd.actor}]
    OBVIOUS
  <2>5. /\ a \in Revision /\ a.checkpoint = v.revisions[n].checkpoint
        /\ a.approvals = v.revisions[n].approvals \cup {cmd.actor}
    BY <1>1, <2>3, <2>4 DEF Revision
  <2>6. PICK s : s = [v.revisions EXCEPT ![n] = a]
    OBVIOUS
  <2>7. /\ s \in Seq(Revision) /\ Len(s) = n /\ s[n] = a
        /\ \A i \in 1..n : i # n => s[i] = v.revisions[i]
    BY <1>2, <2>2, <2>5, <2>6
  <2>8. w = [v EXCEPT !.revisions = s, !.epoch = cmd.epoch]
    BY <1>6, <2>1, <2>4, <2>6 DEF Transition
  <2>9. /\ w \in ReviewType /\ w.epoch = cmd.epoch /\ w.revisions = s
        /\ w.author = v.author /\ w.state = v.state
    BY <1>1, <2>7, <2>8 DEF ReviewType
  <2> QED BY <1>6, <2>1, <2>2, <2>5, <2>7, <2>9 DEF Moves, Current
<1>7. CASE cmd.action = "comment"
  <2>1. w = [v EXCEPT !.epoch = cmd.epoch]
    BY <1>7 DEF Transition
  <2>2. /\ w \in ReviewType /\ w.epoch = cmd.epoch /\ w.revisions = v.revisions
        /\ w.author = v.author /\ w.state = v.state
    BY <1>1, <2>1 DEF ReviewType
  <2> QED BY <1>5, <1>7, <2>2 DEF Moves, Current
<1>8. CASE cmd.action = "publish"
  <2>1. w = [v EXCEPT !.state = "published", !.epoch = cmd.epoch]
    BY <1>8 DEF Transition
  <2>2. /\ w \in ReviewType /\ w.epoch = cmd.epoch /\ w.revisions = v.revisions
        /\ w.author = v.author /\ w.state = "published"
    BY <1>1, <2>1 DEF ReviewType
  <2> QED BY <1>5, <1>8, <2>2 DEF Moves, Current
<1> QED BY <1>1, <1>3, <1>4, <1>6, <1>7, <1>8

-----------------------------------------------------------------------------
(* The commands of one request.                                            *)

\* Who the first n commands say approved revision i at a checkpoint.
Approvers(s, n, i, checkpoint) ==
    {s[j].actor : j \in {j \in 1..n :
        /\ s[j].action = "approve"
        /\ s[j].index = i
        /\ s[j].checkpoint = checkpoint
        /\ \A m \in j..n : s[m].action # "revise"}}

\* What the first n commands of a request make of it.
Follows(s, n, v) ==
    /\ v \in ReviewType
    /\ Current(v) <= n
    /\ v.author = None <=> n = 0
    /\ n = 0 => Current(v) = 0 /\ v.state = "open"
    /\ n > 0 =>
          /\ Current(v) > 0
          /\ v.author = s[1].actor
          /\ v.epoch = s[n].epoch
          /\ v.revisions[Current(v)].approvals =
                Approvers(s, n, Current(v), v.revisions[Current(v)].checkpoint)

\* Commands that were accepted one after the other, in epochs that never go
\* back.
Commands(s) ==
    /\ s \in Seq(Cmd)
    /\ \A n \in 1..Len(s) :
          /\ CmdOK(s[n])
          /\ CanTransition(Replay(s, n - 1), s[n])
          /\ \A m \in 1..n : s[m].epoch <= s[n].epoch

\* No command has approved anything.
LEMMA FollowsStart ==
    ASSUME NEW s
    PROVE  Follows(s, 0, NewReview)
<1>1. NewReview \in ReviewType
  BY DEF NewReview, ReviewType
<1>2. Current(NewReview) = 0
  BY DEF NewReview, Current
<1> QED BY <1>1, <1>2 DEF Follows, NewReview

\* What a command adds to the approvals of revision i at a checkpoint.
Approval(cmd, i, checkpoint) ==
    IF cmd.action = "approve" /\ cmd.index = i /\ cmd.checkpoint = checkpoint
    THEN {cmd.actor} ELSE {}

\* The next command counts as an approval exactly when it is one, and a
\* submission makes all that came before void.
LEMMA ApproversStep ==
    ASSUME NEW s, NEW n \in Nat, NEW i, NEW c, NEW cmd, s[n + 1] = cmd
    PROVE  /\ cmd.action = "revise" => Approvers(s, n + 1, i, c) = {}
           /\ cmd.action # "revise" =>
                 Approvers(s, n + 1, i, c) = Approvers(s, n, i, c) \cup Approval(cmd, i, c)
<1> DEFINE A(k) == {j \in 1..k :
                      /\ s[j].action = "approve"
                      /\ s[j].index = i
                      /\ s[j].checkpoint = c
                      /\ \A m \in j..k : s[m].action # "revise"}
           new == IF cmd.action = "approve" /\ cmd.index = i /\ cmd.checkpoint = c
                  THEN {n + 1} ELSE {}
<1>1. CASE cmd.action = "revise"
  <2>1. A(n + 1) = {}
    BY <1>1
  <2> QED BY <1>1, <2>1 DEF Approvers
<1>2. CASE cmd.action # "revise"
  <2>1. A(n + 1) = A(n) \cup new
    <3>1. ASSUME NEW j \in A(n + 1) PROVE j \in A(n) \cup new
      BY <1>2, <3>1
    <3>2. ASSUME NEW j \in A(n) PROVE j \in A(n + 1)
      BY <1>2, <3>2
    <3>3. ASSUME NEW j \in new PROVE j \in A(n + 1)
      BY <1>2, <3>3
    <3> QED BY <3>1, <3>2, <3>3
  <2>2. \A k : Approvers(s, k, i, c) = {s[j].actor : j \in A(k)}
    BY DEF Approvers
  <2>3. {s[j].actor : j \in new} = Approval(cmd, i, c)
    BY DEF Approval
  <2> HIDE DEF A, new
  <2>4. {s[j].actor : j \in A(n) \cup new} = {s[j].actor : j \in A(n)} \cup {s[j].actor : j \in new}
    OBVIOUS
  <2> QED BY <1>2, <2>1, <2>2, <2>3, <2>4
<1> QED BY <1>1, <1>2

\* A command that is accepted keeps the request what its commands say.
LEMMA FollowsStep ==
    ASSUME NEW s, NEW n \in Nat, NEW v, NEW cmd, s[n + 1] = cmd, CmdOK(cmd),
           Follows(s, n, v), CanTransition(v, cmd)
    PROVE  Follows(s, n + 1, Transition(v, cmd))
<1> PICK w : w = Transition(v, cmd)
  OBVIOUS
<1>0. SUFFICES Follows(s, n + 1, w)
  OBVIOUS
<1>1. v \in ReviewType /\ Moves(v, cmd, w)
  BY TransitionFacts DEF Follows
<1>2. /\ v.revisions \in Seq(Revision) /\ Current(v) \in Nat /\ Current(v) <= n
      /\ w \in ReviewType /\ Current(w) \in Nat
  BY <1>1 DEF ReviewType, Current, Follows, Moves
<1>3. cmd.actor \in Principals /\ cmd.actor # None
  BY NoneAssumption DEF CmdOK, Cmd
<1>4. PICK c : c = w.revisions[Current(w)].checkpoint
  OBVIOUS
<1>5. PICK i \in Nat : i = Current(w)
  BY <1>2
<1>6. /\ cmd.action = "revise" => Approvers(s, n + 1, i, c) = {}
      /\ cmd.action # "revise" =>
            Approvers(s, n + 1, i, c) = Approvers(s, n, i, c) \cup Approval(cmd, i, c)
  BY ApproversStep
<1>7. CASE cmd.action = "open"
  <2>1. v.author = None
    BY <1>7 DEF CanTransition
  <2>2. n = 0 /\ Current(v) = 0
    BY <2>1 DEF Follows
  <2>3. Approvers(s, n, i, c) = {}
    BY <2>2 DEF Approvers
  <2>4. /\ i = 1 /\ w.author = cmd.actor /\ w.epoch = cmd.epoch
        /\ w.revisions[Current(w)].approvals = {}
    BY <1>1, <1>5, <1>7, <2>2 DEF Moves
  <2>5. Approvers(s, n + 1, i, c) = {}
    BY <1>6, <1>7, <2>3 DEF Approval
  <2>6. n + 1 = 1 /\ s[1] = cmd
    BY <2>2
  <2>7. w.revisions[Current(w)].approvals =
           Approvers(s, n + 1, Current(w), w.revisions[Current(w)].checkpoint)
    BY <1>4, <1>5, <2>4, <2>5
  <2>8. w.author = s[1].actor /\ w.author # None /\ w.epoch = s[n + 1].epoch
    BY <1>3, <2>4, <2>6
  <2>9. Current(w) > 0 /\ Current(w) <= n + 1 /\ n + 1 # 0
    BY <1>5, <2>2, <2>4
  <2> QED BY <1>2, <2>7, <2>8, <2>9 DEF Follows
<1>8. ASSUME cmd.action # "open"
      PROVE  IsOpen(v) /\ n > 0 /\ v.author # None /\ v.author = s[1].actor /\ Current(v) > 0
  <2>1. IsOpen(v)
    BY <1>8 DEF CanTransition, CmdOK, Cmd
  <2>2. Len(v.revisions) # 0
    BY <1>2, <2>1 DEF IsOpen
  <2>3. n # 0
    BY <2>2 DEF Follows, Current
  <2> QED BY <2>1, <2>3 DEF Follows
<1>9. CASE cmd.action = "revise"
  <2>1. /\ Current(w) = Current(v) + 1 /\ w.author = v.author /\ w.epoch = cmd.epoch
        /\ w.revisions[Current(w)].approvals = {}
    BY <1>1, <1>9 DEF Moves
  <2> QED BY <1>2, <1>4, <1>5, <1>6, <1>8, <1>9, <2>1 DEF Follows
<1>10. CASE cmd.action \notin {"open", "revise"}
  <2>1. /\ Current(w) = Current(v) /\ w.author = v.author /\ w.epoch = cmd.epoch
        /\ w.revisions[Current(w)].approvals =
              v.revisions[Current(v)].approvals \cup
                 (IF cmd.action = "approve" THEN {cmd.actor} ELSE {})
        /\ \A k \in 1..Current(v) : w.revisions[k].checkpoint = v.revisions[k].checkpoint
    BY <1>1, <1>10 DEF Moves
  <2>2. c = v.revisions[Current(v)].checkpoint
    BY <1>2, <1>4, <1>8, <1>10, <2>1
  <2>3. v.revisions[Current(v)].approvals = Approvers(s, n, i, c)
    BY <1>5, <1>8, <1>10, <2>1, <2>2 DEF Follows
  <2>4. cmd.action = "approve" => cmd.index = i /\ cmd.checkpoint = c
    BY <1>5, <2>1, <2>2 DEF CanTransition
  <2>5. w.revisions[Current(w)].approvals = Approvers(s, n + 1, i, c)
    BY <1>6, <1>10, <2>1, <2>3, <2>4 DEF Approval
  <2> QED BY <1>2, <1>4, <1>5, <1>8, <1>10, <2>1, <2>5 DEF Follows
<1> QED BY <1>7, <1>9, <1>10

\* Each state of a replay is what the commands before it say.
LEMMA CommandsFollow ==
    ASSUME NEW s, Commands(s), NEW k \in 0..Len(s)
    PROVE  Follows(s, k, Replay(s, k))
<1>0. Len(s) \in Nat
  BY DEF Commands
<1> DEFINE Bad == {n \in 0..k : ~Follows(s, n, Replay(s, n))}
<1>1. SUFFICES ASSUME Bad # {} PROVE FALSE
  BY <1>0
<1>2. PICK n \in Bad : \A m \in Bad : n <= m
  <2>1. Bad \in SUBSET Nat
    BY <1>0
  <2> QED BY <1>1, <2>1, LeastNumber
<1>3. n \in Nat /\ n <= Len(s)
  BY <1>0, <1>2
<1>4. n # 0
  BY <1>2, FollowsStart, ReplayFacts
<1>5. PICK m \in Nat : m + 1 = n
  BY <1>3, <1>4
<1>6. Follows(s, m, Replay(s, m))
  BY <1>0, <1>2, <1>3, <1>5
<1>7. CmdOK(s[n]) /\ CanTransition(Replay(s, m), s[n])
  <2>1. n \in 1..Len(s) /\ n - 1 = m
    BY <1>0, <1>3, <1>4, <1>5
  <2> QED BY <2>1 DEF Commands
<1>8. Replay(s, m + 1) = Transition(Replay(s, m), s[n])
  BY <1>5, ReplayFacts
<1>9. Follows(s, m + 1, Transition(Replay(s, m), s[n]))
  <2>1. s[m + 1] = s[n]
    BY <1>5
  <2> QED BY <1>6, <1>7, <2>1, FollowsStep
<1> QED BY <1>2, <1>5, <1>8, <1>9

\* An accepted command is recorded after the others (persist), and the
\* request moves by it.
LEMMA CommandsAppend ==
    ASSUME NEW s, Commands(s), NEW cmd, CmdOK(cmd),
           CanTransition(Replay(s, Len(s)), cmd), cmd.epoch >= Replay(s, Len(s)).epoch
    PROVE  LET t == Append(s, cmd)
           IN  Commands(t) /\ Replay(t, Len(t)) = Transition(Replay(s, Len(s)), cmd)
<1> PICK t : t = Append(s, cmd)
  OBVIOUS
<1>1. /\ s \in Seq(Cmd) /\ cmd \in Cmd /\ t \in Seq(Cmd) /\ Len(s) \in Nat
      /\ Len(t) = Len(s) + 1 /\ t[Len(s) + 1] = cmd
      /\ \A i \in 1..Len(s) : t[i] = s[i]
  BY DEF Commands, CmdOK
<1>2. \A n \in 0..Len(s) : Replay(t, n) = Replay(s, n)
  <2>1. ASSUME NEW n \in 0..Len(s) PROVE Replay(t, n) = Replay(s, n)
    <3>1. n \in Nat /\ \A i \in 1..n : s[i] = t[i]
      BY <1>1
    <3> QED BY <3>1, ReplayFacts
  <2> QED BY <2>1
<1>3. Replay(t, Len(t)) = Transition(Replay(s, Len(s)), cmd)
  <2>1. Replay(t, Len(s) + 1) = Transition(Replay(t, Len(s)), t[Len(s) + 1])
    BY <1>1, ReplayFacts
  <2> QED BY <1>1, <1>2, <2>1
<1>4. ASSUME NEW n \in 1..Len(t)
      PROVE  /\ CmdOK(t[n]) /\ CanTransition(Replay(t, n - 1), t[n])
             /\ \A m \in 1..n : t[m].epoch <= t[n].epoch
  <2>1. CASE n \in 1..Len(s)
    <3>1. n - 1 \in 0..Len(s) /\ \A m \in 1..n : m \in 1..Len(s)
      BY <1>1, <2>1
    <3>2. /\ CmdOK(s[n]) /\ CanTransition(Replay(s, n - 1), s[n])
          /\ \A m \in 1..n : s[m].epoch <= s[n].epoch
      BY <2>1 DEF Commands
    <3> QED BY <1>1, <1>2, <2>1, <3>1, <3>2
  <2>2. CASE n = Len(s) + 1
    <3>1. CmdOK(t[n]) /\ CanTransition(Replay(t, n - 1), t[n])
      BY <1>1, <1>2, <2>2
    <3>2. ASSUME NEW m \in 1..Len(s) PROVE t[m].epoch <= cmd.epoch
      <4>1. Len(s) > 0 /\ Len(s) \in 0..Len(s) /\ Len(s) \in 1..Len(s)
        BY <1>1
      <4>2. Replay(s, Len(s)).epoch = s[Len(s)].epoch
        BY <4>1, CommandsFollow DEF Follows
      <4>3. s[m].epoch <= s[Len(s)].epoch
        BY <4>1 DEF Commands
      <4>4. s[m] \in Cmd /\ s[Len(s)] \in Cmd
        BY <1>1, <4>1
      <4>5. s[m].epoch \in Nat /\ s[Len(s)].epoch \in Nat /\ cmd.epoch \in Nat
        BY <1>1, <4>4 DEF Cmd
      <4> QED BY <1>1, <4>2, <4>3, <4>5
    <3>3. cmd.epoch \in Nat
      BY <1>1 DEF Cmd
    <3> QED BY <1>1, <2>2, <3>1, <3>2, <3>3
  <2> QED BY <1>1, <2>1, <2>2
<1> QED BY <1>1, <1>3, <1>4 DEF Commands

-----------------------------------------------------------------------------
(* The inductive invariant.                                                *)

\* Each request was built from accepted commands.
RowsOK == \A r \in Requests : Commands(rows[r])

\* A Layer is of a revision that was submitted, at its checkpoint; one that
\* landed is of the current revision.
LayerOK(r, i, v) ==
    /\ i \in 1..Current(v)
    /\ layers[<<r, i>>].checkpoint = v.revisions[i].checkpoint
    /\ layers[<<r, i>>].operation # None => i = Current(v)

LayersOK ==
    \A r \in Requests, i \in Nat : <<r, i>> \in DOMAIN layers => LayerOK(r, i, Restore(r))

\* The receipts of a revision are those of the operation that landed it.
ReceiptsOK ==
    /\ \A op \in DOMAIN receipts : \A k \in Requests \X Nat :
          receipts[op] = [layer |-> k, outcome |-> "published"] =>
             k \in DOMAIN layers /\ layers[k].operation = op
    /\ \A k \in DOMAIN layers :
          layers[k].operation # None =>
             /\ layers[k].operation \in DOMAIN receipts
             /\ receipts[layers[k].operation] = [layer |-> k, outcome |-> "published"]

\* What a request records as published has landed.
Landed(r, v) ==
    /\ <<r, Current(v)>> \in DOMAIN layers
    /\ layers[<<r, Current(v)>>].operation # None

RecordedOK == \A r \in Requests : Restore(r).state = "published" => Landed(r, Restore(r))

ReviewInv == TypeOK /\ RowsOK /\ LayersOK /\ ReceiptsOK /\ RecordedOK

-----------------------------------------------------------------------------
(* What the invariant says of one request.                                 *)

Actions == {"open", "revise", "approve", "comment", "publish"}

\* restore reads what the commands say.
LEMMA RestoreFacts ==
    ASSUME RowsOK, NEW r \in Requests
    PROVE  /\ Follows(rows[r], Len(rows[r]), Restore(r))
           /\ Restore(r) \in ReviewType
           /\ Current(Restore(r)) \in Nat
           /\ Current(Restore(r)) <= Len(rows[r])
<1>1. PICK s : s = rows[r]
  OBVIOUS
<1>2. Commands(s)
  BY <1>1 DEF RowsOK
<1>3. Len(s) \in Nat /\ Len(s) \in 0..Len(s)
  BY <1>2 DEF Commands
<1>4. Follows(s, Len(s), Replay(s, Len(s)))
  BY <1>2, <1>3, CommandsFollow
<1>5. Restore(r) = Replay(s, Len(s))
  BY <1>1 DEF Restore, Replayed
<1>6. PICK v : v = Restore(r)
  OBVIOUS
<1>7. v \in ReviewType /\ Current(v) <= Len(s)
  BY <1>4, <1>5, <1>6 DEF Follows
<1>8. Current(v) \in Nat
  BY <1>7 DEF ReviewType, Current
<1> QED BY <1>1, <1>4, <1>5, <1>6, <1>7, <1>8

\* A request that is open has a current revision.
LEMMA OpenFacts ==
    ASSUME NEW v \in ReviewType, IsOpen(v)
    PROVE  /\ v.state = "open" /\ Current(v) \in Nat \ {0}
           /\ Current(v) \in 1..Current(v) /\ v.revisions[Current(v)] \in Revision
<1>1. v.revisions \in Seq(Revision) /\ v.revisions # << >>
  BY DEF ReviewType, IsOpen
<1>2. Len(v.revisions) \in Nat \ {0}
  BY <1>1
<1>3. v.revisions[Len(v.revisions)] \in Revision
  BY <1>1, <1>2
<1> QED BY <1>2, <1>3 DEF IsOpen, Current

\* settled: what the settled request accepts, the recorded one accepts too,
\* and nothing of it has landed.
LEMMA SettledFacts ==
    ASSUME RowsOK, LayersOK, NEW r \in Requests, NEW cmd, cmd.action \in Actions,
           CanTransition(Settled(r), cmd)
    PROVE  /\ CanTransition(Restore(r), cmd)
           /\ Restore(r).state = "open"
           /\ ~Landed(r, Restore(r))
           /\ Settled(r) = Restore(r)
<1>1. PICK v : v = Restore(r)
  OBVIOUS
<1>2. v \in ReviewType /\ Follows(rows[r], Len(rows[r]), v)
  BY <1>1, RestoreFacts
<1>3. PICK lost \in BOOLEAN : lost = (IsOpen(v) /\ WorldPublication(r, Current(v), v.revisions[Current(v)].checkpoint))
  OBVIOUS
<1>4. Settled(r) = IF lost THEN [v EXCEPT !.state = "published"] ELSE v
  BY <1>1, <1>3 DEF Settled
<1>5. CASE lost
  <2>1. PICK w : w = [v EXCEPT !.state = "published"]
    OBVIOUS
  <2>2. w.state = "published" /\ w.author = v.author
    BY <1>2, <2>1 DEF ReviewType
  <2>3. ~IsOpen(w)
    BY <2>2 DEF IsOpen
  <2>4. CanTransition(w, cmd)
    BY <1>4, <1>5, <2>1
  <2>5. cmd.action = "open" /\ w.author = None
    BY <2>3, <2>4 DEF CanTransition, Actions
  <2>6. Len(rows[r]) = 0 /\ Current(v) = 0
    BY <1>2, <2>2, <2>5 DEF Follows
  <2>7. Current(v) # 0
    BY <1>2, <1>3, <1>5, OpenFacts
  <2> QED BY <2>6, <2>7
<1>6. CASE ~lost
  <2>1. CanTransition(v, cmd) /\ Settled(r) = v
    BY <1>4, <1>6
  <2>2. v.state = "open" /\ ~Landed(r, v)
    <3>1. CASE cmd.action = "open"
      <4>1. v.author = None
        BY <2>1, <3>1 DEF CanTransition
      <4>2. Len(rows[r]) = 0 /\ Current(v) = 0 /\ v.state = "open"
        BY <1>2, <4>1 DEF Follows
      <4>3. ~Landed(r, v)
        <5>1. SUFFICES ASSUME <<r, 0>> \in DOMAIN layers PROVE FALSE
          BY <4>2 DEF Landed
        <5>2. LayerOK(r, 0, v)
          BY <1>1, <5>1 DEF LayersOK
        <5> QED BY <4>2, <5>2 DEF LayerOK
      <4> QED BY <4>2, <4>3
    <3>2. CASE cmd.action # "open"
      <4>1. IsOpen(v)
        BY <2>1, <3>2 DEF CanTransition, Actions
      <4>2. ~WorldPublication(r, Current(v), v.revisions[Current(v)].checkpoint)
        BY <1>3, <1>6, <4>1
      <4>3. Landed(r, v) => layers[<<r, Current(v)>>].checkpoint = v.revisions[Current(v)].checkpoint
        <5>1. SUFFICES ASSUME Landed(r, v)
                       PROVE layers[<<r, Current(v)>>].checkpoint = v.revisions[Current(v)].checkpoint
          OBVIOUS
        <5>2. PICK i \in Nat : i = Current(v)
          BY <1>2, <4>1, OpenFacts
        <5>3. LayerOK(r, i, v)
          BY <1>1, <5>1, <5>2 DEF LayersOK, Landed
        <5> QED BY <5>2, <5>3 DEF LayerOK
      <4> QED BY <4>1, <4>2, <4>3 DEF Landed, WorldPublication, IsOpen
    <3> QED BY <3>1, <3>2
  <2> QED BY <1>1, <2>1, <2>2
<1> QED BY <1>5, <1>6

-----------------------------------------------------------------------------
(* Recording a command.                                                    *)

\* The type of the rows, and the UNIQUE constraint on their operations.
RowsTyped ==
    /\ rows \in [Requests -> Seq(Cmd)]
    /\ \A r, s \in Requests : \A i \in DOMAIN rows[r], j \in DOMAIN rows[s] :
          rows[r][i].operation = rows[s][j].operation => r = s /\ i = j

\* The operation of a recorded command is new.
LEMMA UniqueStep ==
    ASSUME RowsTyped, NEW r \in Requests, NEW cmd \in Cmd, ~Recorded(cmd.operation),
           Persist(r, cmd)
    PROVE  RowsTyped'
<1>1. /\ rows \in [Requests -> Seq(Cmd)] /\ rows[r] \in Seq(Cmd)
      /\ rows' = [rows EXCEPT ![r] = Append(rows[r], cmd)]
  BY DEF RowsTyped, Persist
<1>2. Append(rows[r], cmd) \in Seq(Cmd)
  BY <1>1
<1>3. /\ rows' \in [Requests -> Seq(Cmd)] /\ rows'[r] = Append(rows[r], cmd)
      /\ \A q \in Requests : q # r => rows'[q] = rows[q]
  BY <1>1, <1>2
<1>4. PICK n \in Nat : n = Len(rows[r]) + 1
  BY <1>1
<1>5. /\ DOMAIN rows[r] = 1..(n - 1) /\ DOMAIN rows'[r] = 1..n /\ rows'[r][n] = cmd
      /\ \A i \in 1..(n - 1) : rows'[r][i] = rows[r][i]
  BY <1>1, <1>3, <1>4
<1>6. \A q \in Requests : \A i \in DOMAIN rows'[q] :
         IF q = r /\ i = n THEN rows'[q][i] = cmd
         ELSE i \in DOMAIN rows[q] /\ rows'[q][i] = rows[q][i]
  BY <1>3, <1>5
<1>7. \A q \in Requests : \A i \in DOMAIN rows[q] : rows[q][i].operation # cmd.operation
  BY DEF Recorded
<1>8. \A q, s \in Requests : \A i \in DOMAIN rows'[q], j \in DOMAIN rows'[s] :
         rows'[q][i].operation = rows'[s][j].operation => q = s /\ i = j
  BY <1>6, <1>7 DEF RowsTyped
<1> QED BY <1>3, <1>8 DEF RowsTyped

\* persist: the request moves by the command, and no other request does.
LEMMA RecordStep ==
    ASSUME RowsTyped, RowsOK, NEW r \in Requests, NEW cmd, CmdOK(cmd),
           CanTransition(Restore(r), cmd), cmd.epoch >= Restore(r).epoch, Persist(r, cmd)
    PROVE  /\ RowsOK'
           /\ Moves(Restore(r), cmd, Restore(r)')
           /\ \A q \in Requests : q # r => Restore(q)' = Restore(q)
<1>1. PICK s : s = rows[r]
  OBVIOUS
<1>2. PICK t : t = Append(s, cmd)
  OBVIOUS
<1>3. rows'[r] = t /\ \A q \in Requests : q # r => rows'[q] = rows[q]
  BY <1>1, <1>2 DEF RowsTyped, Persist
<1>4. Commands(s) /\ Restore(r) = Replay(s, Len(s))
  BY <1>1 DEF RowsOK, Restore, Replayed
<1>5. Commands(t) /\ Replay(t, Len(t)) = Transition(Replay(s, Len(s)), cmd)
  BY <1>2, <1>4, CommandsAppend
<1>6. RowsOK'
  BY <1>3, <1>5 DEF RowsOK
<1>7. Restore(r)' = Replay(t, Len(t))
  BY <1>3 DEF Restore, Replayed
<1>8. Moves(Restore(r), cmd, Restore(r)')
  <2>1. PICK v : v = Restore(r)
    OBVIOUS
  <2>2. v \in ReviewType
    BY <2>1, RestoreFacts
  <2>3. Moves(v, cmd, Transition(v, cmd))
    BY <2>1, <2>2, TransitionFacts
  <2> QED BY <1>4, <1>5, <1>7, <2>1, <2>3
<1>9. \A q \in Requests : q # r => Restore(q)' = Restore(q)
  BY <1>3 DEF Restore, Replayed
<1> QED BY <1>6, <1>8, <1>9

\* The revisions of every request, and what was submitted as each, stay.
Kept ==
    \A q \in Requests :
       /\ Current(Restore(q)') = Current(Restore(q))
       /\ \A i \in 1..Current(Restore(q)) :
             Restore(q)'.revisions[i].checkpoint = Restore(q).revisions[i].checkpoint

\* Without a new command nothing about the requests changes.
LEMMA KeptUnchanged ==
    ASSUME UNCHANGED rows
    PROVE  Kept /\ (RowsOK => RowsOK') /\ (RowsTyped => RowsTyped')
           /\ \A q \in Requests : Restore(q)' = Restore(q)
<1>1. \A q \in Requests : Restore(q)' = Restore(q)
  BY DEF Restore, Replayed
<1> QED BY <1>1 DEF Kept, RowsOK, RowsTyped

-----------------------------------------------------------------------------
(* Landing a revision.                                                     *)

LayersTyped ==
    /\ DOMAIN layers \subseteq Requests \X Nat
    /\ \A k \in DOMAIN layers :
          layers[k] \in [checkpoint : Checkpoints, operation : Operations \cup {None}]

ReceiptsTyped ==
    /\ DOMAIN receipts \subseteq Operations
    /\ \A op \in DOMAIN receipts :
          receipts[op] \in [layer : (Requests \X Nat) \cup {None},
                            outcome : {"published", "conflict"}]

\* The state the two databases hold.
StoredOK == /\ RowsTyped /\ LayersTyped /\ ReceiptsTyped
            /\ RowsOK /\ LayersOK /\ ReceiptsOK /\ RecordedOK

\* The Layers stay of submitted revisions while those stay.
LEMMA LayersKept ==
    ASSUME LayersTyped, LayersOK, Kept, UNCHANGED layers
    PROVE  LayersTyped' /\ LayersOK'
<1>1. ASSUME NEW q \in Requests, NEW i \in Nat, <<q, i>> \in DOMAIN layers
      PROVE  LayerOK(q, i, Restore(q))'
  <2>1. LayerOK(q, i, Restore(q))
    BY <1>1 DEF LayersOK
  <2> QED BY <2>1 DEF LayerOK, Kept
<1> QED BY <1>1 DEF LayersOK, LayersTyped

\* clone_layer and publish_layer: the Layer of the current revision.
LEMMA LayersPut ==
    ASSUME RowsOK, LayersTyped, LayersOK, Kept, NEW r \in Requests, IsOpen(Restore(r)),
           NEW i, i = Current(Restore(r)), NEW o \in Operations \cup {None}, PutLayer(r, i, o)
    PROVE  /\ LayersTyped' /\ LayersOK'
           /\ DOMAIN layers' = DOMAIN layers \cup {<<r, i>>}
           /\ layers'[<<r, i>>] = [checkpoint |-> Checkpoint(r, i), operation |-> o]
           /\ \A k \in DOMAIN layers : k # <<r, i>> => layers'[k] = layers[k]
<1>1. PICK v : v = Restore(r)
  OBVIOUS
<1>2. v \in ReviewType
  BY <1>1, RestoreFacts
<1>3. i \in Nat /\ i \in 1..i /\ v.revisions[i] \in Revision
  BY <1>1, <1>2, OpenFacts
<1>4. PICK c : c = Checkpoint(r, i)
  OBVIOUS
<1>5. c = v.revisions[i].checkpoint /\ c \in Checkpoints
  BY <1>1, <1>3, <1>4 DEF Checkpoint, Revision
<1>6. /\ DOMAIN layers' = DOMAIN layers \cup {<<r, i>>}
      /\ layers'[<<r, i>>] = [checkpoint |-> c, operation |-> o]
      /\ \A k \in DOMAIN layers : k # <<r, i>> => layers'[k] = layers[k]
  BY <1>4 DEF PutLayer
<1>7. LayersTyped'
  <2>1. [checkpoint |-> c, operation |-> o] \in [checkpoint : Checkpoints, operation : Operations \cup {None}]
    BY <1>5
  <2>2. <<r, i>> \in Requests \X Nat
    BY <1>3
  <2> QED BY <1>6, <2>1, <2>2 DEF LayersTyped
<1>8. LayersOK'
  <2>1. ASSUME NEW q \in Requests, NEW j \in Nat, <<q, j>> \in DOMAIN layers'
        PROVE  LayerOK(q, j, Restore(q))'
    <3>1. CASE <<q, j>> = <<r, i>>
      <4>1. q = r /\ j = i
        BY <3>1
      <4>2. layers'[<<q, j>>].checkpoint = v.revisions[i].checkpoint
        BY <1>5, <1>6, <3>1
      <4>3. /\ Current(Restore(r)') = i
            /\ Restore(r)'.revisions[i].checkpoint = v.revisions[i].checkpoint
        BY <1>1, <1>3 DEF Kept
      <4> QED BY <1>3, <4>1, <4>2, <4>3 DEF LayerOK
    <3>2. CASE <<q, j>> # <<r, i>>
      <4>1. <<q, j>> \in DOMAIN layers /\ layers'[<<q, j>>] = layers[<<q, j>>]
        BY <1>6, <2>1, <3>2
      <4>2. LayerOK(q, j, Restore(q))
        BY <4>1 DEF LayersOK
      <4> QED BY <4>1, <4>2 DEF LayerOK, Kept
    <3> QED BY <3>1, <3>2
  <2> QED BY <2>1 DEF LayersOK
<1> QED BY <1>4, <1>6, <1>7, <1>8

\* A receipt for an operation that has none.
LEMMA ReceiptPut ==
    ASSUME ReceiptsTyped, NEW op \in Operations, op \notin DOMAIN receipts,
           NEW k \in (Requests \X Nat) \cup {None}, NEW out \in {"published", "conflict"},
           PutReceipt(op, k, out)
    PROVE  /\ ReceiptsTyped'
           /\ DOMAIN receipts' = DOMAIN receipts \cup {op}
           /\ receipts'[op] = [layer |-> k, outcome |-> out]
           /\ \A o \in DOMAIN receipts : o # op /\ receipts'[o] = receipts[o]
<1>1. /\ DOMAIN receipts' = DOMAIN receipts \cup {op}
      /\ receipts'[op] = [layer |-> k, outcome |-> out]
      /\ \A o \in DOMAIN receipts : o # op /\ receipts'[o] = receipts[o]
  BY DEF PutReceipt
<1>2. [layer |-> k, outcome |-> out] \in [layer : (Requests \X Nat) \cup {None},
                                          outcome : {"published", "conflict"}]
  OBVIOUS
<1> QED BY <1>1, <1>2 DEF ReceiptsTyped

\* What is recorded as published has landed, and a landed Layer stays so.
LEMMA RecordedKept ==
    ASSUME RecordedOK, Kept, DOMAIN layers \subseteq DOMAIN layers',
           \A k \in DOMAIN layers :
              layers[k].operation # None => layers'[k].operation = layers[k].operation,
           \A q \in Requests :
              Restore(q)'.state = "published" => Restore(q).state = "published" \/ Landed(q, Restore(q))'
    PROVE  RecordedOK'
<1>1. ASSUME NEW q \in Requests, Restore(q)'.state = "published"
      PROVE  Landed(q, Restore(q))'
  <2>1. CASE Restore(q).state = "published"
    <3>1. Landed(q, Restore(q))
      BY <2>1 DEF RecordedOK
    <3>2. Current(Restore(q)') = Current(Restore(q))
      BY DEF Kept
    <3> QED BY <3>1, <3>2 DEF Landed
  <2> QED BY <1>1, <2>1
<1> QED BY <1>1 DEF RecordedOK

-----------------------------------------------------------------------------
(* Every step keeps what the databases hold.                               *)

\* decide and settle_review: a command that is no publication.
LEMMA StoredCommand ==
    ASSUME StoredOK, NEW r \in Requests, NEW cmd, CmdOK(cmd), cmd.action # "publish",
           cmd.epoch = permissions.epoch, Accept(r, Settled(r), cmd)
    PROVE  StoredOK'
<1>1. cmd \in Cmd /\ cmd.action \in Actions
  BY DEF CmdOK, Cmd, Actions
<1>2. /\ CanTransition(Restore(r), cmd) /\ Restore(r).state = "open"
      /\ ~Landed(r, Restore(r)) /\ Settled(r) = Restore(r)
  BY <1>1, SettledFacts DEF StoredOK, Accept
<1>3. cmd.epoch >= Restore(r).epoch /\ Persist(r, cmd) /\ ~Recorded(cmd.operation)
  BY <1>2 DEF Accept, CheckPermissions
<1>4. RowsTyped'
  BY <1>1, <1>3, UniqueStep DEF StoredOK
<1>5. /\ RowsOK' /\ Moves(Restore(r), cmd, Restore(r)')
      /\ \A q \in Requests : q # r => Restore(q)' = Restore(q)
  BY <1>2, <1>3, RecordStep DEF StoredOK
<1>6. PICK v : v = Restore(r)
  OBVIOUS
<1>7. PICK w : w = Restore(r)'
  OBVIOUS
<1>8. Moves(v, cmd, w) /\ v \in ReviewType /\ Current(v) \in Nat
  BY <1>5, <1>6, <1>7, RestoreFacts DEF StoredOK
<1>9. UNCHANGED <<layers, receipts>>
  BY DEF Accept
<1>10. LayersOK'
  <2>1. ASSUME NEW q \in Requests, NEW i \in Nat, <<q, i>> \in DOMAIN layers
        PROVE  LayerOK(q, i, Restore(q))'
    <3>1. LayerOK(q, i, Restore(q))
      BY <2>1 DEF LayersOK, StoredOK
    <3>2. CASE q # r
      BY <1>5, <1>9, <3>1, <3>2 DEF LayerOK
    <3>3. CASE q = r
      <4>1. LayerOK(r, i, v)
        BY <1>6, <3>1, <3>3
      <4>2. layers[<<r, i>>].operation = None
        BY <1>2, <1>6, <2>1, <3>3, <4>1 DEF LayerOK, Landed
      <4>3. Current(w) \in {Current(v), Current(v) + 1}
        BY <1>8 DEF Moves
      <4>4. i \in 1..Current(w)
        BY <1>8, <4>1, <4>3 DEF LayerOK
      <4>5. w.revisions[i].checkpoint = v.revisions[i].checkpoint
        BY <1>8, <4>1 DEF LayerOK, Moves
      <4> QED BY <1>7, <1>9, <3>3, <4>1, <4>2, <4>4, <4>5 DEF LayerOK
    <3> QED BY <3>2, <3>3
  <2> QED BY <1>9, <2>1 DEF LayersOK
<1>11. RecordedOK'
  <2>1. ASSUME NEW q \in Requests, Restore(q)'.state = "published"
        PROVE  Landed(q, Restore(q))'
    <3>1. q # r
      BY <1>2, <1>6, <1>7, <1>8, <2>1 DEF Moves
    <3>2. Restore(q)' = Restore(q)
      BY <1>5, <3>1
    <3>3. Landed(q, Restore(q))
      BY <2>1, <3>2 DEF StoredOK, RecordedOK
    <3> QED BY <1>9, <3>2, <3>3 DEF Landed
  <2> QED BY <2>1 DEF RecordedOK
<1>12. LayersTyped' /\ ReceiptsTyped' /\ ReceiptsOK'
  BY <1>9 DEF StoredOK, LayersTyped, ReceiptsTyped, ReceiptsOK
<1> QED BY <1>4, <1>5, <1>10, <1>11, <1>12 DEF StoredOK

\* decide: a publication is of the current revision of an open request.
LEMMA PublishFacts ==
    ASSUME StoredOK, permissions \in Pushes \cup {None}, NEW op \in Operations,
           NEW p \in Principals, NEW r \in Requests, NEW i, Publishable(op, p, r, i)
    PROVE  LET cmd == PublishRow(op, p, r, i)
           IN  /\ IsOpen(Restore(r)) /\ i = Current(Restore(r)) /\ i \in Nat \ {0}
               /\ CmdOK(cmd) /\ CanTransition(Restore(r), cmd)
               /\ cmd.epoch >= Restore(r).epoch /\ ~Recorded(cmd.operation)
               /\ cmd.action = "publish" /\ cmd.operation = op /\ cmd.index = i
               /\ Checkpoint(r, i) = Restore(r).revisions[i].checkpoint
               /\ permissions \in Pushes
<1>1. PICK v : v = Restore(r)
  OBVIOUS
<1>2. PICK cmd : cmd = PublishRow(op, p, r, i)
  OBVIOUS
<1>3. /\ IsOpen(v) /\ i = Current(v) /\ permissions.epoch >= v.epoch /\ ~Recorded(op)
      /\ permissions # None
  BY <1>1 DEF Publishable, CheckPublishable, CheckPermissions, Authorized
<1>4. v \in ReviewType
  BY <1>1, RestoreFacts DEF StoredOK
<1>5. i \in Nat \ {0} /\ v.revisions[i] \in Revision
  BY <1>3, <1>4, OpenFacts
<1>6. Checkpoint(r, i) = v.revisions[i].checkpoint /\ v.revisions[i].checkpoint \in Checkpoints
  BY <1>1, <1>5 DEF Checkpoint, Revision
<1>7. permissions \in Pushes /\ permissions.epoch \in Nat
  BY <1>3, PushesAssumption DEF Permissions
<1>8. cmd = [operation |-> op, actor |-> p, action |-> "publish", index |-> i,
             checkpoint |-> v.revisions[i].checkpoint, epoch |-> permissions.epoch]
  BY <1>2, <1>6 DEF PublishRow, Command
<1>9. cmd \in Cmd
  BY <1>5, <1>6, <1>7, <1>8 DEF Cmd
<1>10. /\ cmd.action = "publish" /\ cmd.operation = op /\ cmd.index = i
       /\ cmd.epoch = permissions.epoch
  BY <1>8
<1>11. CmdOK(cmd)
  BY <1>9, <1>10 DEF CmdOK
<1>12. CanTransition(v, cmd)
  BY <1>3, <1>10 DEF CanTransition
<1> QED BY <1>1, <1>2, <1>3, <1>5, <1>6, <1>7, <1>10, <1>11, <1>12

\* A publication that is recorded ends its request and keeps its revisions.
LEMMA RecordPublish ==
    ASSUME StoredOK, permissions \in Pushes \cup {None}, NEW op \in Operations,
           NEW p \in Principals, NEW r \in Requests, NEW i, Publishable(op, p, r, i),
           Persist(r, PublishRow(op, p, r, i))
    PROVE  /\ RowsTyped' /\ RowsOK' /\ Kept
           /\ \A q \in Requests : q # r => Restore(q)' = Restore(q)
<1>1. PICK cmd : cmd = PublishRow(op, p, r, i)
  OBVIOUS
<1>2. /\ CmdOK(cmd) /\ CanTransition(Restore(r), cmd) /\ cmd.epoch >= Restore(r).epoch
      /\ ~Recorded(cmd.operation) /\ cmd.action = "publish" /\ Persist(r, cmd)
  BY <1>1, PublishFacts
<1>3. cmd \in Cmd
  BY <1>2 DEF CmdOK
<1>4. RowsTyped'
  BY <1>2, <1>3, UniqueStep DEF StoredOK
<1>5. /\ RowsOK' /\ Moves(Restore(r), cmd, Restore(r)')
      /\ \A q \in Requests : q # r => Restore(q)' = Restore(q)
  BY <1>2, RecordStep DEF StoredOK
<1>6. /\ Current(Restore(r)') = Current(Restore(r))
      /\ \A j \in 1..Current(Restore(r)) :
            Restore(r)'.revisions[j].checkpoint = Restore(r).revisions[j].checkpoint
  <2>1. PICK v : v = Restore(r)
    OBVIOUS
  <2>2. PICK w : w = Restore(r)'
    OBVIOUS
  <2>3. Moves(v, cmd, w)
    BY <1>5, <2>1, <2>2
  <2>4. Current(w) = Current(v) /\ \A j \in 1..Current(v) : w.revisions[j].checkpoint = v.revisions[j].checkpoint
    BY <1>2, <2>3 DEF Moves
  <2> QED BY <2>1, <2>2, <2>4
<1>7. Kept
  BY <1>5, <1>6 DEF Kept
<1> QED BY <1>4, <1>5, <1>7

\* The Layer and its receipt are written together: what landed before stays,
\* and the receipt names what landed now.
LEMMA ReceiptsLand ==
    ASSUME LayersTyped, ReceiptsTyped, ReceiptsOK, NEW op \in Operations,
           op \notin DOMAIN receipts, NEW k \in Requests \X Nat,
           k \in DOMAIN layers => layers[k].operation = None,
           DOMAIN layers' = DOMAIN layers \cup {k}, layers'[k].operation = op,
           \A j \in DOMAIN layers : j # k => layers'[j] = layers[j],
           PutReceipt(op, k, "published")
    PROVE  ReceiptsTyped' /\ ReceiptsOK'
<1>1. /\ ReceiptsTyped'
      /\ DOMAIN receipts' = DOMAIN receipts \cup {op}
      /\ receipts'[op] = [layer |-> k, outcome |-> "published"]
      /\ \A o \in DOMAIN receipts : o # op /\ receipts'[o] = receipts[o]
  BY ReceiptPut
<1>2. ASSUME NEW o \in DOMAIN receipts', NEW j \in Requests \X Nat,
             receipts'[o] = [layer |-> j, outcome |-> "published"]
      PROVE  j \in DOMAIN layers' /\ layers'[j].operation = o
  <2>1. CASE o = op
    <3>1. j = k
      BY <1>1, <1>2, <2>1
    <3> QED BY <2>1, <3>1
  <2>2. CASE o # op
    <3>1. o \in DOMAIN receipts /\ o \in Operations /\ receipts[o] = [layer |-> j, outcome |-> "published"]
      BY <1>1, <1>2, <2>2 DEF ReceiptsTyped
    <3>2. j \in DOMAIN layers /\ layers[j].operation = o /\ o # None
      BY <3>1, NoneAssumption DEF ReceiptsOK
    <3> QED BY <3>2
  <2> QED BY <2>1, <2>2
<1>3. ASSUME NEW j \in DOMAIN layers', layers'[j].operation # None
      PROVE  /\ layers'[j].operation \in DOMAIN receipts'
             /\ receipts'[layers'[j].operation] = [layer |-> j, outcome |-> "published"]
  <2>1. CASE j = k
    BY <1>1, <2>1
  <2>2. CASE j # k
    BY <1>1, <1>3, <2>2 DEF ReceiptsOK
  <2> QED BY <2>1, <2>2
<1> QED BY <1>1, <1>2, <1>3 DEF ReceiptsOK

\* A Layer that did not land changes no receipt's meaning.
LEMMA ReceiptsAside ==
    ASSUME ReceiptsTyped, ReceiptsOK, NEW k,
           k \in DOMAIN layers => layers[k].operation = None,
           DOMAIN layers' = DOMAIN layers \cup {k}, layers'[k].operation = None,
           \A j \in DOMAIN layers : j # k => layers'[j] = layers[j],
           DOMAIN receipts \subseteq DOMAIN receipts',
           \A o \in DOMAIN receipts : receipts'[o] = receipts[o],
           \A o \in DOMAIN receipts' : o \notin DOMAIN receipts => receipts'[o].outcome # "published"
    PROVE  ReceiptsOK'
<1>1. ASSUME NEW o \in DOMAIN receipts', NEW j \in Requests \X Nat,
             receipts'[o] = [layer |-> j, outcome |-> "published"]
      PROVE  j \in DOMAIN layers' /\ layers'[j].operation = o
  <2>1. o \in DOMAIN receipts /\ receipts[o] = [layer |-> j, outcome |-> "published"] /\ o \in Operations
    BY <1>1 DEF ReceiptsTyped
  <2>2. j \in DOMAIN layers /\ layers[j].operation = o /\ o # None
    BY <2>1, NoneAssumption DEF ReceiptsOK
  <2> QED BY <2>2
<1>2. ASSUME NEW j \in DOMAIN layers', layers'[j].operation # None
      PROVE  /\ layers'[j].operation \in DOMAIN receipts'
             /\ receipts'[layers'[j].operation] = [layer |-> j, outcome |-> "published"]
  <2>1. j # k /\ j \in DOMAIN layers /\ layers'[j] = layers[j]
    BY <1>2
  <2> QED BY <1>2, <2>1 DEF ReceiptsOK
<1> QED BY <1>1, <1>2 DEF ReceiptsOK

\* publish_checkpoint: the current revision lands, recorded or not.
LEMMA StoredLand ==
    ASSUME StoredOK, permissions \in Pushes \cup {None}, NEW op \in Operations,
           NEW p \in Principals, NEW r \in Requests, NEW i, Publishable(op, p, r, i),
           MayLand(op, r, i), PutLayer(r, i, op), PutReceipt(op, <<r, i>>, "published"),
           Persist(r, PublishRow(op, p, r, i)) \/ UNCHANGED rows
    PROVE  StoredOK'
<1>1. IsOpen(Restore(r)) /\ i = Current(Restore(r)) /\ i \in Nat
  BY PublishFacts
<1>2. /\ RowsTyped' /\ RowsOK' /\ Kept
      /\ \A q \in Requests : q # r => Restore(q)' = Restore(q)
  BY RecordPublish, KeptUnchanged DEF StoredOK
<1>3. PICK k : k = <<r, i>>
  OBVIOUS
<1>4. op \notin DOMAIN receipts /\ (k \in DOMAIN layers => layers[k].operation = None)
  BY <1>3 DEF MayLand
<1>5. /\ LayersTyped' /\ LayersOK' /\ DOMAIN layers' = DOMAIN layers \cup {k}
      /\ layers'[k].operation = op /\ \A j \in DOMAIN layers : j # k => layers'[j] = layers[j]
  <2>1. PICK o \in Operations \cup {None} : o = op
    OBVIOUS
  <2>2. PutLayer(r, i, o)
    BY <2>1
  <2>3. /\ LayersTyped' /\ LayersOK'
        /\ DOMAIN layers' = DOMAIN layers \cup {<<r, i>>}
        /\ layers'[<<r, i>>] = [checkpoint |-> Checkpoint(r, i), operation |-> o]
        /\ \A j \in DOMAIN layers : j # <<r, i>> => layers'[j] = layers[j]
    BY <1>1, <1>2, <2>2, LayersPut DEF StoredOK
  <2> QED BY <1>3, <2>1, <2>3
<1>6. ReceiptsTyped' /\ ReceiptsOK'
  <2>1. k \in Requests \X Nat /\ PutReceipt(op, k, "published")
    BY <1>1, <1>3
  <2> QED BY <1>4, <1>5, <2>1, ReceiptsLand DEF StoredOK
<1>7. Landed(r, Restore(r))'
  <2>1. Current(Restore(r)') = i
    BY <1>1, <1>2 DEF Kept
  <2> QED BY <1>3, <1>5, <2>1, NoneAssumption DEF Landed
<1>8. RecordedOK'
  <2>1. \A j \in DOMAIN layers :
           layers[j].operation # None => layers'[j].operation = layers[j].operation
    BY <1>4, <1>5
  <2>2. \A q \in Requests :
           Restore(q)'.state = "published" => Restore(q).state = "published" \/ Landed(q, Restore(q))'
    BY <1>2, <1>7
  <2> QED BY <1>2, <1>5, <2>1, <2>2, RecordedKept DEF StoredOK
<1> QED BY <1>2, <1>5, <1>6, <1>8 DEF StoredOK

\* The current revision gets a Layer that did not land: the World moved, or
\* the node stopped after it cloned it.
LEMMA StoredAside ==
    ASSUME StoredOK, permissions \in Pushes \cup {None}, NEW op \in Operations,
           NEW p \in Principals, NEW r \in Requests, NEW i, Publishable(op, p, r, i),
           MayLand(op, r, i), PutLayer(r, i, None), UNCHANGED rows,
           PutReceipt(op, <<r, i>>, "conflict") \/ UNCHANGED receipts
    PROVE  StoredOK'
<1>1. IsOpen(Restore(r)) /\ i = Current(Restore(r)) /\ i \in Nat
  BY PublishFacts
<1>2. /\ RowsTyped' /\ RowsOK' /\ Kept
      /\ \A q \in Requests : Restore(q)' = Restore(q)
  BY KeptUnchanged DEF StoredOK
<1>3. PICK k : k = <<r, i>>
  OBVIOUS
<1>4. op \notin DOMAIN receipts /\ (k \in DOMAIN layers => layers[k].operation = None)
  BY <1>3 DEF MayLand
<1>5. /\ LayersTyped' /\ LayersOK' /\ DOMAIN layers' = DOMAIN layers \cup {k}
      /\ layers'[k].operation = None /\ \A j \in DOMAIN layers : j # k => layers'[j] = layers[j]
  <2>1. PICK o \in Operations \cup {None} : o = None
    OBVIOUS
  <2>2. PutLayer(r, i, o)
    BY <2>1
  <2>3. /\ LayersTyped' /\ LayersOK'
        /\ DOMAIN layers' = DOMAIN layers \cup {<<r, i>>}
        /\ layers'[<<r, i>>] = [checkpoint |-> Checkpoint(r, i), operation |-> o]
        /\ \A j \in DOMAIN layers : j # <<r, i>> => layers'[j] = layers[j]
    BY <1>1, <1>2, <2>2, LayersPut DEF StoredOK
  <2> QED BY <1>3, <2>1, <2>3
<1>6. /\ ReceiptsTyped' /\ DOMAIN receipts \subseteq DOMAIN receipts'
      /\ \A o \in DOMAIN receipts : receipts'[o] = receipts[o]
      /\ \A o \in DOMAIN receipts' : o \notin DOMAIN receipts => receipts'[o].outcome # "published"
  <2>1. CASE PutReceipt(op, <<r, i>>, "conflict")
    <3>1. k \in (Requests \X Nat) \cup {None} /\ PutReceipt(op, k, "conflict")
      BY <1>1, <1>3, <2>1
    <3>2. /\ ReceiptsTyped' /\ DOMAIN receipts' = DOMAIN receipts \cup {op}
          /\ receipts'[op] = [layer |-> k, outcome |-> "conflict"]
          /\ \A o \in DOMAIN receipts : o # op /\ receipts'[o] = receipts[o]
      BY <1>4, <3>1, ReceiptPut DEF StoredOK
    <3> QED BY <3>2
  <2>2. CASE UNCHANGED receipts
    BY <2>2 DEF StoredOK, ReceiptsTyped
  <2> QED BY <2>1, <2>2
<1>7. ReceiptsOK'
  BY <1>4, <1>5, <1>6, ReceiptsAside DEF StoredOK
<1>8. RecordedOK'
  <2>1. \A j \in DOMAIN layers :
           layers[j].operation # None => layers'[j].operation = layers[j].operation
    BY <1>4, <1>5
  <2>2. \A q \in Requests :
           Restore(q)'.state = "published" => Restore(q).state = "published" \/ Landed(q, Restore(q))'
    BY <1>2
  <2> QED BY <1>2, <1>5, <2>1, <2>2, RecordedKept DEF StoredOK
<1> QED BY <1>2, <1>5, <1>6, <1>7, <1>8 DEF StoredOK

\* The retry of a publication whose record was lost finds its Layer landed.
LEMMA StoredComplete ==
    ASSUME StoredOK, permissions \in Pushes \cup {None}, NEW op \in Operations,
           NEW p \in Principals, NEW r \in Requests, NEW i, PublishRequestComplete(op, p, r, i)
    PROVE  StoredOK'
<1>1. /\ Publishable(op, p, r, i) /\ Persist(r, PublishRow(op, p, r, i))
      /\ op \in DOMAIN receipts /\ UNCHANGED <<layers, receipts>>
      /\ receipts[op] = [layer |-> <<r, i>>, outcome |-> "published"]
  BY DEF PublishRequestComplete
<1>2. i = Current(Restore(r)) /\ i \in Nat
  BY <1>1, PublishFacts
<1>3. /\ RowsTyped' /\ RowsOK' /\ Kept
      /\ \A q \in Requests : q # r => Restore(q)' = Restore(q)
  BY <1>1, RecordPublish
<1>4. LayersTyped' /\ LayersOK'
  BY <1>1, <1>3, LayersKept DEF StoredOK
<1>5. ReceiptsTyped' /\ ReceiptsOK'
  BY <1>1 DEF StoredOK, ReceiptsTyped, ReceiptsOK
<1>6. Landed(r, Restore(r))'
  <2>1. <<r, i>> \in Requests \X Nat
    BY <1>2
  <2>2. <<r, i>> \in DOMAIN layers /\ layers[<<r, i>>].operation = op
    BY <1>1, <2>1 DEF StoredOK, ReceiptsOK
  <2>3. Current(Restore(r)') = i
    BY <1>2, <1>3 DEF Kept
  <2> QED BY <1>1, <2>2, <2>3, NoneAssumption DEF Landed
<1>7. RecordedOK'
  <2>1. \A q \in Requests :
           Restore(q)'.state = "published" => Restore(q).state = "published" \/ Landed(q, Restore(q))'
    BY <1>3, <1>6
  <2> QED BY <1>1, <1>3, <2>1, RecordedKept DEF StoredOK
<1> QED BY <1>3, <1>4, <1>5, <1>7 DEF StoredOK

\* A step that leaves rows and Layers alone, and may publish an ordinary
\* Layer under an operation that has no receipt.
LEMMA StoredOther ==
    ASSUME StoredOK, UNCHANGED <<rows, layers>>,
           \/ UNCHANGED receipts
           \/ \E op \in Operations : op \notin DOMAIN receipts /\ PutReceipt(op, None, "published")
    PROVE  StoredOK'
<1>1. /\ RowsTyped' /\ RowsOK' /\ Kept
      /\ \A q \in Requests : Restore(q)' = Restore(q)
  BY KeptUnchanged DEF StoredOK
<1>2. LayersTyped' /\ LayersOK'
  BY <1>1, LayersKept DEF StoredOK
<1>3. RecordedOK'
  BY <1>1, RecordedKept DEF StoredOK
<1>4. ReceiptsTyped' /\ ReceiptsOK'
  <2>1. CASE UNCHANGED receipts
    BY <2>1 DEF StoredOK, ReceiptsTyped, ReceiptsOK
  <2>2. ASSUME NEW op \in Operations, op \notin DOMAIN receipts, PutReceipt(op, None, "published")
        PROVE  ReceiptsTyped' /\ ReceiptsOK'
    <3>1. /\ ReceiptsTyped' /\ DOMAIN receipts' = DOMAIN receipts \cup {op}
          /\ receipts'[op] = [layer |-> None, outcome |-> "published"]
          /\ \A o \in DOMAIN receipts : o # op /\ receipts'[o] = receipts[o]
      BY <2>2, ReceiptPut DEF StoredOK
    <3>2. ASSUME NEW o \in DOMAIN receipts', NEW j \in Requests \X Nat,
                 receipts'[o] = [layer |-> j, outcome |-> "published"]
          PROVE  j \in DOMAIN layers' /\ layers'[j].operation = o
      <4>1. j # None
        BY NoneAssumption
      <4>2. o \in DOMAIN receipts /\ receipts[o] = [layer |-> j, outcome |-> "published"]
        BY <3>1, <3>2, <4>1
      <4> QED BY <4>2 DEF StoredOK, ReceiptsOK
    <3>3. ASSUME NEW j \in DOMAIN layers', layers'[j].operation # None
          PROVE  /\ layers'[j].operation \in DOMAIN receipts'
                 /\ receipts'[layers'[j].operation] = [layer |-> j, outcome |-> "published"]
      BY <3>1, <3>3 DEF StoredOK, ReceiptsOK
    <3> QED BY <3>1, <3>2, <3>3 DEF ReceiptsOK
  <2> QED BY <2>1, <2>2
<1> QED BY <1>1, <1>2, <1>3, <1>4 DEF StoredOK

-----------------------------------------------------------------------------
(* The invariant holds.                                                    *)

Result == [operation : Operations, subject : {SourceTree[c] : c \in Checkpoints},
           name : CheckNames, reporter : Principals, success : BOOLEAN]

\* What the node was told: permissions, check results and policy.
ToldOK ==
    /\ permissions \in Pushes \cup {None}
    /\ results \in Seq(Result)
    /\ policy \in {{}} \cup CheckPolicies

\* The invariant is about what is stored and what the node was told.
LEMMA ReviewInvParts == ReviewInv <=> StoredOK /\ ToldOK
  BY DEF ReviewInv, StoredOK, ToldOK, TypeOK, RowsTyped, LayersTyped, ReceiptsTyped, Result

\* Fields of a command that is decided now.
LEMMA CommandFields ==
    ASSUME ToldOK, permissions # None, NEW op \in Operations, NEW p \in Principals,
           NEW action \in Actions, NEW i \in Nat \cup {None},
           NEW c \in Checkpoints \cup {None}, action \in {"open", "revise"} => c \in Checkpoints
    PROVE  LET cmd == Command(op, p, action, i, c)
           IN  /\ CmdOK(cmd) /\ cmd.action = action /\ cmd.epoch = permissions.epoch
               /\ cmd.operation = op /\ cmd.index = i /\ cmd.checkpoint = c
<1>1. permissions.epoch \in Nat
  BY PushesAssumption DEF ToldOK, Permissions
<1> QED BY <1>1 DEF Command, CmdOK, Cmd, Actions

\* Opening, revising, approving and commenting.
LEMMA CommandStep ==
    ASSUME StoredOK, ToldOK, CommandNext
    PROVE  StoredOK' /\ ToldOK'
<1>1. PICK op \in Operations, p \in Principals, r \in Requests :
         \/ \E c \in Checkpoints : OpenRequest(op, p, r, c)
         \/ \E c \in Checkpoints, i \in 1..Len(rows[r]) : Revise(op, p, r, i, c)
         \/ \E i \in 1..Len(rows[r]) : Approve(op, p, r, i)
         \/ \E i \in CommentOn : Comment(op, p, r, i)
  BY DEF CommandNext
<1>2. ASSUME NEW cmd, Accept(r, Settled(r), cmd)
      PROVE  ToldOK'
  BY <1>2 DEF Accept, ToldOK
<1>3. ASSUME NEW action \in Actions, action # "publish", NEW i \in Nat \cup {None},
             NEW c \in Checkpoints \cup {None}, action \in {"open", "revise"} => c \in Checkpoints,
             permissions # None, Accept(r, Settled(r), Command(op, p, action, i, c))
      PROVE  StoredOK' /\ ToldOK'
  <2>1. PICK cmd : cmd = Command(op, p, action, i, c)
    OBVIOUS
  <2>2. CmdOK(cmd) /\ cmd.action = action /\ cmd.epoch = permissions.epoch
    BY <1>3, <2>1, CommandFields
  <2>3. Accept(r, Settled(r), cmd) /\ cmd.action # "publish"
    BY <1>3, <2>1, <2>2
  <2> QED BY <1>2, <2>2, <2>3, StoredCommand
<1>4. ASSUME NEW c \in Checkpoints, OpenRequest(op, p, r, c)
      PROVE  StoredOK' /\ ToldOK'
  BY <1>3, <1>4 DEF OpenRequest, Authorized, Actions
<1>5. ASSUME NEW c \in Checkpoints, NEW i \in 1..Len(rows[r]), Revise(op, p, r, i, c)
      PROVE  StoredOK' /\ ToldOK'
  <2>1. i \in Nat \cup {None}
    OBVIOUS
  <2> QED BY <1>3, <1>5, <2>1 DEF Revise, Authorized, Actions
<1>6. ASSUME NEW i \in 1..Len(rows[r]), Approve(op, p, r, i)
      PROVE  StoredOK' /\ ToldOK'
  <2>1. PICK c : c = Settled(r).revisions[i].checkpoint
    OBVIOUS
  <2>2. /\ i \in DOMAIN Settled(r).revisions /\ permissions # None
        /\ Accept(r, Settled(r), Command(op, p, "approve", i, c))
    BY <1>6, <2>1 DEF Approve, Authorized
  <2>3. PICK cmd : cmd = Command(op, p, "approve", i, c)
    OBVIOUS
  <2>4. cmd.action = "approve" /\ cmd.action \in Actions /\ CanTransition(Settled(r), cmd)
    BY <2>2, <2>3 DEF Accept, Command, Actions
  <2>5. Settled(r) = Restore(r) /\ Restore(r) \in ReviewType
    BY <2>4, SettledFacts, RestoreFacts DEF StoredOK
  <2>6. PICK v : v = Restore(r)
    OBVIOUS
  <2>7. v.revisions \in Seq(Revision) /\ i \in DOMAIN v.revisions /\ c = v.revisions[i].checkpoint
    BY <2>1, <2>2, <2>5, <2>6 DEF ReviewType
  <2>8. c \in Checkpoints
    <3>1. v.revisions[i] \in Revision
      BY <2>7
    <3> QED BY <2>7, <3>1 DEF Revision
  <2>9. i \in Nat \cup {None}
    OBVIOUS
  <2> QED BY <1>3, <2>2, <2>8, <2>9 DEF Actions
<1>7. ASSUME NEW i \in CommentOn, Comment(op, p, r, i)
      PROVE  StoredOK' /\ ToldOK'
  <2>1. permissions # None /\ Accept(r, Settled(r), Command(op, p, "comment", i, None))
    BY <1>7 DEF Comment, Authorized
  <2>2. PICK cmd : cmd = Command(op, p, "comment", i, None)
    OBVIOUS
  <2>3. /\ cmd.action = "comment" /\ cmd.index = i /\ cmd.action \in Actions
        /\ CanTransition(Settled(r), cmd)
    BY <2>1, <2>2 DEF Accept, Command, Actions
  <2>4. Settled(r) = Restore(r) /\ Current(Restore(r)) \in Nat
    BY <2>3, SettledFacts, RestoreFacts DEF StoredOK
  <2>5. i \in {None} \cup 1..Current(Settled(r))
    BY <2>3 DEF CanTransition
  <2>6. i \in Nat \cup {None}
    BY <2>4, <2>5
  <2> QED BY <1>3, <2>1, <2>6 DEF Actions
<1> QED BY <1>1, <1>4, <1>5, <1>6, <1>7

\* Publishing an approved revision, in each of the ways it may stop.
LEMMA PublishStep ==
    ASSUME StoredOK, ToldOK, PublishNext
    PROVE  StoredOK' /\ ToldOK'
<1>0. PICK op \in Operations, p \in Principals, r \in Requests :
         \E i \in 1..Len(rows[r]) :
            \/ PublishRequest(op, p, r, i)
            \/ PublishRequestConflict(op, p, r, i)
            \/ PublishRequestUnrecorded(op, p, r, i)
            \/ PublishRequestCloned(op, p, r, i)
            \/ PublishRequestComplete(op, p, r, i)
  BY DEF PublishNext
<1>1. PICK i \in 1..Len(rows[r]) :
         \/ PublishRequest(op, p, r, i)
         \/ PublishRequestConflict(op, p, r, i)
         \/ PublishRequestUnrecorded(op, p, r, i)
         \/ PublishRequestCloned(op, p, r, i)
         \/ PublishRequestComplete(op, p, r, i)
  BY <1>0
<1>2. permissions \in Pushes \cup {None}
  BY DEF ToldOK
<1>3. CASE PublishRequest(op, p, r, i)
  <2>1. StoredOK'
    BY <1>2, <1>3, StoredLand DEF PublishRequest
  <2> QED BY <1>3, <2>1 DEF PublishRequest, ToldOK
<1>4. CASE PublishRequestConflict(op, p, r, i)
  <2>1. StoredOK'
    BY <1>2, <1>4, StoredAside DEF PublishRequestConflict
  <2> QED BY <1>4, <2>1 DEF PublishRequestConflict, ToldOK
<1>5. CASE PublishRequestUnrecorded(op, p, r, i)
  <2>1. StoredOK'
    BY <1>2, <1>5, StoredLand DEF PublishRequestUnrecorded
  <2> QED BY <1>5, <2>1 DEF PublishRequestUnrecorded, ToldOK
<1>6. CASE PublishRequestCloned(op, p, r, i)
  <2>1. StoredOK'
    BY <1>2, <1>6, StoredAside DEF PublishRequestCloned
  <2> QED BY <1>6, <2>1 DEF PublishRequestCloned, ToldOK
<1>7. CASE PublishRequestComplete(op, p, r, i)
  <2>1. StoredOK'
    BY <1>2, <1>7, StoredComplete
  <2> QED BY <1>7, <2>1 DEF PublishRequestComplete, ToldOK
<1> QED BY <1>1, <1>3, <1>4, <1>5, <1>6, <1>7

\* Pushes, restarts, check results, policies and ordinary publications.
LEMMA OtherStep ==
    ASSUME StoredOK, ToldOK, ControlNext \/ OtherNext
    PROVE  StoredOK' /\ ToldOK'
<1>1. ASSUME NEW push \in Pushes, ApplyPush(push)
      PROVE  StoredOK' /\ ToldOK'
  <2>1. StoredOK'
    BY <1>1, StoredOther DEF ApplyPush
  <2> QED BY <1>1, <2>1 DEF ApplyPush, ToldOK
<1>2. ASSUME NEW required \in CheckPolicies, SetRequired(required)
      PROVE  StoredOK' /\ ToldOK'
  <2>1. StoredOK'
    BY <1>2, StoredOther DEF SetRequired
  <2> QED BY <1>2, <2>1 DEF SetRequired, ToldOK
<1>3. CASE Restart
  <2>1. StoredOK'
    BY <1>3, StoredOther DEF Restart
  <2> QED BY <1>3, <2>1 DEF Restart, ToldOK
<1>4. ASSUME NEW op \in Operations, PublishOrdinary(op)
      PROVE  StoredOK' /\ ToldOK'
  <2>1. StoredOK'
    BY <1>4, StoredOther DEF PublishOrdinary
  <2> QED BY <1>4, <2>1 DEF PublishOrdinary, ToldOK
<1>5. ASSUME NEW op \in Operations, NEW p \in Principals, NEW c \in ReportOn,
             NEW name \in CheckNames, NEW success \in BOOLEAN,
             Report(op, p, SourceTree[c], name, success)
      PROVE  StoredOK' /\ ToldOK'
  <2>1. StoredOK'
    BY <1>5, StoredOther DEF Report
  <2>2. PICK x : x = [operation |-> op, subject |-> SourceTree[c], name |-> name,
                      reporter |-> p, success |-> success]
    OBVIOUS
  <2>3. x \in Result
    BY <2>2, ChecksAssumption DEF Result
  <2>4. results' = Append(results, x) /\ UNCHANGED <<permissions, policy>>
    BY <1>5, <2>2 DEF Report
  <2>5. results' \in Seq(Result)
    BY <2>3, <2>4 DEF ToldOK
  <2> QED BY <2>1, <2>4, <2>5 DEF ToldOK
<1> QED BY <1>1, <1>2, <1>3, <1>4, <1>5 DEF ControlNext, OtherNext

\* A node without requests satisfies the invariant.
LEMMA ReviewInit == Init => ReviewInv
<1>1. SUFFICES ASSUME Init PROVE StoredOK /\ ToldOK
  BY ReviewInvParts
<1>2. ToldOK
  BY <1>1 DEF Init, ToldOK
<1>3. /\ \A r \in Requests : rows[r] = << >>
      /\ DOMAIN layers = {} /\ DOMAIN receipts = {}
  BY <1>1 DEF Init
<1>4. RowsTyped
  BY <1>1, <1>3 DEF Init, RowsTyped
<1>5. Commands(<< >>)
  BY DEF Commands
<1>6. RowsOK
  BY <1>3, <1>5 DEF RowsOK
<1>7. RecordedOK
  <2>1. ASSUME NEW r \in Requests PROVE Restore(r).state = "open"
    <3>1. PICK s : s = << >>
      OBVIOUS
    <3>2. Restore(r) = Replay(s, 0)
      BY <1>3, <3>1 DEF Restore, Replayed
    <3>3. Replay(s, 0) = NewReview
      BY ReplayFacts
    <3> QED BY <3>2, <3>3 DEF NewReview
  <2> QED BY <2>1 DEF RecordedOK
<1>8. LayersTyped /\ ReceiptsTyped /\ LayersOK /\ ReceiptsOK
  BY <1>3 DEF LayersTyped, ReceiptsTyped, LayersOK, ReceiptsOK
<1> QED BY <1>2, <1>4, <1>6, <1>7, <1>8 DEF StoredOK

\* Every step of the node keeps the invariant.
LEMMA ReviewStep == ReviewInv /\ [Next]_vars => ReviewInv'
<1>1. SUFFICES ASSUME StoredOK, ToldOK, [Next]_vars PROVE StoredOK' /\ ToldOK'
  <2>1. ReviewInv' <=> StoredOK' /\ ToldOK'
    BY ReviewInvParts, PTL
  <2> QED BY <2>1, ReviewInvParts
<1>2. CASE UNCHANGED vars
  <2>1. StoredOK'
    BY <1>1, <1>2, StoredOther DEF vars
  <2> QED BY <1>1, <1>2, <2>1 DEF vars, ToldOK
<1>3. CASE Next
  BY <1>1, <1>3, CommandStep, PublishStep, OtherStep DEF Next
<1> QED BY <1>1, <1>2, <1>3

\* The commands of every request were accepted one after the other, the
\* Layers and receipts are of the revisions they name, and a request that is
\* recorded as published has landed.
THEOREM ReviewInvTheorem == Spec => []ReviewInv
  BY ReviewInit, ReviewStep, PTL DEF Spec

\* The node's memory and both databases hold what their schemas allow, and
\* no insert meets the UNIQUE constraint on operations (node.db).
THEOREM ReviewTypeTheorem == Spec => []TypeOK
<1>1. ReviewInv => TypeOK
  BY DEF ReviewInv
<1> QED BY <1>1, ReviewInvTheorem, PTL

\* restore never fails: every recorded command replays, under epochs that
\* never go back, though a restart forgets the applied epoch (review.rs).
THEOREM RestorableTheorem == Spec => []Restorable
<1>1. ReviewInv => Restorable
  <2>1. SUFFICES ASSUME ReviewInv, NEW r \in Requests, NEW n \in DOMAIN rows[r]
                 PROVE  /\ CanTransition(Replayed(r, n - 1), rows[r][n])
                        /\ \A m \in 1..n : rows[r][m].epoch <= rows[r][n].epoch
    BY DEF Restorable
  <2>2. Commands(rows[r])
    BY <2>1 DEF ReviewInv, RowsOK
  <2>3. n \in 1..Len(rows[r])
    BY <2>2 DEF Commands
  <2> QED BY <2>2, <2>3 DEF Commands, Replayed
<1> QED BY <1>1, ReviewInvTheorem, PTL

\* What landed of a request is its current revision.
LEMMA LandedFacts ==
    ASSUME StoredOK, NEW r \in Requests
    PROVE  /\ LandedIn(r) # {} <=> Landed(r, Restore(r))
           /\ \A i \in LandedIn(r) : /\ i = Current(Restore(r)) /\ i \in Nat \ {0}
                                     /\ layers[<<r, i>>].checkpoint = Checkpoint(r, i)
<1>1. PICK v : v = Restore(r)
  OBVIOUS
<1>2. Current(v) \in Nat /\ Current(v) <= Len(rows[r])
  BY <1>1, RestoreFacts DEF StoredOK
<1>3. Len(rows[r]) \in Nat
  <2>1. rows[r] \in Seq(Cmd)
    BY DEF StoredOK, RowsTyped
  <2> QED BY <2>1
<1>4. ASSUME NEW i \in Nat, <<r, i>> \in DOMAIN layers, layers[<<r, i>>].operation # None
      PROVE  /\ i = Current(v) /\ i \in 1..Current(v)
             /\ layers[<<r, i>>].checkpoint = Checkpoint(r, i)
  <2>1. LayerOK(r, i, v)
    BY <1>1, <1>4 DEF StoredOK, LayersOK
  <2> QED BY <1>1, <1>4, <2>1 DEF LayerOK, Checkpoint
<1>5. \A i \in LandedIn(r) : /\ i = Current(v) /\ i \in Nat \ {0} /\ Landed(r, v)
                             /\ layers[<<r, i>>].checkpoint = Checkpoint(r, i)
  <2>1. SUFFICES ASSUME NEW i \in LandedIn(r)
                 PROVE  /\ i = Current(v) /\ i \in Nat \ {0} /\ Landed(r, v)
                        /\ layers[<<r, i>>].checkpoint = Checkpoint(r, i)
    OBVIOUS
  <2>2. i \in Nat \ {0} /\ <<r, i>> \in DOMAIN layers /\ layers[<<r, i>>].operation # None
    BY <1>3 DEF LandedIn
  <2>3. i = Current(v) /\ layers[<<r, i>>].checkpoint = Checkpoint(r, i)
    BY <1>4, <2>2
  <2> QED BY <2>2, <2>3 DEF Landed
<1>6. Landed(r, v) => Current(v) \in LandedIn(r)
  <2>1. SUFFICES ASSUME Landed(r, v) PROVE Current(v) \in LandedIn(r)
    OBVIOUS
  <2>2. PICK i \in Nat : i = Current(v)
    BY <1>2
  <2>3. <<r, i>> \in DOMAIN layers /\ layers[<<r, i>>].operation # None
    BY <2>1, <2>2 DEF Landed
  <2>4. i \in 1..Len(rows[r])
    BY <1>2, <1>3, <1>4, <2>2, <2>3
  <2> QED BY <2>2, <2>3, <2>4 DEF LandedIn
<1> QED BY <1>1, <1>5, <1>6

\* settled: a request reads Published exactly when its revision landed.
LEMMA SettledIsLanded ==
    ASSUME StoredOK, NEW r \in Requests
    PROVE  Settled(r).state = "published" <=> Landed(r, Restore(r))
<1>1. PICK v : v = Restore(r)
  OBVIOUS
<1>2. v \in ReviewType /\ Current(v) \in Nat /\ Follows(rows[r], Len(rows[r]), v)
  BY <1>1, RestoreFacts DEF StoredOK
<1>3. PICK lost \in BOOLEAN : lost = (IsOpen(v) /\ WorldPublication(r, Current(v), v.revisions[Current(v)].checkpoint))
  OBVIOUS
<1>4. Settled(r) = IF lost THEN [v EXCEPT !.state = "published"] ELSE v
  BY <1>1, <1>3 DEF Settled
<1>5. v.state = "published" => Landed(r, v)
  BY <1>1 DEF StoredOK, RecordedOK
<1>6. CASE lost
  <2>1. Landed(r, v)
    BY <1>3, <1>6 DEF WorldPublication, Landed
  <2>2. Settled(r).state = "published"
    BY <1>2, <1>4, <1>6 DEF ReviewType
  <2> QED BY <1>1, <2>1, <2>2
<1>7. CASE ~lost
  <2>1. Settled(r) = v
    BY <1>4, <1>7
  <2>2. ASSUME Landed(r, v), v.state # "published" PROVE FALSE
    <3>1. PICK i \in Nat : i = Current(v)
      BY <1>2
    <3>2. LayerOK(r, i, v)
      BY <1>1, <2>2, <3>1 DEF StoredOK, LayersOK, Landed
    <3>3. i \in 1..i /\ layers[<<r, i>>].checkpoint = v.revisions[i].checkpoint
      BY <3>1, <3>2 DEF LayerOK
    <3>4. v.state = "open" /\ v.revisions \in Seq(Revision) /\ Len(v.revisions) # 0
      BY <1>2, <2>2, <3>1, <3>3 DEF ReviewType, Current
    <3>5. IsOpen(v)
      BY <3>4 DEF IsOpen
    <3>6. WorldPublication(r, i, v.revisions[i].checkpoint)
      BY <2>2, <3>1, <3>3 DEF Landed, WorldPublication
    <3> QED BY <1>3, <1>7, <3>1, <3>5, <3>6
  <2> QED BY <1>1, <1>5, <2>1, <2>2
<1> QED BY <1>6, <1>7

\* The two databases agree on what was published: a request reads Published
\* exactly when the World holds one of its revisions, that is its last, and
\* one operation published it (review.rs, settled; checks.rs).
THEOREM PublishedIsLandedTheorem == Spec => []PublishedIsLanded
<1>1. ReviewInv => PublishedIsLanded
  <2>1. SUFFICES ASSUME StoredOK PROVE PublishedIsLanded
    BY ReviewInvParts
  <2>2. ASSUME NEW r \in Requests
        PROVE  Settled(r).state = "published" <=> LandedIn(r) # {}
    BY <2>1, LandedFacts, SettledIsLanded
  <2>3. ASSUME NEW r \in Requests, NEW i \in LandedIn(r)
        PROVE  /\ i = Current(Restore(r))
               /\ layers[<<r, i>>].checkpoint = Checkpoint(r, i)
               /\ {op \in DOMAIN receipts :
                      receipts[op] = [layer |-> <<r, i>>, outcome |-> "published"]}
                     = {layers[<<r, i>>].operation}
    <3>1. /\ i = Current(Restore(r)) /\ i \in Nat
          /\ layers[<<r, i>>].checkpoint = Checkpoint(r, i)
      BY <2>1, LandedFacts
    <3>2. PICK k : k = <<r, i>>
      OBVIOUS
    <3>3. k \in DOMAIN layers /\ layers[k].operation # None /\ k \in Requests \X Nat
      BY <3>1, <3>2 DEF LandedIn
    <3>4. PICK o : o = layers[k].operation
      OBVIOUS
    <3>5. o \in DOMAIN receipts /\ receipts[o] = [layer |-> k, outcome |-> "published"]
      BY <2>1, <3>3, <3>4 DEF StoredOK, ReceiptsOK
    <3>6. \A op \in DOMAIN receipts : receipts[op] = [layer |-> k, outcome |-> "published"] => op = o
      BY <2>1, <3>3, <3>4 DEF StoredOK, ReceiptsOK
    <3>7. {op \in DOMAIN receipts : receipts[op] = [layer |-> k, outcome |-> "published"]} = {o}
      BY <3>5, <3>6
    <3> QED BY <3>1, <3>2, <3>4, <3>7
  <2> QED BY <2>2, <2>3 DEF PublishedIsLanded
<1> QED BY <1>1, ReviewInvTheorem, PTL

-----------------------------------------------------------------------------
(* What a step may do.                                                     *)

\* Revision k lands in this step.
LandsNow(k) ==
    /\ layers'[k].operation # None
    /\ k \in DOMAIN layers => layers[k].operation = None

\* What a revision must be to land.
MayBeLanded(k) ==
    \E op \in Operations, p \in Principals, r \in Requests, i \in Nat :
       /\ k = <<r, i>> /\ layers'[k].checkpoint = Checkpoint(r, i)
       /\ Publishable(op, p, r, i) /\ MayLand(op, r, i)

\* A revision lands only through publish_checkpoint.
LEMMA LandsByPublishing ==
    ASSUME StoredOK, ToldOK, Next, NEW k \in DOMAIN layers', LandsNow(k)
    PROVE  MayBeLanded(k)
<1>1. layers' # layers
  BY DEF LandsNow
<1>2. PublishNext
  <2>1. CommandNext => UNCHANGED layers
    <3>1. \A r, review, cmd : Accept(r, review, cmd) => UNCHANGED layers
      BY DEF Accept
    <3> QED BY <3>1 DEF CommandNext, OpenRequest, Revise, Approve, Comment
  <2>2. ControlNext => UNCHANGED layers
    BY DEF ControlNext, ApplyPush, SetRequired, Restart
  <2>3. OtherNext => UNCHANGED layers
    BY DEF OtherNext, PublishOrdinary, Report
  <2> QED BY <1>1, <2>1, <2>2, <2>3 DEF Next
<1>3. PICK op \in Operations, p \in Principals, r \in Requests :
         \E i \in 1..Len(rows[r]) :
            \/ PublishRequest(op, p, r, i)
            \/ PublishRequestConflict(op, p, r, i)
            \/ PublishRequestUnrecorded(op, p, r, i)
            \/ PublishRequestCloned(op, p, r, i)
            \/ PublishRequestComplete(op, p, r, i)
  BY <1>2 DEF PublishNext
<1>4. PICK i \in 1..Len(rows[r]) :
         \/ PublishRequest(op, p, r, i)
         \/ PublishRequestConflict(op, p, r, i)
         \/ PublishRequestUnrecorded(op, p, r, i)
         \/ PublishRequestCloned(op, p, r, i)
         \/ PublishRequestComplete(op, p, r, i)
  BY <1>3
<1>5. PICK o : Publishable(op, p, r, i) /\ MayLand(op, r, i) /\ PutLayer(r, i, o)
  BY <1>1, <1>4 DEF PublishRequest, PublishRequestConflict, PublishRequestUnrecorded,
                    PublishRequestCloned, PublishRequestComplete
<1>6. /\ DOMAIN layers' = DOMAIN layers \cup {<<r, i>>}
      /\ layers'[<<r, i>>] = [checkpoint |-> Checkpoint(r, i), operation |-> o]
      /\ \A j \in DOMAIN layers : j # <<r, i>> => layers'[j] = layers[j]
  BY <1>5 DEF PutLayer
<1>7. k = <<r, i>>
  BY <1>6 DEF LandsNow
<1>8. layers'[k].checkpoint = Checkpoint(r, i) /\ i \in Nat
  BY <1>6, <1>7
<1> QED BY <1>5, <1>7, <1>8 DEF MayBeLanded

\* check_publishable counts who the rows say approved this revision.
LEMMA ApprovalsCounted ==
    ASSUME StoredOK, ToldOK, NEW op \in Operations, NEW p \in Principals, NEW r \in Requests,
           NEW i \in Nat, Publishable(op, p, r, i)
    PROVE  ApprovalsOf(Restore(r)) =
             {q \in ApproversOf(r, i, Checkpoint(r, i)) : Has(q, 2) /\ rows[r][1].actor # q}
<1>1. PICK v : v = Restore(r)
  OBVIOUS
<1>2. PICK s : s = rows[r]
  OBVIOUS
<1>3. i = Current(v) /\ Checkpoint(r, i) = v.revisions[i].checkpoint
  BY <1>1, PublishFacts DEF ToldOK
<1>4. Follows(s, Len(s), v)
  BY <1>1, <1>2, RestoreFacts DEF StoredOK
<1>5. s \in Seq(Cmd) /\ s # << >>
  BY <1>2 DEF StoredOK, RowsTyped, Publishable
<1>6. Len(s) \in Nat /\ Len(s) > 0 /\ DOMAIN s = 1..Len(s)
  BY <1>5
<1>7. /\ v.author = s[1].actor
      /\ v.revisions[i].approvals = Approvers(s, Len(s), i, v.revisions[i].checkpoint)
  BY <1>3, <1>4, <1>6 DEF Follows
<1>8. ApproversOf(r, i, Checkpoint(r, i)) = v.revisions[i].approvals
  BY <1>2, <1>3, <1>6, <1>7 DEF ApproversOf, Approvers
<1>9. ApprovalsOf(v) = {q \in v.revisions[i].approvals : q # v.author /\ Has(q, 2)}
  BY <1>3 DEF ApprovalsOf
<1>10. {q \in v.revisions[i].approvals : q # v.author /\ Has(q, 2)} =
          {q \in v.revisions[i].approvals : Has(q, 2) /\ rows[r][1].actor # q}
  BY <1>2, <1>7
<1> QED BY <1>1, <1>8, <1>9, <1>10

\* A revision enters the World only with enough approvals of that exact
\* checkpoint, by others than the author who may review now (review.rs,
\* check_publishable).
THEOREM ExactApprovalsTheorem == Spec => ExactApprovals
<1>1. ReviewInv /\ [Next]_vars => [LandsApproved]_vars
  <2>1. SUFFICES ASSUME StoredOK, ToldOK, Next PROVE LandsApproved
    BY ReviewInvParts
  <2>2. ASSUME NEW k \in DOMAIN layers', LandsNow(k)
        PROVE  /\ permissions # None
               /\ Cardinality({q \in ApproversOf(k[1], k[2], layers'[k].checkpoint) :
                                  Has(q, 2) /\ rows[k[1]][1].actor # q}) >= permissions.required
    <3>1. PICK op \in Operations, p \in Principals, r \in Requests, i \in Nat :
             /\ k = <<r, i>> /\ layers'[k].checkpoint = Checkpoint(r, i)
             /\ Publishable(op, p, r, i)
      BY <2>1, <2>2, LandsByPublishing DEF MayBeLanded
    <3>2. /\ permissions # None
          /\ Cardinality(ApprovalsOf(Restore(r))) >= permissions.required
      BY <3>1 DEF Publishable, Authorized, CheckPublishable
    <3>3. ApprovalsOf(Restore(r)) =
             {q \in ApproversOf(r, i, Checkpoint(r, i)) : Has(q, 2) /\ rows[r][1].actor # q}
      BY <2>1, <3>1, ApprovalsCounted
    <3>4. k[1] = r /\ k[2] = i
      BY <3>1
    <3> QED BY <3>1, <3>2, <3>3, <3>4
  <2> QED BY <2>2 DEF LandsApproved, LandsNow
<1> QED BY <1>1, ReviewInvTheorem, PTL DEF Spec, ExactApprovals

\* A revision enters the World only when no required check has failed for
\* its tree since the success that is counted (checks.rs, unmet).
THEOREM ExactChecksTheorem == Spec => ExactChecks
<1>1. ReviewInv /\ [Next]_vars => [LandsChecked]_vars
  <2>1. SUFFICES ASSUME StoredOK, ToldOK, Next PROVE LandsChecked
    BY ReviewInvParts
  <2>2. ASSUME NEW k \in DOMAIN layers', LandsNow(k), NEW check \in policy
        PROVE  LET tree == SourceTree[layers'[k].checkpoint]
               IN  \E i \in Matching(check, tree) :
                      /\ results[i].success
                      /\ Has(results[i].reporter, 1)
                      /\ \A j \in Matching(check, tree) : results[j].success \/ j < i
    <3>1. PICK op \in Operations, p \in Principals, r \in Requests, i \in Nat :
             /\ layers'[k].checkpoint = Checkpoint(r, i) /\ MayLand(op, r, i)
      BY <2>1, <2>2, LandsByPublishing DEF MayBeLanded
    <3>2. PICK tree : tree = SourceTree[layers'[k].checkpoint]
      OBVIOUS
    <3>3. PICK ids : ids = Matching(check, tree)
      OBVIOUS
    <3>4. ids \subseteq DOMAIN results /\ DOMAIN results \subseteq Nat
      <4>1. results \in Seq(Result)
        BY <2>1 DEF ToldOK
      <4> QED BY <3>3, <4>1 DEF Matching
    <3>5. ChecksMet(tree)
      BY <3>1, <3>2 DEF MayLand
    <3>6. PICK result \in Latest(check, tree) : Has(result.reporter, 1) /\ result.success
      BY <2>2, <3>5 DEF ChecksMet
    <3>7. PICK n \in ids : result = results[n] /\ \A j \in ids : j <= n
      BY <3>3, <3>6 DEF Latest
    <3>8. \A j \in ids : results[j].success \/ j < n
      BY <3>4, <3>6, <3>7
    <3> QED BY <3>2, <3>3, <3>6, <3>7, <3>8
  <2> QED BY <2>2 DEF LandsChecked, LandsNow
<1> QED BY <1>1, ReviewInvTheorem, PTL DEF Spec, ExactChecks

\* Once the World holds a revision, the request takes nothing but the record
\* of that publication, under the operation that made it (review.rs,
\* settled and publish_checkpoint).
THEOREM LandedIsFinalTheorem == Spec => LandedIsFinal
<1>1. ReviewInv /\ [Next]_vars => [StaysFrozen]_vars
  <2>1. SUFFICES ASSUME StoredOK, ToldOK, Next PROVE StaysFrozen
    BY ReviewInvParts
  <2>2. SUFFICES ASSUME NEW r \in Requests, LandedIn(r) # {}, rows'[r] # rows[r]
                 PROVE  LET last == rows'[r][Len(rows'[r])]
                            i == CHOOSE i \in LandedIn(r) : TRUE
                        IN  last.action = "publish" /\ last.index = i
                              /\ last.operation = layers[<<r, i>>].operation
    BY DEF StaysFrozen
  <2>3. PICK i : i = Current(Restore(r))
    OBVIOUS
  <2>4. /\ Landed(r, Restore(r)) /\ i = CHOOSE j \in LandedIn(r) : TRUE
    BY <2>1, <2>2, <2>3, LandedFacts
  <2>5. layers[<<r, i>>].operation # None /\ <<r, i>> \in DOMAIN layers
    BY <2>3, <2>4 DEF Landed
  <2>6. rows \in [Requests -> Seq(Cmd)]
    BY <2>1 DEF StoredOK, RowsTyped
  <2>7. ASSUME NEW q \in Requests, NEW cmd, cmd.action \in Actions, Accept(q, Settled(q), cmd)
        PROVE  FALSE
    <3>1. q = r
      BY <2>2, <2>6, <2>7 DEF Accept, Persist
    <3>2. CanTransition(Settled(r), cmd)
      BY <2>7, <3>1 DEF Accept
    <3> QED BY <2>1, <2>4, <2>7, <3>2, SettledFacts DEF StoredOK
  <2>8. ~CommandNext
    <3>1. \A op, p, action, j, c : Command(op, p, action, j, c).action = action
      BY DEF Command
    <3> QED BY <2>7, <3>1 DEF CommandNext, OpenRequest, Revise, Approve, Comment, Actions
  <2>9. PublishNext
    BY <2>1, <2>2, <2>8 DEF Next, ControlNext, OtherNext, ApplyPush, SetRequired, Restart,
                            PublishOrdinary, Report
  <2>10. PICK op \in Operations, p \in Principals, q \in Requests :
            \E j \in 1..Len(rows[q]) :
               \/ PublishRequest(op, p, q, j)
               \/ PublishRequestConflict(op, p, q, j)
               \/ PublishRequestUnrecorded(op, p, q, j)
               \/ PublishRequestCloned(op, p, q, j)
               \/ PublishRequestComplete(op, p, q, j)
    BY <2>9 DEF PublishNext
  <2>11. PICK j \in 1..Len(rows[q]) :
            \/ PublishRequest(op, p, q, j)
            \/ PublishRequestComplete(op, p, q, j)
    BY <2>2, <2>10 DEF PublishRequestConflict, PublishRequestUnrecorded, PublishRequestCloned
  <2>12. Publishable(op, p, q, j) /\ Persist(q, PublishRow(op, p, q, j))
    BY <2>11 DEF PublishRequest, PublishRequestComplete
  <2>13. q = r
    BY <2>2, <2>6, <2>12 DEF Persist
  <2>14. PICK cmd : cmd = PublishRow(op, p, r, j)
    OBVIOUS
  <2>15. /\ j = i /\ j \in Nat /\ cmd.action = "publish" /\ cmd.operation = op /\ cmd.index = j
    BY <2>1, <2>3, <2>12, <2>13, <2>14, PublishFacts DEF ToldOK
  <2>16. rows'[r][Len(rows'[r])] = cmd
    <3>1. rows[r] \in Seq(Cmd) /\ rows'[r] = Append(rows[r], cmd)
      BY <2>6, <2>12, <2>13, <2>14 DEF Persist
    <3> QED BY <3>1
  <2>17. layers[<<r, i>>].operation = op
    <3>1. ~MayLand(op, r, i)
      BY <2>5 DEF MayLand
    <3>2. PublishRequestComplete(op, p, r, i)
      BY <2>11, <2>13, <2>15, <3>1 DEF PublishRequest
    <3>3. op \in DOMAIN receipts /\ receipts[op] = [layer |-> <<r, i>>, outcome |-> "published"]
      BY <3>2 DEF PublishRequestComplete
    <3>4. <<r, i>> \in Requests \X Nat
      BY <2>15
    <3> QED BY <2>1, <3>3, <3>4 DEF StoredOK, ReceiptsOK
  <2> QED BY <2>4, <2>15, <2>16, <2>17
<1> QED BY <1>1, ReviewInvTheorem, PTL DEF Spec, LandedIsFinal
=============================================================================
