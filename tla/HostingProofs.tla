--------------------------- MODULE HostingProofs ----------------------------
(***************************************************************************)
(* Proofs about sign-ins and pushes, for any number of devices, senders,   *)
(* stores and objects, any trees and any lifetimes.                        *)
(***************************************************************************)
EXTENDS Hosting, WellFoundedInduction, FiniteSetTheorems, TLAPS

-----------------------------------------------------------------------------
(* Sign-ins.                                                               *)

\* What AccessEnds needs to be inductive: a session that starts again ends no
\* earlier than the one before, because no session outlives the clock by more
\* than the life of a session.
SignInInv ==
    /\ now \in Nat
    /\ session \in [Codes -> Nat]
    /\ \A c \in Codes : session[c] <= now + RefreshTTL
    /\ \A t \in tokens : t.device \in Codes \cup {AdminDevice} /\ t.expires \in Nat
    /\ AccessEnds

\* A step of anything but the sign-ins leaves them alone.
LEMMA SignInSteps ==
    ASSUME Next
    PROVE  \/ UNCHANGED <<now, session, tokens>>
           \/ SignInNext
           \/ \E b \in Bearers, r \in Known : RepositoryToken(b, r)
<1>1. CASE UNCHANGED <<signInVars, hostingVars>>
  BY <1>1 DEF signInVars
<1>2. CASE Bootstrap
  BY <1>2 DEF Bootstrap
<1>3. ASSUME NEW c \in Calls, CreateNext(c)
      PROVE  UNCHANGED <<now, session, tokens>>
  BY <1>3 DEF CreateNext, Reserve, Provision, Apply, MarkReady, CallEnds, signInVars
<1>4. ASSUME NEW c \in Calls, ForkNext(c)
      PROVE  UNCHANGED <<now, session, tokens>>
  BY <1>4 DEF ForkNext, Reserve, ForkOpen, ForkBusy, CopyObject, CopyVersion,
     TracesBegin, TraceNote, TracePlace, TraceMark, ForkFinish, signInVars
<1>5. ASSUME NEW r \in Stores, NodeNext(r)
      PROVE  UNCHANGED <<now, session, tokens>>
  BY <1>5 DEF NodeNext, Serve, StopServing, HostRecord, HostPublish, RestrictTrace, signInVars
<1> QED
  BY <1>1, <1>2, <1>3, <1>4, <1>5 DEF Next

\* A token that is issued keeps the bound when its sign-in is live.
LEMMA IssueKeeps ==
    ASSUME SignInInv, now' = now, session' = session,
           NEW d \in Codes \cup {AdminDevice}, NEW r,
           d # AdminDevice => now < session[d],
           Issue(d, r)
    PROVE  SignInInv'
<1>1. AccessTTL \in Nat /\ RefreshTTL \in Nat
  BY SignInAssumption
<1>2. ASSUME NEW t \in tokens'
      PROVE  /\ t.device \in Codes \cup {AdminDevice} /\ t.expires \in Nat
             /\ t.device # AdminDevice => t.expires < session[t.device] + AccessTTL
  <2>1. CASE t \in tokens
    BY <2>1 DEF SignInInv, AccessEnds
  <2>2. CASE t = [device |-> d, repo |-> r, expires |-> now + AccessTTL]
    BY <2>2, <1>1 DEF SignInInv
  <2> QED
    BY <2>1, <2>2, <1>2 DEF Issue
<1> QED
  BY <1>2 DEF SignInInv, AccessEnds

\* The sign-in invariant holds at first.
LEMMA SignInInitial ==
    ASSUME Init
    PROVE  SignInInv
BY SignInAssumption DEF Init, SignInInit, SignInInv, AccessEnds

\* Every step keeps the sign-in invariant.
LEMMA SignInPreserved ==
    ASSUME SignInInv, [Next]_<<transferVars, signInVars, hostingVars, workload>>
    PROVE  SignInInv'
<1>1. AccessTTL \in Nat /\ RefreshTTL \in Nat /\ RefreshTTL > 0
  BY SignInAssumption
<1>2. CASE UNCHANGED <<now, session, tokens>>
  BY <1>2 DEF SignInInv, AccessEnds
<1>3. CASE Tick
  <2>1. now' = now + 1 /\ session' = session /\ tokens' \subseteq tokens
    BY <1>3 DEF Tick
  <2> QED
    BY <2>1, <1>1 DEF SignInInv, AccessEnds
<1>4. ASSUME NEW c \in Codes, DeviceStart(c) \/ DeviceApprove(c)
      PROVE  UNCHANGED <<now, session, tokens>>
  BY <1>4 DEF DeviceStart, DeviceApprove
<1>5. ASSUME NEW c \in Codes, DevicePoll(c)
      PROVE  SignInInv'
  <2>1. /\ now' = now
        /\ session' = [session EXCEPT ![c] = now + RefreshTTL]
        /\ Issue(c, "*")
    BY <1>5 DEF DevicePoll
  <2>2. /\ session' \in [Codes -> Nat]
        /\ \A d \in Codes : session[d] <= session'[d]
        /\ \A d \in Codes : session'[d] <= now + RefreshTTL
    BY <2>1, <1>1 DEF SignInInv
  <2>3. ASSUME NEW t \in tokens'
        PROVE  /\ t.device \in Codes \cup {AdminDevice} /\ t.expires \in Nat
               /\ t.device # AdminDevice => t.expires < session'[t.device] + AccessTTL
    <3>1. CASE t \in tokens
      <4>1. t.device \in Codes \cup {AdminDevice} /\ t.expires \in Nat
        BY <3>1 DEF SignInInv
      <4>2. ASSUME t.device # AdminDevice
            PROVE  t.expires < session'[t.device] + AccessTTL
        <5>1. t.device \in Codes /\ t.expires < session[t.device] + AccessTTL
          BY <4>1, <4>2, <3>1 DEF SignInInv, AccessEnds
        <5>2. session[t.device] <= session'[t.device]
              /\ session[t.device] \in Nat /\ session'[t.device] \in Nat
          BY <5>1, <2>2 DEF SignInInv
        <5> QED
          BY <5>1, <5>2, <4>1, <1>1
      <4> QED
        BY <4>1, <4>2
    <3>2. CASE t = [device |-> c, repo |-> "*", expires |-> now + AccessTTL]
      BY <3>2, <2>1, <1>1 DEF SignInInv
    <3> QED
      BY <3>1, <3>2, <2>1, <2>3 DEF Issue
  <2> QED
    BY <2>1, <2>2, <2>3 DEF SignInInv, AccessEnds
<1>6. ASSUME NEW c \in Codes, Refresh(c)
      PROVE  SignInInv'
  BY <1>6, IssueKeeps DEF Refresh
<1>7. ASSUME NEW c \in Codes, NEW w \in Browsers, DeviceApproveAs(c, w)
      PROVE  UNCHANGED <<now, session, tokens>>
  BY <1>7 DEF DeviceApproveAs, DeviceApprove
<1>8. ASSUME NEW e \in Ceremonies, EnrollStart(e) \/ SignInStart(e)
      PROVE  UNCHANGED <<now, session, tokens>>
  BY <1>8 DEF EnrollStart, SignInStart
<1>9. ASSUME NEW e \in Ceremonies, NEW k \in Passkeys, NEW w \in Browsers,
             SignInFinish(e, k, w)
      PROVE  UNCHANGED <<now, session, tokens>>
  BY <1>9 DEF SignInFinish
<1>10. ASSUME NEW e \in Ceremonies, NEW k \in Passkeys, EnrollFinish(e, k)
       PROVE  UNCHANGED <<now, session, tokens>>
  BY <1>10 DEF EnrollFinish
<1>11. ASSUME NEW e \in Ceremonies, NEW w \in Browsers, EnrollStartAs(e, w)
       PROVE  UNCHANGED <<now, session, tokens>>
  BY <1>11 DEF EnrollStartAs, EnrollStart
<1>12. ASSUME NEW b \in Bearers, NEW r \in Known, RepositoryToken(b, r)
       PROVE  SignInInv'
  <2>1. now' = now /\ session' = session /\ Issue(b.device, r)
    BY <1>12 DEF RepositoryToken
  <2>2. b = AdminBearer \/ (b.device \in Codes /\ now < session[b.device])
    BY <1>12 DEF RepositoryToken, Authenticate, Live
  <2>3. /\ b.device \in Codes \cup {AdminDevice}
        /\ b.device # AdminDevice => now < session[b.device]
    BY <2>2 DEF AdminBearer
  <2> QED
    BY <2>1, <2>3, IssueKeeps
<1>13. CASE SignInNext
  BY <1>13, <1>2, <1>3, <1>4, <1>5, <1>6, <1>7, <1>8, <1>9, <1>10, <1>11 DEF SignInNext
<1> QED
  BY <1>2, <1>12, <1>13, SignInSteps DEF signInVars

\* Access ends with the sign-in, whatever the lifetimes and however many
\* devices, repositories and renewals there are (control.rs authenticate).
THEOREM AccessEndsTheorem == Spec => []AccessEnds
<1>1. Init => SignInInv
  BY SignInInitial
<1>2. SignInInv /\ [Next]_<<transferVars, signInVars, hostingVars, workload>> => SignInInv'
  BY SignInPreserved
<1>3. SignInInv => AccessEnds
  BY DEF SignInInv
<1> QED
  BY <1>1, <1>2, <1>3, PTL DEF Spec
-----------------------------------------------------------------------------
(* Pushes.                                                                 *)

PushWorkload == workload \in {"push", "fetch"}

JobOperations == {j.operation : j \in UNION {Jobs[s] : s \in Senders}}

Versions == [tree : Chunks, operation : JobOperations]

PushTypes ==
    /\ stored \in [Stores -> SUBSET Objects]
    /\ world \in [Stores -> Seq(Versions)]
    /\ DOMAIN attempts = Stores
    /\ step \in [Senders ->
          {"idle", "offer", "send", "sent", "decided", "returned"}]
    /\ DOMAIN job = Senders
    /\ \A s \in Senders : job[s] \in Jobs[s] \cup {None}
    /\ \A s \in Senders : step[s] # "idle" \/ late[s] # {} => job[s] # None
    /\ frontier \in [Senders -> SUBSET Objects]
    /\ deeper \in [Senders -> SUBSET Objects]
    /\ seen \in [Senders -> SUBSET Objects]
    /\ lacks \in [Senders -> SUBSET Objects]
    /\ frame \in [Senders -> SUBSET Objects]
    /\ late \in [Senders -> SUBSET Objects]
    /\ DOMAIN reply = Senders

\* A session on its way down: everything discovered is stored, waits to be
\* sent or looked up, or is in the frame; whatever a lacking chunk names was
\* discovered; and what the frame's chunks name is stored or in the frame.
\* Only the stores' growth is needed from other sessions, and nothing from a
\* broken one.
DiscoveryOK(s) ==
    LET there == stored[job[s].store]
    IN  /\ step[s] # "sent" => frame[s] = {}
        /\ step[s] \in {"offer", "send", "sent"} =>
              /\ job[s].tree \in seen[s]
              /\ seen[s] \subseteq there \cup lacks[s] \cup frame[s]
                                         \cup frontier[s] \cup deeper[s]
              /\ \A o \in lacks[s] : Below(o) \subseteq seen[s]
              /\ \A o \in frame[s] : Below(o) \subseteq there \cup frame[s]
              /\ step[s] # "offer" => frontier[s] = {} /\ deeper[s] = {}

\* A session that was answered.
OutcomeOK(s) ==
    step[s] \in {"decided", "returned"} =>
        /\ reply[s] \in attempts[job[s].store]
        /\ reply[s].operation = job[s].operation
        /\ Consistent(job[s], reply[s])

ExpectedOK(s) == job[s] # None => job[s].expected <= HeadNumber(job[s].store)

\* The attempt was made for a sender's push, and its outcome is the log's.
AttemptOK(r, a) ==
    /\ \E s \in Senders :
          /\ job[s] # None
          /\ a.operation = job[s].operation
          /\ a.expected = job[s].expected
          /\ a.tree = job[s].tree
    /\ IF a.accepted
       THEN /\ a.result = a.expected + 1
            /\ a.result \in 1..HeadNumber(r)
            /\ world[r][a.result] = [tree |-> a.tree, operation |-> a.operation]
       ELSE a.result > a.expected

\* Attempts and versions correspond.
LogOK(r) ==
    /\ \A a \in attempts[r] : AttemptOK(r, a)
    /\ \A a, b \in attempts[r] : a.operation = b.operation => a = b
    /\ \A n \in 1..HeadNumber(r) : \E a \in attempts[r] :
          a.accepted /\ a.result = n /\ a.operation = world[r][n].operation

PushOK ==
    /\ PushTypes
    /\ \A s \in Senders : DiscoveryOK(s) /\ OutcomeOK(s) /\ ExpectedOK(s)
    /\ \A r \in Stores : LogOK(r)

PushInv == IF PushWorkload THEN PushOK
                           ELSE step = [s \in Senders |-> "idle"]

-----------------------------------------------------------------------------
\* The push invariant holds at first.
LEMMA PushInitial ==
    ASSUME Init
    PROVE  PushInv
<1>1. step = [s \in Senders |-> "idle"] /\ job = [s \in Senders |-> None]
  BY DEF Init, TransferInit
<1>2. PushTypes
  BY <1>1, TransferAssumption DEF Init, TransferInit, PushTypes, Objects
<1>3. \A s \in Senders : DiscoveryOK(s) /\ OutcomeOK(s) /\ ExpectedOK(s)
  BY <1>1 DEF Init, TransferInit, DiscoveryOK, OutcomeOK, ExpectedOK
<1>4. \A r \in Stores : world[r] = << >> /\ attempts[r] = {}
  BY DEF Init, TransferInit
<1>5. \A r \in Stores : LogOK(r)
  BY <1>4 DEF LogOK, HeadNumber
<1> QED
  BY <1>1, <1>2, <1>3, <1>5 DEF PushInv, PushOK

\* What a step of one session may do to another one: stores, logs and
\* attempts only grow.
LEMMA OtherSession ==
    ASSUME PushOK, NEW s \in Senders,
           step'[s] = step[s], job'[s] = job[s], frontier'[s] = frontier[s],
           deeper'[s] = deeper[s], seen'[s] = seen[s], lacks'[s] = lacks[s],
           frame'[s] = frame[s], reply'[s] = reply[s],
           \A r \in Stores : /\ stored[r] \subseteq stored'[r]
                             /\ attempts[r] \subseteq attempts'[r]
                             /\ HeadNumber(r) <= HeadNumber(r)'
                             /\ HeadNumber(r)' \in Nat
    PROVE  DiscoveryOK(s)' /\ OutcomeOK(s)' /\ ExpectedOK(s)'
<1>1. job[s] # None => /\ job[s].store \in Stores /\ job[s].expected \in Nat
                       /\ HeadNumber(job[s].store) \in Nat
  BY JobsAssumption DEF PushOK, PushTypes, HeadNumber
<1>2. step[s] # "idle" => job[s] # None
  BY DEF PushOK, PushTypes
<1>3. DiscoveryOK(s)'
  BY <1>1, <1>2 DEF PushOK, DiscoveryOK
<1>4. OutcomeOK(s)'
  BY <1>1, <1>2 DEF PushOK, OutcomeOK, Consistent
<1>5. ExpectedOK(s)'
  BY <1>1 DEF PushOK, ExpectedOK
<1> QED
  BY <1>3, <1>4, <1>5

\* A step that decides nothing leaves the logs in order.
LEMMA LogsKept ==
    ASSUME PushOK, world' = world, attempts' = attempts,
           \A s \in Senders : job[s] # None => job'[s] = job[s]
    PROVE  \A r \in Stores : LogOK(r)'
BY DEF PushOK, LogOK, AttemptOK, HeadNumber

\* A step that leaves the Worlds alone keeps their heads.
LEMMA HeadsKept ==
    ASSUME PushTypes, world' = world
    PROVE  \A r \in Stores : /\ HeadNumber(r) <= HeadNumber(r)'
                             /\ HeadNumber(r)' \in Nat
BY DEF PushTypes, HeadNumber
-----------------------------------------------------------------------------
(* One lemma per step of a session.                                        *)

\* PushBegin keeps the push invariant.
LEMMA PushBeginKeeps ==
    ASSUME PushOK, NEW s \in Senders, PushBegin(s)
    PROVE  PushOK'
<1> USE DEF PushOK
<1>1. PICK j \in Jobs[s] :
        /\ job[s] \in {None, j}
        /\ j.expected <= HeadNumber(j.store)
        /\ job' = [job EXCEPT ![s] = j]
        /\ frontier' = [frontier EXCEPT ![s] = {j.tree}]
        /\ seen' = [seen EXCEPT ![s] = {j.tree}]
  BY DEF PushBegin
<1>2. /\ step[s] = "idle"
      /\ step' = [step EXCEPT ![s] = "offer"]
      /\ deeper' = [deeper EXCEPT ![s] = {}]
      /\ lacks' = [lacks EXCEPT ![s] = {}]
      /\ UNCHANGED <<stored, world, attempts, frame, late, reply>>
  BY DEF PushBegin, storeVars
<1>3. j # None /\ j.tree \in Objects
  BY JobsAssumption DEF Objects
<1>4. PushTypes'
  BY <1>1, <1>2, <1>3 DEF PushTypes
<1>5. DiscoveryOK(s)' /\ OutcomeOK(s)' /\ ExpectedOK(s)'
  BY <1>1, <1>2 DEF PushTypes, DiscoveryOK, OutcomeOK, ExpectedOK, HeadNumber
<1>6. ASSUME NEW t \in Senders, t # s
      PROVE  DiscoveryOK(t)' /\ OutcomeOK(t)' /\ ExpectedOK(t)'
  BY <1>1, <1>2, <1>6, OtherSession, HeadsKept DEF PushTypes
<1>7. \A r \in Stores : LogOK(r)'
  BY <1>1, <1>2, LogsKept DEF PushTypes
<1> QED
  BY <1>4, <1>5, <1>6, <1>7

\* Offer keeps the push invariant: what is missing stays covered.
LEMMA OfferKeeps ==
    ASSUME PushOK, NEW s \in Senders, Offer(s)
    PROVE  PushOK'
<1> USE DEF PushOK
<1>1. PICK o \in frontier[s] :
        LET rest == frontier[s] \ {o}
            next == deeper[s] \cup Found(s, o)
        IN  /\ seen' = [seen EXCEPT ![s] = @ \cup Found(s, o)]
            /\ lacks' = [lacks EXCEPT ![s] =
                    @ \cup {x \in {o} : ~HasObject(job[s].store, x)}]
            /\ frontier' = [frontier EXCEPT ![s] =
                    IF rest = {} THEN next ELSE rest]
            /\ deeper' = [deeper EXCEPT ![s] = IF rest = {} THEN {} ELSE next]
            /\ step' = [step EXCEPT ![s] =
                    IF rest \cup next = {} THEN "send" ELSE "offer"]
  BY DEF Offer
<1>2. /\ step[s] = "offer"
      /\ UNCHANGED <<stored, world, attempts, job, frame, late, reply>>
  BY DEF Offer, storeVars
<1> DEFINE rest == frontier[s] \ {o}
           next == deeper[s] \cup Found(s, o)
<1>3. o \in Objects /\ Below(o) \subseteq Objects /\ Found(s, o) \subseteq Objects
  BY TransferAssumption DEF PushTypes, Found, Below, Objects
<1>4. PushTypes'
  BY <1>1, <1>2, <1>3 DEF PushTypes
<1>5. /\ seen'[s] = seen[s] \cup Found(s, o)
      /\ lacks'[s] = lacks[s] \cup {x \in {o} : ~HasObject(job[s].store, x)}
      /\ frontier'[s] \cup deeper'[s] = rest \cup next
      /\ step'[s] # "offer" => frontier'[s] = {} /\ deeper'[s] = {}
      /\ step'[s] \in {"offer", "send"}
      /\ job'[s] = job[s] /\ frame'[s] = frame[s] /\ frame[s] = {}
  <2>1. /\ seen'[s] = seen[s] \cup Found(s, o)
        /\ lacks'[s] = lacks[s] \cup {x \in {o} : ~HasObject(job[s].store, x)}
        /\ frontier'[s] = IF rest = {} THEN next ELSE rest
        /\ deeper'[s] = IF rest = {} THEN {} ELSE next
        /\ step'[s] = IF rest \cup next = {} THEN "send" ELSE "offer"
    BY <1>1 DEF PushTypes
  <2>2. frontier'[s] \cup deeper'[s] = rest \cup next
    <3> HIDE DEF next, rest
    <3> QED BY <2>1
  <2>3. step'[s] # "offer" => frontier'[s] = {} /\ deeper'[s] = {}
    <3> HIDE DEF next, rest
    <3> QED BY <2>1
  <2>4. job'[s] = job[s] /\ frame'[s] = frame[s] /\ frame[s] = {}
    BY <1>2 DEF DiscoveryOK
  <2> QED
    BY <2>1, <2>2, <2>3, <2>4
<1>6. DiscoveryOK(s)'
  <2>1. job[s].tree \in seen'[s]
    BY <1>2, <1>5 DEF DiscoveryOK
  <2>2. \A x \in lacks'[s] : Below(x) \subseteq seen'[s]
    BY <1>2, <1>5 DEF DiscoveryOK, HasObject, Found
  <2>3. seen'[s] \subseteq stored[job[s].store] \cup lacks'[s] \cup rest \cup next
    BY <1>2, <1>5 DEF DiscoveryOK, HasObject, Found
  <2> QED
    BY <2>1, <2>2, <2>3, <1>2, <1>5 DEF DiscoveryOK
<1>7. OutcomeOK(s)' /\ ExpectedOK(s)'
  BY <1>2, <1>5 DEF OutcomeOK, ExpectedOK, HeadNumber
<1>8. ASSUME NEW t \in Senders, t # s
      PROVE  DiscoveryOK(t)' /\ OutcomeOK(t)' /\ ExpectedOK(t)'
  BY <1>1, <1>2, <1>8, OtherSession, HeadsKept DEF PushTypes
<1>9. \A r \in Stores : LogOK(r)'
  BY <1>2, LogsKept
<1> QED
  BY <1>4, <1>6, <1>7, <1>8, <1>9

\* Children first: what a frame's chunks name is stored, or in the frame.
LEMMA SendBatchKeeps ==
    ASSUME PushOK, NEW s \in Senders, SendBatch(s)
    PROVE  PushOK'
<1> USE DEF PushOK
<1>1. PICK S \in SUBSET lacks[s] :
        /\ Sendable(S, lacks[s])
        /\ frame' = [frame EXCEPT ![s] = S]
        /\ lacks' = [lacks EXCEPT ![s] = @ \ S]
  BY DEF SendBatch
<1>2. /\ step[s] = "send"
      /\ step' = [step EXCEPT ![s] = "sent"]
      /\ UNCHANGED <<stored, world, attempts, job, frontier, deeper, seen, late,
                     reply>>
  BY DEF SendBatch, storeVars
<1>3. PushTypes'
  BY <1>1, <1>2 DEF PushTypes
<1>4. /\ frame'[s] = S /\ lacks'[s] = lacks[s] \ S /\ step'[s] = "sent"
  BY <1>1, <1>2 DEF PushTypes
<1>5. DiscoveryOK(s)'
  <2>1. \A o \in S : Below(o) \subseteq stored[job[s].store] \cup S
    BY <1>1, <1>2 DEF Sendable, DiscoveryOK
  <2> QED
    BY <2>1, <1>2, <1>4 DEF DiscoveryOK
<1>6. OutcomeOK(s)' /\ ExpectedOK(s)'
  BY <1>2, <1>4 DEF OutcomeOK, ExpectedOK, HeadNumber
<1>7. ASSUME NEW t \in Senders, t # s
      PROVE  DiscoveryOK(t)' /\ OutcomeOK(t)' /\ ExpectedOK(t)'
  BY <1>1, <1>2, <1>7, OtherSession, HeadsKept DEF PushTypes
<1>8. \A r \in Stores : LogOK(r)'
  BY <1>2, LogsKept
<1> QED
  BY <1>3, <1>5, <1>6, <1>7, <1>8

\* The receiver never refuses an object.
LEMMA StoreKeeps ==
    ASSUME PushOK, NEW s \in Senders, Store(s)
    PROVE  PushOK'
<1> USE DEF PushOK
<1>1. PICK o \in frame[s] :
        /\ NextIn(frame[s], o)
        /\ IF Fits(job[s].store, o)
           THEN /\ Put(job[s].store, o)
                /\ frame' = [frame EXCEPT ![s] = @ \ {o}]
                /\ UNCHANGED step
           ELSE /\ frame' = [frame EXCEPT ![s] = {}]
                /\ step' = [step EXCEPT ![s] = "refused"]
                /\ UNCHANGED stored
  BY DEF Store
<1>2. /\ step[s] = "sent"
      /\ UNCHANGED <<world, attempts, job, frontier, deeper, seen, lacks, late,
                     reply>>
  BY DEF Store
<1>3. job[s].store \in Stores
  BY <1>2, JobsAssumption DEF PushTypes
<1>4. Fits(job[s].store, o)
  BY <1>1, <1>2 DEF Fits, NextIn, DiscoveryOK
<1>5. /\ stored' = [stored EXCEPT ![job[s].store] = @ \cup {o}]
      /\ frame' = [frame EXCEPT ![s] = @ \ {o}]
      /\ step' = step
  BY <1>1, <1>4 DEF Put
<1>6. PushTypes'
  <2>1. o \in Objects
    BY <1>1 DEF PushTypes
  <2>2. /\ stored' \in [Stores -> SUBSET Objects]
        /\ frame' \in [Senders -> SUBSET Objects]
    BY <2>1, <1>5 DEF PushTypes
  <2> QED
    BY <2>2, <1>2, <1>5 DEF PushTypes
<1>7. /\ \A r \in Stores : stored[r] \subseteq stored'[r]
      /\ stored'[job[s].store] = stored[job[s].store] \cup {o}
      /\ frame'[s] = frame[s] \ {o}
  BY <1>3, <1>5 DEF PushTypes
<1>8. DiscoveryOK(s)' /\ OutcomeOK(s)' /\ ExpectedOK(s)'
  BY <1>2, <1>5, <1>7 DEF DiscoveryOK, OutcomeOK, ExpectedOK, HeadNumber
<1>9. ASSUME NEW t \in Senders, t # s
      PROVE  DiscoveryOK(t)' /\ OutcomeOK(t)' /\ ExpectedOK(t)'
  BY <1>2, <1>5, <1>7, <1>9, OtherSession, HeadsKept DEF PushTypes
<1>10. \A r \in Stores : LogOK(r)'
  BY <1>2, LogsKept
<1> QED
  BY <1>6, <1>8, <1>9, <1>10
\* Taken keeps the push invariant.
LEMMA TakenKeeps ==
    ASSUME PushOK, NEW s \in Senders, Taken(s)
    PROVE  PushOK'
<1> USE DEF PushOK
<1>1. /\ step[s] = "sent" /\ frame[s] = {}
      /\ step' = [step EXCEPT ![s] = "send"]
      /\ UNCHANGED <<stored, world, attempts, job, frontier, deeper, seen, lacks,
                     frame, late, reply>>
  BY DEF Taken, storeVars
<1>2. PushTypes'
  BY <1>1 DEF PushTypes
<1>3. step'[s] = "send"
  BY <1>1 DEF PushTypes
<1>4. DiscoveryOK(s)' /\ OutcomeOK(s)' /\ ExpectedOK(s)'
  BY <1>1, <1>3 DEF DiscoveryOK, OutcomeOK, ExpectedOK, HeadNumber
<1>5. ASSUME NEW t \in Senders, t # s
      PROVE  DiscoveryOK(t)' /\ OutcomeOK(t)' /\ ExpectedOK(t)'
  BY <1>1, <1>5, OtherSession, HeadsKept DEF PushTypes
<1>6. \A r \in Stores : LogOK(r)'
  BY <1>1, LogsKept
<1> QED
  BY <1>2, <1>4, <1>5, <1>6

\* A recorded attempt with a push's operation is that push's own, and its
\* outcome answers it.
LEMMA RecordedAnswers ==
    ASSUME PushOK, NEW s \in Senders, job[s] # None,
           NEW a \in attempts[job[s].store], a.operation = job[s].operation
    PROVE  Consistent(job[s], a)
<1> USE DEF PushOK
<1>1. job[s] \in Jobs[s] /\ job[s].store \in Stores
  BY JobsAssumption DEF PushTypes
<1>2. AttemptOK(job[s].store, a)
  BY <1>1 DEF LogOK
<1>3. PICK t \in Senders : /\ job[t] # None
                           /\ a.operation = job[t].operation
                           /\ a.expected = job[t].expected
                           /\ a.tree = job[t].tree
  BY <1>2 DEF AttemptOK
<1>4. t = s
  BY <1>1, <1>3, JobsAssumption DEF PushTypes
<1> QED
  BY <1>2, <1>3, <1>4 DEF AttemptOK, Consistent

\* Publish keeps the push invariant: one operation, one outcome.
LEMMA PublishKeeps ==
    ASSUME PushOK, NEW s \in Senders, Publish(s)
    PROVE  PushOK'
<1> USE DEF PushOK
<1>a. PICK j : j = job[s]
  OBVIOUS
<1>b. PICK r : r = j.store
  OBVIOUS
<1>c. PICK made : made = Attempt(r, j.operation, j.expected, j.tree)
  OBVIOUS
<1>1. /\ step[s] = "send"
      /\ Advance(r, j.operation, j.expected, j.tree)
      /\ reply' = [reply EXCEPT ![s] =
            Answer(r, j.operation, j.expected, j.tree)]
      /\ step' = [step EXCEPT ![s] = "decided"]
      /\ UNCHANGED <<stored, job, frontier, deeper, seen, lacks, frame, late>>
  BY <1>a, <1>b DEF Publish
<1>2. /\ j \in Jobs[s] /\ j # None
      /\ r \in Stores /\ j.tree \in Chunks /\ j.expected \in Nat
      /\ j.operation \in JobOperations
  BY <1>1, <1>a, <1>b, JobsAssumption DEF PushTypes, JobOperations
<1>3. HeadNumber(r) \in Nat /\ j.expected <= HeadNumber(r)
  BY <1>2, <1>a, <1>b DEF PushTypes, HeadNumber, ExpectedOK
<1>4. /\ step'[s] = "decided"
      /\ reply'[s] = Answer(r, j.operation, j.expected, j.tree)
      /\ job' = job /\ job[s] = j /\ j.store = r
      /\ DOMAIN reply' = Senders
      /\ step' \in [Senders ->
            {"idle", "offer", "send", "sent", "decided", "returned"}]
  BY <1>1, <1>a, <1>b DEF PushTypes
<1>5. CASE Decided(r, j.operation) # {}
  <2>1. /\ UNCHANGED <<world, attempts>>
        /\ reply'[s] \in Decided(r, j.operation)
    BY <1>1, <1>4, <1>5 DEF Advance, Answer
  <2>2. reply'[s] \in attempts[r] /\ reply'[s].operation = j.operation
    BY <2>1 DEF Decided
  <2>3. PushTypes'
    BY <1>1, <1>4, <2>1 DEF PushTypes
  <2>4. Consistent(j, reply'[s])
    BY <2>2, <1>2, <1>4, RecordedAnswers
  <2>5. DiscoveryOK(s)' /\ OutcomeOK(s)' /\ ExpectedOK(s)'
    BY <1>1, <1>2, <1>4, <2>1, <2>2, <2>4
    DEF DiscoveryOK, OutcomeOK, ExpectedOK, HeadNumber, Consistent
  <2>6. ASSUME NEW t \in Senders, t # s
        PROVE  DiscoveryOK(t)' /\ OutcomeOK(t)' /\ ExpectedOK(t)'
    BY <1>1, <2>1, <2>6, OtherSession, HeadsKept DEF PushTypes
  <2>7. \A q \in Stores : LogOK(q)'
    BY <1>1, <2>1, LogsKept
  <2> QED
    BY <2>3, <2>5, <2>6, <2>7
<1>6. CASE Decided(r, j.operation) = {}
  <2> DEFINE version == [tree |-> j.tree, operation |-> j.operation]
  <2>1. /\ attempts' = [attempts EXCEPT ![r] = @ \cup {made}]
        /\ world' = IF made.accepted THEN [world EXCEPT ![r] = Append(@, version)]
                                     ELSE world
        /\ reply'[s] = made
    BY <1>1, <1>4, <1>6, <1>c DEF Advance, Answer
  <2>2. /\ made.operation = j.operation
        /\ made.expected = j.expected
        /\ made.tree = j.tree
        /\ made.accepted <=> j.expected = HeadNumber(r)
        /\ made.accepted => made.result = j.expected + 1
        /\ ~made.accepted => made.result = HeadNumber(r)
    BY <1>c DEF Attempt
  <2>3. /\ attempts'[r] = attempts[r] \cup {made}
        /\ \A q \in Stores : q # r =>
              attempts'[q] = attempts[q] /\ world'[q] = world[q]
        /\ DOMAIN attempts' = Stores
    <3> HIDE DEF version
    <3> QED BY <2>1, <1>2 DEF PushTypes
  <2>4. version \in Versions /\ world[r] \in Seq(Versions)
    BY <1>2 DEF Versions, PushTypes
  <2>5. CASE made.accepted
    <3>1. /\ world'[r] = Append(world[r], version)
          /\ world' \in [Stores -> Seq(Versions)]
      <4> HIDE DEF version
      <4> QED BY <2>1, <2>4, <2>5, <1>2 DEF PushTypes
    <3>2. /\ HeadNumber(r)' = HeadNumber(r) + 1
          /\ world'[r][HeadNumber(r) + 1] = version
          /\ \A n \in 1..HeadNumber(r) : world'[r][n] = world[r][n]
      <4> HIDE DEF version
      <4> QED BY <3>1, <2>4 DEF HeadNumber
    <3> QED
      <4>1. PushTypes'
        BY <3>1, <2>3, <1>1, <1>4 DEF PushTypes
      <4>2. \A q \in Stores : /\ HeadNumber(q) <= HeadNumber(q)'
                              /\ HeadNumber(q)' \in Nat
                              /\ attempts[q] \subseteq attempts'[q]
        <5>1. ASSUME NEW q \in Stores, q # r
              PROVE  HeadNumber(q)' = HeadNumber(q) /\ HeadNumber(q) \in Nat
          BY <5>1, <2>3 DEF PushTypes, HeadNumber
        <5>2. HeadNumber(r) <= HeadNumber(r)' /\ HeadNumber(r)' \in Nat
          BY <3>2, <1>3
        <5>3. \A q \in Stores : attempts[q] \subseteq attempts'[q]
          BY <2>3
        <5> QED
          BY <5>1, <5>2, <5>3
      <4>3. DiscoveryOK(s)' /\ OutcomeOK(s)' /\ ExpectedOK(s)'
        <5>1. DiscoveryOK(s)'
          BY <1>1, <1>4 DEF DiscoveryOK
        <5>2. Consistent(j, made)
          BY <2>2, <2>5 DEF Consistent
        <5>3. OutcomeOK(s)'
          BY <5>2, <1>4, <2>1, <2>2, <2>3 DEF OutcomeOK, Consistent
        <5>4. ExpectedOK(s)'
          BY <1>2, <1>3, <1>4, <3>2 DEF ExpectedOK
        <5> QED
          BY <5>1, <5>3, <5>4
      <4>4. ASSUME NEW t \in Senders, t # s
            PROVE  DiscoveryOK(t)' /\ OutcomeOK(t)' /\ ExpectedOK(t)'
        BY <1>1, <4>2, <4>4, OtherSession DEF PushTypes
      <4>5. ASSUME NEW q \in Stores, q # r
            PROVE  LogOK(q)'
        BY <1>4, <2>3, <4>5 DEF LogOK, AttemptOK, HeadNumber
      <4>6. LogOK(r)'
        <5>1. ASSUME NEW a \in attempts[r]
              PROVE  AttemptOK(r, a)' /\ a.operation # made.operation
          <6>1. AttemptOK(r, a)
            BY <1>2 DEF LogOK
          <6>2. AttemptOK(r, a)'
            BY <6>1, <3>2, <1>3, <1>4 DEF AttemptOK
          <6> QED
            BY <6>2, <1>6, <2>2 DEF Decided
        <5>2. AttemptOK(r, made)'
          BY <1>2, <1>3, <1>4, <2>2, <2>5, <3>2 DEF AttemptOK
        <5>3. ASSUME NEW n \in 1..(HeadNumber(r) + 1)
              PROVE  \E a \in attempts'[r] :
                       a.accepted /\ a.result = n /\ a.operation = world'[r][n].operation
          <6>1. CASE n = HeadNumber(r) + 1
            BY <6>1, <2>2, <2>3, <2>5, <3>2
          <6>2. CASE n \in 1..HeadNumber(r)
            BY <6>2, <1>2, <2>3, <3>2 DEF LogOK
          <6> QED
            BY <6>1, <6>2, <1>3
        <5>4. \A a \in attempts'[r] : AttemptOK(r, a)'
          BY <5>1, <5>2, <2>3
        <5>5. \A a, b \in attempts'[r] : a.operation = b.operation => a = b
          BY <5>1, <2>3, <1>2 DEF LogOK
        <5>6. \A n \in 1..HeadNumber(r)' : \E a \in attempts'[r] :
                a.accepted /\ a.result = n /\ a.operation = world'[r][n].operation
          BY <5>3, <3>2
        <5> QED
          BY <5>4, <5>5, <5>6 DEF LogOK
      <4> QED
        BY <4>1, <4>3, <4>4, <4>5, <4>6
  <2>6. CASE ~made.accepted
    <3>1. world' = world
      <4> HIDE DEF version
      <4> QED BY <2>1, <2>6
    <3>2. PushTypes'
      BY <3>1, <2>3, <1>1, <1>4 DEF PushTypes
    <3>3. \A q \in Stores : attempts[q] \subseteq attempts'[q]
      BY <2>3
    <3>4. Consistent(j, made)
      BY <1>2, <1>3, <2>2, <2>6 DEF Consistent
    <3>5. DiscoveryOK(s)' /\ OutcomeOK(s)' /\ ExpectedOK(s)'
      BY <1>1, <1>4, <2>1, <2>2, <2>3, <3>1, <3>4
      DEF DiscoveryOK, OutcomeOK, ExpectedOK, HeadNumber, Consistent
    <3>6. ASSUME NEW t \in Senders, t # s
          PROVE  DiscoveryOK(t)' /\ OutcomeOK(t)' /\ ExpectedOK(t)'
      BY <1>1, <3>1, <3>3, <3>6, OtherSession, HeadsKept DEF PushTypes
    <3>7. ASSUME NEW q \in Stores, q # r
          PROVE  LogOK(q)'
      BY <1>4, <2>3, <3>7 DEF LogOK, AttemptOK, HeadNumber
    <3>8. LogOK(r)'
      <4>1. ASSUME NEW a \in attempts[r]
            PROVE  AttemptOK(r, a)' /\ a.operation # made.operation
        <5>1. AttemptOK(r, a)
          BY <1>2 DEF LogOK
        <5>2. AttemptOK(r, a)'
          BY <5>1, <3>1, <1>4 DEF AttemptOK, HeadNumber
        <5> QED
          BY <5>2, <1>6, <2>2 DEF Decided
      <4>2. AttemptOK(r, made)'
        BY <1>2, <1>3, <1>4, <2>2, <2>6 DEF AttemptOK
      <4> QED
        BY <4>1, <4>2, <2>3, <3>1, <1>2 DEF LogOK, HeadNumber
    <3> QED
      BY <3>2, <3>5, <3>6, <3>7, <3>8
  <2> QED
    BY <2>5, <2>6
<1> QED
  BY <1>5, <1>6

\* push never refuses the receiver's answer.
LEMMA ReturnKeeps ==
    ASSUME PushOK, NEW s \in Senders, Return(s)
    PROVE  PushOK'
<1> USE DEF PushOK
<1>1. /\ step[s] = "decided"
      /\ step' = [step EXCEPT ![s] =
            IF Consistent(job[s], reply[s]) THEN "returned" ELSE "refused"]
      /\ UNCHANGED <<stored, world, attempts, job, frontier, deeper, seen, lacks,
                     frame, late, reply>>
  BY DEF Return, storeVars
<1>2. Consistent(job[s], reply[s])
  BY <1>1 DEF OutcomeOK
<1>3. step' = [step EXCEPT ![s] = "returned"]
  BY <1>1, <1>2
<1>4. PushTypes'
  BY <1>1, <1>3 DEF PushTypes
<1>5. step'[s] = "returned"
  BY <1>3 DEF PushTypes
<1>6. DiscoveryOK(s)' /\ OutcomeOK(s)' /\ ExpectedOK(s)'
  BY <1>1, <1>5 DEF DiscoveryOK, OutcomeOK, ExpectedOK, HeadNumber, Consistent
<1>7. ASSUME NEW t \in Senders, t # s
      PROVE  DiscoveryOK(t)' /\ OutcomeOK(t)' /\ ExpectedOK(t)'
  BY <1>1, <1>3, <1>7, OtherSession, HeadsKept DEF PushTypes
<1>8. \A r \in Stores : LogOK(r)'
  BY <1>1, LogsKept
<1> QED
  BY <1>4, <1>6, <1>7, <1>8

\* Break keeps the push invariant: the frame is left behind as late.
LEMMA BreakKeeps ==
    ASSUME PushOK, NEW s \in Senders, Break(s)
    PROVE  PushOK'
<1> USE DEF PushOK
<1>1. /\ step[s] # "idle"
      /\ late' = [late EXCEPT ![s] = frame[s]]
      /\ frame' = [frame EXCEPT ![s] = {}]
      /\ reply' = [reply EXCEPT ![s] = None]
      /\ step' = [step EXCEPT ![s] = "idle"]
      /\ UNCHANGED <<stored, world, attempts, job, frontier, deeper, seen, lacks>>
  BY DEF Break, storeVars
<1>2. PushTypes'
  BY <1>1 DEF PushTypes
<1>3. step'[s] = "idle" /\ frame'[s] = {}
  BY <1>1 DEF PushTypes
<1>4. DiscoveryOK(s)' /\ OutcomeOK(s)' /\ ExpectedOK(s)'
  BY <1>1, <1>3 DEF DiscoveryOK, OutcomeOK, ExpectedOK, HeadNumber
<1>5. ASSUME NEW t \in Senders, t # s
      PROVE  DiscoveryOK(t)' /\ OutcomeOK(t)' /\ ExpectedOK(t)'
  BY <1>1, <1>5, OtherSession, HeadsKept DEF PushTypes
<1>6. \A r \in Stores : LogOK(r)'
  BY <1>1, LogsKept
<1> QED
  BY <1>2, <1>4, <1>5, <1>6

\* LateStore keeps the push invariant: a late object fits as well.
LEMMA LateStoreKeeps ==
    ASSUME PushOK, NEW s \in Senders, LateStore(s)
    PROVE  PushOK'
<1> USE DEF PushOK
<1>1. UNCHANGED <<world, attempts, step, job, frontier, deeper, seen, lacks, frame,
                  reply>>
  BY DEF LateStore
<1>2. /\ stored' \in [Stores -> SUBSET Objects]
      /\ \A r \in Stores : stored[r] \subseteq stored'[r]
      /\ late' \in [Senders -> SUBSET Objects]
      /\ \A t \in Senders : late'[t] # {} => late[t] # {}
  <2>1. CASE UNCHANGED stored /\ late' = [late EXCEPT ![s] = {}]
    BY <2>1 DEF PushTypes
  <2>2. CASE \E o \in late[s] : /\ Put(job[s].store, o)
                                /\ late' = [late EXCEPT ![s] = @ \ {o}]
    <3>1. PICK o \in late[s] : /\ Put(job[s].store, o)
                               /\ late' = [late EXCEPT ![s] = @ \ {o}]
      BY <2>2
    <3>2. o \in Objects /\ stored' = [stored EXCEPT ![job[s].store] = @ \cup {o}]
      BY <3>1 DEF PushTypes, Put
    <3>3. stored' \in [Stores -> SUBSET Objects]
          /\ \A r \in Stores : stored[r] \subseteq stored'[r]
      BY <3>2 DEF PushTypes
    <3> QED
      BY <3>1, <3>3 DEF PushTypes
  <2> QED
    BY <2>1, <2>2 DEF LateStore
<1>3. PushTypes'
  BY <1>1, <1>2 DEF PushTypes
<1>4. \A t \in Senders : DiscoveryOK(t)' /\ OutcomeOK(t)' /\ ExpectedOK(t)'
  BY <1>1, <1>2, OtherSession, HeadsKept DEF PushTypes
<1>5. \A r \in Stores : LogOK(r)'
  BY <1>1, LogsKept
<1> QED
  BY <1>3, <1>4, <1>5
\* A step of a session keeps the push invariant.
LEMMA SessionKeeps ==
    ASSUME PushOK, NEW s \in Senders, PushNext(s)
    PROVE  PushOK'
BY PushBeginKeeps, OfferKeeps, SendBatchKeeps, StoreKeeps, TakenKeeps,
   PublishKeeps, ReturnKeeps, BreakKeeps, LateStoreKeeps
DEF PushNext, SessionNext

\* Steps of anything but pushes.
LEMMA IdleKeeps ==
    ASSUME PushOK, UNCHANGED <<storeVars, pushVars>>
    PROVE  PushOK'
<1>1. UNCHANGED <<stored, world, attempts, step, job, frontier, deeper, seen, lacks,
                  frame, late, reply>>
  BY DEF storeVars, pushVars
<1>2. PushTypes'
  BY <1>1 DEF PushOK, PushTypes
<1>3. \A s \in Senders : DiscoveryOK(s)' /\ OutcomeOK(s)' /\ ExpectedOK(s)'
  BY <1>1, OtherSession, HeadsKept DEF PushOK, PushTypes
<1>4. \A r \in Stores : LogOK(r)'
  BY <1>1, LogsKept
<1> QED
  BY <1>2, <1>3, <1>4 DEF PushOK

\* Every step keeps the push invariant.
LEMMA PushPreserved ==
    ASSUME PushInv, [Next]_<<transferVars, signInVars, hostingVars, workload>>
    PROVE  PushInv'
<1>1. workload' = workload
  BY DEF Next
<1>2. CASE UNCHANGED <<transferVars, signInVars, hostingVars, workload>>
  <2>1. UNCHANGED <<storeVars, pushVars>> /\ step' = step
    BY <1>2 DEF transferVars, pushVars
  <2> QED
    BY <2>1, <1>1, IdleKeeps DEF PushInv, PushWorkload
<1>3. CASE PushWorkload /\ Next
  <2>1. PushOK
    BY <1>3 DEF PushInv
  <2>2. ASSUME NEW f \in Fetchers, FetchNext(f)
        PROVE  UNCHANGED <<storeVars, pushVars>>
    BY <2>2 DEF FetchNext, FetchBegin, FetchVerify, FetchObject, FetchLevel,
       FetchReturn, FetchEnd
  <2>3. \/ \E s \in Senders : PushNext(s)
        \/ \E f \in Fetchers : FetchNext(f)
    BY <1>3 DEF Next, PushWorkload, PushNext
  <2>4. PushOK'
    BY <2>1, <2>2, <2>3, SessionKeeps, IdleKeeps
  <2> QED
    BY <2>4, <1>1, <1>3 DEF PushInv, PushWorkload
<1>4. CASE ~PushWorkload /\ Next
  <2>1. ASSUME NEW c \in Calls, CreateNext(c)
        PROVE  step' = step
    BY <2>1 DEF CreateNext, Reserve, Provision, Apply, MarkReady, CallEnds,
       transferVars, pushVars
  <2>2. ASSUME NEW c \in Calls, ForkNext(c)
        PROVE  step' = step
    BY <2>2 DEF ForkNext, Reserve, ForkOpen, ForkBusy, CopyObject, CopyVersion,
       TracesBegin, TraceNote, TracePlace, TraceMark, ForkFinish, transferVars,
       pushVars
  <2>3. ASSUME NEW r \in Stores, NodeNext(r)
        PROVE  step' = step
    BY <2>3 DEF NodeNext, Serve, StopServing, HostRecord, HostPublish, RestrictTrace,
       transferVars, pushVars
  <2>4. ASSUME UNCHANGED <<transferVars, hostingVars>>
        PROVE  step' = step
    <3>1. pushVars' = pushVars
      BY <2>4 DEF transferVars
    <3> QED
      BY <3>1 DEF pushVars
  <2>5. workload # "push" /\ workload # "fetch"
    BY <1>4 DEF PushWorkload
  <2>6. \/ UNCHANGED <<transferVars, hostingVars>>
        \/ \E c \in Calls : CreateNext(c) \/ ForkNext(c)
        \/ \E r \in Stores : NodeNext(r)
    BY <1>4, <2>5, Zenon DEF Next
  <2>7. step' = step
    BY <2>1, <2>2, <2>3, <2>4, <2>6
  <2> QED
    BY <2>7, <1>1, <1>4 DEF PushInv, PushWorkload
<1> QED
  BY <1>2, <1>3, <1>4

\* The invariant says what is promised: no session is refused, and ...
LEMMA InvRefusesNothing ==
    ASSUME PushInv
    PROVE  PushNeverRefused
<1>1. CASE PushWorkload
  <2>1. PushOK
    BY <1>1 DEF PushInv
  <2>2. ASSUME NEW s \in Senders
        PROVE  step[s] # "refused"
    BY <2>1 DEF PushOK, PushTypes
  <2>3. ASSUME NEW s \in Senders, step[s] = "send", lacks[s] = {}
        PROVE  job[s].tree \in stored[job[s].store]
    <3>1. DiscoveryOK(s)
      BY <2>1 DEF PushOK
    <3> QED
      BY <3>1, <2>3 DEF DiscoveryOK
  <2> QED
    BY <2>2, <2>3 DEF PushNeverRefused
<1>2. CASE ~PushWorkload
  BY <1>2 DEF PushInv, PushNeverRefused
<1> QED
  BY <1>1, <1>2

\* ... what is returned is what the log holds.
LEMMA InvPushedOnce ==
    ASSUME PushInv
    PROVE  PushedOnce
<1>1. CASE PushWorkload
  <2> SUFFICES ASSUME NEW s \in Senders, step[s] = "returned"
               PROVE  LET j == job[s]
                          made == {n \in 1..HeadNumber(j.store) :
                                      world[j.store][n].operation = j.operation}
                      IN  IF reply[s].accepted
                          THEN /\ made = {reply[s].result}
                               /\ world[j.store][reply[s].result].tree = j.tree
                          ELSE made = {}
    BY DEF PushedOnce
  <2>1. PushOK
    BY <1>1 DEF PushInv
  <2>2. job[s].store \in Stores
    BY <2>1, JobsAssumption DEF PushOK, PushTypes
  <2>3. /\ reply[s] \in attempts[job[s].store]
        /\ reply[s].operation = job[s].operation
        /\ Consistent(job[s], reply[s])
    BY <2>1 DEF PushOK, OutcomeOK
  <2>4. LogOK(job[s].store) /\ AttemptOK(job[s].store, reply[s])
    BY <2>1, <2>2, <2>3 DEF PushOK, LogOK
  <2>5. ASSUME NEW n \in 1..HeadNumber(job[s].store),
               world[job[s].store][n].operation = job[s].operation
        PROVE  reply[s].accepted /\ reply[s].result = n
    BY <2>3, <2>4, <2>5 DEF LogOK
  <2>6. CASE reply[s].accepted
    <3>1. /\ reply[s].result \in 1..HeadNumber(job[s].store)
          /\ world[job[s].store][reply[s].result].operation = job[s].operation
          /\ world[job[s].store][reply[s].result].tree = job[s].tree
      BY <2>3, <2>4, <2>6 DEF AttemptOK, Consistent
    <3> QED
      BY <3>1, <2>5, <2>6
  <2>7. CASE ~reply[s].accepted
    BY <2>5, <2>7
  <2> QED
    BY <2>6, <2>7
<1>2. CASE ~PushWorkload
  BY <1>2 DEF PushInv, PushedOnce
<1> QED
  BY <1>1, <1>2

\* No push is refused, for any trees, stores and senders, however their
\* sessions interleave and break (sender.rs push; receiver.rs handle).
THEOREM PushNeverRefusedTheorem == Spec => []PushNeverRefused
<1>1. Init => PushInv
  BY PushInitial
<1>2. PushInv /\ [Next]_<<transferVars, signInVars, hostingVars, workload>> => PushInv'
  BY PushPreserved
<1>3. PushInv => PushNeverRefused
  BY InvRefusesNothing
<1> QED
  BY <1>1, <1>2, <1>3, PTL DEF Spec

\* What push returned is what the World holds, although a Publish may have
\* been decided in a session whose answer was lost (repository.rs advance_in).
THEOREM PushedOnceTheorem == Spec => []PushedOnce
<1>1. Init => PushInv
  BY PushInitial
<1>2. PushInv /\ [Next]_<<transferVars, signInVars, hostingVars, workload>> => PushInv'
  BY PushPreserved
<1>3. PushInv => PushedOnce
  BY InvPushedOnce
<1> QED
  BY <1>1, <1>2, <1>3, PTL DEF Spec

-----------------------------------------------------------------------------
(* The closure of a tree.                                                  *)

\* Every set of naturals has a least element.
LEMMA LeastNumber ==
    ASSUME NEW S \in SUBSET Nat, S # {}
    PROVE  \E n \in S : \A m \in S : n <= m
<1> DEFINE R == OpToRel(<, Nat)
<1>1. IsWellFoundedOn(R, Nat)
  BY NatLessThanWellFounded
<1>2. PICK n \in S : \A m \in S : ~(<<m, n>> \in R)
  <2> HIDE DEF R
  <2> QED BY <1>1, WFMin
<1>3. \A m \in S : ~(m < n)
  BY <1>2 DEF OpToRel
<1> QED BY <1>3

\* One more level of the walk.
Widen(S, prefix) == S \cup ((UNION {Below(o) : o \in S}) \cap prefix)

Levels(f, from, prefix, k) ==
    f = [n \in 0..k |-> IF n = 0 THEN from ELSE Widen(f[n - 1], prefix)]

\* The levels, one by one.
LEMMA LevelAt ==
    ASSUME NEW f, NEW from, NEW prefix, NEW k \in Nat, Levels(f, from, prefix, k)
    PROVE  /\ f[0] = from
           /\ \A n \in 1..k : f[n] = Widen(f[n - 1], prefix)
BY DEF Levels

\* The levels' equation has a solution.
LEMMA LevelsExist ==
    ASSUME NEW from, NEW prefix, NEW k \in Nat
    PROVE  \E f : Levels(f, from, prefix, k)
<1> DEFINE Bad == {n \in Nat : ~\E f : Levels(f, from, prefix, n)}
<1>1. SUFFICES ASSUME Bad # {} PROVE FALSE
  OBVIOUS
<1>2. PICK n \in Bad : \A m \in Bad : n <= m
  BY <1>1, LeastNumber
<1>3. n # 0
  <2>1. Levels([i \in 0..0 |-> from], from, prefix, 0)
    BY DEF Levels
  <2> QED BY <1>2, <2>1
<1>4. n - 1 \in Nat /\ n - 1 \notin Bad
  BY <1>2, <1>3
<1>5. PICK f : Levels(f, from, prefix, n - 1)
  BY <1>4
<1> DEFINE g == [i \in 0..n |-> IF i = n THEN Widen(f[n - 1], prefix) ELSE f[i]]
<1>6. ASSUME NEW i \in 0..n
      PROVE  g[i] = IF i = 0 THEN from ELSE Widen(g[i - 1], prefix)
  <2>1. f[0] = from /\ \A m \in 1..(n - 1) : f[m] = Widen(f[m - 1], prefix)
    BY <1>4, <1>5, LevelAt
  <2>2. CASE i = n
    BY <1>3, <1>4, <2>2
  <2>3. CASE i # n
    BY <2>1, <2>3
  <2> QED BY <2>2, <2>3
<1>7. g = [i \in 0..n |-> IF i = 0 THEN from ELSE Widen(g[i - 1], prefix)]
  BY <1>6
<1>8. Levels(g, from, prefix, n)
  <2> HIDE DEF g
  <2> QED BY <1>7 DEF Levels
<1> QED BY <1>2, <1>8

\* Reach is the last of its levels.
LEMMA ReachLevels ==
    ASSUME NEW from, NEW prefix
    PROVE  \E f : /\ Levels(f, from, prefix, Cardinality(Chunks))
                  /\ Reach(from, prefix) = f[Cardinality(Chunks)]
<1>1. Cardinality(Chunks) \in Nat
  BY TransferAssumption, FS_CardinalityType
<1> DEFINE f == CHOOSE f : Levels(f, from, prefix, Cardinality(Chunks))
<1>2. Levels(f, from, prefix, Cardinality(Chunks))
  BY <1>1, LevelsExist
<1>3. Reach(from, prefix) = f[Cardinality(Chunks)]
  BY DEF Reach, Levels, Widen
<1> QED BY <1>2, <1>3

\* A set that is closed under what chunks name holds all that is reached.
LEMMA ReachWithin ==
    ASSUME NEW from, NEW prefix, NEW C, from \subseteq C,
           \A o \in C : Below(o) \cap prefix \subseteq C
    PROVE  Reach(from, prefix) \subseteq C
<1> DEFINE N == Cardinality(Chunks)
<1>1. N \in Nat
  BY TransferAssumption, FS_CardinalityType
<1>2. PICK f : Levels(f, from, prefix, N) /\ Reach(from, prefix) = f[N]
  BY ReachLevels
<1> HIDE DEF N
<1>3. f[0] = from /\ \A n \in 1..N : f[n] = Widen(f[n - 1], prefix)
  BY <1>1, <1>2, LevelAt
<1> DEFINE Bad == {n \in 0..N : ~(f[n] \subseteq C)}
<1>4. SUFFICES ASSUME Bad # {} PROVE FALSE
  BY <1>1, <1>2
<1>5. PICK n \in Bad : \A m \in Bad : n <= m
  <2>1. Bad \in SUBSET Nat
    BY <1>1
  <2> QED BY <1>4, <2>1, LeastNumber
<1>6. n # 0
  BY <1>3, <1>5
<1>7. n \in 1..N /\ n - 1 \in 0..N /\ n - 1 \notin Bad
  BY <1>1, <1>5, <1>6
<1>8. f[n - 1] \subseteq C /\ f[n] = Widen(f[n - 1], prefix)
  BY <1>3, <1>7
<1>9. f[n] \subseteq C
  BY <1>8 DEF Widen
<1> QED BY <1>5, <1>9

\* A tree's closure is closed: with each chunk it has all the chunk names.
\* There are no more levels than chunks, because a level that adds no chunk
\* is the last one.
LEMMA ReachClosed ==
    ASSUME NEW tree \in Chunks
    PROVE  LET all == Reach({tree}, Objects)
           IN  /\ tree \in all
               /\ all \subseteq Objects
               /\ \A o \in all : Below(o) \subseteq all
<1> DEFINE N == Cardinality(Chunks)
<1>1. N \in Nat
  BY TransferAssumption, FS_CardinalityType
<1>2. PICK f : Levels(f, {tree}, Objects, N) /\ Reach({tree}, Objects) = f[N]
  BY ReachLevels
<1> HIDE DEF N
<1>3. f[0] = {tree} /\ \A n \in 1..N : f[n] = Widen(f[n - 1], Objects)
  BY <1>1, <1>2, LevelAt
<1>4. ASSUME NEW o PROVE Below(o) \subseteq Objects
  BY TransferAssumption DEF Below, Objects
<1> DEFINE Closed(n) == \A o \in f[n] : Below(o) \subseteq f[n]
           Kept(n) == tree \in f[n] /\ f[n] \subseteq Objects
           Full(n) == Closed(n) \/ Cardinality(f[n] \cap Chunks) >= n + 1
<1>5. ASSUME NEW S PROVE IsFiniteSet(S \cap Chunks) /\ Cardinality(S \cap Chunks) \in Nat
  BY TransferAssumption, FS_Intersection, FS_CardinalityType
<1>6. Kept(0) /\ Full(0)
  <2>1. {tree} \cap Chunks = {tree}
    OBVIOUS
  <2>2. Cardinality(f[0] \cap Chunks) = 1
    BY <1>3, <2>1, FS_Singleton
  <2> QED BY <1>3, <2>2 DEF Objects
<1>7. ASSUME NEW n \in 1..N, Kept(n - 1), Full(n - 1)
      PROVE  Kept(n) /\ Full(n)
  <2>1. f[n] = Widen(f[n - 1], Objects)
    BY <1>3
  <2>2. f[n - 1] \subseteq f[n] /\ f[n] \subseteq Objects
    BY <1>7, <2>1 DEF Widen
  <2>3. ASSUME NEW o \in f[n - 1] PROVE Below(o) \subseteq f[n]
    BY <1>4, <2>1 DEF Widen
  <2>4. CASE Closed(n - 1)
    <3>1. f[n] = f[n - 1]
      BY <2>1, <2>2, <2>4 DEF Widen
    <3> QED BY <1>7, <2>4, <3>1
  <2>5. CASE f[n] \cap Chunks = f[n - 1] \cap Chunks
    <3>1. ASSUME NEW o \in f[n] PROVE Below(o) \subseteq f[n]
      <4>1. CASE o \in Chunks
        BY <2>3, <2>5, <4>1
      <4>2. CASE o \notin Chunks
        BY <4>2 DEF Below
      <4> QED BY <4>1, <4>2
    <3> QED BY <1>7, <2>2, <3>1
  <2>6. CASE ~Closed(n - 1) /\ f[n] \cap Chunks # f[n - 1] \cap Chunks
    <3>1. f[n - 1] \cap Chunks \in SUBSET (f[n] \cap Chunks)
      BY <2>2
    <3>2. /\ Cardinality(f[n - 1] \cap Chunks) <= Cardinality(f[n] \cap Chunks)
          /\ Cardinality(f[n - 1] \cap Chunks) # Cardinality(f[n] \cap Chunks)
      BY <1>5, <2>6, <3>1, FS_Subset
    <3>3. Cardinality(f[n - 1] \cap Chunks) >= (n - 1) + 1
      BY <1>7, <2>6
    <3>4. Cardinality(f[n] \cap Chunks) >= n + 1
      <4>1. Cardinality(f[n] \cap Chunks) \in Nat /\ Cardinality(f[n - 1] \cap Chunks) \in Nat
        BY <1>5
      <4> QED BY <3>2, <3>3, <4>1
    <3> QED BY <1>7, <2>2, <3>4
  <2> QED BY <2>4, <2>5, <2>6
<1>8. Kept(N) /\ Full(N)
  <2> DEFINE Bad == {n \in 0..N : ~(Kept(n) /\ Full(n))}
  <2>1. SUFFICES ASSUME Bad # {} PROVE FALSE
    <3> HIDE DEF Kept, Full
    <3> QED BY <1>1
  <2>2. PICK n \in Bad : \A m \in Bad : n <= m
    <3>1. Bad \in SUBSET Nat
      BY <1>1
    <3> HIDE DEF Bad
    <3> QED BY <2>1, <3>1, LeastNumber
  <2> HIDE DEF Kept, Full
  <2>3. n # 0
    BY <1>6, <2>2
  <2>4. n \in 1..N /\ n - 1 \in 0..N /\ n - 1 \notin Bad
    BY <1>1, <2>2, <2>3
  <2> QED BY <1>7, <2>2, <2>4
<1>9. ~(Cardinality(f[N] \cap Chunks) >= N + 1)
  <2>1. f[N] \cap Chunks \in SUBSET Chunks
    OBVIOUS
  <2>2. Cardinality(f[N] \cap Chunks) <= N
    BY <2>1, TransferAssumption, FS_Subset DEF N
  <2>3. Cardinality(f[N] \cap Chunks) \in Nat
    BY <1>5
  <2> QED BY <1>1, <2>2, <2>3
<1> QED BY <1>2, <1>8, <1>9

-----------------------------------------------------------------------------
(* Fetches.                                                                *)

\* The chunks V are behind the walk: they are held, and what they name is
\* behind it too, on the level that is read now, or among the blobs to get.
Walked(f, V) ==
    /\ fetch[f].version.tree \in V \cup fetch[f].pending
    /\ V \subseteq held[f]
    /\ \A c \in V : /\ Follow(f, c) \cap Chunks \subseteq V \cup fetch[f].pending
                    /\ Follow(f, c) \cap Blobs \subseteq fetch[f].blobs

\* A fetch under way.  What is held from earlier fetches does not matter.
WalkOK(f) ==
    /\ DOMAIN fetch[f] = DOMAIN NoFetch
    /\ fetch[f].at \in {"idle", "verify", "trees", "blobs", "returned"}
    /\ fetch[f].at # "idle" =>
        /\ fetch[f].pending \subseteq Chunks
        /\ fetch[f].blobs \subseteq Blobs
        /\ \E V \in SUBSET Chunks : Walked(f, V)
        /\ fetch[f].at \in {"blobs", "returned"} => fetch[f].pending = {}
        /\ fetch[f].at = "returned" => fetch[f].blobs \subseteq held[f]

FetchInv ==
    /\ DOMAIN fetch = Fetchers /\ DOMAIN held = Fetchers
    /\ \A f \in Fetchers : WalkOK(f)

\* The fetch invariant holds at first.
LEMMA FetchInitial ==
    ASSUME Init
    PROVE  FetchInv
BY DEF Init, TransferInit, FetchInv, WalkOK, NoFetch

\* Another fetch, and a push, leave a fetch where it is.
LEMMA OtherFetch ==
    ASSUME FetchInv, NEW f \in Fetchers, fetch'[f] = fetch[f], held'[f] = held[f]
    PROVE  WalkOK(f)'
BY DEF FetchInv, WalkOK, Walked, Follow

\* A walk keeps its place while more objects arrive or it moves on.
LEMMA SameWalk ==
    ASSUME FetchInv, NEW f \in Fetchers,
           DOMAIN fetch'[f] = DOMAIN fetch[f],
           fetch'[f].version = fetch[f].version, fetch'[f].prefix = fetch[f].prefix,
           fetch'[f].pending = fetch[f].pending, fetch'[f].blobs = fetch[f].blobs,
           fetch[f].at # "idle", held[f] \subseteq held'[f],
           \/ fetch'[f].at = fetch[f].at
           \/ fetch'[f].at = "trees"
           \/ fetch'[f].at = "returned" /\ fetch[f].at = "blobs"
              /\ fetch[f].blobs \subseteq held[f]
    PROVE  WalkOK(f)'
<1>1. WalkOK(f)
  BY DEF FetchInv
<1>2. PICK V \in SUBSET Chunks : Walked(f, V)
  BY <1>1 DEF WalkOK
<1>3. Walked(f, V)'
  BY <1>2 DEF Walked, Follow
<1> QED BY <1>1, <1>3 DEF WalkOK

\* FetchBegin keeps the fetch invariant: nothing is walked yet.
LEMMA FetchBeginKeeps ==
    ASSUME PushOK, FetchInv, NEW f \in Fetchers, NEW r \in Stores, FetchBegin(f, r)
    PROVE  FetchInv'
<1>1. PICK n \in 0..HeadNumber(r), p \in Prefixes :
        fetch' = [fetch EXCEPT ![f] =
              [at |-> "verify", count |-> fetch[f].count + 1, store |-> r,
               version |-> Resolved(r, n), prefix |-> p,
               pending |-> {Root(r, n)}, blobs |-> {}]]
  BY DEF FetchBegin
<1>2. held' = held
  BY DEF FetchBegin
<1>3. Root(r, n) \in Chunks
  <2>1. world[r] \in Seq(Versions)
    BY DEF PushOK, PushTypes
  <2>2. n # 0 => world[r][n] \in Versions
    BY <2>1 DEF HeadNumber
  <2> QED BY <2>2, TransferAssumption DEF Root, Versions
<1>4. fetch'[f] = [at |-> "verify", count |-> fetch[f].count + 1, store |-> r,
               version |-> Resolved(r, n), prefix |-> p,
               pending |-> {Root(r, n)}, blobs |-> {}]
  BY <1>1 DEF FetchInv
<1>5. Walked(f, {})'
  BY <1>4 DEF Walked, Resolved
<1>6. WalkOK(f)'
  <2>1. \E V \in SUBSET Chunks : Walked(f, V)'
    BY <1>5
  <2> QED BY <1>3, <1>4, <2>1 DEF WalkOK, NoFetch
<1>7. ASSUME NEW g \in Fetchers, g # f PROVE WalkOK(g)'
  BY <1>1, <1>2, <1>7, OtherFetch DEF FetchInv
<1> QED BY <1>1, <1>2, <1>6, <1>7 DEF FetchInv

\* FetchVerify keeps the fetch invariant.
LEMMA FetchVerifyKeeps ==
    ASSUME FetchInv, NEW f \in Fetchers, FetchVerify(f)
    PROVE  FetchInv'
<1>1. fetch' = [fetch EXCEPT ![f].at = "trees"] /\ held' = held /\ fetch[f].at = "verify"
  BY DEF FetchVerify
<1>2. WalkOK(f)'
  BY <1>1, SameWalk DEF FetchInv, WalkOK, NoFetch
<1>3. ASSUME NEW g \in Fetchers, g # f PROVE WalkOK(g)'
  BY <1>1, <1>3, OtherFetch DEF FetchInv
<1> QED BY <1>1, <1>2, <1>3 DEF FetchInv

\* FetchObject keeps the fetch invariant: what is held only grows.
LEMMA FetchObjectKeeps ==
    ASSUME FetchInv, NEW f \in Fetchers, FetchObject(f)
    PROVE  FetchInv'
<1>1. PICK o : held' = [held EXCEPT ![f] = held[f] \cup {o}]
  BY DEF FetchObject
<1>2. fetch' = fetch /\ fetch[f].at # "idle"
  BY DEF FetchObject
<1>3. WalkOK(f)'
  BY <1>1, <1>2, SameWalk DEF FetchInv
<1>4. ASSUME NEW g \in Fetchers, g # f PROVE WalkOK(g)'
  BY <1>1, <1>2, <1>4, OtherFetch DEF FetchInv
<1> QED BY <1>1, <1>2, <1>3, <1>4 DEF FetchInv

\* A level that is held falls behind the walk, and what it names is next.
LEMMA FetchLevelKeeps ==
    ASSUME FetchInv, NEW f \in Fetchers, FetchLevel(f)
    PROVE  FetchInv'
<1> DEFINE next == Deeper(f) \cap Chunks
<1>1. /\ fetch[f].at = "trees"
      /\ fetch[f].pending \subseteq held[f]
      /\ fetch' = [fetch EXCEPT ![f].pending = next,
                                ![f].blobs = fetch[f].blobs \cup (Deeper(f) \cap Blobs),
                                ![f].at = IF next = {} THEN "blobs" ELSE "trees"]
      /\ held' = held
  BY DEF FetchLevel
<1>2. WalkOK(f)
  BY DEF FetchInv
<1>3. PICK V \in SUBSET Chunks : Walked(f, V)
  BY <1>1, <1>2 DEF WalkOK
<1>4. /\ DOMAIN fetch'[f] = DOMAIN NoFetch
      /\ fetch'[f].at = IF next = {} THEN "blobs" ELSE "trees"
      /\ fetch'[f].pending = next
      /\ fetch'[f].blobs = fetch[f].blobs \cup (Deeper(f) \cap Blobs)
      /\ fetch'[f].version = fetch[f].version
      /\ fetch'[f].prefix = fetch[f].prefix
  BY <1>1, <1>2 DEF FetchInv, WalkOK, NoFetch
<1> HIDE DEF next
<1>5. PICK U : U = V \cup fetch[f].pending
  OBVIOUS
<1>6. Walked(f, U)'
  <2>1. /\ fetch[f].version.tree \in U
        /\ U \subseteq held'[f]
    BY <1>1, <1>3, <1>5 DEF Walked
  <2>2. ASSUME NEW c \in U
        PROVE  /\ Follow(f, c)' \cap Chunks \subseteq U \cup next
               /\ Follow(f, c)' \cap Blobs \subseteq fetch'[f].blobs
    <3>1. Follow(f, c)' = Follow(f, c)
      BY <1>4 DEF Follow
    <3>2. CASE c \in V
      BY <1>3, <1>4, <1>5, <3>1, <3>2 DEF Walked
    <3>3. CASE c \in fetch[f].pending
      <4>1. Follow(f, c) \subseteq Deeper(f)
        BY <3>3 DEF Deeper
      <4> QED BY <1>4, <3>1, <4>1 DEF next
    <3> QED BY <1>5, <2>2, <3>2, <3>3
  <2> QED BY <1>4, <2>1, <2>2 DEF Walked
<1>7. WalkOK(f)'
  <2>1. U \in SUBSET Chunks
    BY <1>1, <1>2, <1>5 DEF WalkOK
  <2>2. \E X \in SUBSET Chunks : Walked(f, X)'
    BY <1>6, <2>1
  <2>3. /\ fetch'[f].pending \subseteq Chunks
        /\ fetch'[f].blobs \subseteq Blobs
    BY <1>1, <1>2, <1>4 DEF WalkOK, next
  <2> QED BY <1>4, <2>2, <2>3 DEF WalkOK
<1>8. ASSUME NEW g \in Fetchers, g # f PROVE WalkOK(g)'
  BY <1>1, <1>8, OtherFetch DEF FetchInv
<1> QED BY <1>1, <1>7, <1>8 DEF FetchInv

\* FetchReturn keeps the fetch invariant.
LEMMA FetchReturnKeeps ==
    ASSUME FetchInv, NEW f \in Fetchers, FetchReturn(f)
    PROVE  FetchInv'
<1>1. /\ fetch' = [fetch EXCEPT ![f].at = "returned"] /\ held' = held
      /\ fetch[f].at = "blobs" /\ fetch[f].blobs \subseteq held[f]
  BY DEF FetchReturn
<1>2. WalkOK(f)'
  <2>1. /\ DOMAIN fetch'[f] = DOMAIN fetch[f]
        /\ fetch'[f].at = "returned"
        /\ fetch'[f].version = fetch[f].version
        /\ fetch'[f].prefix = fetch[f].prefix
        /\ fetch'[f].pending = fetch[f].pending
        /\ fetch'[f].blobs = fetch[f].blobs
    BY <1>1 DEF FetchInv, WalkOK, NoFetch
  <2> QED BY <1>1, <2>1, SameWalk
<1>3. ASSUME NEW g \in Fetchers, g # f PROVE WalkOK(g)'
  BY <1>1, <1>3, OtherFetch DEF FetchInv
<1> QED BY <1>1, <1>2, <1>3 DEF FetchInv

\* FetchEnd keeps the fetch invariant.
LEMMA FetchEndKeeps ==
    ASSUME FetchInv, NEW f \in Fetchers, FetchEnd(f)
    PROVE  FetchInv'
<1>1. /\ fetch' = [fetch EXCEPT ![f] = [NoFetch EXCEPT !.count = fetch[f].count]]
      /\ held' = held
  BY DEF FetchEnd
<1>2. WalkOK(f)'
  BY <1>1 DEF FetchInv, WalkOK, NoFetch
<1>3. ASSUME NEW g \in Fetchers, g # f PROVE WalkOK(g)'
  BY <1>1, <1>3, OtherFetch DEF FetchInv
<1> QED BY <1>1, <1>2, <1>3 DEF FetchInv

\* Only fetches touch what fetches keep.
LEMMA FetchSteps ==
    ASSUME Next
    PROVE  \/ UNCHANGED fetchVars
           \/ workload = "fetch" /\ \E f \in Fetchers : FetchNext(f)
<1>1. ASSUME NEW s \in Senders, PushNext(s)
      PROVE  UNCHANGED fetchVars
  BY <1>1 DEF PushNext, SessionNext, PushBegin, Offer, SendBatch, Store, Taken,
     Publish, Return, Break, LateStore
<1>2. CASE UNCHANGED <<transferVars, hostingVars>>
  BY <1>2 DEF transferVars
<1>3. ASSUME NEW c \in Calls, CreateNext(c)
      PROVE  UNCHANGED fetchVars
  BY <1>3 DEF CreateNext, Reserve, Provision, Apply, MarkReady, CallEnds, transferVars
<1>4. ASSUME NEW c \in Calls, ForkNext(c)
      PROVE  UNCHANGED fetchVars
  BY <1>4 DEF ForkNext, Reserve, ForkOpen, ForkBusy, CopyObject, CopyVersion,
     TracesBegin, TraceNote, TracePlace, TraceMark, ForkFinish, transferVars
<1>5. ASSUME NEW r \in Stores, NodeNext(r)
      PROVE  UNCHANGED fetchVars
  BY <1>5 DEF NodeNext, Serve, StopServing, HostRecord, HostPublish, RestrictTrace,
     transferVars
<1>6. \A s \in Senders : SessionNext(s) => PushNext(s)
  BY DEF PushNext
<1> QED
  BY <1>1, <1>2, <1>3, <1>4, <1>5, <1>6, Zenon DEF Next

\* Every step keeps the fetch invariant.
LEMMA FetchPreserved ==
    ASSUME PushInv, FetchInv,
           [Next]_<<transferVars, signInVars, hostingVars, workload>>
    PROVE  FetchInv'
<1>1. CASE UNCHANGED fetchVars
  <2>1. fetch' = fetch /\ held' = held
    BY <1>1 DEF fetchVars
  <2> QED BY <2>1, OtherFetch DEF FetchInv
<1>2. ASSUME NEW f \in Fetchers, workload = "fetch", FetchNext(f)
      PROVE  FetchInv'
  <2>1. PushOK
    BY <1>2 DEF PushInv, PushWorkload
  <2> QED
    BY <1>2, <2>1, FetchBeginKeeps, FetchVerifyKeeps, FetchObjectKeeps,
       FetchLevelKeeps, FetchReturnKeeps, FetchEndKeeps DEF FetchNext
<1>3. CASE UNCHANGED <<transferVars, signInVars, hostingVars, workload>>
  BY <1>1, <1>3 DEF transferVars
<1> QED BY <1>1, <1>2, <1>3, FetchSteps

\* A walk that is over has everything the closure has.
LEMMA InvFetchComplete ==
    ASSUME FetchInv
    PROVE  FetchComplete
<1>1. ASSUME NEW f \in Fetchers, fetch[f].at = "returned"
      PROVE  Reach({fetch[f].version.tree}, fetch[f].prefix) \subseteq held[f]
  <2>1. WalkOK(f)
    BY DEF FetchInv
  <2>2. PICK V \in SUBSET Chunks : Walked(f, V)
    BY <1>1, <2>1 DEF WalkOK
  <2>3. PICK C : C = V \cup fetch[f].blobs
    OBVIOUS
  <2>4. PICK from, p : from = {fetch[f].version.tree} /\ p = fetch[f].prefix
    OBVIOUS
  <2>5. fetch[f].pending = {} /\ fetch[f].blobs \subseteq Blobs
        /\ fetch[f].blobs \subseteq held[f]
    BY <1>1, <2>1 DEF WalkOK
  <2>6. from \subseteq C /\ C \subseteq held[f]
    BY <2>2, <2>3, <2>4, <2>5 DEF Walked
  <2>7. ASSUME NEW o \in C PROVE Below(o) \cap p \subseteq C
    <3>1. CASE o \in V
      <4>1. Follow(f, o) \subseteq Chunks \cup Blobs
        BY <3>1, TransferAssumption DEF Follow, Below
      <4> QED BY <2>2, <2>3, <2>4, <2>5, <3>1, <4>1 DEF Walked, Follow
    <3>2. CASE o \in fetch[f].blobs
      BY <2>5, <3>2, TransferAssumption DEF Below
    <3> QED BY <2>3, <3>1, <3>2
  <2>8. Reach(from, p) \subseteq C
    BY <2>6, <2>7, ReachWithin
  <2> QED BY <2>4, <2>6, <2>8
<1> QED BY <1>1 DEF FetchComplete

\* A fetch that returned is complete, for any trees, prefixes and earlier
\* fetches that were cut off (fetch.rs fetch, walk).
THEOREM FetchCompleteTheorem == Spec => []FetchComplete
<1>1. Init => PushInv /\ FetchInv
  BY PushInitial, FetchInitial
<1>2. PushInv /\ FetchInv /\ [Next]_<<transferVars, signInVars, hostingVars, workload>>
        => PushInv' /\ FetchInv'
  BY PushPreserved, FetchPreserved
<1>3. FetchInv => FetchComplete
  BY InvFetchComplete
<1> QED
  BY <1>1, <1>2, <1>3, PTL DEF Spec

-----------------------------------------------------------------------------
(* Hosted repositories.                                                    *)

HostWorkload == workload \in {"host", "signin"}

Writing == {"copy", "traces", "place", "mark_trace"}

ForkStages == Writing \cup {"open"}

CallRecords ==
    [at : {"idle", "provision", "apply", "mark", "done"} \cup ForkStages,
     request : Requests \cup {None}, id : Stores \cup {None},
     source : Stores \cup {None}, reader : {"maintain", "read", "none", None},
     ready : BOOLEAN, todo : SUBSET TraceNotes, trace : Traces \cup {None}]

HostVersions == [tree : Chunks, operation : {"publish", "fork"} \X Nat]

HostTypes ==
    /\ stored \in [Stores -> SUBSET Objects]
    /\ world \in [Stores -> Seq(HostVersions)]
    /\ repos \in [Stores -> RepositoryRecords \cup {None}]
    /\ provisioned \subseteq Stores
    /\ DOMAIN perms = Stores
    /\ lock \in [Stores -> Calls \cup {None, Server}]
    /\ decided \in [Stores -> SUBSET TraceNotes]
    /\ unrecorded \in [Stores ->
          [trace : Traces \cup {None}, number : Nat] \cup {None}]
    /\ inherited \in [Stores -> SUBSET TraceNotes]
    /\ omitted \in [Stores -> SUBSET Traces]
    /\ restricted \in [Stores -> SUBSET Traces]
    /\ origin \in [Stores -> ForkOrigins \cup {None}]
    /\ call \in [Calls -> CallRecords]
    /\ due \in [Stores -> [traces : SUBSET TraceNotes, secret : SUBSET Traces,
                           reader : {"maintain", "read", "none"}] \cup {None}]

\* One name and one operation, one repository.
NamesOK ==
    \A r, t \in Known :
        repos[r].name = repos[t].name \/ repos[r].operation = repos[t].operation
            => r = t

\* What the state file says of a repository and what its node has.
RecordOK(r) ==
    /\ perms[r] \in {None, Initial(r)}
    /\ repos[r].fork # None =>
          /\ repos[r].fork.source \in Known \ {r}
          /\ repos[repos[r].fork.source].phase = "ready"
    /\ repos[r].phase = "ready" =>
          r \in provisioned /\ perms[r] = Initial(r) /\ origin[r] = repos[r].fork
    /\ repos[r].phase # "ready" => unrecorded[r] = None
    /\ origin[r] # None => origin[r] = repos[r].fork /\ due[r] # None
    /\ due[r] # None => repos[r].fork # None
    /\ due[r] = None => inherited[r] = {}
    /\ due[r] = None /\ repos[r].fork # None => stored[r] \cap Traces = {}

\* A directory no repository was reserved for is new.
UntouchedOK(r) ==
    /\ stored[r] \cap Traces = {} /\ inherited[r] = {}
    /\ perms[r] = None /\ origin[r] = None /\ due[r] = None
    /\ unrecorded[r] = None

\* A store is closed, and has the trees of its versions; a trace's version is
\* one the store has, and only the newest may be missing from node.db.
StoreOK(r) ==
    /\ \A o \in stored[r] : Below(o) \subseteq stored[r]
    /\ \A k \in 1..HeadNumber(r) : Root(r, k) \in stored[r]
    /\ \A d \in decided[r] \cup inherited[r] : d.number <= HeadNumber(r)
    /\ unrecorded[r] # None => unrecorded[r].number = HeadNumber(r)
    /\ lock[r] = Server => r \in Known /\ repos[r].phase = "ready"

\* The role the creator of a fork has in its source.
ForkReader(r) ==
    LET s == repos[r].fork.source
    IN  IF repos[s].creator = repos[r].creator THEN "maintain"
        ELSE IF repos[s].public THEN "read" ELSE "none"

ForkTraces(r) == InheritedTraces(repos[r].fork.source, repos[r].fork.number)

\* A tree of the versions a fork is to copy names the object.
ToCopy(r, t) ==
    LET s == repos[r].fork.source
    IN  /\ repos[r].fork # None
        /\ \E k \in 1..repos[r].fork.number :
              k <= HeadNumber(s) /\ t \in Reach({Root(s, k)}, Objects)

\* A trace's bytes came with something else than the fork's copy of it.
Placed(r, t) == PublishedHere(r, t) \/ InTree(r, t) \/ ToCopy(r, t)

\* What a fork was first to copy is still to be copied, and what was to be
\* kept from its reader was.
DueOK(r) ==
    due[r] # None =>
        /\ due[r].traces \subseteq ForkTraces(r)
        /\ inherited[r] \subseteq ForkTraces(r)
        /\ due[r].secret \subseteq restricted[repos[r].fork.source]
        /\ due[r].reader = ForkReader(r)
        /\ due[r].reader # "maintain" =>
              \A t \in due[r].secret \cap stored[r] : Placed(r, t)

\* A call works for the repository its request names.
CallFits(b) ==
    LET q == b.request
        r == b.id
    IN  b.at # "idle" =>
          /\ q \in Requests
          /\ r \in Known
          /\ repos[r].name = q.name
          /\ repos[r].operation = q.operation
          /\ b.ready => repos[r].phase = "ready"
          /\ b.at # "provision" => r \in provisioned
          /\ b.at = "mark" => perms[r] = Initial(r)
          /\ b.at = "done" => repos[r].phase = "ready"
          /\ q.kind = "create" => repos[r].fork = None /\ b.at \notin ForkStages
          /\ q.kind = "fork" =>
                /\ b.source \in Known
                /\ repos[r].fork = [source |-> b.source, number |-> q.at]
                /\ b.reader = ForkReader(r)
          /\ b.at \in {"apply", "mark"} => origin[r] = repos[r].fork

CallOK(c) == CallFits(call[c])

\* A fork that is written: both directories are its own, and its versions are
\* the source's.
CopyOK(c) ==
    LET r == call[c].id
        s == call[c].source
    IN  call[c].at \in Writing =>
          /\ lock[r] = c /\ lock[s] = c
          /\ origin[r] = None
          /\ due[r] # None
          /\ call[c].request.at <= HeadNumber(s)
          /\ HeadNumber(r) <= HeadNumber(s)
          /\ \A k \in 1..HeadNumber(r) : Root(r, k) = Root(s, k)

\* The trace has its place in the fork.
Settled(c, t) ==
    LET r == call[c].id
    IN  \/ t \in omitted[r]
        \/ /\ t \in stored[r]
           /\ ~Withheld(c, t)
           /\ t \in restricted[call[c].source] => t \in restricted[r]

\* Every trace of the source is still to come, in hand, or settled.
TracesOK(c) ==
    LET r == call[c].id
    IN  call[c].at \in Writing \ {"copy"} =>
          /\ call[c].request.at <= HeadNumber(r)
          /\ call[c].todo \subseteq ForkTraces(r)
          /\ call[c].at # "traces" => call[c].trace \in Traces
          /\ call[c].at = "mark_trace" =>
                call[c].trace \in stored[r] /\ ~Withheld(c, call[c].trace)
          /\ \A d \in ForkTraces(r) :
                \/ d \in call[c].todo
                \/ /\ d \in inherited[r]
                   /\ \/ call[c].at # "traces" /\ d.trace = call[c].trace
                      \/ Settled(c, d.trace)

\* A finished fork.
ForkOK(r) ==
    origin[r] # None =>
        LET s == origin[r].source
            n == origin[r].number
        IN  /\ n <= HeadNumber(r) /\ n <= HeadNumber(s)
            /\ \A k \in 1..n : Root(r, k) = Root(s, k)
            /\ \A d \in due[r].traces :
                /\ d \in inherited[r]
                /\ d.trace \in omitted[r] \cup stored[r]
                /\ d.trace \in due[r].secret =>
                    IF due[r].reader = "maintain"
                    THEN d.trace \in omitted[r] \cup restricted[r]
                    ELSE d.trace \in omitted[r]

HostOK ==
    /\ HostTypes
    /\ NamesOK
    /\ \A r \in Stores : IF r \in Known THEN RecordOK(r) ELSE UntouchedOK(r)
    /\ \A r \in Stores : StoreOK(r)
    /\ \A r \in Known : DueOK(r)
    /\ \A r \in Stores : ForkOK(r)
    /\ \A c \in Calls : CallOK(c) /\ CopyOK(c) /\ TracesOK(c)

HostInv ==
    IF HostWorkload THEN HostOK
    ELSE /\ repos = [r \in Stores |-> None]
         /\ origin = [r \in Stores |-> None]
         /\ call = [c \in Calls |-> Idle]

-----------------------------------------------------------------------------
(* Facts of one state.                                                     *)

\* The invariant of hosted repositories holds at first.
LEMMA HostInitial ==
    ASSUME Init
    PROVE  HostInv
<1>1. CASE ~HostWorkload
  BY <1>1 DEF Init, HostingInit, HostInv
<1>2. CASE HostWorkload
  <2>1. /\ stored = [r \in Stores |-> {Empty}] /\ world = [r \in Stores |-> << >>]
        /\ repos = [r \in Stores |-> None] /\ call = [c \in Calls |-> Idle]
    BY DEF Init, HostingInit, TransferInit
  <2>2. HostTypes
    <3>1. Idle \in CallRecords
      BY DEF Idle, CallRecords
    <3>2. world \in [Stores -> Seq(HostVersions)]
      BY <2>1
    <3> QED
      BY <2>1, <3>1, <3>2, TransferAssumption DEF Init, HostingInit, HostTypes, Objects
  <2>3. Known = {}
    BY <2>1 DEF Known
  <2>4. \A c \in Calls : CallOK(c) /\ CopyOK(c) /\ TracesOK(c)
    BY <2>1 DEF Idle, CallOK, CallFits, CopyOK, TracesOK, Writing
  <2>5. ASSUME NEW r \in Stores
        PROVE  UntouchedOK(r) /\ StoreOK(r) /\ ForkOK(r)
    <3>1. stored[r] = {Empty} /\ world[r] = << >>
      BY <2>1
    <3>2. Below(Empty) = {} /\ Empty \notin Traces
      BY TransferAssumption, HostingAssumption DEF Below
    <3>3. Len(world[r]) = 0
      BY <3>1
    <3>4. /\ lock[r] = None /\ decided[r] = {} /\ unrecorded[r] = None
          /\ inherited[r] = {} /\ perms[r] = None /\ origin[r] = None /\ due[r] = None
      BY DEF Init, HostingInit
    <3> QED
      BY <3>1, <3>2, <3>3, <3>4, NoneAssumption
         DEF UntouchedOK, StoreOK, ForkOK, HeadNumber, Server
  <2> QED
    BY <1>2, <2>2, <2>3, <2>4, <2>5 DEF HostInv, HostOK, NamesOK
<1> QED BY <1>1, <1>2

\* A known repository has a record.
LEMMA KnownRecord ==
    ASSUME HostTypes, NEW r \in Known
    PROVE  /\ r \in Stores
           /\ repos[r] \in RepositoryRecords
           /\ repos[r].fork # None => repos[r].fork \in ForkOrigins
BY DEF HostTypes, Known, RepositoryRecords

\* A fork's source is another repository, and ready.
LEMMA SourceFacts ==
    ASSUME HostOK, NEW r \in Known, repos[r].fork # None
    PROVE  /\ repos[r].fork.source \in Known
           /\ repos[r].fork.source \in Stores
           /\ repos[r].fork.source # r
           /\ repos[repos[r].fork.source].phase = "ready"
           /\ repos[r].fork.number \in Nat
<1>1. r \in Stores /\ repos[r].fork \in ForkOrigins
  BY KnownRecord DEF HostOK
<1>2. RecordOK(r)
  BY <1>1 DEF HostOK
<1> QED BY <1>1, <1>2 DEF RecordOK, ForkOrigins, Known

\* A call under way is typed.
LEMMA CallFacts ==
    ASSUME HostOK, NEW c \in Calls, call[c].at # "idle"
    PROVE  /\ call[c] \in CallRecords
           /\ call[c].request \in Requests
           /\ call[c].request.at \in Nat
           /\ call[c].id \in Known
           /\ call[c].id \in Stores
           /\ call[c].request.kind \in {"create", "fork"}
           /\ RecordOK(call[c].id)
<1>1. CallOK(c) /\ call[c] \in CallRecords
  BY DEF HostOK, HostTypes
<1>2. call[c].request \in Requests /\ call[c].id \in Known
  BY <1>1 DEF CallOK, CallFits
<1>3. call[c].id \in Stores
  BY <1>2 DEF Known
<1>4. RecordOK(call[c].id)
  BY <1>2, <1>3 DEF HostOK
<1> QED BY <1>1, <1>2, <1>3, <1>4, HostingAssumption

\* A call in a fork's stages works on a fork.
LEMMA ForkFacts ==
    ASSUME HostOK, NEW c \in Calls, call[c].at \in ForkStages
    PROVE  LET r == call[c].id
               s == call[c].source
           IN  /\ r \in Known /\ r \in Stores /\ s \in Known /\ s \in Stores /\ s # r
               /\ call[c].request.kind = "fork"
               /\ call[c].request.at \in Nat
               /\ repos[r].fork = [source |-> s, number |-> call[c].request.at]
               /\ repos[r].fork # None
               /\ repos[r].fork.source = s
               /\ repos[r].fork.number = call[c].request.at
               /\ repos[s].phase = "ready"
               /\ call[c].reader = ForkReader(r)
<1>1. call[c].at # "idle"
  BY DEF ForkStages, Writing
<1>2. CallOK(c)
  BY DEF HostOK
<1>3. call[c].request.kind = "fork"
  BY <1>1, <1>2, CallFacts DEF CallOK, CallFits
<1>4. /\ repos[call[c].id].fork = [source |-> call[c].source, number |-> call[c].request.at]
      /\ call[c].reader = ForkReader(call[c].id)
  BY <1>1, <1>2, <1>3 DEF CallOK, CallFits
<1>5. call[c].id \in Known /\ call[c].id \in Stores /\ call[c].request.at \in Nat
  BY <1>1, CallFacts
<1>6. repos[call[c].id].fork # None
  <2>1. call[c].source \in Stores
    BY <1>1, <1>2, <1>3 DEF CallOK, CallFits, Known
  <2>2. [source |-> call[c].source, number |-> call[c].request.at] \in ForkOrigins
    BY <1>5, <2>1 DEF ForkOrigins
  <2> QED BY <1>4, <2>2, NoneAssumption
<1> QED BY <1>3, <1>4, <1>5, <1>6, SourceFacts

\* While a fork is written its record is not ready, and its directory and the
\* source's are no one else's.
LEMMA WriterFacts ==
    ASSUME HostOK, NEW c \in Calls, call[c].at \in Writing
    PROVE  LET r == call[c].id
               s == call[c].source
           IN  /\ lock[r] = c /\ lock[s] = c
               /\ origin[r] = None /\ due[r] # None
               /\ repos[r].phase # "ready" /\ ~call[c].ready
               /\ unrecorded[r] = None
               /\ call[c].at \in ForkStages /\ call[c].at # "idle"
<1>1. call[c].at \in ForkStages /\ call[c].at # "idle"
  BY DEF ForkStages, Writing
<1>2. CopyOK(c) /\ CallOK(c)
  BY DEF HostOK
<1>3. RecordOK(call[c].id)
  BY <1>1, CallFacts
<1>4. repos[call[c].id].fork # None
  BY <1>1, ForkFacts
<1> QED BY <1>1, <1>2, <1>3, <1>4 DEF CopyOK, CallOK, CallFits, RecordOK

\* What two forks under way touch is disjoint.
LEMMA WritersApart ==
    ASSUME HostOK, NEW c \in Calls, NEW d \in Calls, c # d,
           call[c].at \in Writing, call[d].at \in Writing
    PROVE  {call[c].id, call[c].source} \cap {call[d].id, call[d].source} = {}
BY WriterFacts

\* No one forks from a directory that is written.
LEMMA WrittenIsNoSource ==
    ASSUME HostOK, NEW c \in Calls, call[c].at \in Writing,
           NEW r \in Known, repos[r].fork # None
    PROVE  repos[r].fork.source # call[c].id
BY WriterFacts, SourceFacts

-----------------------------------------------------------------------------
(* What a step leaves alone keeps its part of the invariant.               *)

WorldGrows(r) ==
    /\ HeadNumber(r) <= HeadNumber(r)'
    /\ \A k \in 1..HeadNumber(r) : Root(r, k)' = Root(r, k)

\* A head is a number.
LEMMA HeadType ==
    ASSUME HostTypes, NEW r \in Stores
    PROVE  HeadNumber(r) \in Nat
BY DEF HostTypes, HeadNumber

\* A directory whose tables stay keeps what its record says.
LEMMA RecordKept ==
    ASSUME HostOK, NEW r \in Stores, repos' = repos,
           perms'[r] = perms[r], origin'[r] = origin[r], due'[r] = due[r],
           inherited'[r] = inherited[r], unrecorded'[r] = unrecorded[r],
           provisioned \subseteq provisioned',
           due[r] = None => stored'[r] \cap Traces = stored[r] \cap Traces
    PROVE  (IF r \in Known THEN RecordOK(r) ELSE UntouchedOK(r))'
<1>1. Known' = Known
  BY DEF Known
<1>2. CASE r \in Known
  <2>1. RecordOK(r)
    BY <1>2 DEF HostOK
  <2>2. Initial(r)' = Initial(r)
    BY DEF Initial
  <2>3. RecordOK(r)'
    BY <1>1, <2>1, <2>2 DEF RecordOK
  <2> QED BY <1>1, <1>2, <2>3
<1>3. CASE r \notin Known
  <2>1. UntouchedOK(r)
    BY <1>3 DEF HostOK
  <2>2. UntouchedOK(r)'
    BY <2>1 DEF UntouchedOK
  <2> QED BY <1>1, <1>3, <2>2
<1> QED BY <1>2, <1>3

\* A store that stays as it is stays closed.
LEMMA StoreKept ==
    ASSUME HostOK, NEW r \in Stores, repos' = repos,
           stored'[r] = stored[r], world'[r] = world[r],
           decided'[r] = decided[r], inherited'[r] = inherited[r],
           unrecorded'[r] = unrecorded[r], lock'[r] = Server => lock[r] = Server
    PROVE  StoreOK(r)'
<1>1. StoreOK(r) /\ Known' = Known
  BY DEF HostOK, Known
<1>2. HeadNumber(r)' = HeadNumber(r) /\ \A k : Root(r, k)' = Root(r, k)
  BY DEF HeadNumber, Root
<1> QED BY <1>1, <1>2 DEF StoreOK

\* The traces a fork is to copy stay the source's.
LEMMA ForkTracesSame ==
    ASSUME NEW r, repos' = repos,
           decided'[repos[r].fork.source] = decided[repos[r].fork.source],
           inherited'[repos[r].fork.source] = inherited[repos[r].fork.source]
    PROVE  ForkTraces(r)' = ForkTraces(r)
BY DEF ForkTraces, InheritedTraces

\* What is due stays so while the source's traces and restrictions grow.
LEMMA DueKept ==
    ASSUME HostOK, NEW r \in Known, repos' = repos, due'[r] = due[r],
           due[r] # None =>
              /\ ForkTraces(r) \subseteq ForkTraces(r)'
              /\ inherited'[r] \subseteq ForkTraces(r)'
              /\ restricted[repos[r].fork.source] \subseteq
                    restricted'[repos[r].fork.source]
              /\ due[r].reader # "maintain" =>
                    \A t \in due[r].secret \cap stored'[r] : Placed(r, t)'
    PROVE  DueOK(r)'
<1>1. DueOK(r)
  BY DEF HostOK
<1>2. ForkReader(r)' = ForkReader(r)
  BY DEF ForkReader
<1>3. CASE due[r] = None
  BY <1>3 DEF DueOK
<1>4. CASE due[r] # None
  BY <1>1, <1>2, <1>4 DEF DueOK
<1> QED BY <1>3, <1>4

\* Worlds grow, so what a tree names stays named.
LEMMA NamedKept ==
    ASSUME HostOK, NEW r \in Known, repos'[r].fork = repos[r].fork,
           \A s \in Stores : WorldGrows(s) /\ HeadNumber(s)' \in Nat,
           NEW t, InTree(r, t) \/ ToCopy(r, t)
    PROVE  InTree(r, t)' \/ ToCopy(r, t)'
<1>1. r \in Stores /\ HeadNumber(r) \in Nat /\ HeadNumber(r)' \in Nat
  BY HeadType DEF HostOK, Known
<1>2. CASE InTree(r, t)
  <2>1. PICK k \in 1..HeadNumber(r) : t \in Reach({Root(r, k)}, Objects)
    BY <1>2 DEF InTree
  <2>2. k \in 1..HeadNumber(r)' /\ Root(r, k)' = Root(r, k)
    BY <1>1, <2>1 DEF WorldGrows
  <2>3. t \in Reach({Root(r, k)'}, Objects)
    BY <2>1, <2>2
  <2> QED BY <2>2, <2>3 DEF InTree
<1>3. CASE ToCopy(r, t)
  <2>1. PICK s : s = repos[r].fork.source
    OBVIOUS
  <2>2. repos[r].fork # None /\ s \in Stores
    BY <1>3, <2>1, SourceFacts DEF ToCopy
  <2>3. HeadNumber(s) \in Nat /\ HeadNumber(s)' \in Nat /\ repos[r].fork.number \in Nat
    BY <2>2, HeadType, SourceFacts DEF HostOK
  <2>4. PICK k \in 1..repos[r].fork.number :
            k <= HeadNumber(s) /\ t \in Reach({Root(s, k)}, Objects)
    BY <1>3, <2>1 DEF ToCopy
  <2>5. k <= HeadNumber(s)' /\ Root(s, k)' = Root(s, k)
    BY <2>2, <2>3, <2>4 DEF WorldGrows
  <2>6. t \in Reach({Root(s, k)'}, Objects)
    BY <2>4, <2>5
  <2>7. repos'[r].fork # None /\ repos'[r].fork.source = s /\ k \in 1..repos'[r].fork.number
    BY <2>1, <2>2, <2>4
  <2> QED BY <2>5, <2>6, <2>7 DEF ToCopy
<1> QED BY <1>2, <1>3

\* ... and bytes that came otherwise have done so for good.
LEMMA PlacedKept ==
    ASSUME HostOK, NEW r \in Known, repos'[r].fork = repos[r].fork,
           decided'[r] = decided[r], unrecorded'[r] = unrecorded[r],
           \A s \in Stores : WorldGrows(s) /\ HeadNumber(s)' \in Nat
    PROVE  \A t : Placed(r, t) => Placed(r, t)'
<1>1. SUFFICES ASSUME NEW t, Placed(r, t) PROVE Placed(r, t)'
  OBVIOUS
<1>2. CASE PublishedHere(r, t)
  BY <1>2 DEF PublishedHere, Placed
<1>3. CASE InTree(r, t) \/ ToCopy(r, t)
  BY <1>3, NamedKept DEF Placed
<1> QED BY <1>1, <1>2, <1>3 DEF Placed

\* Worlds that stay the same grow in this sense too.
LEMMA WorldSame ==
    ASSUME HostOK, world' = world
    PROVE  \A s \in Stores : WorldGrows(s) /\ HeadNumber(s)' \in Nat
<1>1. SUFFICES ASSUME NEW s \in Stores PROVE WorldGrows(s) /\ HeadNumber(s)' \in Nat
  OBVIOUS
<1>2. HeadNumber(s) \in Nat
  BY HeadType DEF HostOK
<1> QED BY <1>2 DEF WorldGrows, HeadNumber, Root

\* A finished fork stays faithful while Worlds and tables grow.
LEMMA ForkKept ==
    ASSUME HostOK, NEW r \in Stores, origin'[r] = origin[r],
           due'[r] = due[r], WorldGrows(r),
           \A s \in Stores : WorldGrows(s) /\ HeadNumber(s)' \in Nat,
           inherited[r] \subseteq inherited'[r], omitted[r] \subseteq omitted'[r],
           stored[r] \subseteq stored'[r], restricted[r] \subseteq restricted'[r]
    PROVE  ForkOK(r)'
<1>1. ForkOK(r)
  BY DEF HostOK
<1>2. CASE origin[r] = None
  BY <1>2 DEF ForkOK
<1>3. CASE origin[r] # None
  <2>1. origin[r].source \in Stores /\ origin[r].number \in Nat
    BY <1>3 DEF HostOK, HostTypes, ForkOrigins
  <2>2. PICK s, n : s = origin[r].source /\ n = origin[r].number
    OBVIOUS
  <2>3. s \in Stores /\ n \in Nat /\ HeadNumber(s) \in Nat /\ HeadNumber(r) \in Nat
    BY <2>1, <2>2, HeadType DEF HostOK
  <2>4. /\ n <= HeadNumber(r) /\ n <= HeadNumber(s)
        /\ \A k \in 1..n : Root(r, k) = Root(s, k)
    BY <1>1, <1>3, <2>2 DEF ForkOK
  <2>5. /\ n <= HeadNumber(r)' /\ n <= HeadNumber(s)'
        /\ \A k \in 1..n : Root(r, k)' = Root(s, k)'
    <3>1. /\ HeadNumber(s) <= HeadNumber(s)' /\ HeadNumber(r) <= HeadNumber(r)'
          /\ HeadNumber(s)' \in Nat /\ HeadNumber(r)' \in Nat
      BY <2>3 DEF WorldGrows
    <3>2. ASSUME NEW k \in 1..n PROVE Root(r, k)' = Root(s, k)'
      <4>1. k \in 1..HeadNumber(r) /\ k \in 1..HeadNumber(s)
        BY <2>3, <2>4
      <4> QED BY <2>3, <2>4, <4>1 DEF WorldGrows
    <3> QED BY <2>3, <2>4, <3>1, <3>2
  <2>6. ASSUME NEW d \in due[r].traces
        PROVE  /\ d \in inherited'[r]
               /\ d.trace \in omitted'[r] \cup stored'[r]
               /\ d.trace \in due[r].secret =>
                    IF due[r].reader = "maintain"
                    THEN d.trace \in omitted'[r] \cup restricted'[r]
                    ELSE d.trace \in omitted'[r]
    BY <1>1, <1>3 DEF ForkOK
  <2> QED BY <2>2, <2>5, <2>6 DEF ForkOK
<1> QED BY <1>2, <1>3

\* A call that stays where it is still fits its record.
LEMMA CallKept ==
    ASSUME HostOK, NEW c \in Calls, call'[c] = call[c], repos' = repos,
           provisioned \subseteq provisioned',
           \A r \in Known : perms'[r] \in {perms[r], Initial(r)},
           \A r \in Known : origin'[r] \in {origin[r], repos[r].fork}
    PROVE  CallOK(c)'
<1>1. CallOK(c) /\ Known' = Known
  BY DEF HostOK, Known
<1>2. \A r : Initial(r)' = Initial(r) /\ ForkReader(r)' = ForkReader(r)
  BY DEF Initial, ForkReader
<1>3. CASE call[c].at = "idle"
  BY <1>3 DEF CallOK, CallFits
<1>4. CASE call[c].at # "idle"
  <2>1. call[c].id \in Known
    BY <1>1, <1>4 DEF CallOK, CallFits
  <2>2. /\ perms[call[c].id] = Initial(call[c].id) => perms'[call[c].id] = Initial(call[c].id)
        /\ origin[call[c].id] = repos[call[c].id].fork =>
              origin'[call[c].id] = repos[call[c].id].fork
    BY <2>1
  <2> QED BY <1>1, <1>2, <1>4, <2>2 DEF CallOK, CallFits
<1> QED BY <1>3, <1>4

\* A fork under way keeps its directories.
LEMMA CopyKept ==
    ASSUME HostOK, NEW c \in Calls, call'[c] = call[c],
           call[c].at \in Writing =>
             \A r \in {call[c].id, call[c].source} :
                /\ lock'[r] = lock[r]
                /\ origin'[r] = origin[r]
                /\ due'[r] = due[r]
                /\ world'[r] = world[r]
    PROVE  CopyOK(c)'
<1>1. CopyOK(c)
  BY DEF HostOK
<1>2. CASE call[c].at \notin Writing
  BY <1>2 DEF CopyOK
<1>3. CASE call[c].at \in Writing
  <2>1. PICK r, s : r = call[c].id /\ s = call[c].source
    OBVIOUS
  <2>2. \A x \in {r, s} : /\ HeadNumber(x)' = HeadNumber(x)
                          /\ \A k : Root(x, k)' = Root(x, k)
    BY <1>3, <2>1 DEF HeadNumber, Root
  <2> QED BY <1>1, <1>3, <2>1, <2>2 DEF CopyOK
<1> QED BY <1>2, <1>3

\* A fork under way keeps its account of the traces.
LEMMA TracesKept ==
    ASSUME HostOK, NEW c \in Calls, call'[c] = call[c], repos' = repos,
           call[c].at \in Writing =>
             \A r \in {call[c].id, call[c].source} :
                /\ world'[r] = world[r] /\ decided'[r] = decided[r]
                /\ inherited'[r] = inherited[r] /\ omitted'[r] = omitted[r]
                /\ restricted'[r] = restricted[r] /\ stored'[r] = stored[r]
    PROVE  TracesOK(c)'
<1>1. TracesOK(c)
  BY DEF HostOK
<1>2. CASE call[c].at \notin Writing
  BY <1>2 DEF TracesOK
<1>3. CASE call[c].at \in Writing
  <2>1. PICK r, s : r = call[c].id /\ s = call[c].source
    OBVIOUS
  <2>2. repos[r].fork.source = s
    BY <1>3, <2>1, WriterFacts, ForkFacts
  <2>3. ForkTraces(r)' = ForkTraces(r)
    BY <1>3, <2>1, <2>2, ForkTracesSame
  <2>4. \A t : Withheld(c, t)' <=> Withheld(c, t)
    BY <1>3, <2>1 DEF Withheld
  <2>5. \A t : Settled(c, t)' <=> Settled(c, t)
    BY <1>3, <2>1, <2>4 DEF Settled
  <2>6. HeadNumber(r)' = HeadNumber(r)
    BY <1>3, <2>1 DEF HeadNumber
  <2> QED BY <1>1, <1>3, <2>1, <2>3, <2>4, <2>5, <2>6 DEF TracesOK
<1> QED BY <1>2, <1>3

\* The tables of every directory but one stay as they are.
SameElsewhere(x) ==
    \A r \in Stores \ {x} :
        /\ stored'[r] = stored[r] /\ world'[r] = world[r]
        /\ decided'[r] = decided[r] /\ unrecorded'[r] = unrecorded[r]
        /\ inherited'[r] = inherited[r] /\ omitted'[r] = omitted[r]
        /\ restricted'[r] = restricted[r]
        /\ origin'[r] = origin[r] /\ due'[r] = due[r]

\* ... and in that one they only grow.
GrowsAt(x) ==
    /\ WorldGrows(x)
    /\ stored[x] \subseteq stored'[x] /\ inherited[x] \subseteq inherited'[x]
    /\ omitted[x] \subseteq omitted'[x] /\ restricted[x] \subseteq restricted'[x]

\* Every World grows when one does and the others stay.
LEMMA AllGrow ==
    ASSUME HostOK, HostTypes', NEW x \in Stores, SameElsewhere(x), GrowsAt(x)
    PROVE  \A s \in Stores : WorldGrows(s) /\ HeadNumber(s)' \in Nat
<1>1. SUFFICES ASSUME NEW s \in Stores PROVE WorldGrows(s) /\ HeadNumber(s)' \in Nat
  OBVIOUS
<1>2. HeadNumber(s)' \in Nat /\ HeadNumber(s) \in Nat
  BY HeadType DEF HostOK, HostTypes, HeadNumber
<1>3. CASE s = x
  BY <1>2, <1>3 DEF GrowsAt
<1>4. CASE s # x
  <2>1. world'[s] = world[s]
    BY <1>4 DEF SameElsewhere
  <2>2. HeadNumber(s)' = HeadNumber(s) /\ \A k : Root(s, k)' = Root(s, k)
    BY <2>1 DEF HeadNumber, Root
  <2> QED BY <1>2, <2>2 DEF WorldGrows
<1> QED BY <1>3, <1>4

\* The other directories keep their part of the invariant.
LEMMA ElsewhereKept ==
    ASSUME HostOK, HostTypes', NEW x \in Stores, SameElsewhere(x), GrowsAt(x),
           repos' = repos, provisioned' = provisioned, perms' = perms, lock' = lock
    PROVE  /\ \A r \in Stores \ {x} :
                (IF r \in Known THEN RecordOK(r) ELSE UntouchedOK(r))' /\ StoreOK(r)'
           /\ \A r \in Stores \ {x} : ForkOK(r)'
           /\ origin'[x] = origin[x] /\ due'[x] = due[x] => ForkOK(x)'
<1>1. ASSUME NEW r \in Stores \ {x}
      PROVE  (IF r \in Known THEN RecordOK(r) ELSE UntouchedOK(r))' /\ StoreOK(r)'
  <2>1. (IF r \in Known THEN RecordOK(r) ELSE UntouchedOK(r))'
    BY RecordKept DEF SameElsewhere
  <2>2. StoreOK(r)'
    BY StoreKept DEF SameElsewhere
  <2> QED BY <2>1, <2>2
<1>2. \A s \in Stores : WorldGrows(s) /\ HeadNumber(s)' \in Nat
  BY AllGrow
<1>4. ASSUME NEW r \in Stores \ {x} PROVE ForkOK(r)'
  BY <1>2, ForkKept DEF SameElsewhere
<1>5. ASSUME origin'[x] = origin[x], due'[x] = due[x] PROVE ForkOK(x)'
  BY <1>2, <1>5, ForkKept DEF GrowsAt
<1> QED BY <1>1, <1>4, <1>5

\* A fork elsewhere has its due, as long as its source still has the traces.
LEMMA DueElsewhere ==
    ASSUME HostOK, HostTypes', NEW x \in Stores, SameElsewhere(x), GrowsAt(x),
           repos' = repos, NEW r \in Known, r # x,
           repos[r].fork # None /\ repos[r].fork.source = x =>
              ForkTraces(r) \subseteq ForkTraces(r)'
    PROVE  DueOK(r)'
<1>1. r \in Stores /\ RecordOK(r)
  BY DEF HostOK, Known
<1>2. due'[r] = due[r]
  BY <1>1 DEF SameElsewhere
<1>3. ASSUME due[r] # None
      PROVE  /\ ForkTraces(r) \subseteq ForkTraces(r)'
             /\ inherited'[r] \subseteq ForkTraces(r)'
             /\ restricted[repos[r].fork.source] \subseteq
                   restricted'[repos[r].fork.source]
             /\ due[r].reader # "maintain" =>
                   \A t \in due[r].secret \cap stored'[r] : Placed(r, t)'
  <2>1. repos[r].fork # None
    BY <1>1, <1>3 DEF RecordOK
  <2>2. repos[r].fork.source \in Stores
    BY <2>1, SourceFacts
  <2>3. ForkTraces(r) \subseteq ForkTraces(r)'
    <3>1. CASE repos[r].fork.source = x
      BY <2>1, <3>1
    <3>2. CASE repos[r].fork.source # x
      BY <2>2, <3>2, ForkTracesSame DEF SameElsewhere
    <3> QED BY <3>1, <3>2
  <2>4. DueOK(r)
    BY DEF HostOK
  <2>5. restricted[repos[r].fork.source] \subseteq restricted'[repos[r].fork.source]
    BY <2>2 DEF SameElsewhere, GrowsAt
  <2>6. /\ stored'[r] = stored[r] /\ inherited'[r] = inherited[r]
        /\ decided'[r] = decided[r] /\ unrecorded'[r] = unrecorded[r]
    BY <1>1 DEF SameElsewhere
  <2>7. \A t : Placed(r, t) => Placed(r, t)'
    BY <2>6, AllGrow, PlacedKept
  <2> QED BY <1>3, <2>3, <2>4, <2>5, <2>6, <2>7 DEF DueOK
<1> QED BY <1>2, <1>3, DueKept

\* A call that has no part in the step goes on.
LEMMA CallElsewhere ==
    ASSUME HostOK, NEW x \in Stores, SameElsewhere(x), repos' = repos,
           provisioned' = provisioned, perms' = perms, lock' = lock,
           origin'[x] \in {origin[x], repos[x].fork},
           NEW c \in Calls, call'[c] = call[c],
           call[c].at \in Writing => x \notin {call[c].id, call[c].source}
    PROVE  CallOK(c)' /\ CopyOK(c)' /\ TracesOK(c)'
<1>1. \A r \in Known : origin'[r] \in {origin[r], repos[r].fork}
  BY DEF SameElsewhere, Known
<1>2. CallOK(c)'
  BY <1>1, CallKept
<1>3. call[c].at \in Writing =>
        {call[c].id, call[c].source} \subseteq Stores \ {x}
  BY WriterFacts, ForkFacts
<1>4. CopyOK(c)' /\ TracesOK(c)'
  BY <1>3, CopyKept, TracesKept DEF SameElsewhere
<1> QED BY <1>2, <1>4

\* A step that touches no table and no record.
TablesSame ==
    UNCHANGED <<stored, world, decided, unrecorded, inherited, omitted, restricted,
                origin, due, repos>>

\* Untouched tables keep their part of the invariant.
LEMMA TablesKept ==
    ASSUME HostOK, TablesSame
    PROVE  /\ NamesOK'
           /\ \A r \in Known' : DueOK(r)'
           /\ \A r \in Stores : ForkOK(r)'
           /\ provisioned \subseteq provisioned' /\ perms' = perms =>
                \A r \in Stores :
                    (IF r \in Known THEN RecordOK(r) ELSE UntouchedOK(r))'
           /\ (\A r \in Stores : lock'[r] = Server => lock[r] = Server) =>
                \A r \in Stores : StoreOK(r)'
<1> USE DEF TablesSame
<1>1. Known' = Known
  BY DEF Known
<1>2. NamesOK'
  BY <1>1 DEF HostOK, NamesOK
<1>3. ASSUME NEW r \in Known PROVE DueOK(r)'
  <2>1. ForkTraces(r)' = ForkTraces(r)
    BY ForkTracesSame
  <2>2. \A t : Placed(r, t) => Placed(r, t)'
    BY WorldSame, PlacedKept
  <2>3. DueOK(r)
    BY DEF HostOK
  <2> QED BY <2>1, <2>2, <2>3, DueKept DEF DueOK
<1>4. \A s \in Stores : WorldGrows(s) /\ HeadNumber(s)' \in Nat
  BY WorldSame
<1>5. ASSUME NEW r \in Stores PROVE ForkOK(r)'
  BY <1>4, ForkKept
<1>6. ASSUME provisioned \subseteq provisioned', perms' = perms, NEW r \in Stores
      PROVE  (IF r \in Known THEN RecordOK(r) ELSE UntouchedOK(r))'
  BY <1>6, RecordKept
<1>7. ASSUME \A r \in Stores : lock'[r] = Server => lock[r] = Server, NEW r \in Stores
      PROVE  StoreOK(r)'
  BY <1>7, StoreKept
<1> QED BY <1>1, <1>2, <1>3, <1>5, <1>6, <1>7

-----------------------------------------------------------------------------
(* The node serves, publishes, records and restricts.                      *)

\* Serve and StopServing keep the invariant: they move one free lock.
LEMMA ServeKeeps ==
    ASSUME HostOK, NEW x \in Stores, Serve(x) \/ StopServing(x)
    PROVE  HostOK'
<1>1. /\ TablesSame /\ UNCHANGED <<provisioned, perms, call>>
      /\ lock[x] \in {None, Server}
      /\ \/ lock' = [lock EXCEPT ![x] = None]
         \/ /\ lock' = [lock EXCEPT ![x] = Server]
            /\ x \in Known /\ repos[x].phase = "ready"
  BY DEF Serve, StopServing, transferVars, storeVars, TablesSame
<1>2. HostTypes'
  BY <1>1 DEF HostOK, HostTypes, TablesSame
<1>3. \A r \in Stores : r # x => lock'[r] = lock[r]
  BY <1>1 DEF HostOK, HostTypes
<1>4. ASSUME NEW r \in Stores PROVE StoreOK(r)'
  <2>1. CASE lock'[r] = Server => lock[r] = Server
    BY <1>1, <2>1, StoreKept DEF TablesSame
  <2>2. CASE ~(lock'[r] = Server => lock[r] = Server)
    <3>1. r = x /\ x \in Known /\ repos[x].phase = "ready" /\ Known' = Known
      BY <1>1, <1>3, <2>2, NoneAssumption DEF HostOK, HostTypes, Server, TablesSame, Known
    <3>2. StoreOK(r)
      BY DEF HostOK
    <3>3. HeadNumber(r)' = HeadNumber(r) /\ \A k : Root(r, k)' = Root(r, k)
      BY <1>1 DEF HeadNumber, Root, TablesSame
    <3> QED BY <1>1, <3>1, <3>2, <3>3 DEF StoreOK, TablesSame
  <2> QED BY <2>1, <2>2
<1>5. ASSUME NEW c \in Calls PROVE CallOK(c)' /\ CopyOK(c)' /\ TracesOK(c)'
  <2>1. CallOK(c)' /\ TracesOK(c)'
    BY <1>1, CallKept, TracesKept DEF TablesSame
  <2>2. ASSUME call[c].at \in Writing, NEW r \in {call[c].id, call[c].source}
        PROVE  lock'[r] = lock[r]
    <3>1. lock[r] = c /\ r \in Stores
      BY <2>2, WriterFacts, ForkFacts
    <3>2. r # x
      BY <1>1, <3>1, HostingAssumption, NoneAssumption DEF Server
    <3> QED BY <1>3, <3>1, <3>2
  <2>3. CopyOK(c)'
    BY <1>1, <2>2, CopyKept DEF TablesSame
  <2> QED BY <2>1, <2>3
<1>6. /\ NamesOK'
      /\ \A r \in Known' : DueOK(r)'
      /\ \A r \in Stores : ForkOK(r)'
      /\ \A r \in Stores : (IF r \in Known THEN RecordOK(r) ELSE UntouchedOK(r))'
  BY <1>1, TablesKept
<1> QED BY <1>2, <1>4, <1>5, <1>6 DEF HostOK

\* Appending a version keeps the ones before.
LEMMA AppendGrows ==
    ASSUME HostTypes, NEW r \in Stores, NEW v \in HostVersions,
           NEW n, n = HeadNumber(r) + 1,
           world' = [world EXCEPT ![r] = Append(world[r], v)]
    PROVE  /\ WorldGrows(r)
           /\ HeadNumber(r)' = n
           /\ Root(r, n)' = v.tree
           /\ world' \in [Stores -> Seq(HostVersions)]
           /\ \A s \in Stores \ {r} : world'[s] = world[s]
<1>1. world \in [Stores -> Seq(HostVersions)]
  BY DEF HostTypes
<1>2. world[r] \in Seq(HostVersions) /\ world'[r] = Append(world[r], v)
  BY <1>1
<1>3. /\ Len(world'[r]) = Len(world[r]) + 1
      /\ Len(world[r]) \in Nat
      /\ world'[r][Len(world[r]) + 1] = v
      /\ \A k \in 1..Len(world[r]) : world'[r][k] = world[r][k]
      /\ world'[r] \in Seq(HostVersions)
  BY <1>2
<1>4. \A s \in Stores \ {r} : world'[s] = world[s]
  BY <1>1
<1>5. world' \in [Stores -> Seq(HostVersions)]
  BY <1>1, <1>3
<1>6. WorldGrows(r) /\ HeadNumber(r)' = n /\ Root(r, n)' = v.tree
  BY <1>3 DEF WorldGrows, HeadNumber, Root
<1> QED BY <1>4, <1>5, <1>6

\* HostPublish keeps the invariant: no fork writes where a node serves.
LEMMA HostPublishKeeps ==
    ASSUME HostOK, NEW x \in Stores, NEW trace \in Traces \cup {None},
           NEW tree \in HostTrees, HostPublish(x, trace, tree)
    PROVE  HostOK'
<1>1. PICK n : n = HeadNumber(x) + 1
  OBVIOUS
<1>2. /\ lock[x] = Server
      /\ unrecorded[x] = None
      /\ stored' = [stored EXCEPT ![x] = (stored[x] \cup ({trace} \ {None}))
                            \cup Reach({tree}, Objects)]
      /\ world' = [world EXCEPT ![x] = Append(world[x],
              [tree |-> tree, operation |-> <<"publish", n>>])]
      /\ unrecorded' = [unrecorded EXCEPT ![x] = [trace |-> trace, number |-> n]]
      /\ UNCHANGED <<repos, call, provisioned, perms, lock, decided, inherited,
                     omitted, restricted, origin, due>>
  BY <1>1 DEF HostPublish
<1>3. /\ HostTypes /\ HeadNumber(x) \in Nat /\ n \in Nat
  BY <1>1, HeadType DEF HostOK
<1>4. tree \in Chunks
  BY HostingAssumption
<1>5. PICK all : all = Reach({tree}, Objects)
  OBVIOUS
<1>6. /\ tree \in all /\ all \subseteq Objects
      /\ \A o \in all : Below(o) \subseteq all
  BY <1>4, <1>5, ReachClosed
<1>7. PICK v : v = [tree |-> tree, operation |-> <<"publish", n>>]
  OBVIOUS
<1>8. v \in HostVersions /\ v.tree = tree
  BY <1>3, <1>4, <1>7 DEF HostVersions
<1>9. /\ WorldGrows(x) /\ HeadNumber(x)' = n /\ Root(x, n)' = tree
      /\ world' \in [Stores -> Seq(HostVersions)]
      /\ \A s \in Stores \ {x} : world'[s] = world[s]
  BY <1>1, <1>2, <1>3, <1>4, <1>7, <1>8, AppendGrows
<1>10. /\ stored'[x] = (stored[x] \cup ({trace} \ {None})) \cup all
       /\ \A s \in Stores \ {x} : stored'[s] = stored[s]
       /\ stored' \in [Stores -> SUBSET Objects]
  <2>1. stored \in [Stores -> SUBSET Objects] /\ Traces \subseteq Objects
    BY <1>3, HostingAssumption DEF HostTypes, Objects
  <2> QED BY <1>2, <1>4, <1>5, <1>6, <2>1
<1>11. /\ unrecorded'[x] = [trace |-> trace, number |-> n]
       /\ unrecorded'[x] \in [trace : Traces \cup {None}, number : Nat]
       /\ unrecorded'[x] # None
       /\ \A s \in Stores \ {x} : unrecorded'[s] = unrecorded[s]
       /\ unrecorded' \in [Stores ->
             [trace : Traces \cup {None}, number : Nat] \cup {None}]
  BY <1>2, <1>3, NoneAssumption DEF HostTypes
<1>12. HostTypes'
  BY <1>2, <1>3, <1>9, <1>10, <1>11 DEF HostTypes
<1>13. SameElsewhere(x) /\ GrowsAt(x)
  BY <1>2, <1>9, <1>10, <1>11 DEF SameElsewhere, GrowsAt
<1>14. /\ \A r \in Stores \ {x} :
            (IF r \in Known THEN RecordOK(r) ELSE UntouchedOK(r))' /\ StoreOK(r)'
       /\ \A r \in Stores : ForkOK(r)'
  BY <1>2, <1>12, <1>13, ElsewhereKept
<1>15. /\ x \in Known /\ repos[x].phase = "ready" /\ Known' = Known
       /\ StoreOK(x) /\ RecordOK(x) /\ DueOK(x)
  BY <1>2 DEF HostOK, StoreOK, Known
<1>16. RecordOK(x)'
  <2>1. Initial(x)' = Initial(x)
    BY <1>2 DEF Initial
  <2> QED BY <1>2, <1>15, <2>1 DEF RecordOK
<1>17. StoreOK(x)'
  <2>1. ASSUME NEW o \in stored'[x] PROVE Below(o) \subseteq stored'[x]
    <3>1. CASE o \in stored[x]
      BY <1>10, <1>15, <3>1 DEF StoreOK
    <3>2. CASE o \in all
      BY <1>6, <1>10, <3>2
    <3>3. CASE o = trace /\ trace # None
      BY <3>3, TransferAssumption, HostingAssumption DEF Below
    <3> QED BY <1>10, <3>1, <3>2, <3>3
  <2>2. ASSUME NEW k \in 1..n PROVE Root(x, k)' \in stored'[x]
    <3>1. CASE k = n
      BY <1>6, <1>9, <1>10, <3>1
    <3>2. CASE k # n
      <4>1. k \in 1..HeadNumber(x)
        BY <1>1, <1>3, <3>2
      <4> QED BY <1>9, <1>10, <1>15, <4>1 DEF WorldGrows, StoreOK
    <3> QED BY <3>1, <3>2
  <2>3. ASSUME NEW d \in decided[x] \cup inherited[x] PROVE d.number <= n
    <3>1. d.number \in Nat /\ d.number <= HeadNumber(x)
      BY <1>3, <1>15 DEF StoreOK, HostTypes, TraceNotes
    <3> QED BY <1>1, <1>3, <3>1
  <2> QED BY <1>2, <1>9, <1>11, <1>15, <2>1, <2>2, <2>3 DEF StoreOK
<1>18. ASSUME NEW r \in Known PROVE DueOK(r)'
  <2>1. ForkTraces(r)' = ForkTraces(r)
    BY <1>2, ForkTracesSame
  <2>2. CASE r # x
    BY <1>2, <1>12, <1>13, <2>1, <2>2, DueElsewhere
  <2>3. CASE r = x
    <3>1. ASSUME NEW t \in stored'[x], t \in stored[x] => Placed(x, t)
          PROVE  Placed(x, t)'
      <4>1. CASE t = trace /\ trace # None
        <5>1. unrecorded'[x].trace = t
          BY <1>11, <4>1
        <5> QED BY <1>11, <5>1 DEF PublishedHere, Placed
      <4>2. CASE t \in all
        <5>1. t \in Reach({Root(x, n)'}, Objects)
          BY <1>5, <1>9, <4>2
        <5>2. n \in 1..HeadNumber(x)'
          BY <1>1, <1>3, <1>9
        <5> QED BY <5>1, <5>2 DEF InTree, Placed
      <4>3. CASE t \in stored[x]
        <5>1. \A s \in Stores : WorldGrows(s) /\ HeadNumber(s)' \in Nat
          BY <1>12, <1>13, AllGrow
        <5>2. CASE PublishedHere(x, t)
          BY <1>2, <5>2 DEF PublishedHere, Placed
        <5>3. CASE InTree(x, t) \/ ToCopy(x, t)
          BY <1>2, <1>15, <5>1, <5>3, NamedKept DEF Placed
        <5> QED BY <3>1, <4>3, <5>2, <5>3 DEF Placed
      <4> QED BY <1>10, <4>1, <4>2, <4>3
    <3>3. ASSUME due[x] # None, due[x].reader # "maintain",
                 NEW t \in due[x].secret \cap stored'[x]
          PROVE  Placed(x, t)'
      BY <1>15, <3>1, <3>3 DEF DueOK
    <3>4. due[x] # None => inherited'[x] \subseteq ForkTraces(x)'
      BY <1>2, <1>15, <2>1, <2>3 DEF DueOK
    <3> QED BY <1>2, <2>1, <2>3, <3>3, <3>4, DueKept
  <2> QED BY <2>2, <2>3
<1>19. ASSUME NEW c \in Calls PROVE CallOK(c)' /\ CopyOK(c)' /\ TracesOK(c)'
  <2>1. call[c].at \in Writing => x \notin {call[c].id, call[c].source}
    BY <1>2, WriterFacts, HostingAssumption DEF Server
  <2> QED BY <1>2, <1>13, <2>1, CallElsewhere
<1>20. NamesOK'
  BY <1>2, <1>15 DEF HostOK, NamesOK
<1> QED BY <1>12, <1>14, <1>15, <1>16, <1>17, <1>18, <1>19, <1>20 DEF HostOK

\* A publication that is recorded late takes no trace from an earlier version.
LEMMA RecordedLater ==
    ASSUME HostOK, HostTypes', NEW s \in Stores, NEW n,
           decided[s] \subseteq decided'[s], inherited'[s] = inherited[s],
           \A e \in decided'[s] \ decided[s] : e.number = HeadNumber(s)
    PROVE  InheritedTraces(s, n) \subseteq InheritedTraces(s, n)'
<1>1. StoreOK(s) /\ HeadNumber(s) \in Nat
  BY HeadType DEF HostOK
<1>2. ASSUME NEW d \in InheritedTraces(s, n) PROVE d \in InheritedTraces(s, n)'
  <2>1. /\ d \in decided[s] \cup inherited[s] /\ d.number <= n
        /\ \A e \in decided[s] \cup inherited[s] :
              e.number <= n /\ e.trace = d.trace => d.number <= e.number
    BY <1>2 DEF InheritedTraces
  <2>2. ASSUME NEW e \in decided'[s] \cup inherited'[s], e.number <= n, e.trace = d.trace
        PROVE  d.number <= e.number
    <3>1. CASE e \in decided[s] \cup inherited[s]
      BY <2>1, <2>2, <3>1
    <3>2. CASE e \notin decided[s] \cup inherited[s]
      BY <1>1, <2>1, <2>2, <3>2 DEF StoreOK
    <3> QED BY <3>1, <3>2
  <2>3. d \in decided'[s] \cup inherited'[s]
    BY <2>1
  <2> QED BY <2>1, <2>2, <2>3 DEF InheritedTraces
<1> QED BY <1>2

\* HostRecord keeps the invariant: it names the newest version only.
LEMMA HostRecordKeeps ==
    ASSUME HostOK, NEW x \in Stores, HostRecord(x)
    PROVE  HostOK'
<1>1. /\ lock[x] = Server
      /\ unrecorded[x] # None
      /\ decided' = [decided EXCEPT ![x] = decided[x] \cup
            (IF unrecorded[x].trace = None THEN {} ELSE {unrecorded[x]})]
      /\ unrecorded' = [unrecorded EXCEPT ![x] = None]
      /\ UNCHANGED <<stored, world, repos, call, provisioned, perms, lock, inherited,
                     omitted, restricted, origin, due>>
  BY DEF HostRecord, transferVars, storeVars
<1>2. HostTypes /\ HeadNumber(x) \in Nat
  BY HeadType DEF HostOK
<1>3. /\ unrecorded[x] \in [trace : Traces \cup {None}, number : Nat]
      /\ unrecorded[x].trace # None => unrecorded[x] \in TraceNotes
  BY <1>1, <1>2 DEF HostTypes, TraceNotes
<1>4. /\ decided'[x] = decided[x] \cup
            (IF unrecorded[x].trace = None THEN {} ELSE {unrecorded[x]})
      /\ decided' \in [Stores -> SUBSET TraceNotes]
      /\ unrecorded'[x] = None
      /\ unrecorded' \in [Stores ->
            [trace : Traces \cup {None}, number : Nat] \cup {None}]
      /\ \A s \in Stores \ {x} :
            decided'[s] = decided[s] /\ unrecorded'[s] = unrecorded[s]
  BY <1>1, <1>2, <1>3 DEF HostTypes
<1>5. HostTypes'
  BY <1>1, <1>2, <1>4 DEF HostTypes
<1>6. HeadNumber(x)' = HeadNumber(x) /\ \A k : Root(x, k)' = Root(x, k)
  BY <1>1 DEF HeadNumber, Root
<1>7. SameElsewhere(x) /\ GrowsAt(x)
  BY <1>1, <1>2, <1>4, <1>6 DEF SameElsewhere, GrowsAt, WorldGrows
<1>8. /\ \A r \in Stores \ {x} :
            (IF r \in Known THEN RecordOK(r) ELSE UntouchedOK(r))' /\ StoreOK(r)'
      /\ \A r \in Stores : ForkOK(r)'
  BY <1>1, <1>5, <1>7, ElsewhereKept
<1>9. /\ x \in Known /\ repos[x].phase = "ready" /\ Known' = Known
      /\ StoreOK(x) /\ RecordOK(x) /\ DueOK(x)
  BY <1>1 DEF HostOK, StoreOK, Known
<1>10. RecordOK(x)'
  <2>1. Initial(x)' = Initial(x)
    BY <1>1 DEF Initial
  <2> QED BY <1>1, <1>9, <2>1 DEF RecordOK
<1>11. StoreOK(x)'
  <2>1. ASSUME NEW d \in decided'[x] \cup inherited'[x] PROVE d.number <= HeadNumber(x)
    BY <1>1, <1>2, <1>3, <1>4, <1>9 DEF StoreOK
  <2> QED BY <1>1, <1>4, <1>6, <1>9, <2>1 DEF StoreOK
<1>12. ASSUME NEW r \in Known PROVE DueOK(r)'
  <2>1. CASE r # x
    <3>1. ASSUME repos[r].fork # None, repos[r].fork.source = x
          PROVE  ForkTraces(r) \subseteq ForkTraces(r)'
      <4>1. PICK n : n = repos[r].fork.number
        OBVIOUS
      <4>2. InheritedTraces(x, n) \subseteq InheritedTraces(x, n)'
        BY <1>1, <1>4, <1>5, <1>9, RecordedLater DEF StoreOK
      <4> QED BY <1>1, <3>1, <4>1, <4>2 DEF ForkTraces
    <3> QED BY <1>1, <1>5, <1>7, <2>1, <3>1, DueElsewhere
  <2>2. CASE r = x
    <3>1. ASSUME NEW t \in Traces, Placed(x, t) PROVE Placed(x, t)'
      <4>1. CASE PublishedHere(x, t)
        BY <1>1, <1>4, <4>1, NoneAssumption DEF PublishedHere, Placed
      <4>2. CASE InTree(x, t) \/ ToCopy(x, t)
        BY <1>1, <1>9, <4>2, WorldSame, NamedKept DEF Placed
      <4> QED BY <3>1, <4>1, <4>2 DEF Placed
    <3>2. due[x] # None => /\ repos[x].fork # None
                           /\ due[x].secret \subseteq Traces
      BY <1>2, <1>9 DEF RecordOK, HostTypes
    <3>3. due[x] # None => ForkTraces(x)' = ForkTraces(x)
      <4>1. due[x] # None => repos[x].fork.source \in Stores \ {x}
        BY <1>9, <3>2, SourceFacts
      <4> QED BY <1>1, <1>4, <4>1, ForkTracesSame
    <3>4. ASSUME due[x] # None, due[x].reader # "maintain",
                 NEW t \in due[x].secret \cap stored'[x]
          PROVE  Placed(x, t)'
      BY <1>1, <1>9, <3>1, <3>2, <3>4 DEF DueOK
    <3>5. due[x] # None => inherited'[x] \subseteq ForkTraces(x)'
      BY <1>1, <1>9, <3>3 DEF DueOK
    <3> QED BY <1>1, <2>2, <3>3, <3>4, <3>5, DueKept
  <2> QED BY <2>1, <2>2
<1>13. ASSUME NEW c \in Calls PROVE CallOK(c)' /\ CopyOK(c)' /\ TracesOK(c)'
  <2>1. call[c].at \in Writing => x \notin {call[c].id, call[c].source}
    BY <1>1, WriterFacts, HostingAssumption DEF Server
  <2> QED BY <1>1, <1>7, <2>1, CallElsewhere
<1>14. NamesOK'
  BY <1>1, <1>9 DEF HostOK, NamesOK
<1> QED BY <1>5, <1>8, <1>9, <1>10, <1>11, <1>12, <1>13, <1>14 DEF HostOK

\* RestrictTrace keeps the invariant: restrictions only grow.
LEMMA RestrictKeeps ==
    ASSUME HostOK, NEW x \in Stores, NEW t \in Traces, RestrictTrace(x, t)
    PROVE  HostOK'
<1>1. /\ lock[x] = Server
      /\ restricted' = [restricted EXCEPT ![x] = restricted[x] \cup {t}]
      /\ UNCHANGED <<stored, world, repos, call, provisioned, perms, lock, decided,
                     unrecorded, inherited, omitted, origin, due>>
  BY DEF RestrictTrace, transferVars, storeVars
<1>2. HostTypes /\ HeadNumber(x) \in Nat
  BY HeadType DEF HostOK
<1>3. HostTypes'
  BY <1>1, <1>2 DEF HostTypes
<1>4. SameElsewhere(x) /\ GrowsAt(x)
  BY <1>1, <1>2 DEF SameElsewhere, GrowsAt, WorldGrows, HostTypes, HeadNumber, Root
<1>5. /\ \A r \in Stores \ {x} :
            (IF r \in Known THEN RecordOK(r) ELSE UntouchedOK(r))' /\ StoreOK(r)'
      /\ \A r \in Stores : ForkOK(r)'
  BY <1>1, <1>3, <1>4, ElsewhereKept
<1>6. /\ (IF x \in Known THEN RecordOK(x) ELSE UntouchedOK(x))'
      /\ StoreOK(x)'
  BY <1>1, RecordKept, StoreKept
<1>7. ASSUME NEW r \in Known PROVE DueOK(r)'
  <2>1. ForkTraces(r)' = ForkTraces(r)
    BY <1>1, ForkTracesSame
  <2>2. CASE r # x
    BY <1>1, <1>3, <1>4, <2>1, <2>2, DueElsewhere
  <2>3. CASE r = x
    <3>1. \A u : Placed(x, u) => Placed(x, u)'
      BY <1>1, <2>3, WorldSame, PlacedKept
    <3>2. DueOK(x)
      BY <2>3 DEF HostOK
    <3>3. \A s : restricted[s] \subseteq restricted'[s] \/ s \notin Stores
      BY <1>1, <1>2 DEF HostTypes
    <3>4. due[x] # None => repos[x].fork.source \in Stores
      <4>1. RecordOK(x)
        BY <2>3 DEF HostOK
      <4> QED BY <2>3, <4>1, SourceFacts DEF RecordOK
    <3> QED BY <1>1, <2>1, <2>3, <3>1, <3>2, <3>3, <3>4, DueKept DEF DueOK
  <2> QED BY <2>2, <2>3
<1>8. ASSUME NEW c \in Calls PROVE CallOK(c)' /\ CopyOK(c)' /\ TracesOK(c)'
  <2>1. call[c].at \in Writing => x \notin {call[c].id, call[c].source}
    BY <1>1, WriterFacts, HostingAssumption DEF Server
  <2> QED BY <1>1, <1>4, <2>1, CallElsewhere
<1>9. NamesOK' /\ Known' = Known
  BY <1>1 DEF HostOK, NamesOK, Known
<1> QED BY <1>3, <1>5, <1>6, <1>7, <1>8, <1>9 DEF HostOK

-----------------------------------------------------------------------------
(* The control plane's calls.                                              *)

\* A step of a call that changes only where the call stands, and locks that
\* are free or its own.
LEMMA OnlyCall ==
    ASSUME HostOK, HostTypes', NEW c \in Calls, TablesSame,
           provisioned \subseteq provisioned', perms' = perms,
           \A d \in Calls \ {c} : call'[d] = call[d],
           \A r \in Stores : lock'[r] = lock[r] \/ {lock[r], lock'[r]} \subseteq {None, c},
           CallOK(c)', CopyOK(c)', TracesOK(c)'
    PROVE  HostOK'
<1>1. ASSUME NEW r \in Stores, lock'[r] = Server PROVE lock[r] = Server
  BY <1>1, HostingAssumption, NoneAssumption DEF Server
<1>2. /\ NamesOK'
      /\ \A r \in Known' : DueOK(r)'
      /\ \A r \in Stores : ForkOK(r)'
      /\ \A r \in Stores : (IF r \in Known THEN RecordOK(r) ELSE UntouchedOK(r))'
      /\ \A r \in Stores : StoreOK(r)'
  BY <1>1, TablesKept
<1>3. ASSUME NEW d \in Calls, d # c PROVE CallOK(d)' /\ CopyOK(d)' /\ TracesOK(d)'
  <2>1. call'[d] = call[d]
    BY <1>3
  <2>2. CallOK(d)' /\ TracesOK(d)'
    BY <2>1, CallKept, TracesKept DEF TablesSame
  <2>3. ASSUME call[d].at \in Writing, NEW r \in {call[d].id, call[d].source}
        PROVE  lock'[r] = lock[r]
    <3>1. lock[r] = d /\ r \in Stores
      BY <2>3, WriterFacts, ForkFacts
    <3> QED BY <1>3, <3>1, NoneAssumption
  <2>4. CopyOK(d)'
    BY <2>1, <2>3, CopyKept DEF TablesSame
  <2> QED BY <2>2, <2>4
<1> QED BY <1>2, <1>3 DEF HostOK

\* The source a request names.
LEMMA ForkOfFacts ==
    ASSUME HostOK, NEW q \in Requests, q.kind = "fork", Forkable(q)
    PROVE  \E s \in Known : /\ ForkOf(q) = [source |-> s, number |-> q.at]
                            /\ repos[s].phase = "ready"
                            /\ ForkOf(q) \in ForkOrigins
                            /\ ForkOf(q) # None
                            /\ ForkOf(q).source = s
<1>1. PICK s \in Known : repos[s].name = q.source /\ repos[s].phase = "ready"
  BY DEF Forkable
<1>2. ASSUME NEW t \in Known, repos[t].name = q.source PROVE t = s
  BY <1>1, <1>2 DEF HostOK, NamesOK
<1>3. s = CHOOSE t \in Known : repos[t].name = q.source
  BY <1>1, <1>2
<1>4. ForkOf(q) = [source |-> s, number |-> q.at]
  BY <1>3 DEF ForkOf
<1>5. ForkOf(q) \in ForkOrigins
  BY <1>4, HostingAssumption DEF ForkOrigins, Known
<1> QED BY <1>1, <1>4, <1>5, NoneAssumption

\* A call that begins is typed.
LEMMA BegunFacts ==
    ASSUME HostOK, NEW q \in Requests, q.kind = "fork" => Forkable(q),
           NEW r \in Stores, NEW ready \in BOOLEAN
    PROVE  /\ Begun(q, r, ready) \in CallRecords
           /\ Begun(q, r, ready).at =
                IF q.kind = "create" /\ ready THEN "done" ELSE "provision"
           /\ Begun(q, r, ready).request = q
           /\ Begun(q, r, ready).id = r
           /\ Begun(q, r, ready).ready = ready
           /\ q.kind = "fork" =>
                /\ Begun(q, r, ready).source = ForkOf(q).source
                /\ Begun(q, r, ready).reader = Reader(q, ForkOf(q).source)
<1>1. CASE q.kind = "create"
  BY <1>1 DEF Begun, CallRecords
<1>2. CASE q.kind = "fork"
  <2>1. ForkOf(q).source \in Stores
    BY <1>2, ForkOfFacts DEF Known
  <2>2. Reader(q, ForkOf(q).source) \in {"maintain", "read", "none"}
    BY DEF Reader
  <2> QED BY <1>2, <2>1, <2>2 DEF Begun, CallRecords
<1> QED BY <1>1, <1>2, HostingAssumption

\* The operation was used before: the call goes on with its repository.
LEMMA RepeatKeeps ==
    ASSUME HostOK, NEW c \in Calls, NEW q \in Requests, call[c].at = "idle",
           q.kind = "fork" => Forkable(q),
           NEW r \in Known, repos[r].operation = q.operation, Same(r, q),
           call' = [call EXCEPT ![c] = Begun(q, r, repos[r].phase = "ready")],
           TablesSame, UNCHANGED <<provisioned, perms, lock>>
    PROVE  HostOK'
<1>1. PICK ready \in BOOLEAN : ready = (repos[r].phase = "ready")
  OBVIOUS
<1>2. PICK b : b = Begun(q, r, ready)
  OBVIOUS
<1>3. r \in Stores /\ RecordOK(r) /\ HostTypes
  BY DEF HostOK, Known
<1>4. /\ b \in CallRecords /\ b.request = q /\ b.id = r /\ b.ready = ready
      /\ b.at = IF q.kind = "create" /\ ready THEN "done" ELSE "provision"
      /\ q.kind = "fork" => /\ b.source = ForkOf(q).source
                            /\ b.reader = Reader(q, ForkOf(q).source)
  BY <1>2, <1>3, BegunFacts
<1>5. call' = [call EXCEPT ![c] = b]
  BY <1>1, <1>2
<1>6. call'[c] = b /\ \A d \in Calls \ {c} : call'[d] = call[d]
  BY <1>3, <1>5 DEF HostTypes
<1>7. HostTypes'
  BY <1>3, <1>4, <1>5 DEF HostTypes, TablesSame
<1>8. b.at \notin ForkStages /\ b.at \notin Writing /\ b.at \in {"provision", "done"}
  BY <1>4 DEF ForkStages, Writing
<1>9. CopyOK(c)' /\ TracesOK(c)'
  BY <1>6, <1>8 DEF CopyOK, TracesOK
<1>10. Known' = Known /\ repos' = repos
  BY DEF Known, TablesSame
<1>11. repos[r].fork = ForkOf(q) /\ repos[r].creator = q.principal /\ repos[r].name = q.name
  BY DEF Same
<1>12. q.kind = "create" => repos[r].fork = None
  BY <1>11 DEF ForkOf
<1>13. q.kind = "fork" => /\ b.source \in Known
                          /\ repos[r].fork = [source |-> b.source, number |-> q.at]
                          /\ b.reader = ForkReader(r)
  <2>1. ASSUME q.kind = "fork"
        PROVE  /\ b.source \in Known
               /\ repos[r].fork = [source |-> b.source, number |-> q.at]
               /\ b.reader = ForkReader(r)
    <3>1. PICK s \in Known : /\ ForkOf(q) = [source |-> s, number |-> q.at]
                             /\ ForkOf(q).source = s
      BY <2>1, ForkOfFacts
    <3>2. b.source = s /\ b.reader = Reader(q, s)
      BY <1>4, <2>1, <3>1
    <3> QED BY <1>11, <3>1, <3>2 DEF Reader, ForkReader
  <2> QED BY <2>1
<1>14. ForkReader(r)' = ForkReader(r)
  BY <1>10 DEF ForkReader
<1>15. CallOK(c)'
  <2>1. b.at = "done" => repos[r].phase = "ready" /\ r \in provisioned
    BY <1>1, <1>3, <1>4 DEF RecordOK
  <2>2. b.at # "provision" => r \in provisioned'
    BY <1>8, <2>1
  <2>3. CallOK(c)'
    <3>1. CallFits(b)'
      BY <1>1, <1>4, <1>8, <1>10, <1>11, <1>12, <1>13, <1>14, <2>1, <2>2 DEF CallFits
    <3> QED BY <1>6, <3>1 DEF CallOK
  <2> QED BY <2>3
<1> QED BY <1>6, <1>7, <1>9, <1>15, OnlyCall

\* A new repository is reserved in a directory that is new.
LEMMA ReserveNewKeeps ==
    ASSUME HostOK, NEW c \in Calls, NEW q \in Requests, call[c].at = "idle",
           q.kind = "fork" => Forkable(q),
           \A r \in Known : repos[r].operation # q.operation /\ repos[r].name # q.name,
           NEW x \in Stores \ Known,
           repos' = [repos EXCEPT ![x] =
                [name |-> q.name, public |-> q.public, creator |-> q.principal,
                 operation |-> q.operation, phase |-> "provisioning", epoch |-> 0,
                 fork |-> ForkOf(q)]],
           call' = [call EXCEPT ![c] = Begun(q, x, FALSE)],
           UNCHANGED <<stored, world, decided, unrecorded, inherited, omitted,
                       restricted, origin, due, provisioned, perms, lock>>
    PROVE  HostOK'
<1>1. PICK b : b = Begun(q, x, FALSE)
  OBVIOUS
<1>2. HostTypes /\ UntouchedOK(x) /\ StoreOK(x)
  BY DEF HostOK
<1>3. /\ b \in CallRecords /\ b.request = q /\ b.id = x /\ b.ready = FALSE
      /\ b.at = "provision"
      /\ q.kind = "fork" => /\ b.source = ForkOf(q).source
                            /\ b.reader = Reader(q, ForkOf(q).source)
  <2>1. PICK no \in BOOLEAN : no = FALSE
    OBVIOUS
  <2>2. b = Begun(q, x, no) /\ x \in Stores
    BY <1>1, <2>1
  <2>3. /\ b \in CallRecords /\ b.request = q /\ b.id = x /\ b.ready = no
        /\ b.at = IF q.kind = "create" /\ no THEN "done" ELSE "provision"
        /\ q.kind = "fork" => /\ b.source = ForkOf(q).source
                              /\ b.reader = Reader(q, ForkOf(q).source)
    BY <2>2, BegunFacts
  <2> QED BY <2>1, <2>3
<1>4. call'[c] = b /\ \A d \in Calls \ {c} : call'[d] = call[d]
  BY <1>1, <1>2 DEF HostTypes
<1>5. PICK fork : fork = ForkOf(q)
  OBVIOUS
<1>6. /\ q.kind = "create" => fork = None
      /\ q.kind = "fork" => /\ fork # None
                            /\ fork \in ForkOrigins
                            /\ fork = [source |-> fork.source, number |-> q.at]
                            /\ fork.source \in Known
                            /\ repos[fork.source].phase = "ready"
      /\ q.kind \in {"create", "fork"}
  <2>1. q.kind = "create" => fork = None
    BY <1>5 DEF ForkOf
  <2> QED BY <1>5, <2>1, ForkOfFacts, HostingAssumption
<1>7. PICK new : new = [name |-> q.name, public |-> q.public, creator |-> q.principal,
                        operation |-> q.operation, phase |-> "provisioning", epoch |-> 0,
                        fork |-> fork]
  OBVIOUS
<1>8. new \in RepositoryRecords /\ new # None
  <2>1. new \in RepositoryRecords
    BY <1>6, <1>7 DEF RepositoryRecords
  <2> QED BY <2>1, NoneAssumption
<1>9. /\ repos'[x] = new
      /\ \A r \in Stores \ {x} : repos'[r] = repos[r]
      /\ repos' \in [Stores -> RepositoryRecords \cup {None}]
  BY <1>2, <1>5, <1>7, <1>8 DEF HostTypes
<1>10. Known' = Known \cup {x} /\ \A r \in Known : r \in Stores /\ r # x /\ repos'[r] = repos[r]
  BY <1>8, <1>9 DEF Known
<1>11. HostTypes'
  <2>1. call' \in [Calls -> CallRecords]
    BY <1>1, <1>2, <1>3 DEF HostTypes
  <2> QED BY <1>2, <1>9, <2>1 DEF HostTypes
<1>12. NamesOK'
  <2>1. ASSUME NEW r \in Known', NEW t \in Known',
               repos'[r].name = repos'[t].name \/ repos'[r].operation = repos'[t].operation
        PROVE  r = t
    <3>1. new.name = q.name /\ new.operation = q.operation
      BY <1>7
    <3>2. CASE r \in Known /\ t \in Known
      BY <1>10, <2>1, <3>2 DEF HostOK, NamesOK
    <3>3. CASE r = x \/ t = x
      BY <1>9, <1>10, <2>1, <3>1, <3>3
    <3> QED BY <1>10, <2>1, <3>2, <3>3
  <2> QED BY <2>1 DEF NamesOK
<1>13. ASSUME NEW r \in Known, repos[r].fork # None
       PROVE  /\ repos'[repos[r].fork.source] = repos[repos[r].fork.source]
              /\ repos[r].fork.source \in Known /\ repos[r].fork.source \in Known'
  BY <1>10, <1>13, SourceFacts
<1>14. RecordOK(x)'
  BY <1>2, <1>6, <1>7, <1>9, <1>10 DEF RecordOK, UntouchedOK
<1>15. ASSUME NEW r \in Stores
       PROVE  (IF r \in Known THEN RecordOK(r) ELSE UntouchedOK(r))'
  <2>1. CASE r = x
    BY <1>10, <1>14, <2>1
  <2>2. CASE r \in Known
    <3>1. RecordOK(r)
      BY <2>2 DEF HostOK
    <3>2. repos'[r] = repos[r] /\ Initial(r)' = Initial(r)
      BY <1>10, <2>2 DEF Initial
    <3>3. repos[r].fork # None =>
            /\ repos[r].fork.source \in Known'
            /\ repos'[repos[r].fork.source].phase = "ready"
      BY <1>13, <2>2, <3>1 DEF RecordOK
    <3>4. RecordOK(r)'
      BY <3>1, <3>2, <3>3 DEF RecordOK
    <3> QED BY <1>10, <2>2, <3>4
  <2>3. CASE r \notin Known /\ r # x
    <3>1. UntouchedOK(r)
      BY <2>3 DEF HostOK
    <3>2. UntouchedOK(r)'
      BY <3>1 DEF UntouchedOK
    <3> QED BY <1>10, <2>3, <3>2
  <2> QED BY <2>1, <2>2, <2>3
<1>16. ASSUME NEW r \in Stores PROVE StoreOK(r)'
  <2>1. StoreOK(r)
    BY DEF HostOK
  <2>2. HeadNumber(r)' = HeadNumber(r) /\ \A k : Root(r, k)' = Root(r, k)
    BY DEF HeadNumber, Root
  <2>3. lock[r] = Server => r \in Known' /\ repos'[r].phase = "ready"
    BY <1>10, <2>1 DEF StoreOK
  <2> QED BY <2>1, <2>2, <2>3 DEF StoreOK
<1>17. ASSUME NEW r \in Known, repos[r].fork # None
       PROVE  ForkTraces(r)' = ForkTraces(r) /\ ForkReader(r)' = ForkReader(r)
  <2>1. repos'[r] = repos[r]
    BY <1>10
  <2> QED BY <1>13, <1>17, <2>1 DEF ForkTraces, InheritedTraces, ForkReader
<1>18. ASSUME NEW r \in Known' PROVE DueOK(r)'
  <2>1. CASE r = x
    BY <1>2, <2>1 DEF DueOK, UntouchedOK
  <2>2. CASE r \in Known
    <3>1. DueOK(r) /\ RecordOK(r)
      BY <1>10, <2>2 DEF HostOK
    <3>2. repos'[r] = repos[r]
      BY <1>10, <2>2
    <3>3. \A t : Placed(r, t) => Placed(r, t)'
      BY <2>2, <3>2, WorldSame, PlacedKept
    <3>4. CASE due[r] = None
      BY <3>4 DEF DueOK
    <3>5. CASE due[r] # None
      <4>1. repos[r].fork # None
        BY <3>1, <3>5 DEF RecordOK
      <4> QED BY <1>17, <2>2, <3>1, <3>2, <3>3, <3>5, <4>1 DEF DueOK
    <3> QED BY <3>4, <3>5
  <2> QED BY <1>10, <1>18, <2>1, <2>2
<1>19. ASSUME NEW r \in Stores PROVE ForkOK(r)'
  <2>1. ForkOK(r)
    BY DEF HostOK
  <2>2. \A s : HeadNumber(s)' = HeadNumber(s) /\ \A k : Root(s, k)' = Root(s, k)
    BY DEF HeadNumber, Root
  <2> QED BY <2>1, <2>2 DEF ForkOK
<1>20. ASSUME NEW d \in Calls, d # c PROVE CallOK(d)' /\ CopyOK(d)' /\ TracesOK(d)'
  <2>1. call'[d] = call[d] /\ CallOK(d) /\ CopyOK(d) /\ TracesOK(d)
    BY <1>4, <1>20 DEF HostOK
  <2>2. CASE call[d].at = "idle"
    BY <2>1, <2>2 DEF CallOK, CallFits, CopyOK, TracesOK, Writing
  <2>3. CASE call[d].at # "idle"
    <3>1. PICK r : r = call[d].id
      OBVIOUS
    <3>2. r \in Known /\ repos'[r] = repos[r] /\ r \in Known' /\ Initial(r)' = Initial(r)
      BY <1>10, <2>3, <3>1, CallFacts DEF Initial
    <3>3. call[d].request.kind = "fork" => repos[r].fork # None /\ call[d].source \in Known
      <4>1. ASSUME call[d].request.kind = "fork"
            PROVE  repos[r].fork # None /\ call[d].source \in Known
        <5>1. /\ call[d].source \in Known
              /\ repos[r].fork = [source |-> call[d].source, number |-> call[d].request.at]
          BY <2>1, <2>3, <3>1, <4>1 DEF CallOK, CallFits
        <5>2. repos[r].fork \in ForkOrigins
          BY <2>3, <5>1, CallFacts DEF ForkOrigins, Known
        <5> QED BY <5>1, <5>2, NoneAssumption
      <4> QED BY <4>1
    <3>4. CallOK(d)'
      <4>1. PICK o : o = call[d]
        OBVIOUS
      <4>2. o.at # "idle" /\ o.id = r /\ CallFits(o)
        BY <2>1, <2>3, <3>1, <4>1 DEF CallOK
      <4>3. o.request.kind = "fork" => o.source \in Known' /\ ForkReader(r)' = ForkReader(r)
        BY <1>10, <1>17, <3>2, <3>3, <4>1
      <4>4. CallFits(o)'
        BY <3>2, <4>2, <4>3 DEF CallFits
      <4> QED BY <2>1, <4>1, <4>4 DEF CallOK
    <3>5. \A s : HeadNumber(s)' = HeadNumber(s) /\ \A k : Root(s, k)' = Root(s, k)
      BY DEF HeadNumber, Root
    <3>6. CopyOK(d)'
      BY <2>1, <3>5 DEF CopyOK
    <3>7. TracesOK(d)'
      <4>1. CASE call[d].at \notin Writing
        BY <2>1, <4>1 DEF TracesOK
      <4>2. CASE call[d].at \in Writing
        <5>1. repos[r].fork # None
          BY <3>1, <4>2, WriterFacts, ForkFacts
        <5>2. ForkTraces(r)' = ForkTraces(r)
          BY <1>17, <3>2, <5>1
        <5>3. \A t : /\ Withheld(d, t)' <=> Withheld(d, t)
                     /\ Settled(d, t)' <=> Settled(d, t)
          BY <2>1 DEF Withheld, Settled
        <5> QED BY <2>1, <3>1, <3>5, <5>2, <5>3 DEF TracesOK
      <4> QED BY <4>1, <4>2
    <3> QED BY <3>4, <3>6, <3>7
  <2> QED BY <2>2, <2>3
<1>21. CallOK(c)' /\ CopyOK(c)' /\ TracesOK(c)'
  <2>1. CopyOK(c)' /\ TracesOK(c)'
    BY <1>3, <1>4 DEF CopyOK, TracesOK, Writing
  <2>2. x \in Known' /\ new.name = q.name /\ new.operation = q.operation /\ new.fork = fork
        /\ new.creator = q.principal
    BY <1>7, <1>10
  <2>3. q.kind = "fork" => b.source = fork.source /\ b.reader = ForkReader(x)'
    <3>1. ASSUME q.kind = "fork" PROVE b.source = fork.source /\ b.reader = ForkReader(x)'
      <4>1. b.source = fork.source /\ b.reader = Reader(q, fork.source)
        BY <1>3, <1>5, <3>1
      <4>2. repos'[fork.source] = repos[fork.source]
        BY <1>6, <1>10, <3>1
      <4> QED BY <1>9, <2>2, <4>1, <4>2 DEF Reader, ForkReader
    <3> QED BY <3>1
  <2>4. "provision" \notin ForkStages
    BY DEF ForkStages, Writing
  <2>5. CallOK(c)'
    <3>1. CallFits(b)'
      BY <1>3, <1>6, <1>9, <1>10, <2>2, <2>3, <2>4 DEF CallFits
    <3> QED BY <1>4, <3>1 DEF CallOK
  <2> QED BY <2>1, <2>5
<1> QED BY <1>11, <1>12, <1>15, <1>16, <1>18, <1>19, <1>20, <1>21 DEF HostOK

\* Reserve keeps the invariant, for a new record and a repeated one.
LEMMA ReserveKeeps ==
    ASSUME HostOK, NEW c \in Calls, NEW q \in Requests, Reserve(c, q)
    PROVE  HostOK'
<1>1. /\ call[c].at = "idle" /\ (q.kind = "fork" => Forkable(q))
      /\ UNCHANGED <<stored, world, provisioned, perms, lock, decided, unrecorded,
                     inherited, omitted, restricted, origin, due>>
  BY DEF Reserve, transferVars, storeVars, nodeVars
<1>2. CASE \E r \in Known :
              /\ repos[r].operation = q.operation
              /\ Same(r, q)
              /\ call' = [call EXCEPT ![c] = Begun(q, r, repos[r].phase = "ready")]
              /\ UNCHANGED repos
  BY <1>1, <1>2, RepeatKeeps DEF TablesSame
<1>3. CASE /\ \A r \in Known : /\ repos[r].operation # q.operation
                               /\ repos[r].name # q.name
           /\ Stores \ Known # {}
           /\ LET r == CHOOSE r \in Stores \ Known : TRUE
              IN  /\ repos' = [repos EXCEPT ![r] =
                       [name |-> q.name, public |-> q.public,
                        creator |-> q.principal, operation |-> q.operation,
                        phase |-> "provisioning", epoch |-> 0,
                        fork |-> ForkOf(q)]]
                  /\ call' = [call EXCEPT ![c] = Begun(q, r, FALSE)]
  <2>1. PICK x \in Stores \ Known : x = CHOOSE r \in Stores \ Known : TRUE
    BY <1>3
  <2> QED BY <1>1, <1>3, <2>1, ReserveNewKeeps
<1> QED BY <1>2, <1>3 DEF Reserve

\* One field of a call moves.
LEMMA CallMoves ==
    ASSUME HostTypes, NEW c \in Calls, NEW at \in {"apply", "mark", "done"} \cup ForkStages,
           call' = [call EXCEPT ![c].at = at]
    PROVE  /\ call' \in [Calls -> CallRecords]
           /\ call'[c] = [call[c] EXCEPT !.at = at]
           /\ call'[c].at = at /\ call'[c].request = call[c].request
           /\ call'[c].id = call[c].id /\ call'[c].source = call[c].source
           /\ call'[c].reader = call[c].reader /\ call'[c].ready = call[c].ready
           /\ call'[c].todo = call[c].todo /\ call'[c].trace = call[c].trace
           /\ \A d \in Calls \ {c} : call'[d] = call[d]
<1>1. call \in [Calls -> CallRecords] /\ call[c] \in CallRecords
  BY DEF HostTypes
<1>2. call'[c] = [call[c] EXCEPT !.at = at] /\ \A d \in Calls \ {c} : call'[d] = call[d]
  BY <1>1
<1>3. [call[c] EXCEPT !.at = at] \in CallRecords
  BY <1>1 DEF CallRecords
<1> QED BY <1>1, <1>2, <1>3 DEF CallRecords

\* A call that moved on still fits its record.
LEMMA MovedFits ==
    ASSUME HostOK, NEW c \in Calls, call[c].at # "idle",
           call'[c].request = call[c].request, call'[c].id = call[c].id,
           call'[c].source = call[c].source, call'[c].reader = call[c].reader,
           call'[c].ready = call[c].ready,
           repos' = repos, perms'[call[c].id] \in {perms[call[c].id], Initial(call[c].id)},
           provisioned \subseteq provisioned',
           call'[c].at # "provision" => call[c].id \in provisioned',
           call'[c].at = "mark" => perms'[call[c].id] = Initial(call[c].id),
           call'[c].at = "done" => repos[call[c].id].phase = "ready",
           call[c].request.kind = "create" => call'[c].at \notin ForkStages,
           call'[c].at \in {"apply", "mark"} =>
              origin'[call[c].id] = repos[call[c].id].fork
    PROVE  CallOK(c)'
<1>1. PICK o, n : o = call[c] /\ n = call'[c]
  OBVIOUS
<1>2. CallFits(o) /\ o.at # "idle"
  BY <1>1 DEF HostOK, CallOK
<1>3. Known' = Known /\ ForkReader(o.id)' = ForkReader(o.id) /\ Initial(o.id)' = Initial(o.id)
  BY DEF Known, ForkReader, Initial
<1>4. CallFits(n)'
  BY <1>1, <1>2, <1>3 DEF CallFits
<1> QED BY <1>1, <1>4 DEF CallOK

\* Provision keeps the invariant.
LEMMA ProvisionKeeps ==
    ASSUME HostOK, NEW c \in Calls, Provision(c)
    PROVE  HostOK'
<1>1. PICK at : at = IF call[c].request.kind = "fork" THEN "open" ELSE "apply"
  OBVIOUS
<1>2. /\ call[c].at = "provision" /\ call' = [call EXCEPT ![c].at = at]
      /\ provisioned' = provisioned \cup {call[c].id}
      /\ TablesSame /\ UNCHANGED <<perms, lock>>
  BY <1>1 DEF Provision, transferVars, storeVars, TablesSame
<1>3. at \in {"apply", "mark", "done"} \cup ForkStages /\ at \notin Writing
  BY <1>1 DEF ForkStages, Writing
<1>4. /\ HostTypes /\ RecordOK(call[c].id) /\ CallOK(c)
      /\ call[c].id \in Stores /\ call[c].request.kind \in {"create", "fork"}
  BY <1>2, CallFacts DEF HostOK
<1>5. /\ call' \in [Calls -> CallRecords]
      /\ call'[c].at = at /\ call'[c].request = call[c].request
      /\ call'[c].id = call[c].id /\ call'[c].source = call[c].source
      /\ call'[c].reader = call[c].reader /\ call'[c].ready = call[c].ready
      /\ \A d \in Calls \ {c} : call'[d] = call[d]
  BY <1>2, <1>3, <1>4, CallMoves
<1>6. HostTypes'
  BY <1>2, <1>4, <1>5 DEF HostTypes, TablesSame
<1>7. CopyOK(c)' /\ TracesOK(c)'
  BY <1>3, <1>5 DEF CopyOK, TracesOK
<1>8. CallOK(c)'
  <2>1. call[c].request.kind = "create" => repos[call[c].id].fork = None /\ at \notin ForkStages
    BY <1>1, <1>2, <1>4 DEF CallOK, CallFits, ForkStages, Writing
  <2>2. at \in {"apply", "mark"} => origin[call[c].id] = repos[call[c].id].fork
    BY <1>1, <1>4, <2>1 DEF RecordOK
  <2>3. at # "mark" /\ at # "done"
    BY <1>1
  <2> QED BY <1>2, <1>5, <2>1, <2>2, <2>3, MovedFits DEF TablesSame
<1> QED BY <1>2, <1>5, <1>6, <1>7, <1>8, OnlyCall

\* The locks a call gives back are its own.
LEMMA ReleasedFacts ==
    ASSUME HostTypes, NEW c \in Calls, lock' = Released(c)
    PROVE  /\ lock' \in [Stores -> Calls \cup {None, Server}]
           /\ \A r \in Stores : lock'[r] = lock[r] \/ {lock[r], lock'[r]} \subseteq {None, c}
BY DEF HostTypes, Released

\* A call that ends or is refused gives back its own locks only.
LEMMA CallEndsKeeps ==
    ASSUME HostOK, NEW c \in Calls, CallEnds(c) \/ ForkBusy(c)
    PROVE  HostOK'
<1>1. /\ call' = [call EXCEPT ![c] = Idle]
      /\ lock' = lock \/ lock' = Released(c)
      /\ TablesSame /\ UNCHANGED <<provisioned, perms>>
  BY DEF CallEnds, ForkBusy, transferVars, storeVars, nodeVars, TablesSame
<1>2. HostTypes /\ Idle \in CallRecords /\ Idle.at = "idle"
  BY DEF HostOK, Idle, CallRecords
<1>3. call'[c] = Idle /\ \A d \in Calls \ {c} : call'[d] = call[d]
  BY <1>1, <1>2 DEF HostTypes
<1>4. /\ lock' \in [Stores -> Calls \cup {None, Server}]
      /\ \A r \in Stores : lock'[r] = lock[r] \/ {lock[r], lock'[r]} \subseteq {None, c}
  BY <1>1, <1>2, ReleasedFacts DEF HostTypes
<1>5. HostTypes'
  BY <1>1, <1>2, <1>4 DEF HostTypes, TablesSame
<1>6. CallOK(c)' /\ CopyOK(c)' /\ TracesOK(c)'
  BY <1>2, <1>3 DEF CallOK, CallFits, CopyOK, TracesOK, Writing
<1> QED BY <1>1, <1>3, <1>4, <1>5, <1>6, OnlyCall

\* Apply keeps the invariant: the first permissions or the same again.
LEMMA ApplyKeeps ==
    ASSUME HostOK, NEW c \in Calls, Apply(c)
    PROVE  HostOK'
<1>1. PICK x : x = call[c].id
  OBVIOUS
<1>2. /\ call[c].at = "apply" /\ call' = [call EXCEPT ![c].at = "mark"]
      /\ perms' = [perms EXCEPT ![x] = Initial(x)]
      /\ TablesSame /\ UNCHANGED <<provisioned, lock>>
  BY <1>1 DEF Apply, transferVars, storeVars, TablesSame
<1>3. /\ HostTypes /\ RecordOK(x) /\ CallOK(c) /\ x \in Stores /\ x \in Known
      /\ call[c].request.kind \in {"create", "fork"}
  BY <1>1, <1>2, CallFacts DEF HostOK
<1>4. /\ call' \in [Calls -> CallRecords]
      /\ call'[c].at = "mark" /\ call'[c].request = call[c].request
      /\ call'[c].id = call[c].id /\ call'[c].source = call[c].source
      /\ call'[c].reader = call[c].reader /\ call'[c].ready = call[c].ready
      /\ \A d \in Calls \ {c} : call'[d] = call[d]
  BY <1>2, <1>3, CallMoves
<1>5. HostTypes'
  BY <1>2, <1>3, <1>4 DEF HostTypes, TablesSame
<1>6. /\ perms'[x] = Initial(x)
      /\ \A r \in Stores \ {x} : perms'[r] = perms[r]
      /\ Known' = Known /\ \A r : Initial(r)' = Initial(r)
  BY <1>2, <1>3 DEF HostTypes, Known, Initial, TablesSame
<1>7. ASSUME NEW r \in Stores
      PROVE  (IF r \in Known THEN RecordOK(r) ELSE UntouchedOK(r))'
  <2>1. CASE r # x
    BY <1>2, <1>6, <2>1, RecordKept DEF TablesSame
  <2>2. CASE r = x
    <3>1. RecordOK(x)'
      BY <1>2, <1>3, <1>6 DEF RecordOK, TablesSame
    <3> QED BY <1>3, <1>6, <2>2, <3>1
  <2> QED BY <2>1, <2>2
<1>8. \A r \in Known : perms'[r] \in {perms[r], Initial(r)}
  BY <1>6 DEF Known
<1>9. ASSUME NEW d \in Calls, d # c PROVE CallOK(d)' /\ CopyOK(d)' /\ TracesOK(d)'
  BY <1>2, <1>4, <1>8, <1>9, CallKept, CopyKept, TracesKept DEF TablesSame
<1>10. CallOK(c)' /\ CopyOK(c)' /\ TracesOK(c)'
  <2>1. CopyOK(c)' /\ TracesOK(c)'
    BY <1>4 DEF CopyOK, TracesOK, Writing
  <2>2. x \in provisioned /\ origin[x] = repos[x].fork
    BY <1>1, <1>2, <1>3 DEF CallOK, CallFits
  <2>3. call'[c].at \notin ForkStages
    BY <1>4 DEF ForkStages, Writing
  <2> QED BY <1>1, <1>2, <1>4, <1>6, <2>1, <2>2, <2>3, MovedFits DEF TablesSame
<1>11. /\ NamesOK'
       /\ \A r \in Known' : DueOK(r)'
       /\ \A r \in Stores : ForkOK(r)'
       /\ \A r \in Stores : StoreOK(r)'
  BY <1>2, TablesKept
<1> QED BY <1>5, <1>7, <1>9, <1>10, <1>11 DEF HostOK

\* MarkReady keeps the invariant: what it declares ready is.
LEMMA MarkReadyKeeps ==
    ASSUME HostOK, NEW c \in Calls, MarkReady(c)
    PROVE  HostOK'
<1>1. PICK x : x = call[c].id
  OBVIOUS
<1>2. /\ call[c].at = "mark" /\ call' = [call EXCEPT ![c].at = "done"]
      /\ repos' = [repos EXCEPT ![x].phase = "ready", ![x].epoch = 1]
      /\ UNCHANGED <<stored, world, provisioned, perms, lock, decided, unrecorded,
                     inherited, omitted, restricted, origin, due>>
  BY <1>1 DEF MarkReady, transferVars, storeVars, nodeVars
<1>3. /\ HostTypes /\ RecordOK(x) /\ CallOK(c) /\ x \in Stores /\ x \in Known
      /\ call[c].request.kind \in {"create", "fork"} /\ repos[x] \in RepositoryRecords
  BY <1>1, <1>2, CallFacts, KnownRecord DEF HostOK
<1>4. /\ call' \in [Calls -> CallRecords]
      /\ call'[c].at = "done" /\ call'[c].request = call[c].request
      /\ call'[c].id = call[c].id /\ call'[c].source = call[c].source
      /\ call'[c].reader = call[c].reader /\ call'[c].ready = call[c].ready
      /\ \A d \in Calls \ {c} : call'[d] = call[d]
  BY <1>2, <1>3, CallMoves
<1>5. /\ repos'[x].name = repos[x].name /\ repos'[x].public = repos[x].public
      /\ repos'[x].creator = repos[x].creator /\ repos'[x].fork = repos[x].fork
      /\ repos'[x].operation = repos[x].operation /\ repos'[x].phase = "ready"
      /\ repos'[x] \in RepositoryRecords
      /\ \A r \in Stores \ {x} : repos'[r] = repos[r]
      /\ repos' \in [Stores -> RepositoryRecords \cup {None}]
  BY <1>2, <1>3 DEF HostTypes, RepositoryRecords
<1>6. /\ \A r \in Stores :
            /\ repos'[r].name = repos[r].name /\ repos'[r].public = repos[r].public
            /\ repos'[r].creator = repos[r].creator /\ repos'[r].fork = repos[r].fork
            /\ repos'[r].operation = repos[r].operation
            /\ repos[r].phase = "ready" => repos'[r].phase = "ready"
            /\ Initial(r)' = Initial(r)
      /\ Known' = Known
      /\ \A r \in Known : r \in Stores
  <2>1. Known' = Known
    BY <1>3, <1>5, NoneAssumption DEF Known
  <2>2. ASSUME NEW r \in Stores
        PROVE  /\ repos'[r].name = repos[r].name /\ repos'[r].public = repos[r].public
               /\ repos'[r].creator = repos[r].creator /\ repos'[r].fork = repos[r].fork
               /\ repos'[r].operation = repos[r].operation
               /\ repos[r].phase = "ready" => repos'[r].phase = "ready"
    BY <1>5
  <2> QED BY <2>1, <2>2 DEF Initial, Known
<1>7. ASSUME NEW r \in Known, repos[r].fork # None
      PROVE  ForkReader(r)' = ForkReader(r) /\ ForkTraces(r)' = ForkTraces(r)
  <2>1. repos[r].fork.source \in Stores
    BY <1>7, SourceFacts
  <2>2. repos'[r].fork = repos[r].fork
    BY <1>6
  <2>3. PICK s : s = repos[r].fork.source /\ s = repos'[r].fork.source
    BY <2>2
  <2>4. /\ s \in Stores /\ r \in Stores
        /\ repos'[s].creator = repos[s].creator /\ repos'[s].public = repos[s].public
        /\ repos'[r].creator = repos[r].creator
    BY <1>6, <2>1, <2>3
  <2>5. ForkReader(r)' = ForkReader(r)
    BY <2>3, <2>4 DEF ForkReader
  <2>6. ForkTraces(r)' = ForkTraces(r)
    BY <1>2, <2>2 DEF ForkTraces, InheritedTraces
  <2> QED BY <2>5, <2>6
<1>8. HostTypes'
  BY <1>2, <1>3, <1>4, <1>5 DEF HostTypes
<1>9. NamesOK'
  BY <1>6 DEF HostOK, NamesOK
<1>10. perms[x] = Initial(x) /\ x \in provisioned /\ origin[x] = repos[x].fork
  BY <1>1, <1>2, <1>3 DEF CallOK, CallFits
<1>11. ASSUME NEW r \in Stores
       PROVE  (IF r \in Known THEN RecordOK(r) ELSE UntouchedOK(r))'
  <2>1. CASE r \notin Known
    BY <1>2, <1>6, <2>1 DEF HostOK, UntouchedOK
  <2>2. CASE r \in Known
    <3>1. RecordOK(r)
      BY <2>2 DEF HostOK
    <3>2. repos[r].fork # None =>
            /\ repos[r].fork.source \in Known \ {r}
            /\ repos'[repos[r].fork.source].phase = "ready"
      BY <1>6, <2>2, SourceFacts
    <3>3. CASE r = x
      <4>1. RecordOK(x) /\ Initial(x)' = Initial(x)
        BY <1>6, <2>2, <3>1, <3>3
      <4>2. /\ repos'[x].fork = repos[x].fork /\ repos'[x].phase = "ready"
            /\ perms'[x] = Initial(x)' /\ x \in provisioned'
            /\ origin'[x] = repos'[x].fork
        BY <1>2, <1>5, <1>10, <4>1
      <4>3. repos'[x].fork # None =>
              /\ repos'[x].fork.source \in Known' \ {x}
              /\ repos'[repos'[x].fork.source].phase = "ready"
        BY <1>6, <3>2, <3>3, <4>2
      <4>4. RecordOK(x)'
        BY <1>2, <4>1, <4>2, <4>3 DEF RecordOK
      <4> QED BY <1>6, <2>2, <3>3, <4>4
    <3>4. CASE r # x
      <4>1. repos'[r] = repos[r]
        BY <1>5, <3>4
      <4>2. RecordOK(r)'
        BY <1>2, <1>6, <3>1, <3>2, <4>1 DEF RecordOK
      <4> QED BY <1>6, <2>2, <4>2
    <3> QED BY <1>6, <2>2, <3>3, <3>4
  <2> QED BY <2>1, <2>2
<1>12. ASSUME NEW r \in Stores PROVE StoreOK(r)' /\ ForkOK(r)'
  <2>1. StoreOK(r) /\ ForkOK(r)
    BY DEF HostOK
  <2>2. \A s : HeadNumber(s)' = HeadNumber(s) /\ \A k : Root(s, k)' = Root(s, k)
    BY <1>2 DEF HeadNumber, Root
  <2>3. StoreOK(r)'
    BY <1>2, <1>6, <2>1, <2>2 DEF StoreOK
  <2>4. ForkOK(r)'
    BY <1>2, <2>1, <2>2 DEF ForkOK
  <2> QED BY <2>3, <2>4
<1>13. ASSUME NEW r \in Known PROVE DueOK(r)'
  <2>1. DueOK(r) /\ RecordOK(r)
    BY <1>6 DEF HostOK
  <2>2. \A t : Placed(r, t) => Placed(r, t)'
    <3>1. repos'[r].fork = repos[r].fork
      BY <1>6, <2>1
    <3> QED BY <1>2, <3>1, WorldSame, PlacedKept
  <2>3. CASE due[r] = None
    BY <1>2, <2>3 DEF DueOK
  <2>4. CASE due[r] # None
    <3>1. repos[r].fork # None /\ repos'[r].fork = repos[r].fork
      BY <1>6, <2>1, <2>4 DEF RecordOK
    <3> QED BY <1>2, <1>7, <2>1, <2>2, <2>4, <3>1 DEF DueOK
  <2> QED BY <2>3, <2>4
<1>14. ASSUME NEW d \in Calls, NEW at, call[d].at # "idle",
              at = "done" \/ at = call[d].at, at = "done" => repos'[call[d].id].phase = "ready",
              call'[d].at = at, call'[d].request = call[d].request,
              call'[d].id = call[d].id, call'[d].source = call[d].source,
              call'[d].reader = call[d].reader, call'[d].ready = call[d].ready,
              call[d].id \in provisioned \/ at # "done"
       PROVE  CallOK(d)'
  <2>1. PICK o, n : o = call[d] /\ n = call'[d]
    OBVIOUS
  <2>2. CallFits(o) /\ o.at # "idle" /\ o.id \in Known
    BY <1>14, <2>1, CallFacts DEF HostOK, CallOK
  <2>3. o.request.kind = "fork" => ForkReader(o.id)' = ForkReader(o.id)
    <3>1. ASSUME o.request.kind = "fork" PROVE repos[o.id].fork # None
      <4>1. /\ o.source \in Stores /\ o.request.at \in Nat
            /\ repos[o.id].fork = [source |-> o.source, number |-> o.request.at]
        BY <1>14, <2>1, <2>2, <3>1, CallFacts DEF CallFits, Known
      <4>2. repos[o.id].fork \in ForkOrigins
        BY <4>1 DEF ForkOrigins
      <4> QED BY <4>2, NoneAssumption
    <3> QED BY <1>7, <2>2, <3>1
  <2>4. "done" \notin ForkStages
    BY DEF ForkStages, Writing
  <2>5. /\ repos'[o.id].name = repos[o.id].name /\ repos'[o.id].fork = repos[o.id].fork
        /\ repos'[o.id].operation = repos[o.id].operation
        /\ repos[o.id].phase = "ready" => repos'[o.id].phase = "ready"
        /\ Initial(o.id)' = Initial(o.id)
    BY <1>6, <2>2
  <2>6. CallFits(n)'
    <3>1. /\ n.request = o.request /\ n.id = o.id /\ n.source = o.source
          /\ n.reader = o.reader /\ n.ready = o.ready
          /\ n.at = "done" \/ n.at = o.at
          /\ n.at = "done" => repos'[o.id].phase = "ready" /\ o.id \in provisioned
      BY <1>14, <2>1
    <3>2. PICK q, r : q = o.request /\ r = o.id
      OBVIOUS
    <3>3. /\ q \in Requests /\ r \in Known'
          /\ repos'[r].name = q.name /\ repos'[r].operation = q.operation
          /\ n.ready => repos'[r].phase = "ready"
          /\ n.at # "provision" => r \in provisioned'
      BY <1>2, <1>6, <2>2, <2>5, <3>1, <3>2 DEF CallFits
    <3>4. /\ n.at = "mark" => perms'[r] = Initial(r)'
          /\ n.at = "done" => repos'[r].phase = "ready"
          /\ n.at \in {"apply", "mark"} => origin'[r] = repos'[r].fork
      BY <1>2, <2>2, <2>5, <3>1, <3>2 DEF CallFits
    <3>5. /\ q.kind = "create" => repos'[r].fork = None /\ n.at \notin ForkStages
          /\ q.kind = "fork" =>
                /\ n.source \in Known'
                /\ repos'[r].fork = [source |-> n.source, number |-> q.at]
      BY <1>6, <2>2, <2>4, <2>5, <3>1, <3>2 DEF CallFits
    <3>6. q.kind = "fork" => n.reader = ForkReader(r)'
      BY <2>2, <2>3, <3>1, <3>2 DEF CallFits
    <3> QED BY <3>1, <3>2, <3>3, <3>4, <3>5, <3>6 DEF CallFits
  <2> QED BY <2>1, <2>6 DEF CallOK
<1>15. CallOK(c)' /\ CopyOK(c)' /\ TracesOK(c)'
  <2>1. CopyOK(c)' /\ TracesOK(c)'
    BY <1>4 DEF CopyOK, TracesOK, Writing
  <2>2. call[c].at # "idle" /\ repos'[call[c].id].phase = "ready" /\ call[c].id \in provisioned
    BY <1>1, <1>2, <1>5, <1>10
  <2>3. CallOK(c)'
    BY <1>4, <1>14, <2>2
  <2> QED BY <2>1, <2>3
<1>16. ASSUME NEW d \in Calls, d # c PROVE CallOK(d)' /\ CopyOK(d)' /\ TracesOK(d)'
  <2>1. call'[d] = call[d] /\ CallOK(d) /\ TracesOK(d)
    BY <1>4, <1>16 DEF HostOK
  <2>2. CASE call[d].at = "idle"
    BY <2>1, <2>2 DEF CallOK, CallFits, CopyOK, TracesOK, Writing
  <2>3. CASE call[d].at # "idle"
    <3>1. call[d].at = "done" => repos'[call[d].id].phase = "ready" /\ call[d].id \in provisioned
      BY <1>6, <2>1, <2>3 DEF CallOK, CallFits
    <3>2. CallOK(d)'
      BY <1>14, <2>1, <2>3, <3>1
    <3>3. CopyOK(d)'
      BY <1>2, <2>1, CopyKept
    <3>4. TracesOK(d)'
      <4>1. CASE call[d].at \notin Writing
        BY <2>1, <4>1 DEF TracesOK
      <4>2. CASE call[d].at \in Writing
        <5>1. PICK r : r = call[d].id
          OBVIOUS
        <5>2. ForkTraces(r)' = ForkTraces(r)
          BY <1>7, <4>2, <5>1, WriterFacts, ForkFacts
        <5>3. \A t : /\ Withheld(d, t)' <=> Withheld(d, t)
                     /\ Settled(d, t)' <=> Settled(d, t)
          BY <1>2, <2>1 DEF Withheld, Settled
        <5>4. HeadNumber(r)' = HeadNumber(r)
          BY <1>2 DEF HeadNumber
        <5> QED BY <1>2, <2>1, <5>1, <5>2, <5>3, <5>4 DEF TracesOK
      <4> QED BY <4>1, <4>2
    <3> QED BY <3>2, <3>3, <3>4
  <2> QED BY <2>2, <2>3
<1> QED BY <1>6, <1>8, <1>9, <1>11, <1>12, <1>13, <1>15, <1>16 DEF HostOK

-----------------------------------------------------------------------------
(* The node's fork.                                                        *)

\* A step of a fork that is written: it adds to the fork's own directory, and
\* nothing the reader may not see.
LEMMA WriterStep ==
    ASSUME HostOK, HostTypes', NEW c \in Calls, NEW x, x = call[c].id,
           call[c].at \in Writing, call'[c].at \in Writing,
           call'[c].request = call[c].request, call'[c].id = call[c].id,
           call'[c].source = call[c].source, call'[c].reader = call[c].reader,
           call'[c].ready = call[c].ready,
           \A d \in Calls \ {c} : call'[d] = call[d],
           UNCHANGED <<repos, provisioned, perms, lock, decided, unrecorded, origin, due>>,
           SameElsewhere(x), GrowsAt(x),
           inherited'[x] \subseteq ForkTraces(x),
           \A t \in (stored'[x] \ stored[x]) \cap Traces : ~Withheld(c, t) \/ ToCopy(x, t),
           StoreOK(x)', CopyOK(c)', TracesOK(c)'
    PROVE  HostOK'
<1>1. /\ x \in Known /\ x \in Stores /\ call[c].source \in Stores \ {x}
      /\ repos[x].fork # None /\ repos[x].fork.source = call[c].source
      /\ call[c].reader = ForkReader(x) /\ call[c].request.kind = "fork"
      /\ lock[x] = c /\ lock[call[c].source] = c
      /\ due[x] # None /\ origin[x] = None /\ unrecorded[x] = None
      /\ call[c].at # "idle" /\ call[c].at \in ForkStages
  BY WriterFacts, ForkFacts
<1>2. HostTypes /\ Known' = Known /\ Initial(x)' = Initial(x) /\ RecordOK(x) /\ DueOK(x)
  BY <1>1 DEF HostOK, Known, Initial
<1>3. /\ \A r \in Stores \ {x} :
            (IF r \in Known THEN RecordOK(r) ELSE UntouchedOK(r))' /\ StoreOK(r)'
      /\ \A r \in Stores : ForkOK(r)'
  BY <1>1, ElsewhereKept
<1>4. RecordOK(x)'
  BY <1>1, <1>2 DEF RecordOK
<1>5. ASSUME NEW r \in Known PROVE DueOK(r)'
  <2>1. CASE r # x
    <3>1. repos[r].fork # None => repos[r].fork.source # x
      BY WrittenIsNoSource
    <3> QED BY <2>1, <3>1, <1>1, DueElsewhere
  <2>2. CASE r = x
    <3>1. ForkTraces(x)' = ForkTraces(x)
      BY <1>1, ForkTracesSame DEF SameElsewhere
    <3>2. restricted'[call[c].source] = restricted[call[c].source]
      BY <1>1 DEF SameElsewhere
    <3>3. \A t : Placed(x, t) => Placed(x, t)'
      BY <1>1, AllGrow, PlacedKept
    <3>4. /\ due[x].secret \subseteq Traces /\ due[x].secret \subseteq restricted[call[c].source]
          /\ due[x].reader = call[c].reader
      BY <1>1, <1>2 DEF HostTypes, DueOK
    <3>5. ASSUME due[x].reader # "maintain", NEW t \in due[x].secret \cap stored'[x]
          PROVE  Placed(x, t)'
      <4>1. CASE t \in stored[x]
        BY <1>1, <1>2, <3>3, <3>5, <4>1 DEF DueOK
      <4>2. CASE t \notin stored[x]
        <5>1. Withheld(c, t)
          BY <3>4, <3>5 DEF Withheld
        <5>2. ToCopy(x, t)
          BY <3>4, <3>5, <4>2, <5>1
        <5> QED BY <3>3, <5>2 DEF Placed
      <4> QED BY <4>1, <4>2
    <3> QED BY <1>1, <2>2, <3>1, <3>2, <3>5, DueKept
  <2> QED BY <2>1, <2>2
<1>6. ASSUME NEW d \in Calls, d # c PROVE CallOK(d)' /\ CopyOK(d)' /\ TracesOK(d)'
  <2>1. call[d].at \in Writing => x \notin {call[d].id, call[d].source}
    BY <1>1, <1>6, WriterFacts
  <2> QED BY <1>1, <1>6, <2>1, CallElsewhere
<1>7. CallOK(c)'
  <2>1. x \in provisioned
    BY <1>1, CallFacts DEF HostOK, CallOK, CallFits, ForkStages, Writing
  <2>2. call'[c].at \notin {"idle", "provision", "mark", "done", "apply"}
    BY DEF Writing
  <2> QED BY <1>1, <2>1, <2>2, MovedFits
<1>8. NamesOK'
  BY <1>2 DEF HostOK, NamesOK
<1> QED BY <1>1, <1>2, <1>3, <1>4, <1>5, <1>6, <1>7, <1>8 DEF HostOK

\* Of the objects of a tree that a store lacks, one fits: children come first.
LEMMA SomeFits ==
    ASSUME NEW tree \in Chunks, NEW x, NEW lack,
           lack = Reach({tree}, Objects) \ stored[x], lack # {}
    PROVE  \E o \in lack : Fits(x, o)
<1>1. PICK all : all = Reach({tree}, Objects)
  OBVIOUS
<1>2. all \subseteq Objects /\ \A o \in all : Below(o) \subseteq all
  BY <1>1, ReachClosed
<1>3. CASE \E o \in lack : o \notin Chunks
  BY <1>3 DEF Fits, Below
<1>4. CASE lack \subseteq Chunks
  <2>1. PICK o \in lack : Refs[o] \cap lack = {}
    BY <1>4, TransferAssumption
  <2>2. Below(o) = Refs[o] /\ Below(o) \subseteq all
    BY <1>1, <1>2, <1>4 DEF Below
  <2> QED BY <1>1, <2>1, <2>2 DEF Fits
<1> QED BY <1>3, <1>4

\* A step that adds to the fork's directory and leaves its versions alone.
LEMMA CopyStays ==
    ASSUME HostOK, NEW c \in Calls, call[c].at \in Writing, call'[c].at \in Writing,
           call'[c].request = call[c].request, call'[c].id = call[c].id,
           call'[c].source = call[c].source,
           UNCHANGED <<world, lock, origin, due>>
    PROVE  CopyOK(c)'
<1>1. CopyOK(c)
  BY DEF HostOK
<1>2. \A r : HeadNumber(r)' = HeadNumber(r) /\ \A k : Root(r, k)' = Root(r, k)
  BY DEF HeadNumber, Root
<1>3. PICK r, s : r = call[c].id /\ s = call[c].source
  OBVIOUS
<1> QED BY <1>1, <1>2, <1>3 DEF CopyOK

\* CopyObject keeps the invariant: the store stays closed.
LEMMA CopyObjectKeeps ==
    ASSUME HostOK, NEW c \in Calls, CopyObject(c)
    PROVE  HostOK'
<1>1. PICK x, s, n : x = call[c].id /\ s = call[c].source /\ n = Copying(c)
  OBVIOUS
<1>2. PICK tree : tree = Root(s, n)
  OBVIOUS
<1>3. PICK lack : lack = Reach({tree}, Objects) \ stored[x]
  OBVIOUS
<1>4. /\ call[c].at = "copy" /\ n <= call[c].request.at /\ lack # {}
      /\ Put(x, CHOOSE o \in lack : Fits(x, o))
      /\ UNCHANGED <<world, repos, provisioned, perms, lock, decided, unrecorded,
                     inherited, omitted, restricted, origin, due, call>>
  BY <1>1, <1>2, <1>3 DEF CopyObject, hostingVars, nodeVars
<1>5. call[c].at \in Writing /\ call[c].at \in ForkStages
  BY <1>4 DEF Writing, ForkStages
<1>6. /\ x \in Stores /\ s \in Stores \ {x} /\ x \in Known
      /\ call[c].request.at \in Nat /\ repos[x].fork.source = s
      /\ HeadNumber(x) \in Nat /\ HeadNumber(s) \in Nat
      /\ CopyOK(c) /\ StoreOK(x) /\ DueOK(x) /\ HostTypes /\ due[x] # None
  BY <1>1, <1>5, ForkFacts, WriterFacts, HeadType DEF HostOK
<1>7. n = HeadNumber(x) + 1 /\ n \in 1..HeadNumber(s)
  BY <1>1, <1>4, <1>5, <1>6 DEF CopyOK, Copying
<1>8. tree \in Chunks
  <2>1. world[s] \in Seq(HostVersions) /\ n \in 1..Len(world[s])
    BY <1>6, <1>7 DEF HostTypes, HeadNumber
  <2>2. world[s][n] \in HostVersions
    BY <2>1
  <2> QED BY <1>2, <1>7, <2>2 DEF Root, HostVersions
<1>9. PICK o : o \in lack /\ Fits(x, o) /\ Put(x, o)
  <2>1. \E o \in lack : Fits(x, o)
    BY <1>3, <1>4, <1>8, SomeFits
  <2> QED BY <1>4, <2>1
<1>10. o \in Objects /\ ToCopy(x, o)
  <2>1. o \in Objects /\ o \in Reach({Root(s, n)}, Objects)
    BY <1>2, <1>3, <1>8, <1>9, ReachClosed
  <2>2. repos[x].fork # None /\ repos[x].fork.number = call[c].request.at
    BY <1>1, <1>5, ForkFacts
  <2>3. n \in 1..repos[x].fork.number /\ n <= HeadNumber(s)
    BY <1>4, <1>6, <1>7, <2>2
  <2> QED BY <1>6, <2>1, <2>2, <2>3 DEF ToCopy
<1>11. /\ stored'[x] = stored[x] \cup {o}
       /\ \A r \in Stores \ {x} : stored'[r] = stored[r]
       /\ stored' \in [Stores -> SUBSET Objects]
  BY <1>6, <1>9, <1>10 DEF HostTypes, Put
<1>12. HostTypes'
  BY <1>4, <1>6, <1>11 DEF HostTypes
<1>13. /\ HeadNumber(x)' = HeadNumber(x)
       /\ \A k : Root(x, k)' = Root(x, k)
  BY <1>4 DEF HeadNumber, Root
<1>14. SameElsewhere(x) /\ GrowsAt(x)
  BY <1>4, <1>6, <1>11, <1>13 DEF SameElsewhere, GrowsAt, WorldGrows
<1>15. inherited'[x] \subseteq ForkTraces(x)
  BY <1>4, <1>6 DEF DueOK
<1>16. StoreOK(x)'
  <2>1. \A p \in stored'[x] : Below(p) \subseteq stored'[x]
    BY <1>6, <1>9, <1>11 DEF StoreOK, Fits
  <2>2. Known' = Known
    BY <1>4 DEF Known
  <2> QED BY <1>4, <1>6, <1>11, <1>13, <2>1, <2>2 DEF StoreOK
<1>17. CopyOK(c)' /\ TracesOK(c)'
  BY <1>4, <1>5, CopyStays DEF TracesOK
<1> QED BY <1>1, <1>4, <1>5, <1>10, <1>11, <1>12, <1>14, <1>15, <1>16, <1>17, WriterStep

\* CopyVersion keeps the invariant: the fork's versions are the source's.
LEMMA CopyVersionKeeps ==
    ASSUME HostOK, NEW c \in Calls, CopyVersion(c)
    PROVE  HostOK'
<1>1. PICK x, s, n : x = call[c].id /\ s = call[c].source /\ n = Copying(c)
  OBVIOUS
<1>2. PICK tree : tree = Root(s, n)
  OBVIOUS
<1>4. /\ call[c].at = "copy" /\ n <= call[c].request.at /\ tree \in stored[x]
      /\ Advance(x, <<"fork", n>>, n - 1, tree)
      /\ UNCHANGED <<stored, repos, provisioned, perms, lock, decided, unrecorded,
                     inherited, omitted, restricted, origin, due, call>>
  BY <1>1, <1>2 DEF CopyVersion, hostingVars, nodeVars
<1>5. call[c].at \in Writing /\ call[c].at \in ForkStages
  BY <1>4 DEF Writing, ForkStages
<1>6. /\ x \in Stores /\ s \in Stores \ {x} /\ x \in Known
      /\ call[c].request.at \in Nat /\ repos[x].fork.source = s
      /\ HeadNumber(x) \in Nat /\ HeadNumber(s) \in Nat
      /\ CopyOK(c) /\ StoreOK(x) /\ DueOK(x) /\ HostTypes /\ due[x] # None
  BY <1>1, <1>5, ForkFacts, WriterFacts, HeadType DEF HostOK
<1>7. n = HeadNumber(x) + 1 /\ n \in 1..HeadNumber(s)
  BY <1>1, <1>4, <1>5, <1>6 DEF CopyOK, Copying
<1>8. tree \in Chunks
  <2>1. world[s] \in Seq(HostVersions) /\ n \in 1..Len(world[s])
    BY <1>6, <1>7 DEF HostTypes, HeadNumber
  <2>2. world[s][n] \in HostVersions
    BY <2>1
  <2> QED BY <1>2, <1>7, <2>2 DEF Root, HostVersions
<1>9. PICK v : v = [tree |-> tree, operation |-> <<"fork", n>>]
  OBVIOUS
<1>10. v \in HostVersions /\ v.tree = tree
  BY <1>7, <1>8, <1>9 DEF HostVersions
<1>11. world' = world \/ world' = [world EXCEPT ![x] = Append(world[x], v)]
  BY <1>4, <1>9 DEF Advance
<1>12. CASE world' = world
  <2>1. /\ HeadNumber(x)' = HeadNumber(x)
        /\ \A k : Root(x, k)' = Root(x, k)
    BY <1>12 DEF HeadNumber, Root
  <2>2. SameElsewhere(x) /\ GrowsAt(x) /\ HostTypes'
    BY <1>4, <1>6, <1>12, <2>1 DEF SameElsewhere, GrowsAt, WorldGrows, HostTypes
  <2>3. inherited'[x] \subseteq ForkTraces(x)
    BY <1>4, <1>6 DEF DueOK
  <2>4. StoreOK(x)'
    BY <1>4, <1>6, <1>12, StoreKept
  <2>5. CopyOK(c)' /\ TracesOK(c)'
    BY <1>4, <1>5, <1>12, CopyStays DEF TracesOK
  <2> QED BY <1>1, <1>4, <1>5, <2>2, <2>3, <2>4, <2>5, WriterStep
<1>13. CASE world' = [world EXCEPT ![x] = Append(world[x], v)]
  <2>1. /\ WorldGrows(x) /\ HeadNumber(x)' = n /\ Root(x, n)' = tree
        /\ world' \in [Stores -> Seq(HostVersions)]
        /\ \A r \in Stores \ {x} : world'[r] = world[r]
    <3>1. HostTypes /\ x \in Stores /\ v \in HostVersions /\ n = HeadNumber(x) + 1
      BY <1>6, <1>7, <1>10
    <3>2. /\ WorldGrows(x) /\ HeadNumber(x)' = n /\ Root(x, n)' = v.tree
          /\ world' \in [Stores -> Seq(HostVersions)]
          /\ \A r \in Stores \ {x} : world'[r] = world[r]
      BY <1>13, <3>1, AppendGrows
    <3> QED BY <1>10, <3>2
  <2>2. SameElsewhere(x) /\ GrowsAt(x) /\ HostTypes'
    BY <1>4, <1>6, <2>1 DEF SameElsewhere, GrowsAt, HostTypes
  <2>3. inherited'[x] \subseteq ForkTraces(x)
    BY <1>4, <1>6 DEF DueOK
  <2>4. \A k \in 1..n : k = n \/ k \in 1..HeadNumber(x)
    BY <1>6, <1>7
  <2>5. StoreOK(x)'
    <3>1. \A k \in 1..n : Root(x, k)' \in stored'[x]
      BY <1>4, <1>6, <2>1, <2>4 DEF StoreOK, WorldGrows
    <3>2. \A d \in decided'[x] \cup inherited'[x] : d.number <= n
      <4>1. \A d \in decided[x] \cup inherited[x] : d.number \in Nat
        BY <1>6 DEF HostTypes, TraceNotes
      <4> QED BY <1>4, <1>6, <1>7, <4>1 DEF StoreOK
    <3>3. unrecorded'[x] = None /\ Known' = Known
      BY <1>1, <1>4, <1>5, WriterFacts DEF Known
    <3> QED BY <1>4, <1>6, <2>1, <3>1, <3>2, <3>3 DEF StoreOK
  <2>6. TracesOK(c)'
    BY <1>4 DEF TracesOK
  <2>7. CopyOK(c)'
    <3>1. HeadNumber(s)' = HeadNumber(s) /\ \A k : Root(s, k)' = Root(s, k)
      BY <1>6, <2>1 DEF HeadNumber, Root
    <3>2. \A k \in 1..n : Root(x, k)' = Root(s, k)'
      BY <1>1, <1>2, <1>5, <1>6, <2>1, <2>4, <3>1 DEF CopyOK, WorldGrows
    <3>3. n <= HeadNumber(s)
      BY <1>7
    <3> QED BY <1>1, <1>4, <1>5, <1>6, <2>1, <3>1, <3>2, <3>3 DEF CopyOK
  <2> QED BY <1>1, <1>4, <1>5, <2>2, <2>3, <2>5, <2>6, <2>7, WriterStep
<1> QED BY <1>11, <1>12, <1>13

\* copy_traces: what a fork is to copy, one note to a trace.
LEMMA OneNote ==
    ASSUME HostOK, NEW r \in Known, repos[r].fork # None,
           NEW d \in ForkTraces(r), NEW e \in ForkTraces(r), d.trace = e.trace
    PROVE  d = e
<1>1. PICK s, n : s = repos[r].fork.source /\ n = repos[r].fork.number
  OBVIOUS
<1>2. s \in Stores
  BY <1>1, SourceFacts
<1>3. d \in TraceNotes /\ e \in TraceNotes
  BY <1>1, <1>2 DEF ForkTraces, InheritedTraces, HostOK, HostTypes
<1>4. d.number <= e.number /\ e.number <= d.number
  BY <1>1 DEF ForkTraces, InheritedTraces
<1>5. d.number = e.number
  BY <1>3, <1>4 DEF TraceNotes
<1> QED BY <1>3, <1>5 DEF TraceNotes

\* TracesBegin keeps the invariant: every trace of the source is to come.
LEMMA TracesBeginKeeps ==
    ASSUME HostOK, NEW c \in Calls, TracesBegin(c)
    PROVE  HostOK'
<1>1. PICK x, s, todo : /\ x = call[c].id /\ s = call[c].source
                        /\ todo = InheritedTraces(s, call[c].request.at)
  OBVIOUS
<1>2. /\ call[c].at = "copy" /\ Copying(c) > call[c].request.at
      /\ call' = [call EXCEPT ![c].at = "traces", ![c].todo = todo]
      /\ TablesSame /\ UNCHANGED <<provisioned, perms, lock>>
  BY <1>1 DEF TracesBegin, transferVars, storeVars, nodeVars, TablesSame
<1>3. call[c].at \in Writing /\ call[c].at \in ForkStages /\ call[c].at # "idle"
  BY <1>2 DEF Writing, ForkStages
<1>4. /\ x \in Stores /\ s \in Stores \ {x} /\ x \in Known
      /\ call[c].request.at \in Nat /\ repos[x].fork.source = s
      /\ repos[x].fork.number = call[c].request.at
      /\ HeadNumber(x) \in Nat /\ HostTypes /\ call[c].request.kind = "fork"
  BY <1>1, <1>3, ForkFacts, HeadType DEF HostOK
<1>5. todo = ForkTraces(x) /\ todo \subseteq TraceNotes
  BY <1>1, <1>4 DEF ForkTraces, InheritedTraces, HostTypes
<1>6. /\ call' \in [Calls -> CallRecords]
      /\ call'[c].at = "traces" /\ call'[c].request = call[c].request
      /\ call'[c].id = call[c].id /\ call'[c].source = call[c].source
      /\ call'[c].reader = call[c].reader /\ call'[c].ready = call[c].ready
      /\ call'[c].todo = todo
      /\ \A d \in Calls \ {c} : call'[d] = call[d]
  <2>1. call \in [Calls -> CallRecords] /\ call[c] \in CallRecords
    BY <1>4 DEF HostTypes
  <2>2. /\ call'[c] = [call[c] EXCEPT !.at = "traces", !.todo = todo]
        /\ \A d \in Calls \ {c} : call'[d] = call[d]
    BY <1>2, <2>1
  <2>3. [call[c] EXCEPT !.at = "traces", !.todo = todo] \in CallRecords
    BY <1>5, <2>1 DEF CallRecords, ForkStages, Writing
  <2> QED BY <1>2, <2>1, <2>2, <2>3 DEF CallRecords
<1>7. HostTypes'
  BY <1>2, <1>4, <1>6 DEF HostTypes, TablesSame
<1>8. call'[c].at \in Writing
  BY <1>6 DEF Writing
<1>9. CopyOK(c)'
  BY <1>2, <1>3, <1>6, <1>8, CopyStays DEF TablesSame
<1>10. TracesOK(c)'
  <2>1. call[c].request.at <= HeadNumber(x)
    BY <1>1, <1>2, <1>4 DEF Copying
  <2>2. HeadNumber(x)' = HeadNumber(x) /\ ForkTraces(x)' = ForkTraces(x)
    BY <1>2, ForkTracesSame DEF HeadNumber, TablesSame
  <2> QED BY <1>1, <1>5, <1>6, <2>1, <2>2 DEF TracesOK
<1>11. CallOK(c)'
  <2>1. call[c].id \in provisioned
    BY <1>2, <1>3 DEF HostOK, CallOK, CallFits
  <2> QED BY <1>2, <1>3, <1>4, <1>6, <2>1, MovedFits DEF TablesSame
<1> QED BY <1>2, <1>6, <1>7, <1>9, <1>10, <1>11, OnlyCall

\* What is settled stays so, and what is withheld is the source's to say.
LEMMA SettledKept ==
    ASSUME HostOK, NEW c \in Calls, call[c].at \in Writing, NEW x, x = call[c].id,
           call'[c].id = call[c].id, call'[c].source = call[c].source,
           call'[c].reader = call[c].reader, SameElsewhere(x), GrowsAt(x)
    PROVE  \A t : /\ Withheld(c, t)' <=> Withheld(c, t)
                  /\ Settled(c, t) => Settled(c, t)'
<1>1. PICK s : s = call[c].source
  OBVIOUS
<1>2. s \in Stores \ {x} /\ x \in Stores
  BY <1>1, WriterFacts, ForkFacts
<1>3. omitted'[s] = omitted[s] /\ restricted'[s] = restricted[s]
  BY <1>2 DEF SameElsewhere
<1>4. \A t : Withheld(c, t)' <=> Withheld(c, t)
  BY <1>1, <1>3 DEF Withheld
<1>5. \A t : Settled(c, t) => Settled(c, t)'
  BY <1>1, <1>3, <1>4 DEF Settled, GrowsAt
<1> QED BY <1>4, <1>5

\* TraceNote keeps the invariant: the note is there, from now or before.
LEMMA TraceNoteKeeps ==
    ASSUME HostOK, NEW c \in Calls, TraceNote(c)
    PROVE  HostOK'
<1>1. PICK x : x = call[c].id
  OBVIOUS
<1>2. PICK d \in call[c].todo :
        /\ call' = [call EXCEPT ![c].at = "place", ![c].trace = d.trace,
                                ![c].todo = @ \ {d}]
        /\ inherited' = [inherited EXCEPT ![x] =
                IF \E e \in @ : e.trace = d.trace THEN @ ELSE @ \cup {d}]
  BY <1>1 DEF TraceNote
<1>3. /\ call[c].at = "traces"
      /\ UNCHANGED <<stored, world, repos, provisioned, perms, lock, decided, unrecorded,
                     omitted, restricted, origin, due>>
  BY DEF TraceNote, transferVars, storeVars
<1>4. call[c].at \in Writing /\ call[c].at \in ForkStages /\ call[c].at # "idle"
  BY <1>3 DEF Writing, ForkStages
<1>5. /\ x \in Stores /\ x \in Known /\ repos[x].fork # None /\ due[x] # None
      /\ call[c].source \in Stores \ {x} /\ repos[x].fork.source = call[c].source
      /\ call[c].request.at \in Nat /\ repos[x].fork.number = call[c].request.at
      /\ HeadNumber(x) \in Nat /\ HostTypes /\ StoreOK(x) /\ DueOK(x) /\ TracesOK(c)
  BY <1>1, <1>4, ForkFacts, WriterFacts, HeadType DEF HostOK
<1>6. /\ d \in ForkTraces(x) /\ inherited[x] \subseteq ForkTraces(x)
      /\ call[c].request.at <= HeadNumber(x)
  BY <1>1, <1>2, <1>3, <1>4, <1>5 DEF TracesOK, DueOK
<1>7. d \in TraceNotes /\ d.trace \in Traces /\ d.number \in Nat /\ d.number <= HeadNumber(x)
  <2>1. d \in TraceNotes /\ d.number <= call[c].request.at
    BY <1>5, <1>6 DEF ForkTraces, InheritedTraces, HostTypes
  <2>2. d.trace \in Traces /\ d.number \in Nat
    BY <2>1 DEF TraceNotes
  <2> QED BY <1>5, <1>6, <2>1, <2>2
<1>8. /\ inherited'[x] = inherited[x] \cup {d}
      /\ \A r \in Stores \ {x} : inherited'[r] = inherited[r]
      /\ inherited' \in [Stores -> SUBSET TraceNotes]
  <2>1. ASSUME NEW e \in inherited[x], e.trace = d.trace PROVE e = d
    BY <1>5, <1>6, <2>1, OneNote
  <2>2. inherited'[x] = inherited[x] \cup {d}
    BY <1>2, <1>5, <2>1 DEF HostTypes
  <2> QED BY <1>2, <1>5, <1>7, <2>2 DEF HostTypes
<1>9. /\ call' \in [Calls -> CallRecords]
      /\ call'[c].at = "place" /\ call'[c].request = call[c].request
      /\ call'[c].id = call[c].id /\ call'[c].source = call[c].source
      /\ call'[c].reader = call[c].reader /\ call'[c].ready = call[c].ready
      /\ call'[c].todo = call[c].todo \ {d} /\ call'[c].trace = d.trace
      /\ \A b \in Calls \ {c} : call'[b] = call[b]
  <2>1. call \in [Calls -> CallRecords] /\ call[c] \in CallRecords
    BY <1>5 DEF HostTypes
  <2>2. /\ call'[c] = [call[c] EXCEPT !.at = "place", !.trace = d.trace,
                                      !.todo = call[c].todo \ {d}]
        /\ \A b \in Calls \ {c} : call'[b] = call[b]
    BY <1>2, <2>1
  <2>3. [call[c] EXCEPT !.at = "place", !.trace = d.trace, !.todo = call[c].todo \ {d}]
          \in CallRecords
    BY <1>7, <2>1 DEF CallRecords, ForkStages, Writing
  <2> QED BY <1>2, <2>1, <2>2, <2>3 DEF CallRecords
<1>10. HostTypes'
  BY <1>3, <1>5, <1>8, <1>9 DEF HostTypes
<1>11. HeadNumber(x)' = HeadNumber(x) /\ \A k : Root(x, k)' = Root(x, k)
  BY <1>3 DEF HeadNumber, Root
<1>12. SameElsewhere(x) /\ GrowsAt(x)
  BY <1>3, <1>5, <1>8, <1>11 DEF SameElsewhere, GrowsAt, WorldGrows
<1>13. call'[c].at \in Writing /\ inherited'[x] \subseteq ForkTraces(x)
  BY <1>6, <1>8, <1>9 DEF Writing
<1>14. StoreOK(x)'
  <2>1. \A e \in decided'[x] \cup inherited'[x] : e.number <= HeadNumber(x)
    BY <1>3, <1>5, <1>7, <1>8 DEF StoreOK
  <2>2. Known' = Known
    BY <1>3 DEF Known
  <2> QED BY <1>3, <1>5, <1>11, <2>1, <2>2 DEF StoreOK
<1>15. CopyOK(c)'
  BY <1>3, <1>4, <1>9, <1>13, CopyStays
<1>16. TracesOK(c)'
  <2>1. ForkTraces(x)' = ForkTraces(x)
    BY <1>3, <1>5, <1>8, ForkTracesSame
  <2>2. \A t : Settled(c, t) => Settled(c, t)'
    BY <1>1, <1>4, <1>9, <1>12, SettledKept
  <2>3. ASSUME NEW e \in ForkTraces(x)
        PROVE  \/ e \in call'[c].todo
               \/ /\ e \in inherited'[x]
                  /\ e.trace = call'[c].trace \/ Settled(c, e.trace)'
    <3>1. CASE e = d
      BY <1>8, <1>9, <3>1
    <3>2. CASE e # d
      <4>1. e \in call[c].todo \/ (e \in inherited[x] /\ Settled(c, e.trace))
        BY <1>1, <1>3, <1>4, <1>5 DEF TracesOK
      <4>2. Settled(c, e.trace) => Settled(c, e.trace)'
        BY <2>2
      <4> QED BY <1>8, <1>9, <3>2, <4>1, <4>2
    <3> QED BY <3>1, <3>2
  <2>4. call'[c].todo \subseteq ForkTraces(x)
    BY <1>1, <1>3, <1>4, <1>5, <1>9 DEF TracesOK
  <2> QED BY <1>1, <1>6, <1>7, <1>9, <1>11, <2>1, <2>3, <2>4 DEF TracesOK
<1> QED BY <1>1, <1>3, <1>4, <1>9, <1>10, <1>12, <1>13, <1>14, <1>15, <1>16, WriterStep

\* A turn of a trace that ends: the trace in hand has its place.
LEMMA TurnEnds ==
    ASSUME HostOK, NEW c \in Calls, NEW x, x = call[c].id,
           call[c].at \in {"place", "mark_trace"},
           call' = [call EXCEPT ![c].at = "traces", ![c].trace = None],
           UNCHANGED <<world, repos, decided, inherited>>,
           SameElsewhere(x), GrowsAt(x), NEW t, t = call[c].trace, Settled(c, t)'
    PROVE  /\ call' \in [Calls -> CallRecords]
           /\ call'[c].at \in Writing /\ call'[c].request = call[c].request
           /\ call'[c].id = call[c].id /\ call'[c].source = call[c].source
           /\ call'[c].reader = call[c].reader /\ call'[c].ready = call[c].ready
           /\ \A b \in Calls \ {c} : call'[b] = call[b]
           /\ TracesOK(c)'
<1>1. call \in [Calls -> CallRecords] /\ call[c] \in CallRecords /\ TracesOK(c)
  BY DEF HostOK, HostTypes
<1>2. /\ call'[c] = [call[c] EXCEPT !.at = "traces", !.trace = None]
      /\ \A b \in Calls \ {c} : call'[b] = call[b]
  BY <1>1
<1>3. [call[c] EXCEPT !.at = "traces", !.trace = None] \in CallRecords
  BY <1>1 DEF CallRecords, ForkStages, Writing
<1>4. /\ call' \in [Calls -> CallRecords]
      /\ call'[c].at = "traces" /\ call'[c].request = call[c].request
      /\ call'[c].id = call[c].id /\ call'[c].source = call[c].source
      /\ call'[c].reader = call[c].reader /\ call'[c].ready = call[c].ready
      /\ call'[c].todo = call[c].todo
  BY <1>1, <1>2, <1>3 DEF CallRecords
<1>5. call[c].at \in Writing /\ call[c].at # "copy" /\ call[c].at # "traces"
  BY DEF Writing
<1>6. ForkTraces(x)' = ForkTraces(x) /\ HeadNumber(x)' = HeadNumber(x)
  BY ForkTracesSame DEF HeadNumber
<1>8. \A u : Settled(c, u) => Settled(c, u)'
  BY <1>4, <1>5, SettledKept
<1>9. ASSUME NEW d \in ForkTraces(x)
      PROVE  d \in call[c].todo \/ (d \in inherited[x] /\ Settled(c, d.trace)')
  <2>1. \/ d \in call[c].todo
        \/ d \in inherited[x] /\ (d.trace = t \/ Settled(c, d.trace))
    BY <1>1, <1>5 DEF TracesOK
  <2>2. PICK u : u = d.trace
    OBVIOUS
  <2>3. u = t \/ Settled(c, u) => Settled(c, u)'
    BY <1>8
  <2> QED BY <2>1, <2>2, <2>3
<1>10. call[c].todo \subseteq ForkTraces(x) /\ call[c].request.at <= HeadNumber(x)
  BY <1>1, <1>5 DEF TracesOK
<1>11. TracesOK(c)'
  BY <1>4, <1>6, <1>9, <1>10 DEF TracesOK
<1> QED BY <1>2, <1>4, <1>11 DEF Writing

\* TracePlace keeps the invariant: left out and marked, or copied.
LEMMA TracePlaceKeeps ==
    ASSUME HostOK, NEW c \in Calls, TracePlace(c)
    PROVE  HostOK'
<1>1. PICK x, t : x = call[c].id /\ t = call[c].trace
  OBVIOUS
<1>2. /\ call[c].at = "place"
      /\ \/ /\ Withheld(c, t)
            /\ omitted' = [omitted EXCEPT ![x] = @ \cup {t}]
            /\ call' = [call EXCEPT ![c].at = "traces", ![c].trace = None]
            /\ stored' = stored
         \/ /\ ~Withheld(c, t)
            /\ Put(x, t)
            /\ call' = [call EXCEPT ![c].at = "mark_trace"]
            /\ omitted' = omitted
      /\ UNCHANGED <<world, repos, provisioned, perms, lock, decided, unrecorded,
                     inherited, restricted, origin, due>>
  BY <1>1 DEF TracePlace
<1>3. call[c].at \in Writing /\ call[c].at \in ForkStages /\ call[c].at # "idle"
  BY <1>2 DEF Writing, ForkStages
<1>4. /\ x \in Stores /\ x \in Known /\ repos[x].fork # None /\ due[x] # None
      /\ call[c].source \in Stores \ {x} /\ repos[x].fork.source = call[c].source
      /\ HeadNumber(x) \in Nat /\ HostTypes /\ StoreOK(x) /\ DueOK(x) /\ TracesOK(c)
  BY <1>1, <1>3, ForkFacts, WriterFacts, HeadType DEF HostOK
<1>5. t \in Traces /\ t \in Objects /\ t \notin Chunks
  BY <1>1, <1>2, <1>3, <1>4, HostingAssumption, TransferAssumption DEF TracesOK, Objects
<1>6. HeadNumber(x)' = HeadNumber(x) /\ \A k : Root(x, k)' = Root(x, k)
  BY <1>2 DEF HeadNumber, Root
<1>7. inherited'[x] \subseteq ForkTraces(x)
  BY <1>2, <1>4 DEF DueOK
<1>8. ForkTraces(x)' = ForkTraces(x)
  BY <1>2, ForkTracesSame
<1>9. CASE Withheld(c, t)
  <2>1. /\ omitted' = [omitted EXCEPT ![x] = @ \cup {t}]
        /\ call' = [call EXCEPT ![c].at = "traces", ![c].trace = None]
        /\ stored' = stored
    BY <1>2, <1>9
  <2>2. /\ omitted'[x] = omitted[x] \cup {t}
        /\ \A r \in Stores \ {x} : omitted'[r] = omitted[r]
        /\ omitted' \in [Stores -> SUBSET Traces]
    BY <1>4, <1>5, <2>1 DEF HostTypes
  <2>3. SameElsewhere(x) /\ GrowsAt(x)
    BY <1>2, <1>4, <1>6, <2>1, <2>2 DEF SameElsewhere, GrowsAt, WorldGrows
  <2>4. Settled(c, t)'
    <3>1. call'[c].id = x
      BY <1>1, <1>4, <2>1 DEF HostTypes, CallRecords
    <3> QED BY <2>2, <3>1 DEF Settled
  <2>5. /\ call' \in [Calls -> CallRecords]
        /\ call'[c].at \in Writing /\ call'[c].request = call[c].request
        /\ call'[c].id = call[c].id /\ call'[c].source = call[c].source
        /\ call'[c].reader = call[c].reader /\ call'[c].ready = call[c].ready
        /\ \A b \in Calls \ {c} : call'[b] = call[b]
        /\ TracesOK(c)'
    BY <1>1, <1>2, <2>1, <2>3, <2>4, TurnEnds
  <2>6. HostTypes'
    BY <1>2, <1>4, <2>1, <2>2, <2>5 DEF HostTypes
  <2>7. StoreOK(x)' /\ CopyOK(c)'
    BY <1>2, <1>3, <1>4, <2>1, <2>5, StoreKept, CopyStays
  <2> QED BY <1>1, <1>2, <1>3, <1>7, <2>1, <2>3, <2>5, <2>6, <2>7, WriterStep
<1>10. CASE ~Withheld(c, t)
  <2>1. /\ stored' = [stored EXCEPT ![x] = @ \cup {t}]
        /\ call' = [call EXCEPT ![c].at = "mark_trace"]
        /\ omitted' = omitted
    BY <1>2, <1>10 DEF Put
  <2>2. /\ stored'[x] = stored[x] \cup {t}
        /\ \A r \in Stores \ {x} : stored'[r] = stored[r]
        /\ stored' \in [Stores -> SUBSET Objects]
    BY <1>4, <1>5, <2>1 DEF HostTypes
  <2>3. SameElsewhere(x) /\ GrowsAt(x)
    BY <1>2, <1>4, <1>6, <2>1, <2>2 DEF SameElsewhere, GrowsAt, WorldGrows
  <2>4. /\ call' \in [Calls -> CallRecords]
        /\ call'[c].at = "mark_trace" /\ call'[c].request = call[c].request
        /\ call'[c].id = call[c].id /\ call'[c].source = call[c].source
        /\ call'[c].reader = call[c].reader /\ call'[c].ready = call[c].ready
        /\ call'[c].todo = call[c].todo /\ call'[c].trace = call[c].trace
        /\ \A d \in Calls \ {c} : call'[d] = call[d]
    BY <1>4, <2>1, CallMoves DEF ForkStages, Writing
  <2>5. HostTypes' /\ call'[c].at \in Writing
    BY <1>2, <1>4, <2>1, <2>2, <2>4 DEF HostTypes, Writing
  <2>6. StoreOK(x)'
    <3>1. \A p \in stored'[x] : Below(p) \subseteq stored'[x]
      BY <1>4, <1>5, <2>2 DEF StoreOK, Below
    <3>2. Known' = Known
      BY <1>2 DEF Known
    <3> QED BY <1>2, <1>4, <1>6, <2>2, <3>1, <3>2 DEF StoreOK
  <2>7. CopyOK(c)'
    BY <1>2, <1>3, <2>4, <2>5, CopyStays
  <2>8. \A u : /\ Withheld(c, u)' <=> Withheld(c, u)
               /\ Settled(c, u) => Settled(c, u)'
    BY <1>1, <1>3, <2>3, <2>4, SettledKept
  <2>9. TracesOK(c)'
    <3>1. ASSUME NEW d \in ForkTraces(x)
          PROVE  \/ d \in call[c].todo
                 \/ d \in inherited[x] /\ (d.trace = t \/ Settled(c, d.trace)')
      <4>1. PICK u : u = d.trace
        OBVIOUS
      <4>2. \/ d \in call[c].todo
            \/ d \in inherited[x] /\ (u = t \/ Settled(c, u))
        BY <1>1, <1>2, <1>3, <1>4, <4>1 DEF TracesOK
      <4> QED BY <2>8, <4>1, <4>2
    <3>2. call[c].todo \subseteq ForkTraces(x) /\ call[c].request.at <= HeadNumber(x)
      BY <1>1, <1>2, <1>3, <1>4 DEF TracesOK
    <3>3. t \in stored'[x] /\ ~Withheld(c, t)'
      BY <1>10, <2>2, <2>8
    <3>4. PICK b : b = call'[c]
      OBVIOUS
    <3>5. /\ b.at = "mark_trace" /\ b.trace = t /\ b.todo = call[c].todo /\ b.id = x
          /\ b.request.at <= HeadNumber(x)'
      BY <1>1, <1>6, <2>4, <3>2, <3>4
    <3>6. ~Withheld(c, call[c].trace)'
      BY <3>3, <3>4, <3>5 DEF Withheld
    <3> QED BY <1>2, <1>5, <1>8, <3>1, <3>2, <3>3, <3>4, <3>5, <3>6 DEF TracesOK
  <2>10. \A u \in (stored'[x] \ stored[x]) \cap Traces : ~Withheld(c, u)
    BY <1>10, <2>2
  <2> QED BY <1>1, <1>2, <1>3, <1>7, <2>1, <2>3, <2>4, <2>5, <2>6, <2>7, <2>9, <2>10, WriterStep
<1> QED BY <1>9, <1>10

\* TraceMark keeps the invariant: a copied trace is restricted like its source's.
LEMMA TraceMarkKeeps ==
    ASSUME HostOK, NEW c \in Calls, TraceMark(c)
    PROVE  HostOK'
<1>1. PICK x, t, s : x = call[c].id /\ t = call[c].trace /\ s = call[c].source
  OBVIOUS
<1>2. /\ call[c].at = "mark_trace"
      /\ restricted' = [restricted EXCEPT ![x] = @ \cup ({t} \cap restricted[s])]
      /\ call' = [call EXCEPT ![c].at = "traces", ![c].trace = None]
      /\ UNCHANGED <<stored, world, repos, provisioned, perms, lock, decided, unrecorded,
                     inherited, omitted, origin, due>>
  BY <1>1 DEF TraceMark, transferVars, storeVars
<1>3. call[c].at \in Writing /\ call[c].at \in ForkStages /\ call[c].at # "idle"
  BY <1>2 DEF Writing, ForkStages
<1>4. /\ x \in Stores /\ x \in Known /\ repos[x].fork # None /\ due[x] # None
      /\ s \in Stores \ {x} /\ repos[x].fork.source = s
      /\ HeadNumber(x) \in Nat /\ HostTypes /\ StoreOK(x) /\ DueOK(x) /\ TracesOK(c)
  BY <1>1, <1>3, ForkFacts, WriterFacts, HeadType DEF HostOK
<1>5. t \in stored[x] /\ ~Withheld(c, t)
  BY <1>1, <1>2, <1>3, <1>4 DEF TracesOK
<1>6. HeadNumber(x)' = HeadNumber(x) /\ \A k : Root(x, k)' = Root(x, k)
  BY <1>2 DEF HeadNumber, Root
<1>7. inherited'[x] \subseteq ForkTraces(x)
  BY <1>2, <1>4 DEF DueOK
<1>8. /\ restricted'[x] = restricted[x] \cup ({t} \cap restricted[s])
      /\ \A r \in Stores \ {x} : restricted'[r] = restricted[r]
      /\ restricted' \in [Stores -> SUBSET Traces]
  BY <1>2, <1>4 DEF HostTypes
<1>9. SameElsewhere(x) /\ GrowsAt(x)
  BY <1>2, <1>4, <1>6, <1>8 DEF SameElsewhere, GrowsAt, WorldGrows
<1>10. /\ call'[c].id = x /\ call'[c].source = s /\ call'[c].reader = call[c].reader
  BY <1>1, <1>2, <1>4 DEF HostTypes, CallRecords
<1>11. Settled(c, t)'
  <2>1. ~Withheld(c, t)'
    BY <1>1, <1>3, <1>5, <1>9, <1>10, SettledKept
  <2>2. t \in restricted'[s] => t \in restricted'[x]
    BY <1>4, <1>8
  <2> QED BY <1>2, <1>5, <1>10, <2>1, <2>2 DEF Settled
<1>12. /\ call' \in [Calls -> CallRecords]
       /\ call'[c].at \in Writing /\ call'[c].request = call[c].request
       /\ call'[c].id = call[c].id /\ call'[c].source = call[c].source
       /\ call'[c].reader = call[c].reader /\ call'[c].ready = call[c].ready
       /\ \A b \in Calls \ {c} : call'[b] = call[b]
       /\ TracesOK(c)'
  BY <1>1, <1>2, <1>9, <1>11, TurnEnds
<1>13. HostTypes'
  BY <1>2, <1>4, <1>8, <1>12 DEF HostTypes
<1>14. StoreOK(x)' /\ CopyOK(c)'
  BY <1>2, <1>3, <1>4, <1>12, StoreKept, CopyStays
<1> QED BY <1>1, <1>2, <1>3, <1>7, <1>9, <1>12, <1>13, <1>14, WriterStep

\* ForkFinish keeps the invariant: the origin is written on a complete fork.
LEMMA ForkFinishKeeps ==
    ASSUME HostOK, NEW c \in Calls, ForkFinish(c)
    PROVE  HostOK'
<1>1. PICK x, s, n : x = call[c].id /\ s = call[c].source /\ n = call[c].request.at
  OBVIOUS
<1>2. call[c].at = "traces" /\ call[c].todo = {}
  BY DEF ForkFinish, Copied
<1>3. call[c].at \in Writing /\ call[c].at \in ForkStages /\ call[c].at # "idle"
  BY <1>2 DEF Writing, ForkStages
<1>4. /\ x \in Stores /\ x \in Known /\ repos[x].fork # None /\ due[x] # None
      /\ s \in Stores \ {x} /\ n \in Nat /\ repos[x].fork = [source |-> s, number |-> n]
      /\ ~call[c].ready /\ origin[x] = None /\ call[c].reader = ForkReader(x)
      /\ repos[x].phase # "ready" /\ call[c].request.kind = "fork"
      /\ lock[x] = c /\ lock[s] = c
      /\ HeadNumber(x) \in Nat /\ HeadNumber(s) \in Nat /\ HostTypes /\ RecordOK(x)
      /\ DueOK(x) /\ TracesOK(c) /\ CopyOK(c) /\ CallOK(c)
  BY <1>1, <1>3, ForkFacts, WriterFacts, HeadType DEF HostOK
<1>5. /\ origin' = [origin EXCEPT ![x] = [source |-> s, number |-> n]]
      /\ lock' = Released(c)
      /\ call' = [call EXCEPT ![c].at = "apply", ![c].todo = {}]
      /\ UNCHANGED <<stored, world, repos, provisioned, perms, decided, unrecorded,
                     inherited, omitted, restricted, due>>
  BY <1>1, <1>4 DEF ForkFinish, AfterFork, transferVars, storeVars
<1>6. /\ call' \in [Calls -> CallRecords]
      /\ call'[c].at = "apply" /\ call'[c].request = call[c].request
      /\ call'[c].id = call[c].id /\ call'[c].source = call[c].source
      /\ call'[c].reader = call[c].reader /\ call'[c].ready = call[c].ready
      /\ \A d \in Calls \ {c} : call'[d] = call[d]
  <2>1. call \in [Calls -> CallRecords] /\ call[c] \in CallRecords
    BY <1>4 DEF HostTypes
  <2>2. /\ call'[c] = [call[c] EXCEPT !.at = "apply", !.todo = {}]
        /\ \A d \in Calls \ {c} : call'[d] = call[d]
    BY <1>5, <2>1
  <2>3. [call[c] EXCEPT !.at = "apply", !.todo = {}] \in CallRecords
    BY <2>1 DEF CallRecords
  <2> QED BY <1>5, <2>1, <2>2, <2>3 DEF CallRecords
<1>7. /\ lock' \in [Stores -> Calls \cup {None, Server}]
      /\ \A r \in Stores : lock'[r] = lock[r] \/ {lock[r], lock'[r]} \subseteq {None, c}
  BY <1>4, <1>5, ReleasedFacts
<1>8. /\ origin'[x] = repos[x].fork /\ origin'[x] # None
      /\ \A r \in Stores \ {x} : origin'[r] = origin[r]
      /\ origin' \in [Stores -> ForkOrigins \cup {None}]
  <2>1. [source |-> s, number |-> n] \in ForkOrigins
    BY <1>4 DEF ForkOrigins
  <2> QED BY <1>4, <1>5, <2>1 DEF HostTypes
<1>9. HostTypes'
  BY <1>4, <1>5, <1>6, <1>7, <1>8 DEF HostTypes
<1>10. Known' = Known /\ Initial(x)' = Initial(x)
  BY <1>5 DEF Known, Initial
<1>11. NamesOK'
  BY <1>5, <1>10 DEF HostOK, NamesOK
<1>12. ASSUME NEW r \in Stores
       PROVE  (IF r \in Known THEN RecordOK(r) ELSE UntouchedOK(r))'
  <2>1. CASE r # x
    BY <1>5, <1>8, <2>1, RecordKept
  <2>2. CASE r = x
    <3>1. RecordOK(x)'
      BY <1>4, <1>5, <1>8, <1>10 DEF RecordOK
    <3> QED BY <1>4, <1>10, <2>2, <3>1
  <2> QED BY <2>1, <2>2
<1>13. ASSUME NEW r \in Stores PROVE StoreOK(r)'
  <2>1. lock'[r] = Server => lock[r] = Server
    BY <1>7, HostingAssumption, NoneAssumption DEF Server
  <2> QED BY <1>5, <2>1, StoreKept
<1>14. ASSUME NEW r \in Known PROVE DueOK(r)'
  <2>1. ForkTraces(r)' = ForkTraces(r)
    BY <1>5, ForkTracesSame
  <2>2. \A t : Placed(r, t) => Placed(r, t)'
    BY <1>5, WorldSame, PlacedKept
  <2>3. DueOK(r)
    BY DEF HostOK
  <2> QED BY <1>5, <2>1, <2>2, <2>3, DueKept DEF DueOK
<1>15. \A r \in Stores : /\ HeadNumber(r)' = HeadNumber(r) /\ HeadNumber(r) \in Nat
                         /\ \A k : Root(r, k)' = Root(r, k)
  BY <1>4, <1>5, HeadType DEF HeadNumber, Root
<1>16. ASSUME NEW r \in Stores PROVE ForkOK(r)'
  <2>1. CASE r # x
    <3>1. \A q \in Stores : WorldGrows(q) /\ HeadNumber(q)' \in Nat
      BY <1>15 DEF WorldGrows
    <3> QED BY <1>5, <1>8, <2>1, <3>1, ForkKept
  <2>2. CASE r = x
    <3>1. /\ n <= HeadNumber(x) /\ n <= HeadNumber(s)
          /\ \A k \in 1..n : Root(x, k) = Root(s, k)
      <4>1. /\ n <= HeadNumber(x) /\ n <= HeadNumber(s)
            /\ \A k \in 1..HeadNumber(x) : Root(x, k) = Root(s, k)
        BY <1>1, <1>2, <1>3, <1>4 DEF TracesOK, CopyOK
      <4>2. \A k \in 1..n : k \in 1..HeadNumber(x)
        BY <1>4, <4>1
      <4> QED BY <4>1, <4>2
    <3>2. ASSUME NEW d \in due[x].traces
          PROVE  /\ d \in inherited[x]
                 /\ d.trace \in omitted[x] \cup stored[x]
                 /\ d.trace \in due[x].secret =>
                      IF due[x].reader = "maintain"
                      THEN d.trace \in omitted[x] \cup restricted[x]
                      ELSE d.trace \in omitted[x]
      <4>1. d \in ForkTraces(x) /\ due[x].secret \subseteq restricted[s]
            /\ due[x].reader = call[c].reader
        BY <1>4 DEF DueOK
      <4>2. d \in inherited[x] /\ Settled(c, d.trace)
        BY <1>1, <1>2, <1>3, <1>4, <4>1 DEF TracesOK
      <4> QED BY <1>1, <4>1, <4>2 DEF Settled, Withheld
    <3>3. PICK o : o = origin'[x]
      OBVIOUS
    <3>4. o.source = s /\ o.number = n
      BY <1>4, <1>8, <3>3
    <3> QED BY <1>4, <1>5, <1>15, <2>2, <3>1, <3>2, <3>3, <3>4 DEF ForkOK
  <2> QED BY <2>1, <2>2
<1>17. ASSUME NEW d \in Calls, d # c PROVE CallOK(d)' /\ CopyOK(d)' /\ TracesOK(d)'
  <2>1. call'[d] = call[d]
    BY <1>6, <1>17
  <2>2. \A r \in Known : origin'[r] \in {origin[r], repos[r].fork}
    BY <1>8 DEF Known
  <2>3. CallOK(d)' /\ TracesOK(d)'
    BY <1>5, <2>1, <2>2, CallKept, TracesKept
  <2>4. ASSUME call[d].at \in Writing, NEW r \in {call[d].id, call[d].source}
        PROVE  lock'[r] = lock[r] /\ origin'[r] = origin[r]
    <3>1. lock[r] = d /\ r \in Stores
      BY <2>4, WriterFacts, ForkFacts
    <3>2. lock'[r] = lock[r] /\ r # x
      BY <1>4, <1>7, <1>17, <3>1, NoneAssumption
    <3> QED BY <1>8, <3>1, <3>2
  <2>5. CopyOK(d)'
    BY <1>5, <2>1, <2>4, CopyKept
  <2> QED BY <2>3, <2>5
<1>18. CallOK(c)' /\ CopyOK(c)' /\ TracesOK(c)'
  <2>1. CopyOK(c)' /\ TracesOK(c)'
    BY <1>6 DEF CopyOK, TracesOK, Writing
  <2>2. x \in provisioned
    BY <1>1, <1>2, <1>3, <1>4 DEF CallOK, CallFits
  <2>3. CallOK(c)'
    BY <1>1, <1>3, <1>4, <1>5, <1>6, <1>8, <2>2, MovedFits
  <2> QED BY <2>1, <2>3
<1> QED BY <1>9, <1>10, <1>11, <1>12, <1>13, <1>14, <1>16, <1>17, <1>18 DEF HostOK

\* ForkOpen keeps the invariant: what is due is fixed by the first attempt.
LEMMA ForkOpenKeeps ==
    ASSUME HostOK, NEW c \in Calls, ForkOpen(c)
    PROVE  HostOK'
<1>1. PICK x, s, n : x = call[c].id /\ s = call[c].source /\ n = call[c].request.at
  OBVIOUS
<1>2. /\ call[c].at = "open" /\ lock[s] = None /\ lock[x] = None
      /\ UNCHANGED <<stored, world, repos, provisioned, perms, decided, unrecorded,
                     inherited, omitted, restricted, origin>>
  BY <1>1 DEF ForkOpen, transferVars, storeVars
<1>3. call[c].at \in ForkStages /\ call[c].at # "idle"
  BY <1>2 DEF Writing, ForkStages
<1>4. /\ x \in Stores /\ x \in Known /\ repos[x].fork # None
      /\ s \in Stores \ {x} /\ n \in Nat /\ repos[x].fork = [source |-> s, number |-> n]
      /\ call[c].reader = ForkReader(x) /\ call[c].request.kind = "fork"
      /\ HeadNumber(x) \in Nat /\ HeadNumber(s) \in Nat /\ HostTypes /\ RecordOK(x)
      /\ CallOK(c)
  BY <1>1, <1>3, ForkFacts, CallFacts, HeadType DEF HostOK
<1>5. x \in provisioned /\ (call[c].ready => repos[x].phase = "ready")
  BY <1>1, <1>2, <1>4 DEF CallOK, CallFits
<1>6. CASE origin[x] # None
  <2>1. /\ call' = [call EXCEPT ![c].at = AfterFork(c)] /\ UNCHANGED <<lock, due>>
        /\ TablesSame
    BY <1>1, <1>2, <1>6 DEF ForkOpen, TablesSame
  <2>2. PICK at : at = AfterFork(c)
    OBVIOUS
  <2>3. /\ at \in {"apply", "done"} /\ at \notin ForkStages
        /\ at = "done" => repos[x].phase = "ready"
    BY <1>5, <2>2 DEF AfterFork, ForkStages, Writing
  <2>4. /\ call' \in [Calls -> CallRecords]
        /\ call'[c].at = at /\ call'[c].request = call[c].request
        /\ call'[c].id = call[c].id /\ call'[c].source = call[c].source
        /\ call'[c].reader = call[c].reader /\ call'[c].ready = call[c].ready
        /\ \A d \in Calls \ {c} : call'[d] = call[d]
    BY <1>4, <2>1, <2>2, <2>3, CallMoves
  <2>5. HostTypes'
    BY <1>2, <1>4, <2>1, <2>4 DEF HostTypes
  <2>6. CopyOK(c)' /\ TracesOK(c)'
    BY <2>3, <2>4 DEF CopyOK, TracesOK, ForkStages
  <2>7. origin[x] = repos[x].fork
    BY <1>4, <1>6 DEF RecordOK
  <2>8. CallOK(c)'
    BY <1>1, <1>2, <1>3, <1>4, <1>5, <2>3, <2>4, <2>7, MovedFits
  <2> QED BY <1>2, <2>1, <2>4, <2>5, <2>6, <2>8, OnlyCall
<1>7. CASE origin[x] = None
  <2>1. /\ n <= HeadNumber(s) /\ HeadNumber(x) <= HeadNumber(s)
        /\ VersionId(x, HeadNumber(x)) = VersionId(s, HeadNumber(x))
        /\ lock' = [lock EXCEPT ![s] = c, ![x] = c]
        /\ call' = [call EXCEPT ![c].at = "copy"]
        /\ due' = IF due[x] # None THEN due
                  ELSE [due EXCEPT ![x] =
                         [traces |-> InheritedTraces(s, n), secret |-> restricted[s],
                          reader |-> call[c].reader]]
    BY <1>1, <1>7 DEF ForkOpen
  <2>2. /\ call' \in [Calls -> CallRecords]
        /\ call'[c].at = "copy" /\ call'[c].request = call[c].request
        /\ call'[c].id = call[c].id /\ call'[c].source = call[c].source
        /\ call'[c].reader = call[c].reader /\ call'[c].ready = call[c].ready
        /\ \A d \in Calls \ {c} : call'[d] = call[d]
    BY <1>4, <2>1, CallMoves DEF ForkStages, Writing
  <2>3. /\ lock' \in [Stores -> Calls \cup {None, Server}]
        /\ lock'[x] = c /\ lock'[s] = c
        /\ \A r \in Stores : lock'[r] = lock[r] \/ {lock[r], lock'[r]} \subseteq {None, c}
    BY <1>2, <1>4, <2>1 DEF HostTypes
  <2>4. \A r \in Stores : /\ HeadNumber(r)' = HeadNumber(r) /\ HeadNumber(r) \in Nat
                          /\ \A k : Root(r, k)' = Root(r, k)
    BY <1>2, <1>4, HeadType DEF HeadNumber, Root
  <2>5. TracesOK(c)'
    BY <2>2 DEF TracesOK
  <2>6. CallOK(c)'
    BY <1>1, <1>2, <1>3, <1>4, <1>5, <2>2, MovedFits
  <2>7. \A k \in 1..HeadNumber(x) : Root(x, k) = Root(s, k)
    <3>1. ASSUME NEW k \in 1..HeadNumber(x) PROVE Root(x, k) = Root(s, k)
      <4>1. k \in 0..HeadNumber(x)
        BY <1>4
      <4>2. /\ VersionId(x, HeadNumber(x))[k] = Root(x, k)
            /\ VersionId(s, HeadNumber(x))[k] = Root(s, k)
        BY <4>1 DEF VersionId
      <4> QED BY <2>1, <4>2
    <3> QED BY <3>1
  <2>8. due'[x] # None => CopyOK(c)'
    BY <1>1, <1>2, <1>4, <1>7, <2>1, <2>2, <2>3, <2>4, <2>7 DEF CopyOK
  <2>9. CASE due[x] # None
    <3>1. TablesSame /\ due' = due
      BY <1>2, <2>1, <2>9 DEF TablesSame
    <3>2. HostTypes'
      BY <1>2, <1>4, <2>2, <2>3, <3>1 DEF HostTypes
    <3> QED BY <1>2, <2>2, <2>3, <2>5, <2>6, <2>8, <2>9, <3>1, <3>2, OnlyCall
  <2>10. CASE due[x] = None
    <3>1. PICK o : o = [traces |-> InheritedTraces(s, n), secret |-> restricted[s],
                        reader |-> call[c].reader]
      OBVIOUS
    <3>2. /\ o \in [traces : SUBSET TraceNotes, secret : SUBSET Traces,
                    reader : {"maintain", "read", "none"}]
          /\ o.traces = ForkTraces(x) /\ o.secret = restricted[s]
          /\ o.reader = ForkReader(x)
      BY <1>4, <3>1 DEF ForkTraces, InheritedTraces, HostTypes, ForkReader
    <3>3. o # None
      BY <3>2, NoneAssumption
    <3>4. /\ due'[x] = o /\ \A r \in Stores \ {x} : due'[r] = due[r]
          /\ due' \in [Stores -> [traces : SUBSET TraceNotes, secret : SUBSET Traces,
                                  reader : {"maintain", "read", "none"}] \cup {None}]
      BY <1>4, <2>1, <2>10, <3>1, <3>2 DEF HostTypes
    <3>5. HostTypes'
      BY <1>2, <1>4, <2>2, <2>3, <3>4 DEF HostTypes
    <3>6. Known' = Known /\ Initial(x)' = Initial(x)
      BY <1>2 DEF Known, Initial
    <3>7. NamesOK'
      BY <1>2, <3>6 DEF HostOK, NamesOK
    <3>8. inherited[x] = {} /\ stored[x] \cap Traces = {}
      BY <1>4, <2>10 DEF RecordOK
    <3>9. ASSUME NEW r \in Stores
          PROVE  (IF r \in Known THEN RecordOK(r) ELSE UntouchedOK(r))'
      <4>1. CASE r # x
        BY <1>2, <3>4, <4>1, RecordKept
      <4>2. CASE r = x
        <5>1. RecordOK(x)'
          BY <1>2, <1>4, <1>7, <3>3, <3>4, <3>6 DEF RecordOK
        <5> QED BY <1>4, <3>6, <4>2, <5>1
      <4> QED BY <4>1, <4>2
    <3>10. ASSUME NEW r \in Stores PROVE StoreOK(r)'
      <4>1. lock'[r] = Server => lock[r] = Server
        BY <2>3, HostingAssumption, NoneAssumption DEF Server
      <4> QED BY <1>2, <4>1, StoreKept
    <3>11. ASSUME NEW r \in Known PROVE DueOK(r)'
      <4>1. ForkTraces(r)' = ForkTraces(r)
        BY <1>2, ForkTracesSame
      <4>2. CASE r # x
        <5>1. \A t : Placed(r, t) => Placed(r, t)'
          BY <1>2, WorldSame, PlacedKept
        <5>2. DueOK(r) /\ due'[r] = due[r]
          BY <3>4, <4>2 DEF HostOK, Known
        <5> QED BY <1>2, <4>1, <5>1, <5>2, DueKept DEF DueOK
      <4>3. CASE r = x
        <5>1. ForkReader(x)' = ForkReader(x)
          BY <1>2 DEF ForkReader
        <5>2. o.secret \cap stored'[x] = {} /\ inherited'[x] = {}
          BY <1>2, <3>2, <3>8
        <5>3. repos'[x].fork.source = s /\ restricted'[s] = restricted[s]
          BY <1>2, <1>4
        <5> QED BY <3>2, <3>4, <4>1, <4>3, <5>1, <5>2, <5>3 DEF DueOK
      <4> QED BY <4>2, <4>3
    <3>12. ASSUME NEW r \in Stores PROVE ForkOK(r)'
      <4>1. CASE r # x
        <5>1. \A q \in Stores : WorldGrows(q) /\ HeadNumber(q)' \in Nat
          BY <2>4 DEF WorldGrows
        <5> QED BY <1>2, <3>4, <4>1, <5>1, ForkKept
      <4>2. CASE r = x
        BY <1>2, <1>7, <4>2 DEF ForkOK
      <4> QED BY <4>1, <4>2
    <3>13. ASSUME NEW d \in Calls, d # c PROVE CallOK(d)' /\ CopyOK(d)' /\ TracesOK(d)'
      <4>1. call'[d] = call[d]
        BY <2>2, <3>13
      <4>2. CallOK(d)' /\ TracesOK(d)'
        BY <1>2, <4>1, CallKept, TracesKept
      <4>3. ASSUME call[d].at \in Writing, NEW r \in {call[d].id, call[d].source}
            PROVE  lock'[r] = lock[r] /\ due'[r] = due[r]
        <5>1. lock[r] = d /\ r \in Stores
          BY <4>3, WriterFacts, ForkFacts
        <5>2. lock'[r] = lock[r] /\ r # x
          BY <1>2, <2>3, <3>13, <5>1, NoneAssumption
        <5> QED BY <3>4, <5>1, <5>2
      <4>4. CopyOK(d)'
        BY <1>2, <4>1, <4>3, CopyKept
      <4> QED BY <4>2, <4>4
    <3> QED BY <2>5, <2>6, <2>8, <3>3, <3>4, <3>5, <3>6, <3>7, <3>9, <3>10, <3>11, <3>12, <3>13 DEF HostOK
  <2> QED BY <2>9, <2>10
<1> QED BY <1>6, <1>7

-----------------------------------------------------------------------------
(* The invariant of hosted repositories, and what follows from it.         *)

\* A step elsewhere keeps the invariant.
LEMMA HostSame ==
    ASSUME HostOK, UNCHANGED <<transferVars, hostingVars>>
    PROVE  HostOK'
<1>1. /\ TablesSame /\ UNCHANGED <<provisioned, perms, lock, call>>
  BY DEF transferVars, storeVars, hostingVars, nodeVars, TablesSame
<1>2. HostTypes'
  BY <1>1 DEF HostOK, HostTypes, TablesSame
<1>3. ASSUME NEW c \in Calls PROVE CallOK(c)' /\ CopyOK(c)' /\ TracesOK(c)'
  BY <1>1, CallKept, CopyKept, TracesKept DEF TablesSame
<1>4. /\ NamesOK'
      /\ \A r \in Known' : DueOK(r)'
      /\ \A r \in Stores : ForkOK(r)'
      /\ \A r \in Stores : (IF r \in Known THEN RecordOK(r) ELSE UntouchedOK(r))'
      /\ \A r \in Stores : StoreOK(r)'
  BY <1>1, TablesKept
<1> QED BY <1>2, <1>3, <1>4 DEF HostOK

\* Every step keeps the invariant of hosted repositories.
LEMMA HostPreserved ==
    ASSUME HostInv, [Next]_<<transferVars, signInVars, hostingVars, workload>>
    PROVE  HostInv'
<1>1. workload' = workload /\ (HostWorkload' <=> HostWorkload)
  BY DEF Next, HostWorkload
<1>2. CASE ~HostWorkload
  <2>1. UNCHANGED hostingVars
    BY <1>2 DEF Next, HostWorkload
  <2>2. repos' = repos /\ origin' = origin /\ call' = call
    BY <2>1 DEF hostingVars, nodeVars
  <2> QED BY <1>1, <1>2, <2>2 DEF HostInv
<1>3. CASE HostWorkload
  <2>1. HostOK
    BY <1>3 DEF HostInv
  <2>2. \/ UNCHANGED <<transferVars, hostingVars>>
        \/ \E c \in Calls : CreateNext(c)
        \/ \E c \in Calls : ForkNext(c)
        \/ \E r \in Stores : NodeNext(r)
    BY <1>3 DEF Next, HostWorkload
  <2>3. ASSUME UNCHANGED <<transferVars, hostingVars>> PROVE HostOK'
    BY <2>1, <2>3, HostSame
  <2>4. ASSUME NEW c \in Calls, CreateNext(c) PROVE HostOK'
    BY <2>1, <2>4, ReserveKeeps, ProvisionKeeps, ApplyKeeps, MarkReadyKeeps, CallEndsKeeps
       DEF CreateNext
  <2>5. ASSUME NEW c \in Calls, ForkNext(c) PROVE HostOK'
    BY <2>1, <2>5, ReserveKeeps, ForkOpenKeeps, CallEndsKeeps, CopyObjectKeeps,
       CopyVersionKeeps, TracesBeginKeeps, TraceNoteKeeps, TracePlaceKeeps,
       TraceMarkKeeps, ForkFinishKeeps
       DEF ForkNext
  <2>6. ASSUME NEW r \in Stores, NodeNext(r) PROVE HostOK'
    BY <2>1, <2>6, ServeKeeps, HostRecordKeeps, HostPublishKeeps, RestrictKeeps
       DEF NodeNext
  <2>7. HostOK'
    BY <2>2, <2>3, <2>4, <2>5, <2>6
  <2> QED BY <1>1, <1>3, <2>7 DEF HostInv
<1> QED BY <1>2, <1>3

\* The invariant has a finished fork faithful: its store is closed.
LEMMA InvForkFaithful ==
    ASSUME HostInv
    PROVE  ForkFaithful
<1>1. CASE ~HostWorkload
  BY <1>1 DEF HostInv, ForkFaithful
<1>2. CASE HostWorkload
  <2>1. HostOK
    BY <1>2 DEF HostInv
  <2>2. SUFFICES ASSUME NEW r \in Stores, origin[r] # None
                 PROVE  LET s == origin[r].source
                            n == origin[r].number
                        IN  /\ n <= HeadNumber(r)
                            /\ \A k \in 1..n :
                                /\ Root(r, k) = Root(s, k)
                                /\ Reach({Root(r, k)}, Objects) \subseteq stored[r]
                            /\ \A d \in due[r].traces :
                                /\ d \in inherited[r]
                                /\ d.trace \in omitted[r] \cup stored[r]
                                /\ d.trace \in due[r].secret =>
                                    IF due[r].reader = "maintain"
                                    THEN d.trace \in omitted[r] \cup restricted[r]
                                    ELSE /\ d.trace \in omitted[r]
                                         /\ d.trace \in stored[r] =>
                                               PublishedHere(r, d.trace) \/ InTree(r, d.trace)
    BY DEF ForkFaithful
  <2>3. PICK s, n : s = origin[r].source /\ n = origin[r].number
    OBVIOUS
  <2>4. r \in Known /\ RecordOK(r) /\ StoreOK(r) /\ ForkOK(r) /\ HeadNumber(r) \in Nat /\ n \in Nat
    BY <2>1, <2>2, <2>3, HeadType DEF HostOK, UntouchedOK, HostTypes, ForkOrigins
  <2>5. DueOK(r) /\ due[r] # None
    BY <2>1, <2>2, <2>4 DEF HostOK, RecordOK
  <2>6. /\ n <= HeadNumber(r) /\ \A k \in 1..n : Root(r, k) = Root(s, k)
        /\ \A d \in due[r].traces :
              /\ d \in inherited[r]
              /\ d.trace \in omitted[r] \cup stored[r]
              /\ d.trace \in due[r].secret =>
                    IF due[r].reader = "maintain"
                    THEN d.trace \in omitted[r] \cup restricted[r]
                    ELSE d.trace \in omitted[r]
    BY <2>2, <2>3, <2>4 DEF ForkOK
  <2>7. ASSUME NEW k \in 1..n PROVE Reach({Root(r, k)}, Objects) \subseteq stored[r]
    <3>1. PICK tree, C : tree = Root(r, k) /\ C = stored[r]
      OBVIOUS
    <3>2. {tree} \subseteq C /\ \A o \in C : Below(o) \cap Objects \subseteq C
      BY <2>4, <2>6, <3>1 DEF StoreOK
    <3> QED BY <3>1, <3>2, ReachWithin
  <2>8. ASSUME NEW d \in due[r].traces, d.trace \in due[r].secret,
               due[r].reader # "maintain", d.trace \in stored[r]
        PROVE  PublishedHere(r, d.trace) \/ InTree(r, d.trace)
    <3>1. Placed(r, d.trace)
      BY <2>5, <2>8 DEF DueOK
    <3>2. ASSUME ToCopy(r, d.trace) PROVE InTree(r, d.trace)
      <4>1. repos[r].fork = origin[r]
        BY <2>2, <2>4 DEF RecordOK
      <4>2. PICK k \in 1..n : d.trace \in Reach({Root(s, k)}, Objects)
        BY <2>3, <3>2, <4>1 DEF ToCopy
      <4>3. k \in 1..HeadNumber(r) /\ Root(r, k) = Root(s, k)
        BY <2>4, <2>6
      <4> QED BY <4>2, <4>3 DEF InTree
    <3> QED BY <3>1, <3>2 DEF Placed
  <2> QED BY <2>3, <2>6, <2>7, <2>8
<1> QED BY <1>1, <1>2

\* The invariant has records and nodes agree.
LEMMA InvRepositoriesAgree ==
    ASSUME HostInv
    PROVE  RepositoriesAgree
<1>1. CASE ~HostWorkload
  <2>1. Known = {} /\ \A c \in Calls : call[c].at = "idle"
    BY <1>1 DEF HostInv, Known, Idle
  <2> QED BY <2>1 DEF RepositoriesAgree
<1>2. CASE HostWorkload
  <2>1. HostOK
    BY <1>2 DEF HostInv
  <2>2. \A r \in Known : RecordOK(r)
    BY <2>1 DEF HostOK, Known
  <2>3. \A c \in Calls : call[c].at = "done" =>
            /\ repos[call[c].id].phase = "ready"
            /\ repos[call[c].id].operation = call[c].request.operation
            /\ repos[call[c].id].name = call[c].request.name
    BY <2>1 DEF HostOK, CallOK, CallFits
  <2>4. \A r \in Known : repos[r].phase = "ready" =>
            r \in provisioned /\ perms[r] = Initial(r) /\ origin[r] = repos[r].fork
    BY <2>2 DEF RecordOK
  <2> QED BY <2>1, <2>3, <2>4 DEF HostOK, NamesOK, RepositoriesAgree
<1> QED BY <1>1, <1>2

\* A fork with an origin is the source's versions, objects and traces,
\* whatever attempts died before it, and keeps from its reader what the source
\* restricted (fork.rs fork, copy_traces).
THEOREM ForkFaithfulTheorem == Spec => []ForkFaithful
<1>1. Init => HostInv
  BY HostInitial
<1>2. HostInv /\ [Next]_<<transferVars, signInVars, hostingVars, workload>> => HostInv'
  BY HostPreserved
<1>3. HostInv => ForkFaithful
  BY InvForkFaithful
<1> QED BY <1>1, <1>2, <1>3, PTL DEF Spec

\* One name and one operation mean one repository, and a call returns it only
\* when its node has it as recorded (repo.rs reserve, mark_ready; fork.rs
\* fork_repository).
THEOREM RepositoriesAgreeTheorem == Spec => []RepositoriesAgree
<1>1. Init => HostInv
  BY HostInitial
<1>2. HostInv /\ [Next]_<<transferVars, signInVars, hostingVars, workload>> => HostInv'
  BY HostPreserved
<1>3. HostInv => RepositoriesAgree
  BY InvRepositoriesAgree
<1> QED BY <1>1, <1>2, <1>3, PTL DEF Spec
=============================================================================
