--------------------------- MODULE AdoptionProofs ---------------------------
(***************************************************************************)
(* Proofs of what attach may bury and that an adoption is bound to its     *)
(* operation, for any processes, remote and interleaving.                  *)
(***************************************************************************)
EXTENDS Adoption, TLAPS

-----------------------------------------------------------------------------
(* The inductive invariant.                                                *)

\* Before the store exists it holds nothing, and only a command that makes
\* one can be under way.
StoreFirst ==
    /\ ~store => worlds = <<>> /\ adoption = None /\ ~others
    /\ \A p \in Processes :
          calls[p].phase \in {"opened", "capturing", "scanned", "captured", "ready",
                              "fetched", "passed", "checked", "advanced"} => store

\* The head a passed check saw is World 0 or an attach's.  Worlds are never
\* replaced, though others may follow.
SeenSound(call) ==
    /\ call.phase \in {"passed", "checked"} =>
          /\ call.seen <= Len(worlds)
          /\ call.seen = 0 \/ worlds[call.seen].via = "attach"
    /\ call.phase = "checked" => call.expected <= Len(worlds)

CheckedSound == \A p \in Processes : SeenSound(calls[p])

\* The store holds what the remote World n has.
Holds(n) ==
    \/ RemoteTree[n] = {}
    \/ \E m \in DOMAIN worlds : worlds[m].files = RemoteTree[n]

\* attach.json is written only for a head the store holds.
AdvancedSound ==
    \A p \in Processes : calls[p].phase = "advanced" => Holds(calls[p].head)

AttachInv == TypeOK /\ StoreFirst /\ CheckedSound /\ AdvancedSound /\ AttachmentIsLocal

-----------------------------------------------------------------------------
(* Calls and their types.                                                  *)

\* The phase of a call tells which command it is.
LEMMA CallKinds ==
    ASSUME TypeOK, NEW p \in Processes
    PROVE  /\ calls[p].phase \in {"creating", "opened", "capturing", "scanned",
                                  "captured", "ready"}
                => calls[p] \in AdoptCall
           /\ calls[p].phase \in {"building", "fetched", "passed", "checked", "advanced"}
                => calls[p] \in AttachCall
<1>1. calls[p] \in {Idle} \cup AdoptCall \cup AttachCall
  BY DEF TypeOK
<1>2. CASE calls[p] = Idle
  BY <1>2 DEF Idle
<1>3. CASE calls[p] \in AdoptCall
  BY <1>3 DEF AdoptCall
<1>4. CASE calls[p] \in AttachCall
  BY <1>4 DEF AttachCall
<1> QED BY <1>1, <1>2, <1>3, <1>4

\* A step that touches one call and leaves the store's contents alone keeps
\* the invariant when the call's new value is in order.
LEMMA CallKeeps ==
    ASSUME AttachInv, NEW p \in Processes,
           NEW call \in {Idle} \cup AdoptCall \cup AttachCall,
           Become(p, call),
           UNCHANGED <<store, worlds, adoption, refused, others, attempts, attachment, remote>>,
           call.phase \in {"capturing", "scanned", "captured", "ready"}
              => adoption # None,
           call.phase \in {"opened", "capturing", "scanned", "captured", "ready",
                           "fetched", "passed", "checked", "advanced"} => store,
           SeenSound(call),
           call.phase = "advanced" => Holds(call.head)
    PROVE  AttachInv'
<1> USE DEF AttachInv
<1>1. /\ calls' \in [Processes -> {Idle} \cup AdoptCall \cup AttachCall]
      /\ calls'[p] = call
      /\ \A q \in Processes : q # p => calls'[q] = calls[q]
  BY DEF TypeOK, Become
<1>2. TypeOK'
  BY <1>1 DEF TypeOK
<1>3. StoreFirst'
  BY <1>1 DEF StoreFirst
<1>4. CheckedSound'
  BY <1>1 DEF CheckedSound, SeenSound
<1>5. AdvancedSound'
  BY <1>1 DEF AdvancedSound, Holds
<1>6. AttachmentIsLocal'
  BY DEF AttachmentIsLocal
<1> QED BY <1>2, <1>3, <1>4, <1>5, <1>6

LEMMA IdleKeeps ==
    ASSUME AttachInv, NEW p \in Processes, Return(p),
           UNCHANGED <<store, worlds, adoption, refused, others, attempts, attachment, remote>>
    PROVE  AttachInv'
<1>1. Idle.phase = "idle"
  BY DEF Idle
<1>2. Become(p, Idle)
  BY DEF Return
<1>3. SeenSound(Idle)
  BY <1>1 DEF SeenSound
<1> QED BY <1>1, <1>2, <1>3, CallKeeps

\* What appending a World leaves and adds.
LEMMA Appended ==
    ASSUME TypeOK, NEW w \in World, worlds' = Append(worlds, w)
    PROVE  /\ worlds' \in Seq(World)
           /\ Len(worlds') = Len(worlds) + 1
           /\ Len(worlds) \in Nat
           /\ DOMAIN worlds' = 1..Len(worlds) + 1
           /\ DOMAIN worlds = 1..Len(worlds)
           /\ \A m \in 1..Len(worlds) : worlds'[m] = worlds[m]
           /\ worlds'[Len(worlds) + 1] = w
  BY DEF TypeOK

\* A World may be appended to an existing store while one call, if any, goes
\* on.
LEMMA AppendKeeps ==
    ASSUME AttachInv, TypeOK', NEW w \in World,
           worlds' = Append(worlds, w),
           store, store',
           UNCHANGED attachment,
           \A q \in Processes :
              \/ calls'[q] = calls[q]
              \/ calls'[q] = Idle
              \/ /\ calls'[q].phase = "advanced"
                 /\ w.files = RemoteTree[calls'[q].head]
    PROVE  AttachInv'
<1> USE DEF AttachInv
<1>0. Idle.phase = "idle"
  BY DEF Idle
<1>1. /\ Len(worlds') = Len(worlds) + 1
      /\ Len(worlds) \in Nat
      /\ DOMAIN worlds' = 1..Len(worlds) + 1
      /\ DOMAIN worlds = 1..Len(worlds)
      /\ \A m \in 1..Len(worlds) : worlds'[m] = worlds[m]
      /\ worlds'[Len(worlds) + 1] = w
  BY Appended
<1>2. StoreFirst'
  BY DEF StoreFirst
<1>3. CheckedSound'
  <2> SUFFICES ASSUME NEW q \in Processes, calls'[q].phase \in {"passed", "checked"}
               PROVE  /\ calls'[q].seen <= Len(worlds')
                      /\ calls'[q].seen = 0 \/ worlds'[calls'[q].seen].via = "attach"
                      /\ calls'[q].phase = "checked"
                           => calls'[q].expected <= Len(worlds')
    BY DEF CheckedSound, SeenSound
  <2>1. calls'[q] = calls[q]
    BY <1>0
  <2>2. calls[q] \in AttachCall
    BY <2>1, CallKinds
  <2>3. calls[q].seen \in Nat /\ calls[q].expected \in Nat
    BY <2>2 DEF AttachCall
  <2>4. /\ calls[q].seen <= Len(worlds)
        /\ calls[q].seen = 0 \/ worlds[calls[q].seen].via = "attach"
        /\ calls[q].phase = "checked" => calls[q].expected <= Len(worlds)
    BY <2>1 DEF CheckedSound, SeenSound
  <2> QED BY <1>1, <2>1, <2>3, <2>4
<1>5. AdvancedSound'
  <2> SUFFICES ASSUME NEW q \in Processes, calls'[q].phase = "advanced"
               PROVE  \/ RemoteTree[calls'[q].head] = {}
                      \/ \E m \in DOMAIN worlds' :
                            worlds'[m].files = RemoteTree[calls'[q].head]
    BY DEF AdvancedSound, Holds
  <2>1. CASE calls'[q] = calls[q]
    BY <1>1, <2>1 DEF AdvancedSound, Holds
  <2>2. CASE w.files = RemoteTree[calls'[q].head]
    BY <1>1, <2>2
  <2> QED BY <1>0, <2>1, <2>2
<1>6. AttachmentIsLocal'
  BY <1>1 DEF AttachmentIsLocal
<1> QED BY <1>2, <1>3, <1>5, <1>6

\* A step of the adoption Layer that appends no World.
LEMMA LayerKeeps ==
    ASSUME AttachInv, TypeOK', store, store',
           UNCHANGED <<worlds, attachment>>,
           \A q \in Processes :
              \/ calls'[q] = calls[q]
              \/ calls'[q].phase \in {"idle", "opened", "captured"}
    PROVE  AttachInv'
<1> USE DEF AttachInv
<1>1. StoreFirst'
  BY DEF StoreFirst
<1>2. CheckedSound'
  BY DEF CheckedSound, SeenSound
<1>3. AdvancedSound'
  BY DEF AdvancedSound, Holds
<1>4. AttachmentIsLocal'
  BY DEF AttachmentIsLocal
<1> QED BY <1>1, <1>2, <1>3, <1>4

\* A capture makes a Layer of the same operation.
LEMMA CapturedLayer ==
    ASSUME NEW layer \in Layer, NEW files \in SUBSET Files
    PROVE  LET next == [layer EXCEPT !.files = files, !.revision = layer.revision + 1]
           IN  next \in Layer /\ next.operation = layer.operation
<1> DEFINE mid == [layer EXCEPT !.files = files]
<1>1. layer.revision + 1 \in Nat
  BY DEF Layer
<1>2. mid \in Layer /\ mid.operation = layer.operation
  BY DEF Layer
<1>3. ASSUME NEW n \in Nat
      PROVE  /\ [mid EXCEPT !.revision = n] \in Layer
             /\ [mid EXCEPT !.revision = n].operation = mid.operation
  <2> HIDE DEF mid
  <2> QED BY <1>2 DEF Layer
<1> QED BY <1>1, <1>2, <1>3

-----------------------------------------------------------------------------
(* The commands.                                                           *)

LEMMA AdoptKeeps ==
    ASSUME AttachInv, NEW p \in Processes, AdoptNext(p)
    PROVE  AttachInv'
<1> USE DEF AttachInv
<1>1. ASSUME NEW op \in AdoptOps, AdoptOpen(p, op)
      PROVE  AttachInv'
  <2> DEFINE call == [phase |-> IF store THEN "opened" ELSE "creating",
                      operation |-> op, expected |-> 0]
  <2>1. /\ call \in AdoptCall
        /\ call.phase \in {"opened", "creating"}
        /\ call.phase = "opened" => store
    BY DEF AdoptCall
  <2>2. Become(p, call)
    BY <1>1 DEF AdoptOpen
  <2> HIDE DEF call
  <2>3. SeenSound(call)
    BY <2>1 DEF SeenSound
  <2> QED BY <1>1, <2>1, <2>2, <2>3, CallKeeps DEF AdoptOpen
<1>2. CASE AdoptInit(p)
  <2>1. calls[p] \in AdoptCall
    BY <1>2, CallKinds DEF AdoptInit
  <2> DEFINE call == [calls[p] EXCEPT !.phase = "opened"]
             layer == [operation |-> calls[p].operation, status |-> "active",
                       files |-> {}, revision |-> 0]
  <2>2. call \in AdoptCall /\ call.phase = "opened"
    BY <2>1 DEF AdoptCall
  <2>3. layer \in Layer
    BY <2>1 DEF AdoptCall, Layer
  <2>4. Become(p, call) /\ adoption' = IF store THEN adoption ELSE layer
    BY <1>2 DEF AdoptInit
  <2> HIDE DEF call, layer
  <2>5. /\ calls' \in [Processes -> {Idle} \cup AdoptCall \cup AttachCall]
        /\ calls'[p] = call
        /\ \A q \in Processes : q # p => calls'[q] = calls[q]
    BY <2>2, <2>4 DEF TypeOK, Become
  <2>6. layer # None
    BY <2>3, NoneAssumption
  <2>7. TypeOK'
    BY <1>2, <2>2, <2>3, <2>4, <2>5, <2>6 DEF TypeOK, AdoptInit
  <2>8. CASE store
    BY <1>2, <2>2, <2>5, <2>7, <2>8, LayerKeeps DEF AdoptInit
  <2>9. CASE ~store
    <3>1. StoreFirst' /\ CheckedSound' /\ AdvancedSound'
      BY <1>2, <2>2, <2>5 DEF AdoptInit, StoreFirst, CheckedSound, SeenSound, AdvancedSound, Holds
    <3>2. AttachmentIsLocal'
      BY <1>2 DEF AdoptInit, AttachmentIsLocal
    <3> QED BY <2>7, <3>1, <3>2
  <2> QED BY <2>8, <2>9
<1>3. CASE AdoptCheck(p)
  <2>1. CASE Resumable(calls[p].operation)
    <3>1. calls[p] \in AdoptCall /\ store /\ adoption # None
      BY <1>3, <2>1, CallKinds DEF AdoptCheck, Resumable, StoreFirst
    <3> DEFINE call == [calls[p] EXCEPT !.phase = "capturing"]
    <3>2. call \in AdoptCall /\ call.phase = "capturing"
      BY <3>1 DEF AdoptCall
    <3>3. Become(p, call)
      BY <1>3, <2>1 DEF AdoptCheck
    <3> HIDE DEF call
    <3>4. SeenSound(call)
      BY <3>2 DEF SeenSound
    <3> QED BY <1>3, <3>1, <3>2, <3>3, <3>4, CallKeeps DEF AdoptCheck
  <2>2. CASE ~Resumable(calls[p].operation)
    BY <1>3, <2>2, IdleKeeps DEF AdoptCheck
  <2> QED BY <2>1, <2>2
<1>4. CASE AdoptScan(p) \/ AdoptExpect(p)
  <2>1. /\ calls[p] \in AdoptCall /\ store /\ adoption # None
        /\ adoption.revision \in Nat
    BY <1>4, CallKinds DEF AdoptScan, AdoptExpect, StoreFirst, TypeOK, Layer
  <2>2. PICK phase \in {"scanned", "ready"} :
           Become(p, [calls[p] EXCEPT !.phase = phase, !.expected = adoption.revision])
    BY <1>4 DEF AdoptScan, AdoptExpect
  <2> DEFINE call == [calls[p] EXCEPT !.phase = phase, !.expected = adoption.revision]
  <2>3. call \in AdoptCall /\ call.phase \in {"scanned", "ready"}
    BY <2>1 DEF AdoptCall
  <2>4. Become(p, call)
    BY <2>2
  <2> HIDE DEF call
  <2>5. SeenSound(call)
    BY <2>3 DEF SeenSound
  <2> QED BY <1>4, <2>1, <2>3, <2>4, <2>5, CallKeeps DEF AdoptScan, AdoptExpect
<1>5. ASSUME NEW files \in SUBSET Files, NEW uncertain \in BOOLEAN,
             AdoptCapture(p, files, uncertain)
      PROVE  AttachInv'
  <2>1. calls[p] \in AdoptCall /\ store /\ adoption \in Layer
    BY <1>5, CallKinds DEF AdoptCapture, StoreFirst, TypeOK
  <2> DEFINE call == IF uncertain THEN Idle
                     ELSE [calls[p] EXCEPT !.phase = "captured"]
             layer == [adoption EXCEPT !.files = files,
                                       !.revision = adoption.revision + 1]
  <2>2. /\ call \in {Idle} \cup AdoptCall
        /\ call.phase \in {"idle", "captured"}
    BY <2>1 DEF AdoptCall, Idle
  <2>3. layer \in Layer
    BY <2>1, CapturedLayer
  <2>4. Become(p, call) /\ adoption' \in {adoption, layer}
    BY <1>5 DEF AdoptCapture, Return
  <2> HIDE DEF call, layer
  <2>5. /\ calls' \in [Processes -> {Idle} \cup AdoptCall \cup AttachCall]
        /\ calls'[p] = call
        /\ \A q \in Processes : q # p => calls'[q] = calls[q]
    BY <2>2, <2>4 DEF TypeOK, Become
  <2>6. adoption' \in Layer /\ adoption' # None
    BY <2>1, <2>3, <2>4, NoneAssumption
  <2>7. TypeOK'
    BY <1>5, <2>5, <2>6 DEF TypeOK, AdoptCapture
  <2> QED BY <1>5, <2>1, <2>2, <2>5, <2>7, LayerKeeps DEF AdoptCapture
<1>6. CASE AdoptEnded(p)
  BY <1>6, IdleKeeps DEF AdoptEnded
<1>7. ASSUME NEW named \in BOOLEAN, AdoptPublish(p, named)
      PROVE  AttachInv'
  <2>1. store /\ store' /\ adoption \in Layer
    BY <1>7 DEF AdoptPublish, StoreFirst, TypeOK
  <2>2. /\ calls' \in [Processes -> {Idle} \cup AdoptCall \cup AttachCall]
        /\ calls'[p] = Idle
        /\ \A q \in Processes : q # p => calls'[q] = calls[q]
    BY <1>7 DEF AdoptPublish, Return, Become, TypeOK
  <2>3. Idle.phase = "idle"
    BY DEF Idle
  <2> DEFINE layer == [adoption EXCEPT !.status = "published"]
             w == [files |-> HeadFiles \cup adoption.files, via |-> "adopt",
                   named |-> named]
  <2>4. \/ UNCHANGED <<worlds, adoption>> /\ refused' \in {refused, TRUE}
        \/ /\ adoption' = layer /\ worlds' = Append(worlds, w)
           /\ UNCHANGED refused
    BY <1>7 DEF AdoptPublish
  <2>5. CASE UNCHANGED <<worlds, adoption>> /\ refused' \in {refused, TRUE}
    <3>1. TypeOK'
      BY <1>7, <2>2, <2>3, <2>5 DEF TypeOK, AdoptPublish
    <3> QED BY <1>7, <2>1, <2>2, <2>3, <2>5, <3>1, LayerKeeps DEF AdoptPublish
  <2>6. CASE adoption' = layer /\ worlds' = Append(worlds, w) /\ UNCHANGED refused
    <3>1. layer \in Layer
      BY <2>1 DEF Layer
    <3>2. HeadFiles \subseteq Files
      <4>1. worlds # <<>> => worlds[Len(worlds)] \in World
        BY DEF TypeOK
      <4> QED BY <4>1 DEF HeadFiles, World
    <3>3. adoption.files \subseteq Files
      BY <2>1 DEF Layer
    <3>4. w \in World
      BY <3>2, <3>3 DEF World
    <3> HIDE DEF layer, w
    <3>5. layer # None
      BY <3>1, NoneAssumption
    <3>6. worlds' \in Seq(World)
      BY <2>6, <3>4, Appended
    <3>7. TypeOK'
      BY <1>7, <2>2, <2>6, <3>1, <3>5, <3>6 DEF TypeOK, AdoptPublish
    <3> QED BY <1>7, <2>1, <2>2, <2>6, <3>4, <3>7, AppendKeeps DEF AdoptPublish
  <2> QED BY <2>4, <2>5, <2>6
<1> QED BY <1>1, <1>2, <1>3, <1>4, <1>5, <1>6, <1>7 DEF AdoptNext

\* attach_head checked that the local head is World 0 or an attach's own.
LEMMA CheckedHead ==
    ASSUME AttachInv, CheckAttach
    PROVE  /\ Len(worlds) \in Nat
           /\ Len(worlds) = 0 \/ worlds[Len(worlds)].via = "attach"
<1>1. worlds \in Seq(World)
  BY DEF AttachInv, TypeOK
<1> QED BY <1>1 DEF CheckAttach, InterruptedAttach

LEMMA AttachInstallKeeps ==
    ASSUME AttachInv, NEW p \in Processes, AttachInstall(p)
    PROVE  AttachInv'
<1> USE DEF AttachInv
<1>1. CASE store
  BY <1>1, IdleKeeps DEF AttachInstall
<1>2. CASE ~store
  <2> DEFINE head == calls[p].head
             w == [files |-> RemoteTree[head], via |-> "attach", named |-> TRUE]
  <2>1. head \in RemoteWorlds
    BY CallKinds DEF AttachInstall, AttachCall
  <2>2. RemoteTree[head] \in SUBSET Files
    BY <2>1, RemoteAssumption DEF RemoteWorlds
  <2>3. w \in World /\ w.via = "attach" /\ w.files = RemoteTree[head]
    BY <2>2 DEF World
  <2>4. /\ calls' \in [Processes -> {Idle} \cup AdoptCall \cup AttachCall]
        /\ calls'[p] = Idle
        /\ \A q \in Processes : q # p => calls'[q] = calls[q]
    BY DEF AttachInstall, Return, Become, TypeOK
  <2>5. Idle.phase = "idle"
    BY DEF Idle
  <2>6. /\ attachment' = head /\ store'
        /\ IF RemoteTree[head] = {}
           THEN UNCHANGED <<worlds, attempts>>
           ELSE worlds' = <<w>> /\ attempts' = [attempts EXCEPT ![head] = 0]
    BY <1>2 DEF AttachInstall
  <2> HIDE DEF head, w
  <2>7. attempts' \in [RemoteWorlds -> Nat \cup {None}]
    BY <2>1, <2>6 DEF TypeOK
  <2>8. worlds' \in Seq(World)
    <3>1. <<w>> \in Seq(World)
      BY <2>3
    <3>2. worlds' = worlds \/ worlds' = <<w>>
      BY <2>6
    <3> QED BY <3>1, <3>2 DEF TypeOK
  <2>9. TypeOK'
    BY <2>1, <2>4, <2>5, <2>6, <2>7, <2>8 DEF TypeOK, AttachInstall
  <2>10. StoreFirst' /\ CheckedSound' /\ AdvancedSound'
    BY <1>2, <2>4, <2>5, <2>6 DEF StoreFirst, CheckedSound, SeenSound, AdvancedSound, Holds
  <2>11. AttachmentIsLocal'
    BY <2>3, <2>6 DEF AttachmentIsLocal
  <2> QED BY <2>9, <2>10, <2>11
<1> QED BY <1>1, <1>2

LEMMA AttachAdvanceKeeps ==
    ASSUME AttachInv, NEW p \in Processes, AttachAdvance(p)
    PROVE  AttachInv'
<1> USE DEF AttachInv
<1> DEFINE head == calls[p].head
           expected == calls[p].expected
           w == [files |-> RemoteTree[head], via |-> "attach", named |-> TRUE]
           local == IF expected = 0 THEN {} ELSE worlds[expected].files
           equal == local = RemoteTree[head]
           fresh == attempts[head] = None
           lands == ~equal /\ fresh /\ expected = Len(worlds)
           replays == attempts[head] = expected
                        /\ expected < Len(worlds)
                        /\ worlds[expected + 1] = w
           done == [calls[p] EXCEPT !.phase = "advanced"]
<1>1. /\ calls[p].phase = "checked" /\ store
      /\ calls[p] \in AttachCall
  BY CallKinds DEF AttachAdvance, StoreFirst
<1>2. head \in RemoteWorlds /\ expected \in Nat
  BY <1>1 DEF AttachCall
<1>3. expected <= Len(worlds)
  BY <1>1 DEF CheckedSound, SeenSound
<1>4. /\ Len(worlds) \in Nat
      /\ DOMAIN worlds = 1..Len(worlds)
  BY DEF TypeOK
<1>5. RemoteTree[head] \in SUBSET Files
  BY <1>2, RemoteAssumption DEF RemoteWorlds
<1>6. w \in World /\ w.via = "attach" /\ w.files = RemoteTree[head]
  BY <1>5 DEF World
<1>7. done \in AttachCall /\ done.phase = "advanced" /\ done.head = head
  BY <1>1 DEF AttachCall
<1>8. /\ IF equal \/ lands \/ replays THEN Become(p, done) ELSE Return(p)
      /\ IF lands THEN worlds' = Append(worlds, w) ELSE UNCHANGED worlds
      /\ attempts' = IF ~equal /\ fresh
                     THEN [attempts EXCEPT ![head] = expected] ELSE attempts
      /\ UNCHANGED <<store, adoption, refused, others, attachment, remote>>
  BY DEF AttachAdvance
<1>9. equal \/ replays => Holds(head)
  <2>1. CASE equal /\ expected = 0
    BY <2>1 DEF Holds
  <2>2. CASE equal /\ expected # 0
    BY <1>2, <1>3, <1>4, <2>2 DEF Holds
  <2>3. CASE replays
    BY <1>2, <1>4, <1>6, <2>3 DEF Holds
  <2> QED BY <2>1, <2>2, <2>3
<1>10. lands => expected = Len(worlds)
  OBVIOUS
<1> HIDE DEF head, expected, equal, fresh, lands, replays, w, done
<1>11. attempts' \in [RemoteWorlds -> Nat \cup {None}]
  BY <1>2, <1>8 DEF TypeOK
<1>12. Idle.phase = "idle"
  BY DEF Idle
<1>13. /\ calls' \in [Processes -> {Idle} \cup AdoptCall \cup AttachCall]
       /\ calls'[p] = IF equal \/ lands \/ replays THEN done ELSE Idle
       /\ \A q \in Processes : q # p => calls'[q] = calls[q]
  BY <1>7, <1>8 DEF Return, Become, TypeOK
<1>14. worlds' \in Seq(World)
  BY <1>6, <1>8, Appended DEF TypeOK
<1>15. TypeOK'
  BY <1>7, <1>8, <1>11, <1>12, <1>13, <1>14 DEF TypeOK
<1>16. CASE lands
  BY <1>1, <1>3, <1>6, <1>7, <1>8, <1>10, <1>13, <1>15, <1>16, AppendKeeps
<1>17. CASE ~lands
  <2>1. StoreFirst'
    BY <1>1, <1>8, <1>13 DEF StoreFirst
  <2>2. CheckedSound'
    BY <1>7, <1>8, <1>12, <1>13, <1>17 DEF CheckedSound, SeenSound
  <2>3. AdvancedSound'
    BY <1>7, <1>8, <1>9, <1>12, <1>13, <1>17 DEF AdvancedSound, Holds
  <2>4. AttachmentIsLocal'
    BY <1>8, <1>17 DEF AttachmentIsLocal
  <2> QED BY <1>15, <2>1, <2>2, <2>3, <2>4
<1> QED BY <1>16, <1>17

LEMMA AttachKeeps ==
    ASSUME AttachInv, NEW p \in Processes, AttachNext(p)
    PROVE  AttachInv'
<1> USE DEF AttachInv
<1>1. CASE AttachOpen(p)
  <2> DEFINE call == [phase |-> IF store THEN "fetched" ELSE "building",
                      head |-> remote, seen |-> 0, expected |-> 0]
  <2>1. /\ call \in AttachCall
        /\ call.phase \in {"fetched", "building"}
        /\ call.phase = "fetched" => store
    BY DEF AttachCall, TypeOK
  <2>2. Become(p, call)
    BY <1>1 DEF AttachOpen
  <2> HIDE DEF call
  <2>3. SeenSound(call)
    BY <2>1 DEF SeenSound
  <2> QED BY <1>1, <2>1, <2>2, <2>3, CallKeeps DEF AttachOpen
<1>2. CASE AttachInstall(p)
  BY <1>2, AttachInstallKeeps
<1>3. CASE AttachCheck(p)
  <2>1. CASE CheckAttach
    <3>1. calls[p] \in AttachCall /\ store
      BY <1>3, CallKinds DEF AttachCheck, StoreFirst
    <3> DEFINE call == [calls[p] EXCEPT !.phase = "passed", !.seen = Len(worlds)]
    <3>2. /\ Len(worlds) \in Nat
          /\ Len(worlds) = 0 \/ worlds[Len(worlds)].via = "attach"
      BY <2>1, CheckedHead
    <3>3. call \in AttachCall /\ call.phase = "passed" /\ call.seen = Len(worlds)
      BY <3>1, <3>2 DEF AttachCall
    <3>4. Become(p, call)
      BY <1>3, <2>1 DEF AttachCheck
    <3> HIDE DEF call
    <3>5. SeenSound(call)
      BY <3>2, <3>3 DEF SeenSound
    <3> QED BY <1>3, <3>1, <3>3, <3>4, <3>5, CallKeeps DEF AttachCheck
  <2>2. CASE ~CheckAttach
    BY <1>3, <2>2, IdleKeeps DEF AttachCheck
  <2> QED BY <2>1, <2>2
<1>6. CASE AttachHead(p)
  <2>1. calls[p] \in AttachCall /\ store /\ Len(worlds) \in Nat
    BY <1>6, CallKinds DEF AttachHead, StoreFirst, TypeOK
  <2> DEFINE call == [calls[p] EXCEPT !.phase = "checked", !.expected = Len(worlds)]
  <2>2. /\ call \in AttachCall /\ call.phase = "checked"
        /\ call.expected = Len(worlds) /\ call.seen = calls[p].seen
    BY <2>1 DEF AttachCall
  <2>3. Become(p, call)
    BY <1>6 DEF AttachHead
  <2> HIDE DEF call
  <2>4. SeenSound(call)
    BY <1>6, <2>1, <2>2 DEF AttachHead, CheckedSound, SeenSound
  <2> QED BY <1>6, <2>1, <2>2, <2>3, <2>4, CallKeeps DEF AttachHead
<1>4. CASE AttachAdvance(p)
  BY <1>4, AttachAdvanceKeeps
<1>5. CASE WriteAttachment(p)
  <2>1. calls[p].head \in RemoteWorlds /\ Holds(calls[p].head)
    BY <1>5, CallKinds DEF WriteAttachment, AttachCall, AdvancedSound
  <2>2. Idle.phase = "idle"
    BY DEF Idle
  <2>3. /\ calls' \in [Processes -> {Idle} \cup AdoptCall \cup AttachCall]
        /\ calls'[p] = Idle
        /\ \A q \in Processes : q # p => calls'[q] = calls[q]
    BY <1>5 DEF WriteAttachment, Return, Become, TypeOK
  <2>4. TypeOK'
    BY <1>5, <2>1, <2>2, <2>3 DEF TypeOK, WriteAttachment
  <2>5. StoreFirst' /\ CheckedSound' /\ AdvancedSound'
    BY <1>5, <2>2, <2>3 DEF WriteAttachment, StoreFirst, CheckedSound, SeenSound, AdvancedSound, Holds
  <2>6. AttachmentIsLocal'
    BY <1>5, <2>1 DEF WriteAttachment, AttachmentIsLocal, Holds
  <2> QED BY <2>4, <2>5, <2>6
<1> QED BY <1>1, <1>2, <1>3, <1>4, <1>5, <1>6 DEF AttachNext

LEMMA UserKeeps ==
    ASSUME AttachInv, UserNext
    PROVE  AttachInv'
<1> USE DEF AttachInv
<1>1. CASE UserInit \/ UserCreateLayer
  <2>1. TypeOK'
    BY <1>1 DEF UserInit, UserCreateLayer, TypeOK
  <2>2. StoreFirst'
    BY <1>1 DEF UserInit, UserCreateLayer, StoreFirst
  <2>3. CheckedSound'
    BY <1>1 DEF UserInit, UserCreateLayer, CheckedSound, SeenSound
  <2>4. AdvancedSound'
    BY <1>1 DEF UserInit, UserCreateLayer, AdvancedSound, Holds
  <2>5. AttachmentIsLocal'
    BY <1>1 DEF UserInit, UserCreateLayer, AttachmentIsLocal
  <2> QED BY <2>1, <2>2, <2>3, <2>4, <2>5
<1>2. ASSUME NEW files \in SUBSET Files, NEW named \in BOOLEAN, UserPublish(files, named)
      PROVE  AttachInv'
  <2> DEFINE w == [files |-> files, via |-> "publish", named |-> named]
  <2>1. w \in World /\ w.via # "attach"
    BY DEF World
  <2>2. worlds' = Append(worlds, w) /\ store /\ store'
    BY <1>2 DEF UserPublish, StoreFirst, TypeOK
  <2> HIDE DEF w
  <2>3. worlds' \in Seq(World)
    BY <2>1, <2>2, Appended
  <2>4. TypeOK'
    BY <1>2, <2>3 DEF UserPublish, TypeOK
  <2> QED BY <1>2, <2>1, <2>2, <2>4, AppendKeeps DEF UserPublish
<1>3. CASE UserDiscard
  <2> DEFINE layer == [adoption EXCEPT !.status = "discarded"]
  <2>1. adoption \in Layer /\ store /\ store'
    BY <1>3 DEF UserDiscard, TypeOK, StoreFirst
  <2>2. layer \in Layer
    BY <2>1 DEF Layer
  <2>3. adoption' = layer
    BY <1>3 DEF UserDiscard
  <2> HIDE DEF layer
  <2>4. layer # None
    BY <2>2, NoneAssumption
  <2>5. TypeOK'
    BY <1>3, <2>2, <2>3, <2>4 DEF UserDiscard, TypeOK
  <2> QED BY <1>3, <2>1, <2>5, LayerKeeps DEF UserDiscard
<1>4. CASE RemoteMoves
  <2>1. TypeOK'
    BY <1>4 DEF RemoteMoves, TypeOK
  <2>2. StoreFirst' /\ CheckedSound' /\ AdvancedSound'
    BY <1>4 DEF RemoteMoves, StoreFirst, CheckedSound, SeenSound, AdvancedSound, Holds
  <2>3. AttachmentIsLocal'
    BY <1>4 DEF RemoteMoves, AttachmentIsLocal
  <2> QED BY <2>1, <2>2, <2>3
<1> QED BY <1>1, <1>2, <1>3, <1>4 DEF UserNext

-----------------------------------------------------------------------------
(* The theorems.                                                           *)

LEMMA AttachInitial ==
    ASSUME Init
    PROVE  AttachInv
<1>1. Idle.phase = "idle"
  BY DEF Idle
<1>2. 1 \in RemoteWorlds
  BY RemoteAssumption DEF RemoteWorlds
<1>3. TypeOK
  <2>1. <<>> \in Seq(World)
    OBVIOUS
  <2>2. attempts \in [RemoteWorlds -> Nat \cup {None}]
    BY DEF Init
  <2>3. /\ calls \in [Processes -> {Idle} \cup AdoptCall \cup AttachCall]
        /\ \A p \in Processes : calls[p] = Idle
    BY DEF Init
  <2> QED BY <1>1, <1>2, <2>1, <2>2, <2>3 DEF Init, TypeOK
<1>4. StoreFirst /\ CheckedSound /\ AdvancedSound
  BY <1>1 DEF Init, StoreFirst, CheckedSound, SeenSound, AdvancedSound
<1>5. AttachmentIsLocal
  BY DEF Init, AttachmentIsLocal
<1> QED BY <1>3, <1>4, <1>5 DEF AttachInv

LEMMA AttachPreserved ==
    ASSUME AttachInv, [Next]_vars
    PROVE  AttachInv'
<1>1. CASE UserNext
  BY <1>1, UserKeeps
<1>2. ASSUME NEW p \in Processes, AdoptNext(p) \/ AttachNext(p) \/ Crash(p)
      PROVE  AttachInv'
  <2>1. CASE Crash(p)
    BY <2>1, IdleKeeps DEF Crash
  <2> QED BY <1>2, <2>1, AdoptKeeps, AttachKeeps
<1>3. CASE UNCHANGED vars
  BY <1>3 DEF vars, AttachInv, TypeOK, StoreFirst, CheckedSound, SeenSound,
     AdvancedSound, Holds, AttachmentIsLocal
<1> QED BY <1>1, <1>2, <1>3 DEF Next

LEMMA AttachInductive == Spec => []AttachInv
<1>1. Init => AttachInv
  BY AttachInitial
<1>2. AttachInv /\ [Next]_vars => AttachInv'
  BY AttachPreserved
<1> QED BY <1>1, <1>2, PTL DEF Spec

\* Only an attach that lands changes the World as a checked call ends, and it
\* lands on the head that call read.
LEMMA AttachLands ==
    ASSUME AttachInv, [Next]_vars, NEW p \in Processes,
           calls[p].phase = "checked", calls'[p] # calls[p], worlds' # worlds
    PROVE  calls[p].expected = Len(worlds)
<1>1. /\ DOMAIN calls = Processes
      /\ \A q \in Processes : calls[q].phase # "checked" => q # p
  BY DEF AttachInv, TypeOK
<1>2. ~UserNext
  BY DEF UserNext, UserInit, UserCreateLayer, UserPublish, UserDiscard, RemoteMoves
<1>3. ASSUME NEW q \in Processes, NEW call, Become(q, call), q # p
      PROVE  FALSE
  BY <1>1, <1>3 DEF Become
<1>4. ASSUME NEW q \in Processes, AdoptNext(q)
      PROVE  FALSE
  BY <1>1, <1>3, <1>4 DEF AdoptNext, AdoptOpen, AdoptInit, AdoptCheck, AdoptScan,
     AdoptCapture, AdoptExpect, AdoptEnded, AdoptPublish, Return, Idle
<1>5. ASSUME NEW q \in Processes, AttachOpen(q) \/ AttachInstall(q) \/ AttachCheck(q)
                \/ AttachHead(q) \/ WriteAttachment(q) \/ Crash(q)
      PROVE  FALSE
  BY <1>1, <1>3, <1>5 DEF AttachOpen, AttachInstall, AttachCheck, AttachHead,
     WriteAttachment, Crash, Return, Idle
<1>6. ASSUME NEW q \in Processes, AttachAdvance(q)
      PROVE  calls[p].expected = Len(worlds)
  <2>1. q = p
    BY <1>3, <1>6 DEF AttachAdvance, Return
  <2> QED BY <1>6, <2>1 DEF AttachAdvance
<1> QED BY <1>2, <1>4, <1>5, <1>6 DEF Next, AttachNext, vars

LEMMA WindowKept ==
    ASSUME AttachInv, [Next]_vars
    PROVE  BuriesOnlyItsWindow
<1> SUFFICES ASSUME NEW p \in Processes, calls[p].phase = "checked",
                    calls'[p] # calls[p], worlds' # worlds,
                    NEW m \in DOMAIN worlds, Uncovered(m)
             PROVE  m \in calls[p].seen + 1..calls[p].expected
  BY DEF BuriesOnlyItsWindow
<1>1. calls[p].expected = Len(worlds)
  BY AttachLands
<1>2. calls[p].seen \in Nat
  BY CallKinds DEF AttachInv, AttachCall
<1>3. DOMAIN worlds = 1..Len(worlds) /\ Len(worlds) \in Nat
  BY DEF AttachInv, TypeOK
<1>4. /\ calls[p].seen <= Len(worlds)
      /\ calls[p].seen = 0 \/ worlds[calls[p].seen].via = "attach"
  BY DEF AttachInv, CheckedSound, SeenSound
<1>5. m > calls[p].seen
  BY <1>2, <1>3, <1>4 DEF Uncovered
<1> QED BY <1>1, <1>2, <1>3, <1>5

\* attach.json names a head the store holds, and an attach World buries no
\* other history but what landed between its own check and its read of the
\* head (attach.rs check_attach, attach_head), whatever races and crashes, for
\* any remote history and number of processes.
THEOREM AttachSoundTheorem == Spec => AttachSound
<1>1. AttachInv /\ AttachInv' /\ [Next]_vars
         => [AttachmentIsLocal' /\ BuriesOnlyItsWindow]_vars
  BY WindowKept DEF AttachInv
<1> QED BY <1>1, AttachInductive, PTL DEF Spec, AttachSound

LEMMA AdoptionKept ==
    ASSUME AttachInv, [Next]_vars
    PROVE  KeepsAdoption
<1> SUFFICES ASSUME adoption # None
             PROVE  /\ adoption' # None
                    /\ adoption'.operation = adoption.operation
                    /\ adoption.status # "active" => adoption' = adoption
  BY DEF KeepsAdoption
<1>1. adoption \in Layer /\ store
  BY DEF AttachInv, TypeOK, StoreFirst
<1>2. CASE UNCHANGED adoption
  BY <1>2
<1>3. ASSUME adoption.status = "active",
             \/ \E files \in SUBSET Files :
                   adoption' = [adoption EXCEPT !.files = files,
                                                !.revision = adoption.revision + 1]
             \/ \E status \in {"published", "discarded"} :
                   adoption' = [adoption EXCEPT !.status = status]
      PROVE  /\ adoption' # None
             /\ adoption'.operation = adoption.operation
             /\ adoption.status # "active" => adoption' = adoption
  <2>1. adoption' \in Layer /\ adoption'.operation = adoption.operation
    <3>1. ASSUME NEW status \in {"published", "discarded"},
                 adoption' = [adoption EXCEPT !.status = status]
          PROVE  adoption' \in Layer /\ adoption'.operation = adoption.operation
      BY <1>1, <3>1 DEF Layer
    <3> QED BY <1>1, <1>3, <3>1, CapturedLayer
  <2> QED BY <1>3, <2>1, NoneAssumption
<1>4. CASE UserNext
  BY <1>2, <1>3, <1>4 DEF UserNext, UserInit, UserCreateLayer, UserPublish,
     UserDiscard, RemoteMoves
<1>5. ASSUME NEW p \in Processes, AttachNext(p) \/ Crash(p)
      PROVE  UNCHANGED adoption
  BY <1>5 DEF AttachNext, AttachOpen, AttachInstall, AttachCheck, AttachHead,
     AttachAdvance, WriteAttachment, Crash
<1>6. ASSUME NEW p \in Processes, AdoptNext(p)
      PROVE  /\ adoption' # None
             /\ adoption'.operation = adoption.operation
             /\ adoption.status # "active" => adoption' = adoption
  BY <1>1, <1>2, <1>3, <1>6 DEF AdoptNext, AdoptOpen, AdoptInit, AdoptCheck,
     AdoptScan, AdoptCapture, AdoptExpect, AdoptEnded, AdoptPublish
<1>7. CASE UNCHANGED vars
  BY <1>2, <1>7 DEF vars
<1> QED BY <1>2, <1>4, <1>5, <1>6, <1>7 DEF Next

\* The adoption Layer keeps its operation for the store's life and is final
\* once it ended (adopt.rs adopt, init_adopting), whatever other commands and
\* users do meanwhile.
THEOREM AdoptionBoundTheorem == Spec => AdoptionBound
<1>1. AttachInv /\ [Next]_vars => [KeepsAdoption]_vars
  BY AdoptionKept
<1> QED BY <1>1, AttachInductive, PTL DEF Spec, AdoptionBound
=============================================================================
