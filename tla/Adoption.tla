------------------------------ MODULE Adoption ------------------------------
(***************************************************************************)
(* How a project directory gets its store: `init`, `adopt` (publish the    *)
(* directory's files through a reserved Layer) and `attach` (follow a      *)
(* hosted repository), run by processes that race and crash between their  *)
(* steps (src/src/adopt.rs, src/src/attach.rs and `attach` in              *)
(* src/crates/javelin-cli/src/cli_remote.rs).                              *)
(*                                                                         *)
(* One adoption Layer, the World history and attach.json are the state.    *)
(* Other Layers and their Publishes are the user's; Repository models      *)
(* them.  Paths are flat: two sets of new files intersect when they share  *)
(* a file.                                                                 *)
(***************************************************************************)
EXTENDS Naturals, Sequences

CONSTANTS
    Processes,   \* running commands
    AdoptOps,    \* operation IDs callers adopt under
    Files,       \* files of the project directory and of the remote
    RemoteTree,  \* the files of each remote World
    MaxWorld,    \* bound on local Worlds
    MaxCaptures, \* bound on the adoption Layer's captured heads
    None         \* no Layer, no attachment

ASSUME RemoteAssumption == RemoteTree \in Seq(SUBSET Files) /\ RemoteTree # <<>>

ASSUME BoundsAssumption == MaxWorld \in Nat /\ MaxCaptures \in Nat

VARIABLES
    store,       \* whether repository.sqlite3 holds an initialized repository
    worlds,      \* World n >= 1 is worlds[n]; World 0 is empty
    adoption,    \* the reserved Layer, or None
    refused,     \* whether its operation recorded a conflict or a stale Layer
    others,      \* whether any other Layer exists
    attempts,    \* attach operations recorded, by remote World
    attachment,  \* the remote World attach.json names, or None
    remote,      \* the World the node reports
    calls        \* what each process is doing

vars == <<store, worlds, adoption, refused, others, attempts, attachment, remote, calls>>

RemoteWorlds == DOMAIN RemoteTree

\* named: the operation ID starts with `attach-`.
World == [files : SUBSET Files, via : {"adopt", "attach", "publish"}, named : BOOLEAN]

Layer == [operation : AdoptOps, status : {"active", "discarded", "published"},
          files : SUBSET Files, revision : Nat]

ASSUME NoneAssumption == None \notin Layer

Idle == [phase |-> "idle"]

AdoptCall == [phase : {"creating", "opened", "capturing", "scanned", "captured",
                       "ready"},
              operation : AdoptOps, expected : Nat]

\* seen: the local head when the check passed, which the code does not keep.
AttachCall == [phase : {"building", "fetched", "passed", "checked", "advanced"},
               head : RemoteWorlds, seen : Nat, expected : Nat]

HeadFiles == IF worlds = <<>> THEN {} ELSE worlds[Len(worlds)].files

Become(p, call) == calls' = [calls EXCEPT ![p] = call]

Return(p) == Become(p, Idle)

-----------------------------------------------------------------------------
(* adopt.                                                                  *)

\* Repository::open decides whether a fresh store must be made.
AdoptOpen(p, op) ==
    /\ calls[p] = Idle
    /\ Become(p, [phase |-> IF store THEN "opened" ELSE "creating",
                  operation |-> op, expected |-> 0])
    /\ UNCHANGED <<store, worlds, adoption, refused, others, attempts, attachment, remote>>

\* Mutant of AdoptInit: the Layer is made in any store that lacks it.
AdoptInitAnyStore(p) ==
    /\ calls[p].phase = "creating"
    /\ store' = TRUE
    /\ adoption' = [operation |-> calls[p].operation, status |-> "active",
                    files |-> {}, revision |-> 0]
    /\ Become(p, [calls[p] EXCEPT !.phase = "opened"])
    /\ UNCHANGED <<worlds, refused, others, attempts, attachment, remote>>

\* init_adopting: World 0 and the adoption Layer in one transaction.  A store
\* that appeared since the open is only validated.
AdoptInit(p) ==
    /\ calls[p].phase = "creating"
    /\ store' = TRUE
    /\ adoption' = IF store THEN adoption
                   ELSE [operation |-> calls[p].operation, status |-> "active",
                         files |-> {}, revision |-> 0]
    /\ Become(p, [calls[p] EXCEPT !.phase = "opened"])
    /\ UNCHANGED <<worlds, refused, others, attempts, attachment, remote>>

\* The store holds this operation's Active Layer and no other Layer.
Resumable(op) ==
    /\ adoption # None
    /\ adoption.operation = op
    /\ adoption.status = "active"
    /\ ~others

\* layer_exists, layer_state and layer_outside: go on, replay the receipt of
\* a finished adoption, or refuse.
AdoptCheck(p) ==
    /\ calls[p].phase = "opened"
    /\ IF Resumable(calls[p].operation)
       THEN Become(p, [calls[p] EXCEPT !.phase = "capturing"])
       ELSE Return(p)
    /\ UNCHANGED <<store, worlds, adoption, refused, others, attempts, attachment, remote>>

\* capture_source reads the Active head it scans against.
AdoptScan(p) ==
    /\ calls[p].phase = "capturing"
    /\ adoption.status = "active"
    /\ Become(p, [calls[p] EXCEPT !.phase = "scanned", !.expected = adoption.revision])
    /\ UNCHANGED <<store, worlds, adoption, refused, others, attempts, attachment, remote>>

\* capture_layer commits what was read, unless nothing differs or the head
\* moved since the scan, which adopt does not look at.  Files that kept
\* changing end the call with Busy after that commit.
AdoptCapture(p, files, uncertain) ==
    LET moved == adoption.status # "active" \/ adoption.revision # calls[p].expected
    IN  /\ calls[p].phase = "scanned"
        /\ IF moved \/ files = adoption.files
           THEN UNCHANGED adoption
           ELSE /\ adoption.revision < MaxCaptures
                /\ adoption' = [adoption EXCEPT !.files = files,
                                               !.revision = adoption.revision + 1]
        /\ IF uncertain THEN Return(p)
           ELSE Become(p, [calls[p] EXCEPT !.phase = "captured"])
        /\ UNCHANGED <<store, worlds, refused, others, attempts, attachment, remote>>

\* adopt reads the Active head it publishes.
AdoptExpect(p) ==
    /\ calls[p].phase = "captured"
    /\ adoption.status = "active"
    /\ Become(p, [calls[p] EXCEPT !.phase = "ready", !.expected = adoption.revision])
    /\ UNCHANGED <<store, worlds, adoption, refused, others, attempts, attachment, remote>>

\* The Layer ended before one of these reads: refused.
AdoptEnded(p) ==
    /\ calls[p].phase \in {"capturing", "captured"}
    /\ adoption.status # "active"
    /\ Return(p)
    /\ UNCHANGED <<store, worlds, adoption, refused, others, attempts, attachment, remote>>

\* publish_layer with the head that was read, whose base is World 0.  A
\* recorded outcome is replayed, or reported as a reused operation; a Layer
\* that moved or ended since the read is a durable stale outcome.
AdoptPublish(p, named) ==
    LET decided == refused \/ adoption.status = "published"
        stale == adoption.status # "active" \/ adoption.revision # calls[p].expected
        conflict == adoption.files \cap HeadFiles # {}
    IN  /\ calls[p].phase = "ready"
        /\ IF decided THEN UNCHANGED <<worlds, adoption, refused>>
           ELSE IF stale \/ conflict
           THEN /\ refused' = TRUE
                /\ UNCHANGED <<worlds, adoption>>
           ELSE /\ Len(worlds) < MaxWorld
                /\ adoption' = [adoption EXCEPT !.status = "published"]
                /\ worlds' = Append(worlds, [files |-> HeadFiles \cup adoption.files,
                                             via |-> "adopt", named |-> named])
                /\ UNCHANGED refused
        /\ Return(p)
        /\ UNCHANGED <<store, others, attempts, attachment, remote>>

-----------------------------------------------------------------------------
(* attach.                                                                 *)

\* Mutant of InterruptedAttach: the operation's name alone decides.
InterruptedAttachByName ==
    worlds # <<>> /\ worlds[Len(worlds)].named /\ attachment = None

\* interrupted_attach: attach advances without a receipt, adopt and Publish
\* record one.
InterruptedAttach ==
    /\ worlds # <<>>
    /\ worlds[Len(worlds)].named
    /\ attachment = None
    /\ worlds[Len(worlds)].via = "attach"

CheckAttach == worlds = <<>> \/ InterruptedAttach

\* The node is asked first.  Without a store, one is built aside; an existing
\* one is checked before the fetch.
AttachOpen(p) ==
    LET call(phase) == [phase |-> phase, head |-> remote, seen |-> 0, expected |-> 0]
    IN  /\ calls[p] = Idle
        /\ attachment = None
        /\ store => CheckAttach
        /\ Become(p, call(IF store THEN "fetched" ELSE "building"))
        /\ UNCHANGED <<store, worlds, adoption, refused, others, attempts, attachment, remote>>

\* The complete private store is renamed into place, or a store appeared and
\* nothing changes.
AttachInstall(p) ==
    LET head == calls[p].head
        tree == RemoteTree[head]
    IN  /\ calls[p].phase = "building"
        /\ IF store
           THEN UNCHANGED <<store, worlds, attempts, attachment>>
           ELSE /\ store' = TRUE
                /\ attachment' = head
                /\ IF tree = {}
                   THEN UNCHANGED <<worlds, attempts>>
                   ELSE /\ worlds' = <<[files |-> tree, via |-> "attach",
                                        named |-> TRUE]>>
                        /\ attempts' = [attempts EXCEPT ![head] = 0]
        /\ Return(p)
        /\ UNCHANGED <<adoption, refused, others, remote>>

\* attach_head checks again.  What check_attach reads one by one is what it
\* reads at the head: attach.json, once written, stays.
AttachCheck(p) ==
    /\ calls[p].phase = "fetched"
    /\ IF CheckAttach
       THEN Become(p, [calls[p] EXCEPT !.phase = "passed", !.seen = Len(worlds)])
       ELSE Return(p)
    /\ UNCHANGED <<store, worlds, adoption, refused, others, attempts, attachment, remote>>

\* attach_head reads the local head again, in a transaction of its own: the
\* World may have moved since the check.
AttachHead(p) ==
    /\ calls[p].phase = "passed"
    /\ Become(p, [calls[p] EXCEPT !.phase = "checked", !.expected = Len(worlds)])
    /\ UNCHANGED <<store, worlds, adoption, refused, others, attempts, attachment, remote>>

\* Mutant of AttachAdvance: the advance lands on whatever head it finds.
AttachAdvanceAnyHead(p) ==
    LET head == calls[p].head
        expected == calls[p].expected
        local == IF expected = 0 THEN {} ELSE worlds[expected].files
        equal == local = RemoteTree[head]
        lands == ~equal /\ attempts[head] = None
    IN  /\ calls[p].phase = "checked"
        /\ IF equal \/ lands
           THEN Become(p, [calls[p] EXCEPT !.phase = "advanced"])
           ELSE Return(p)
        /\ IF lands
           THEN /\ Len(worlds) < MaxWorld
                /\ worlds' = Append(worlds, [files |-> RemoteTree[head],
                                             via |-> "attach", named |-> TRUE])
                /\ attempts' = [attempts EXCEPT ![head] = expected]
           ELSE UNCHANGED <<worlds, attempts>>
        /\ UNCHANGED <<store, adoption, refused, others, attachment, remote>>

\* advance_to_tree under `attach-<chain ID>` from the head that was read.  An
\* equal tree needs no advance; a recorded attempt replays only with the
\* expectation it was made with; a stale one is recorded and fails the call.
AttachAdvance(p) ==
    LET head == calls[p].head
        expected == calls[p].expected
        local == IF expected = 0 THEN {} ELSE worlds[expected].files
        equal == local = RemoteTree[head]
        fresh == attempts[head] = None
        lands == ~equal /\ fresh /\ expected = Len(worlds)
        replays == attempts[head] = expected
                     /\ expected < Len(worlds)
                     /\ worlds[expected + 1] = [files |-> RemoteTree[head],
                                                via |-> "attach", named |-> TRUE]
    IN  /\ calls[p].phase = "checked"
        /\ IF equal \/ lands \/ replays
           THEN Become(p, [calls[p] EXCEPT !.phase = "advanced"])
           ELSE Return(p)
        /\ IF lands
           THEN /\ Len(worlds) < MaxWorld
                /\ worlds' = Append(worlds, [files |-> RemoteTree[head],
                                             via |-> "attach", named |-> TRUE])
           ELSE UNCHANGED worlds
        /\ attempts' = IF ~equal /\ fresh
                       THEN [attempts EXCEPT ![head] = expected] ELSE attempts
        /\ UNCHANGED <<store, adoption, refused, others, attachment, remote>>

\* attach.json is written last, by an atomic rename.
WriteAttachment(p) ==
    /\ calls[p].phase = "advanced"
    /\ attachment' = calls[p].head
    /\ Return(p)
    /\ UNCHANGED <<store, worlds, adoption, refused, others, attempts, remote>>

-----------------------------------------------------------------------------
(* The user, the node and crashes.                                         *)

\* init: an existing store is only validated.
UserInit ==
    /\ ~store
    /\ store' = TRUE
    /\ UNCHANGED <<worlds, adoption, refused, others, attempts, attachment, remote, calls>>

UserCreateLayer ==
    /\ store
    /\ others' = TRUE
    /\ UNCHANGED <<store, worlds, adoption, refused, attempts, attachment, remote, calls>>

UserPublish(files, named) ==
    /\ others
    /\ Len(worlds) < MaxWorld
    /\ worlds' = Append(worlds, [files |-> files, via |-> "publish", named |-> named])
    /\ UNCHANGED <<store, adoption, refused, others, attempts, attachment, remote, calls>>

UserDiscard ==
    /\ adoption # None
    /\ adoption.status = "active"
    /\ adoption' = [adoption EXCEPT !.status = "discarded"]
    /\ UNCHANGED <<store, worlds, refused, others, attempts, attachment, remote, calls>>

RemoteMoves ==
    /\ remote + 1 \in RemoteWorlds
    /\ remote' = remote + 1
    /\ UNCHANGED <<store, worlds, adoption, refused, others, attempts, attachment, calls>>

Crash(p) ==
    /\ calls[p] # Idle
    /\ Return(p)
    /\ UNCHANGED <<store, worlds, adoption, refused, others, attempts, attachment, remote>>

Init ==
    /\ store = FALSE
    /\ worlds = <<>>
    /\ adoption = None
    /\ refused = FALSE
    /\ others = FALSE
    /\ attempts = [n \in RemoteWorlds |-> None]
    /\ attachment = None
    /\ remote = 1
    /\ calls = [p \in Processes |-> Idle]

AdoptNext(p) ==
    \/ \E op \in AdoptOps : AdoptOpen(p, op)
    \/ AdoptInit(p)
    \/ AdoptCheck(p)
    \/ AdoptScan(p)
    \/ \E files \in SUBSET Files, uncertain \in BOOLEAN :
          AdoptCapture(p, files, uncertain)
    \/ AdoptExpect(p)
    \/ AdoptEnded(p)
    \/ \E named \in BOOLEAN : AdoptPublish(p, named)

AttachNext(p) ==
    \/ AttachOpen(p)
    \/ AttachInstall(p)
    \/ AttachCheck(p)
    \/ AttachHead(p)
    \/ AttachAdvance(p)
    \/ WriteAttachment(p)

UserNext ==
    \/ UserInit
    \/ UserCreateLayer
    \/ \E files \in SUBSET Files, named \in BOOLEAN : UserPublish(files, named)
    \/ UserDiscard
    \/ RemoteMoves

Next == UserNext \/ \E p \in Processes : AdoptNext(p) \/ AttachNext(p) \/ Crash(p)

Spec == Init /\ [][Next]_vars

-----------------------------------------------------------------------------
(* Properties.                                                             *)

\* Every variable has its type; a call that captures has a Layer to capture.
TypeOK ==
    /\ store \in BOOLEAN /\ others \in BOOLEAN /\ refused \in BOOLEAN
    /\ worlds \in Seq(World)
    /\ adoption \in Layer \cup {None}
    /\ attempts \in [RemoteWorlds -> Nat \cup {None}]
    /\ attachment \in RemoteWorlds \cup {None}
    /\ remote \in RemoteWorlds
    /\ calls \in [Processes -> {Idle} \cup AdoptCall \cup AttachCall]
    /\ \A p \in Processes :
          calls[p].phase \in {"capturing", "scanned", "captured", "ready"}
             => adoption # None

\* attach never merges other history: an attach World stands on nothing but
\* attach Worlds (attach.rs check_attach: "Other history is never merged").
\* It does not hold: attach_head checks, then reads the head it advances
\* from, and a Publish between the two is buried.
AttachBuriesNothing ==
    \A n \in DOMAIN worlds :
       worlds[n].via = "attach" => \A m \in 1..n : worlds[m].via = "attach"

\* attach.json means the store holds that head: its tree is a local World's.
AttachmentIsLocal ==
    attachment # None =>
       \/ RemoteTree[attachment] = {}
       \/ \E n \in DOMAIN worlds : worlds[n].files = RemoteTree[attachment]

\* World m is an adopt's or a Publish's, with no attach World above it.
Uncovered(m) ==
    /\ worlds[m].via # "attach"
    /\ \A k \in m + 1..Len(worlds) : worlds[k].via # "attach"

\* An attach World newly buries only what landed between the call's check
\* and its read of the head.
BuriesOnlyItsWindow ==
    \A p \in Processes :
       calls[p].phase = "checked" /\ calls'[p] # calls[p] /\ worlds' # worlds =>
          \A m \in DOMAIN worlds :
             Uncovered(m) => m \in calls[p].seen + 1..calls[p].expected

\* What attaching does to a store: attach.json names a head the store holds,
\* and an attach World buries no other history but the Worlds that landed in
\* the window its own attach_head leaves open (attach.rs:132-133).  Worlds
\* there before the check, and those after the read, are never buried.
AttachSound == [][AttachmentIsLocal' /\ BuriesOnlyItsWindow]_vars

KeepsAdoption ==
    adoption # None =>
       /\ adoption' # None
       /\ adoption'.operation = adoption.operation
       /\ adoption.status # "active" => adoption' = adoption

\* The adoption Layer binds one operation for the store's life, and once it
\* ended it never changes.
AdoptionBound == [][KeepsAdoption]_vars

\* Adoption publishes the directory's files as World 1: a store that holds
\* another version is refused, even if it holds no other Layer.
AdoptsWorldOne ==
    ~others => \A n \in DOMAIN worlds : worlds[n].via = "adopt" => n = 1
=============================================================================
