------------------------------ MODULE Transfer ------------------------------
(***************************************************************************)
(* How objects move between repositories: push and its receiver, and fetch *)
(* (crates/javelin-protocol/src/sender.rs, receiver.rs, fetch.rs; put_tree *)
(* and advance_to_tree of src/repository.rs).                              *)
(*                                                                         *)
(* A tree is a set of chunks, each naming the chunks and blobs right below *)
(* it; an object is its ID.  A store keeps objects, each put by its own    *)
(* transaction, and a World log of roots.  Any number of sessions work on  *)
(* one store at once.  A link may break at any point: the sender then      *)
(* knows nothing, while the receiver may still finish the frame it has     *)
(* read, even during the sender's next session.                            *)
(***************************************************************************)
EXTENDS Naturals, Sequences, FiniteSets

CONSTANTS
    Stores,       \* repositories that receive pushes or are forked
    Chunks,       \* tree chunks, World 0's empty tree among them
    Blobs,        \* file contents and agent traces
    Refs,         \* what each chunk names
    Empty,        \* the chunk of the empty tree
    Senders,      \* programs that push
    Jobs,         \* the pushes a sender may be asked for
    Fetchers,     \* programs that fetch, each with its own store of objects
    Prefixes,     \* the objects on the way to and below a path prefix
    MaxBatch,     \* MAX_OBJECTS: objects of one frame
    MaxSessions,  \* bound: sessions of one sender
    MaxFetches,   \* bound: fetches of one fetcher
    None

Objects == Chunks \cup Blobs

\* references: everything a chunk names.
Below(o) == IF o \in Chunks THEN Refs[o] ELSE {}

\* An ID is a hash of what it names, so no chunk is below itself: of any
\* chunks, one names none of them.
ASSUME TransferAssumption ==
    /\ Chunks \cap Blobs = {}
    /\ IsFiniteSet(Chunks)
    /\ Empty \in Chunks
    /\ Refs \in [Chunks -> SUBSET (Chunks \cup Blobs)]
    /\ Refs[Empty] = {}
    /\ \A S \in SUBSET Chunks : S # {} => \E c \in S : Refs[c] \cap S = {}
    /\ MaxBatch \in Nat \ {0}

\* An operation ID is drawn by one sender, for one repository and tree.
ASSUME JobsAssumption ==
    /\ \A s \in Senders : \A j \in Jobs[s] :
          /\ j # None
          /\ j.store \in Stores
          /\ j.tree \in Chunks
          /\ j.expected \in Nat
    /\ \A s, t \in Senders : \A j \in Jobs[s], k \in Jobs[t] :
          j.operation = k.operation => s = t

VARIABLES
    stored,    \* per store: the objects table
    world,     \* per store: the versions after World 0, [tree, operation]
    attempts,  \* per store: World attempts by operation
    step,      \* per sender: where its push stands
    job,       \* per sender: the push it was asked for
    frontier,  \* per sender: offered at this level, not answered yet
    deeper,    \* per sender: to be offered at the next level
    seen,      \* per sender: offered at any level
    lacks,     \* per sender: missing at the receiver, not sent yet
    frame,     \* per sender: sent in one frame, not stored yet
    late,      \* per sender: left in a frame of a broken session
    sessions,  \* per sender: sessions so far
    reply,     \* per sender: the outcome on its way, then the one returned
    fetch,     \* per fetcher: where its fetch stands
    held       \* per fetcher: the objects it keeps between fetches

storeVars == <<stored, world, attempts>>
pushVars == <<step, job, frontier, deeper, seen, lacks, frame, late, sessions,
              reply>>
fetchVars == <<fetch, held>>
transferVars == <<storeVars, pushVars, fetchVars>>

-----------------------------------------------------------------------------
(* The receiver's store.                                                   *)

\* has_blob, has_manifest, has_tree: one object is looked up.
HasObject(r, o) == o \in stored[r]

\* put_tree: everything the chunk names is stored.  A blob names nothing.
Fits(r, o) == Below(o) \subseteq stored[r]

Put(r, o) == stored' = [stored EXCEPT ![r] = @ \cup {o}]

HeadNumber(r) == Len(world[r])

Root(r, n) == IF n = 0 THEN Empty ELSE world[r][n].tree

\* version_id: a hash over the parent's ID, the root and the changeset, which
\* the two roots determine, stands for the roots from World 0 on.
VersionId(r, n) == [k \in 0..n |-> Root(r, k)]

\* advance_in: an attempt is accepted when it expects the head.
Attempt(r, op, expected, tree) ==
    [operation |-> op, expected |-> expected, tree |-> tree,
     accepted |-> expected = HeadNumber(r),
     result |-> IF expected = HeadNumber(r) THEN expected + 1
                                            ELSE HeadNumber(r)]

\* Mutant of Decided: a retried operation is decided again.
NeverDecided(r, op) == {}

Decided(r, op) == {a \in attempts[r] : a.operation = op}

\* advance_to_tree: the first attempt is recorded with its outcome, and a
\* repeated one changes nothing.  A caller repeats an operation only with the
\* same expected version and tree, so the refusal of a reused one never fires.
Advance(r, op, expected, tree) ==
    LET made == Attempt(r, op, expected, tree)
    IN  IF Decided(r, op) # {}
        THEN UNCHANGED <<world, attempts>>
        ELSE /\ attempts' = [attempts EXCEPT ![r] = @ \cup {made}]
             /\ world' = IF made.accepted
                         THEN [world EXCEPT ![r] =
                                  Append(@, [tree |-> tree, operation |-> op])]
                         ELSE world

\* The outcome the receiver answers: the recorded one, or the new one.
Answer(r, op, expected, tree) ==
    IF Decided(r, op) # {} THEN CHOOSE a \in Decided(r, op) : TRUE
                           ELSE Attempt(r, op, expected, tree)

-----------------------------------------------------------------------------
(* push: discovery from the root down, objects children first, Publish.    *)

\* Hello, then the root is offered.  A retry repeats the same push.  A
\* caller names a version it fetched, so one past the head, which advance_in
\* refuses as missing, is no push of these.
PushBegin(s) ==
    /\ step[s] = "idle"
    /\ sessions[s] < MaxSessions
    /\ \E j \in Jobs[s] :
        /\ job[s] \in {None, j}
        /\ j.expected <= HeadNumber(j.store)
        /\ job' = [job EXCEPT ![s] = j]
        /\ frontier' = [frontier EXCEPT ![s] = {j.tree}]
        /\ seen' = [seen EXCEPT ![s] = {j.tree}]
    /\ step' = [step EXCEPT ![s] = "offer"]
    /\ sessions' = [sessions EXCEPT ![s] = @ + 1]
    /\ deeper' = [deeper EXCEPT ![s] = {}]
    /\ lacks' = [lacks EXCEPT ![s] = {}]
    /\ UNCHANGED <<storeVars, frame, late, reply, fetchVars>>

\* What an answered offer adds to the next level: nothing below a chunk the
\* receiver has.
Found(s, o) == IF HasObject(job[s].store, o) THEN {} ELSE Below(o) \ seen[s]

\* Want: one object is looked up.  Each lookup is a read of its own, so the
\* answers of one frame need not be of one instant.
Offer(s) ==
    /\ step[s] = "offer"
    /\ \E o \in frontier[s] :
        LET rest == frontier[s] \ {o}
            next == deeper[s] \cup Found(s, o)
        IN  /\ seen' = [seen EXCEPT ![s] = @ \cup Found(s, o)]
            /\ lacks' = [lacks EXCEPT ![s] =
                    @ \cup {x \in {o} : ~HasObject(job[s].store, x)}]
            /\ frontier' = [frontier EXCEPT ![s] =
                    IF rest = {} THEN next ELSE rest]
            /\ deeper' = [deeper EXCEPT ![s] = IF rest = {} THEN {} ELSE next]
            /\ step' = [step EXCEPT ![s] =
                    IF rest \cup next = {} THEN "send" ELSE "offer"]
    /\ UNCHANGED <<storeVars, job, frame, late, sessions, reply, fetchVars>>

\* Mutant of Sendable: blobs first, then chunks from the root down.
SendableParentsFirst(S, lack) ==
    /\ S \cap Chunks # {} => lack \cap Blobs \subseteq S
    /\ \A o \in S \cap Chunks : \A p \in lack \cap Chunks :
        o \in Below(p) => p \in S

\* A batch: blobs before chunks, and chunks in postorder.
Sendable(S, lack) ==
    /\ S \cap Chunks # {} => lack \cap Blobs \subseteq S
    /\ \A o \in S : Below(o) \cap lack \subseteq S

\* Batch::push and flush: the frame is full, or it is the last one.
SendBatch(s) ==
    /\ step[s] = "send"
    /\ lacks[s] # {}
    /\ \E S \in SUBSET lacks[s] :
        /\ \/ Cardinality(S) = MaxBatch
           \/ S = lacks[s] /\ Cardinality(S) < MaxBatch
        /\ Sendable(S, lacks[s])
        /\ frame' = [frame EXCEPT ![s] = S]
        /\ lacks' = [lacks EXCEPT ![s] = @ \ S]
    /\ step' = [step EXCEPT ![s] = "sent"]
    /\ UNCHANGED <<storeVars, job, frontier, deeper, seen, late, sessions,
                   reply, fetchVars>>

\* The object of a frame that comes next: no other one of it is below.
NextIn(S, o) == Below(o) \cap S = {} /\ (o \in Chunks => S \cap Blobs = {})

\* Objects: the receiver stores one object of the frame, or refuses it and
\* ends the session.
Store(s) ==
    LET r == job[s].store
    IN  /\ step[s] = "sent"
        /\ frame[s] # {}
        /\ \E o \in frame[s] :
            /\ NextIn(frame[s], o)
            /\ IF Fits(r, o)
               THEN /\ Put(r, o)
                    /\ frame' = [frame EXCEPT ![s] = @ \ {o}]
                    /\ UNCHANGED step
               ELSE /\ frame' = [frame EXCEPT ![s] = {}]
                    /\ step' = [step EXCEPT ![s] = "refused"]
                    /\ UNCHANGED stored
        /\ UNCHANGED <<world, attempts, job, frontier, deeper, seen, lacks,
                       late, sessions, reply, fetchVars>>

\* Stored: the whole frame was taken.
Taken(s) ==
    /\ step[s] = "sent"
    /\ frame[s] = {}
    /\ step' = [step EXCEPT ![s] = "send"]
    /\ UNCHANGED <<storeVars, job, frontier, deeper, seen, lacks, frame, late,
                   sessions, reply, fetchVars>>

\* Publish: the receiver decides and answers.
Publish(s) ==
    LET j == job[s]
    IN  /\ step[s] = "send"
        /\ lacks[s] = {}
        /\ j.tree \in stored[j.store]
        /\ Advance(j.store, j.operation, j.expected, j.tree)
        /\ reply' = [reply EXCEPT ![s] =
                Answer(j.store, j.operation, j.expected, j.tree)]
        /\ step' = [step EXCEPT ![s] = "decided"]
        /\ UNCHANGED <<stored, job, frontier, deeper, seen, lacks, frame, late,
                       sessions, fetchVars>>

\* consistent: the outcome answers this very push.
Consistent(j, a) ==
    IF a.accepted
    THEN /\ a.result = j.expected + 1
         /\ a.tree = j.tree
         /\ a.operation = j.operation
    ELSE a.result > j.expected

\* push returns the outcome, or refuses a reply that answers something else.
Return(s) ==
    /\ step[s] = "decided"
    /\ step' = [step EXCEPT ![s] =
            IF Consistent(job[s], reply[s]) THEN "returned" ELSE "refused"]
    /\ UNCHANGED <<storeVars, job, frontier, deeper, seen, lacks, frame, late,
                   sessions, reply, fetchVars>>

\* The link breaks.  A frame of objects the receiver has read stays with it,
\* and an outcome on its way is lost.  A Publish that was read is decided
\* before its session breaks or not at all: deciding it later, beside the
\* next session, is left out.
Break(s) ==
    /\ step[s] \in {"offer", "send", "sent", "decided"}
    /\ late[s] = {}
    /\ late' = [late EXCEPT ![s] = frame[s]]
    /\ frame' = [frame EXCEPT ![s] = {}]
    /\ reply' = [reply EXCEPT ![s] = None]
    /\ step' = [step EXCEPT ![s] = "idle"]
    /\ UNCHANGED <<storeVars, job, frontier, deeper, seen, lacks, sessions,
                   fetchVars>>

\* The receiver of a broken session stores what it still has, or dies.
LateStore(s) ==
    LET r == job[s].store
    IN  /\ late[s] # {}
        /\ \/ \E o \in late[s] :
                /\ NextIn(late[s], o)
                /\ Fits(r, o)
                /\ Put(r, o)
                /\ late' = [late EXCEPT ![s] = @ \ {o}]
           \/ late' = [late EXCEPT ![s] = {}] /\ UNCHANGED stored
        /\ UNCHANGED <<world, attempts, step, job, frontier, deeper, seen,
                       lacks, frame, sessions, reply, fetchVars>>

-----------------------------------------------------------------------------
(* fetch: a version is resolved and verified, then read from the root down *)
(* into a store that need not be complete.                                 *)

\* What the walk follows from a chunk, for a prefix.
Follow(f, o) == Below(o) \cap fetch[f].prefix

NoFetch ==
    [at |-> "idle", count |-> 0, store |-> None, version |-> None,
     prefix |-> {}, pending |-> {}, blobs |-> {}]

\* Resolved: what the server answers for a version, or for its head.
Resolved(r, n) == [number |-> n, id |-> VersionId(r, n), tree |-> Root(r, n)]

\* Hello and Resolve.
FetchBegin(f, r) ==
    /\ fetch[f].at = "idle"
    /\ fetch[f].count < MaxFetches
    /\ \E n \in 0..HeadNumber(r), p \in Prefixes :
        /\ Root(r, n) \in p
        /\ fetch' = [fetch EXCEPT ![f] =
              [at |-> "verify", count |-> @.count + 1, store |-> r,
               version |-> Resolved(r, n), prefix |-> p,
               pending |-> {Root(r, n)}, blobs |-> {}]]
    /\ UNCHANGED <<storeVars, pushVars, held>>

\* verify_chain: the ID, computed from World 0 on out of what the server
\* answers now, is the resolved one.  Nothing is stored before.
FetchVerify(f) ==
    LET version == fetch[f].version
        chain == VersionId(fetch[f].store, version.number)
    IN  /\ fetch[f].at = "verify"
        /\ chain = version.id
        /\ chain[version.number] = version.tree
        /\ fetch' = [fetch EXCEPT ![f].at = "trees"]
        /\ UNCHANGED <<storeVars, pushVars, held>>

\* Get: the objects asked for, each of which the server must hold.
Got(r, wanted) == {o \in wanted : HasObject(r, o)}

\* get: one object of the reply, kept as it arrives.
FetchObject(f) ==
    LET wanted == IF fetch[f].at = "trees" THEN fetch[f].pending
                                           ELSE fetch[f].blobs
    IN  /\ fetch[f].at \in {"trees", "blobs"}
        /\ \E o \in Got(fetch[f].store, wanted \ held[f]) :
              held' = [held EXCEPT ![f] = @ \cup {o}]
        /\ UNCHANGED <<storeVars, pushVars, fetch>>

\* Mutant of Deeper: the walk stops at a chunk that was held before.
DeeperMissing(f) ==
    (UNION {Follow(f, c) : c \in fetch[f].pending}) \ (held[f] \cap Chunks)

\* walk: everything the chunks of this level name, held or not.
Deeper(f) == UNION {Follow(f, c) : c \in fetch[f].pending}

FetchLevel(f) ==
    /\ fetch[f].at = "trees"
    /\ fetch[f].pending \subseteq held[f]
    /\ LET next == Deeper(f) \cap Chunks
       IN  fetch' = [fetch EXCEPT ![f].pending = next,
                                  ![f].blobs = @ \cup (Deeper(f) \cap Blobs),
                                  ![f].at = IF next = {} THEN "blobs"
                                                         ELSE "trees"]
    /\ UNCHANGED <<storeVars, pushVars, held>>

FetchReturn(f) ==
    /\ fetch[f].at = "blobs"
    /\ fetch[f].blobs \subseteq held[f]
    /\ fetch' = [fetch EXCEPT ![f].at = "returned"]
    /\ UNCHANGED <<storeVars, pushVars, held>>

\* The fetch ends, in the middle or after it returned; its objects stay.
FetchEnd(f) ==
    /\ fetch[f].at # "idle"
    /\ fetch' = [fetch EXCEPT ![f] = [NoFetch EXCEPT !.count = fetch[f].count]]
    /\ UNCHANGED <<storeVars, pushVars, held>>

-----------------------------------------------------------------------------
TransferInit ==
    /\ stored = [r \in Stores |-> {Empty}]
    /\ world = [r \in Stores |-> << >>]
    /\ attempts = [r \in Stores |-> {}]
    /\ step = [s \in Senders |-> "idle"]
    /\ job = [s \in Senders |-> None]
    /\ frontier = [s \in Senders |-> {}]
    /\ deeper = [s \in Senders |-> {}]
    /\ seen = [s \in Senders |-> {}]
    /\ lacks = [s \in Senders |-> {}]
    /\ frame = [s \in Senders |-> {}]
    /\ late = [s \in Senders |-> {}]
    /\ sessions = [s \in Senders |-> 0]
    /\ reply = [s \in Senders |-> None]
    /\ fetch = [f \in Fetchers |-> NoFetch]
    /\ held = [f \in Fetchers |-> {}]

\* A session over a link that holds.
SessionNext(s) ==
    \/ PushBegin(s) \/ Offer(s) \/ SendBatch(s) \/ Store(s) \/ Taken(s)
    \/ Publish(s) \/ Return(s)

PushNext(s) == SessionNext(s) \/ Break(s) \/ LateStore(s)

FetchNext(f) ==
    \/ \E r \in Stores : FetchBegin(f, r)
    \/ FetchVerify(f) \/ FetchObject(f) \/ FetchLevel(f) \/ FetchReturn(f) \/ FetchEnd(f)

-----------------------------------------------------------------------------
(* Properties.                                                             *)

\* No push against a version the receiver has is refused: whatever other
\* sessions stored meanwhile, and whatever broken sessions left behind, every
\* chunk arrives after all it names, the root is complete when it is
\* published, and the outcome answers the push (sender.rs push, consistent;
\* repository.rs put_tree).
PushNeverRefused ==
    \A s \in Senders :
        /\ step[s] # "refused"
        /\ step[s] = "send" /\ lacks[s] = {} =>
              job[s].tree \in stored[job[s].store]

\* What push returned is what the World holds: an accepted push is the
\* version it names, and a stale one made no version, although its Publish
\* may have been decided in a session whose reply was lost (sender.rs push;
\* repository.rs advance_in).
PushedOnce ==
    \A s \in Senders :
        LET j == job[s]
            made == {n \in 1..HeadNumber(j.store) :
                        world[j.store][n].operation = j.operation}
        IN  step[s] = "returned" =>
                IF reply[s].accepted
                THEN /\ made = {reply[s].result}
                     /\ world[j.store][reply[s].result].tree = j.tree
                ELSE made = {}

\* Everything at or below a set of objects, as far as a prefix goes.
Reach(from, prefix) ==
    LET level[n \in 0..Cardinality(Chunks)] ==
            IF n = 0 THEN from
            ELSE level[n - 1] \cup
                 ((UNION {Below(o) : o \in level[n - 1]}) \cap prefix)
    IN  level[Cardinality(Chunks)]

\* A fetch that returned holds every object of the version at or below the
\* prefix, although an earlier fetch may have been interrupted and left a
\* chunk without what is below it (fetch.rs fetch, walk).
FetchComplete ==
    \A f \in Fetchers :
        fetch[f].at = "returned" =>
            Reach({fetch[f].version.tree}, fetch[f].prefix) \subseteq held[f]
=============================================================================
