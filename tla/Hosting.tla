------------------------------ MODULE Hosting -------------------------------
(***************************************************************************)
(* Hosted repositories: the control plane creates and forks them on nodes, *)
(* and a node copies a World log with its objects and agent traces         *)
(* (crates/javelin-control/src/repo.rs, fork.rs, node.rs, state.rs;        *)
(* crates/javelin-node/src/fork.rs, trace.rs).                             *)
(*                                                                         *)
(* A create or a fork is one update of the control plane's state, several  *)
(* calls to the node, and another update.  Calls run side by side, and     *)
(* each may die between any two durable steps and be asked for again with  *)
(* the same operation.  A node's directory has one lock: the node that     *)
(* serves it holds it, a fork takes the source's and the target's and is   *)
(* refused when either is held, and the other calls wait for it.           *)
(*                                                                         *)
(* Tokens carry a principal.  Sign-in issues only the admin's, so Requests *)
(* name the principals the role rule of a fork is written for.             *)
(***************************************************************************)
EXTENDS Transfer, SignIn

CONSTANTS
    Calls,      \* calls to the control plane under way at one time
    Requests,   \* what callers ask for, by operation ID
    Traces,     \* agent traces: blobs
    HostTrees,  \* the roots a node publishes
    MaxHosted,  \* bound: versions published on a node
    MaxCalls    \* bound: calls begun

\* ForkOf: a source and the version it was forked at.
ForkOrigins == [source : Stores, number : Nat]

\* RepositoryRecord of the state file, without its node.
RepositoryRecords ==
    [name : {q.name : q \in Requests}, public : {q.public : q \in Requests},
     creator : {q.principal : q \in Requests},
     operation : {q.operation : q \in Requests},
     phase : {"provisioning", "ready"}, epoch : {0, 1},
     fork : ForkOrigins \cup {None}]

\* A trace with the version that brought it.
TraceNotes == [trace : Traces, number : Nat]

ASSUME HostingAssumption ==
    /\ Traces \subseteq Blobs
    /\ HostTrees \subseteq Chunks
    /\ MaxHosted \in Nat
    /\ "server" \notin Calls
    /\ \A q \in Requests : q.kind \in {"create", "fork"} /\ q.at \in Nat

ASSUME NoneAssumption ==
    /\ None \notin Stores \cup Calls \cup Traces \cup {"server"}
    /\ None \notin ForkOrigins \cup RepositoryRecords
    /\ None \notin [trace : Traces \cup {None}, number : Nat]
    /\ None \notin [traces : SUBSET TraceNotes, secret : SUBSET Traces,
                    reader : {"maintain", "read", "none"}]

VARIABLES
    repos,        \* repositories and operations of the state file
    provisioned,  \* node: directories that hold a repository
    perms,        \* node: persisted permissions
    lock,         \* node: the holder of a directory's lock
    decided,      \* node.db: traces of recorded publications, with versions
    unrecorded,   \* a publication the World has and node.db has not yet
    inherited,    \* fork_traces
    omitted,      \* fork_omitted_traces
    restricted,   \* restricted_traces
    origin,       \* fork_origin
    call,         \* the calls under way
    calls,        \* how many calls were begun
    due,          \* history: what node.db listed at a fork's first attempt
    workload      \* what the behaviour is about

nodeVars == <<provisioned, perms, lock, decided, unrecorded, inherited,
              omitted, restricted, origin, due>>
hostingVars == <<repos, nodeVars, call, calls>>

Server == "server"

Known == {r \in Stores : repos[r] # None}

-----------------------------------------------------------------------------
(* The node: serving, publications and traces.                             *)

\* FileWorldLog::open by a node process: the lock is free.
Serve(r) ==
    /\ r \in Known
    /\ repos[r].phase = "ready"
    /\ lock[r] = None
    /\ lock' = [lock EXCEPT ![r] = Server]
    /\ UNCHANGED <<transferVars, signInVars, repos, call, calls, provisioned,
                   perms, decided, unrecorded, inherited, omitted, restricted,
                   origin, due>>

\* The node stops or dies; a publication it did not record waits for a retry.
StopServing(r) ==
    /\ lock[r] = Server
    /\ lock' = [lock EXCEPT ![r] = None]
    /\ UNCHANGED <<transferVars, signInVars, repos, call, calls, provisioned,
                   perms, decided, unrecorded, inherited, omitted, restricted,
                   origin, due>>

\* publish_layer: the World advances to the Layer's tree; NodeLog has the
\* details.  The tree is built in the transaction, and the trace was
\* uploaded before.
HostPublish(r, trace, tree) ==
    LET n == HeadNumber(r) + 1
    IN  /\ lock[r] = Server
        /\ unrecorded[r] = None
        /\ n <= MaxHosted
        /\ stored' = [stored EXCEPT ![r] = @ \cup ({trace} \ {None})
                            \cup Reach({tree}, Objects)]
        /\ world' = [world EXCEPT ![r] = Append(@,
                [tree |-> tree, operation |-> <<"publish", n>>])]
        /\ unrecorded' = [unrecorded EXCEPT ![r] =
                [trace |-> trace, number |-> n]]
        /\ UNCHANGED <<attempts, pushVars, fetchVars, signInVars, repos, call,
                       calls, provisioned, perms, lock, decided, inherited,
                       omitted, restricted, origin, due>>

\* The outcome is recorded in node.db, at once or by a retry.
HostRecord(r) ==
    /\ lock[r] = Server
    /\ unrecorded[r] # None
    /\ decided' = [decided EXCEPT ![r] =
            @ \cup (IF unrecorded[r].trace = None THEN {} ELSE {unrecorded[r]})]
    /\ unrecorded' = [unrecorded EXCEPT ![r] = None]
    /\ UNCHANGED <<transferVars, signInVars, repos, call, calls, provisioned,
                   perms, lock, inherited, omitted, restricted, origin, due>>

\* Traces::restrict, by a maintainer: one way, for a stored trace.
RestrictTrace(r, t) ==
    /\ lock[r] = Server
    /\ t \in stored[r] \ restricted[r]
    /\ restricted' = [restricted EXCEPT ![r] = @ \cup {t}]
    /\ UNCHANGED <<transferVars, signInVars, repos, call, calls, provisioned,
                   perms, lock, decided, unrecorded, inherited, omitted,
                   origin, due>>

-----------------------------------------------------------------------------
(* The control plane.                                                      *)

\* The record a request asks for.
ForkOf(q) ==
    IF q.kind = "create" THEN None
    ELSE [source |-> CHOOSE s \in Known : repos[s].name = q.source,
          number |-> q.at]

\* Mutant of Same: a create and a fork may share an operation.
SameButFork(r, q) ==
    /\ repos[r].name = q.name
    /\ repos[r].public = q.public
    /\ repos[r].creator = q.principal

\* reserve: the operation was used for this very request.  The code also asks
\* for the same node; there is one here.
Same(r, q) ==
    /\ repos[r].name = q.name
    /\ repos[r].public = q.public
    /\ repos[r].creator = q.principal
    /\ repos[r].fork = ForkOf(q)

\* fork_repository: the role the caller holds in the source.
Reader(q, s) ==
    IF repos[s].creator = q.principal THEN "maintain"
    ELSE IF repos[s].public THEN "read" ELSE "none"

\* fork_repository: the source is ready, readable, and has that version.
Forkable(q) ==
    \E s \in Known :
        /\ repos[s].name = q.source
        /\ repos[s].phase = "ready"
        /\ Reader(q, s) # "none"
        /\ q.at <= HeadNumber(s)

Idle == [at |-> "idle", request |-> None, id |-> None, source |-> None,
         reader |-> None, ready |-> FALSE, todo |-> {}, trace |-> None]

Begun(q, r, ready) ==
    [at |-> IF q.kind = "create" /\ ready THEN "done" ELSE "provision",
     request |-> q, id |-> r,
     source |-> IF q.kind = "create" THEN None ELSE ForkOf(q).source,
     reader |-> IF q.kind = "create" THEN None
                ELSE Reader(q, ForkOf(q).source),
     ready |-> ready, todo |-> {}, trace |-> None]

\* The first update of create_repository and fork_repository: reserve.  A
\* refused call changes nothing and is left out.
Reserve(c, q) ==
    /\ call[c].at = "idle"
    /\ calls < MaxCalls
    /\ \E b \in Bearers : Authenticate(b) /\ b.repo = "*"
    /\ q.kind = "fork" => Forkable(q)
    /\ \/ \E r \in Known :
            /\ repos[r].operation = q.operation
            /\ Same(r, q)
            /\ call' = [call EXCEPT ![c] =
                    Begun(q, r, repos[r].phase = "ready")]
            /\ UNCHANGED repos
       \/ /\ \A r \in Known : /\ repos[r].operation # q.operation
                              /\ repos[r].name # q.name
          /\ Stores \ Known # {}
          /\ LET r == CHOOSE r \in Stores \ Known : TRUE
             IN  /\ repos' = [repos EXCEPT ![r] =
                      [name |-> q.name, public |-> q.public,
                       creator |-> q.principal, operation |-> q.operation,
                       phase |-> "provisioning", epoch |-> 0,
                       fork |-> ForkOf(q)]]
                 /\ call' = [call EXCEPT ![c] = Begun(q, r, FALSE)]
    /\ calls' = calls + 1
    /\ UNCHANGED <<transferVars, signInVars, nodeVars>>

\* provision: waits for the lock, then makes the repository if need be.
Provision(c) ==
    LET r == call[c].id
    IN  /\ call[c].at = "provision"
        /\ lock[r] = None
        /\ provisioned' = provisioned \cup {r}
        /\ call' = [call EXCEPT ![c].at =
                IF call[c].request.kind = "fork" THEN "open" ELSE "apply"]
        /\ UNCHANGED <<transferVars, signInVars, repos, calls, perms, lock,
                       decided, unrecorded, inherited, omitted, restricted,
                       origin, due>>

\* initial_permissions.
Initial(r) ==
    [epoch |-> 1, public |-> repos[r].public, maintainer |-> repos[r].creator]

\* apply: the first permissions, or the same ones again; the lock is waited
\* for, and an older or a different set is refused.
Apply(c) ==
    LET r == call[c].id
    IN  /\ call[c].at = "apply"
        /\ lock[r] = None
        /\ perms[r] \in {None, Initial(r)}
        /\ perms' = [perms EXCEPT ![r] = Initial(r)]
        /\ call' = [call EXCEPT ![c].at = "mark"]
        /\ UNCHANGED <<transferVars, signInVars, repos, calls, provisioned,
                       lock, decided, unrecorded, inherited, omitted,
                       restricted, origin, due>>

MarkReady(c) ==
    /\ call[c].at = "mark"
    /\ repos' = [repos EXCEPT ![call[c].id].phase = "ready",
                              ![call[c].id].epoch = 1]
    /\ call' = [call EXCEPT ![c].at = "done"]
    /\ UNCHANGED <<transferVars, signInVars, nodeVars, calls>>

\* The locks of a call that ends, however it ends.
Released(c) == [r \in Stores |-> IF lock[r] = c THEN None ELSE lock[r]]

\* The call returns, or it dies where it stands and its reply is lost.
CallEnds(c) ==
    /\ call[c].at # "idle"
    /\ call' = [call EXCEPT ![c] = Idle]
    /\ lock' = Released(c)
    /\ UNCHANGED <<transferVars, signInVars, repos, calls, provisioned, perms,
                   decided, unrecorded, inherited, omitted, restricted,
                   origin, due>>

-----------------------------------------------------------------------------
(* The node's fork: versions with their trees, then traces, then origin.   *)

\* inherited_traces: the traces of the source's own recorded publications
\* and of the ones it inherited, up to n, each with its earliest version.  A
\* World whose record was lost brings none (ForkTakesEveryTrace).
InheritedTraces(s, n) ==
    LET named == {d \in decided[s] \cup inherited[s] : d.number <= n}
    IN  {d \in named : \A e \in named :
            e.trace = d.trace => d.number <= e.number}

\* After the fork: the permissions, unless the record was ready already.
AfterFork(c) == IF call[c].ready THEN "done" ELSE "apply"

\* fork: both logs are opened, or the call is refused.  A finished fork
\* returns its origin; an unfinished one goes on from the target's head,
\* which must be the source's version of that number.
ForkOpen(c) ==
    LET s == call[c].source
        r == call[c].id
        n == call[c].request.at
    IN  /\ call[c].at = "open"
        /\ lock[s] = None /\ lock[r] = None
        /\ IF origin[r] # None
           THEN /\ origin[r] = [source |-> s, number |-> n]
                /\ call' = [call EXCEPT ![c].at = AfterFork(c)]
                /\ UNCHANGED <<lock, due>>
           ELSE /\ n <= HeadNumber(s)
                /\ HeadNumber(r) <= HeadNumber(s)
                /\ VersionId(r, HeadNumber(r)) = VersionId(s, HeadNumber(r))
                /\ lock' = [lock EXCEPT ![s] = c, ![r] = c]
                /\ call' = [call EXCEPT ![c].at = "copy"]
                /\ due' = IF due[r] # None THEN due
                          ELSE [due EXCEPT ![r] =
                                 [traces |-> InheritedTraces(s, n),
                                  secret |-> restricted[s],
                                  reader |-> call[c].reader]]
        /\ UNCHANGED <<transferVars, signInVars, repos, calls, provisioned,
                       perms, decided, unrecorded, inherited, omitted,
                       restricted, origin>>

\* FileWorldLog::open of a directory another process holds.
ForkBusy(c) ==
    /\ call[c].at = "open"
    /\ lock[call[c].source] # None \/ lock[call[c].id] # None
    /\ call' = [call EXCEPT ![c] = Idle]
    /\ UNCHANGED <<transferVars, signInVars, repos, nodeVars, calls>>

\* The version being copied.
Copying(c) == HeadNumber(call[c].id) + 1

\* copy_tree: the next object that is missing and fits, children first.
CopyObject(c) ==
    LET s == call[c].source
        r == call[c].id
        lack == Reach({Root(s, Copying(c))}, Objects) \ stored[r]
    IN  /\ call[c].at = "copy"
        /\ Copying(c) <= call[c].request.at
        /\ lack # {}
        /\ Put(r, CHOOSE o \in lack : Fits(r, o))
        /\ UNCHANGED <<world, attempts, pushVars, fetchVars, signInVars,
                       hostingVars>>

\* fork: the version itself, by one transaction, with the source's tree.
CopyVersion(c) ==
    LET s == call[c].source
        r == call[c].id
        n == Copying(c)
    IN  /\ call[c].at = "copy"
        /\ n <= call[c].request.at
        /\ Root(s, n) \in stored[r]
        /\ Advance(r, <<"fork", n>>, n - 1, Root(s, n))
        /\ UNCHANGED <<stored, pushVars, fetchVars, signInVars, hostingVars>>

\* Mutant of Copied: every version is there, the traces may not be.
CopiedVersions(c) == call[c].at \in {"traces", "place", "mark_trace"}

\* Every trace has its turn behind it.
Copied(c) == call[c].at = "traces" /\ call[c].todo = {}

\* copy_traces begins: the source's list is read once.
TracesBegin(c) ==
    /\ call[c].at = "copy"
    /\ Copying(c) > call[c].request.at
    /\ call' = [call EXCEPT ![c].at = "traces", ![c].todo =
            InheritedTraces(call[c].source, call[c].request.at)]
    /\ UNCHANGED <<transferVars, signInVars, repos, nodeVars, calls>>

\* copy_traces: the trace is noted as inherited.
TraceNote(c) ==
    LET r == call[c].id
    IN  /\ call[c].at = "traces"
        /\ \E d \in call[c].todo :
            /\ call' = [call EXCEPT ![c].at = "place", ![c].trace = d.trace,
                                    ![c].todo = @ \ {d}]
            /\ inherited' = [inherited EXCEPT ![r] =
                    IF \E e \in @ : e.trace = d.trace THEN @ ELSE @ \cup {d}]
        /\ UNCHANGED <<transferVars, signInVars, repos, calls, provisioned,
                       perms, lock, decided, unrecorded, omitted, restricted,
                       origin, due>>

\* copy_traces: the source has no bytes, or the reader may not see them.
Withheld(c, t) ==
    \/ t \in omitted[call[c].source]
    \/ t \in restricted[call[c].source] /\ call[c].reader # "maintain"

\* copy_traces: the trace is left out and marked, or its bytes are copied.
TracePlace(c) ==
    LET r == call[c].id
        t == call[c].trace
    IN  /\ call[c].at = "place"
        /\ IF Withheld(c, t)
           THEN /\ omitted' = [omitted EXCEPT ![r] = @ \cup {t}]
                /\ call' = [call EXCEPT ![c].at = "traces", ![c].trace = None]
                /\ UNCHANGED stored
           ELSE /\ t \in stored[call[c].source]
                /\ Put(r, t)
                /\ call' = [call EXCEPT ![c].at = "mark_trace"]
                /\ UNCHANGED omitted
        /\ UNCHANGED <<world, attempts, pushVars, fetchVars, signInVars, repos,
                       calls, provisioned, perms, lock, decided, unrecorded,
                       inherited, restricted, origin, due>>

\* mark_restricted, when the source restricts the trace.
TraceMark(c) ==
    LET r == call[c].id
        t == call[c].trace
    IN  /\ call[c].at = "mark_trace"
        /\ restricted' = [restricted EXCEPT ![r] =
                @ \cup ({t} \cap restricted[call[c].source])]
        /\ call' = [call EXCEPT ![c].at = "traces", ![c].trace = None]
        /\ UNCHANGED <<transferVars, signInVars, repos, calls, provisioned,
                       perms, lock, decided, unrecorded, inherited, omitted,
                       origin, due>>

\* fork: the origin is written last, and the locks go.
ForkFinish(c) ==
    /\ Copied(c)
    /\ origin' = [origin EXCEPT ![call[c].id] =
            [source |-> call[c].source, number |-> call[c].request.at]]
    /\ lock' = Released(c)
    /\ call' = [call EXCEPT ![c].at = AfterFork(c), ![c].todo = {}]
    /\ UNCHANGED <<transferVars, signInVars, repos, calls, provisioned, perms,
                   decided, unrecorded, inherited, omitted, restricted, due>>

-----------------------------------------------------------------------------
HostingInit ==
    /\ repos = [r \in Stores |-> None]
    /\ provisioned = {}
    /\ perms = [r \in Stores |-> None]
    /\ lock = [r \in Stores |-> None]
    /\ decided = [r \in Stores |-> {}]
    /\ unrecorded = [r \in Stores |-> None]
    /\ inherited = [r \in Stores |-> {}]
    /\ omitted = [r \in Stores |-> {}]
    /\ restricted = [r \in Stores |-> {}]
    /\ origin = [r \in Stores |-> None]
    /\ call = [c \in Calls |-> Idle]
    /\ calls = 0
    /\ due = [r \in Stores |-> None]

\* create_repository, and what fork_repository shares with it.
CreateNext(c) ==
    \/ \E q \in Requests : q.kind = "create" /\ Reserve(c, q)
    \/ Provision(c) \/ Apply(c) \/ MarkReady(c) \/ CallEnds(c)

ForkNext(c) ==
    \/ \E q \in Requests : q.kind = "fork" /\ Reserve(c, q)
    \/ ForkOpen(c) \/ ForkBusy(c) \/ CopyObject(c) \/ CopyVersion(c)
    \/ TracesBegin(c) \/ TraceNote(c) \/ TracePlace(c) \/ TraceMark(c)
    \/ ForkFinish(c)

NodeNext(r) ==
    \/ Serve(r) \/ StopServing(r) \/ HostRecord(r)
    \/ \E trace \in Traces \cup {None}, tree \in HostTrees :
          HostPublish(r, trace, tree)
    \/ \E t \in Traces : RestrictTrace(r, t)

\* What a behaviour is about, which keeps the parts that share no state from
\* multiplying: pushes over a link that breaks, fetches of what was pushed,
\* hosted repositories, or sign-ins with one create.
Init ==
    /\ TransferInit /\ SignInInit /\ HostingInit
    /\ workload \in {"push", "fetch", "host", "signin"}

Next ==
    /\ \/ /\ workload = "push"
          /\ \E s \in Senders : PushNext(s)
          /\ UNCHANGED <<signInVars, hostingVars>>
       \/ /\ workload = "fetch"
          /\ \/ \E s \in Senders : SessionNext(s)
             \/ \E f \in Fetchers : FetchNext(f)
          /\ UNCHANGED <<signInVars, hostingVars>>
       \/ /\ workload \in {"host", "signin"}
          /\ Bootstrap
          /\ UNCHANGED <<transferVars, hostingVars>>
       \/ /\ workload \in {"host", "signin"}
          /\ \E c \in Calls : CreateNext(c)
          /\ workload = "signin" => calls' <= 1
       \/ /\ workload = "host"
          /\ \/ \E c \in Calls : ForkNext(c)
             \/ \E r \in Stores : NodeNext(r)
       \/ /\ workload = "signin"
          /\ \/ SignInNext
             \/ \E b \in Bearers, r \in Known : RepositoryToken(b, r)
          /\ UNCHANGED <<transferVars, hostingVars>>
    /\ UNCHANGED workload

Spec == Init /\ [][Next]_<<transferVars, signInVars, hostingVars, workload>>

-----------------------------------------------------------------------------
(* Properties.                                                             *)

\* The repository's own publications may bring a trace as well.
PublishedHere(r, t) ==
    \E d \in decided[r] \cup ({unrecorded[r]} \ {None}) : d.trace = t

\* A trace is a blob, and a tree may name those bytes as a file's.
InTree(r, t) ==
    \E k \in 1..HeadNumber(r) : t \in Reach({Root(r, k)}, Objects)

\* A fork with an origin is finished, whatever attempts died before: it has
\* the source's versions up to that number and all their objects, and every
\* trace that node.db listed when the first attempt began is there or marked
\* as left out.  One that was restricted then is restricted here too, or, for
\* a reader below Maintain, the fork brought its bytes only where a tree has
\* them (fork.rs fork, copy_traces).
ForkFaithful ==
    \A r \in Stores : origin[r] # None =>
        LET s == origin[r].source
            n == origin[r].number
        IN  /\ n <= HeadNumber(r)
            /\ \A k \in 1..n :
                /\ Root(r, k) = Root(s, k)
                /\ Reach({Root(r, k)}, Objects) \subseteq stored[r]
            /\ \A d \in due[r].traces :
                /\ d \in inherited[r]
                /\ d.trace \in omitted[r] \cup stored[r]
                /\ d.trace \in due[r].secret =>
                    IF due[r].reader = "maintain"
                    THEN d.trace \in omitted[r] \cup restricted[r]
                    ELSE /\ d.trace \in omitted[r]
                         /\ d.trace \in stored[r] =>
                               PublishedHere(r, d.trace) \/ InTree(r, d.trace)

\* copy_traces: "Copies every trace that a publication up to `upto` named."
\* A publication the World has counts, recorded in node.db or not.
ForkTakesEveryTrace ==
    \A r \in Stores : origin[r] # None =>
        LET s == origin[r].source
        IN  \A d \in decided[s] \cup ({unrecorded[s]} \ {None}) :
              d.trace # None /\ d.number <= origin[r].number =>
                 \E e \in inherited[r] : e.trace = d.trace

\* One name and one operation mean one repository, and a call returns it
\* only when its node has it: provisioned, with its creator's permissions,
\* and forked exactly when the record says so (repo.rs reserve, mark_ready;
\* fork.rs fork_repository).
RepositoriesAgree ==
    /\ \A r, t \in Known :
          repos[r].name = repos[t].name \/ repos[r].operation =
              repos[t].operation => r = t
    /\ \A r \in Known : repos[r].phase = "ready" =>
          /\ r \in provisioned
          /\ perms[r] = Initial(r)
          /\ origin[r] = repos[r].fork
    /\ \A c \in Calls : call[c].at = "done" =>
          /\ repos[call[c].id].phase = "ready"
          /\ repos[call[c].id].operation = call[c].request.operation
          /\ repos[call[c].id].name = call[c].request.name
=============================================================================
