------------------------------- MODULE Review -------------------------------
(***************************************************************************)
(* Publish Requests on a node: revisions, exact approvals, permission      *)
(* epochs, required checks and the publication of an approved revision     *)
(* (crates/javelin-collaboration/src/lib.rs, crates/javelin-node/src/      *)
(* review.rs, checks.rs, auth.rs, crates/javelin-identity/src/access.rs).  *)
(*                                                                         *)
(* A request is only a list of accepted commands in node.db; its state is  *)
(* rebuilt by replaying them.  A publication is up to three commits in two *)
(* databases: the revision's Layer and its receipt in the repository, then *)
(* the command in node.db.  The node handles one message at a time, so a   *)
(* handler is one action, with an action of its own for each commit after  *)
(* which it may stop.  Refusals and replays change nothing and are left    *)
(* out.  The permissions are pushed by the control plane and held in       *)
(* memory, so a restart forgets them and with them the epoch they had.     *)
(***************************************************************************)
EXTENDS Naturals, Sequences, FiniteSets

CONSTANTS
    Principals,
    Requests,
    Operations,
    Checkpoints,    \* stored checkpoints; each determines its base
    SourceTree,     \* the tree a checkpoint composes to
    Pushes,         \* permissions the control plane may push, in any order
    CheckPolicies,  \* sets of required checks the node may be given
    CheckNames,
    CommentOn,      \* revisions comments name, None for the request as a whole
    ReportOn,       \* checkpoints whose trees results are reported for
    MaxResults,     \* bound on stored check results
    None

Role == 0..3        \* no role, Read, Review, Maintain

Permissions == [epoch : Nat, public : BOOLEAN, roles : [Principals -> Role],
                required : Nat]

RequiredCheck == [name : CheckNames, reporter : Principals \cup {None}]

ASSUME PushesAssumption ==
    /\ Pushes \subseteq Permissions
    /\ \A p, q \in Pushes : p.epoch = q.epoch => p = q

ASSUME NoneAssumption ==
    /\ None \notin Principals \cup Operations \cup Nat \cup Permissions
    /\ None \notin Requests \X Nat

ASSUME ChecksAssumption ==
    /\ \A required \in CheckPolicies : required \subseteq RequiredCheck
    /\ ReportOn \subseteq Checkpoints
    /\ MaxResults \in Nat

VARIABLES
    permissions,  \* applied permissions, None after a restart
    rows,         \* review_rows: accepted commands by request
    layers,       \* the Layers of revisions in the repository, by <<request, index>>
    receipts,     \* the repository's Publish receipts, by operation
    results,      \* check_results, in seq order
    policy        \* check_policy

vars == <<permissions, rows, layers, receipts, results, policy>>

-----------------------------------------------------------------------------
(* Authorization.                                                          *)

\* AppliedPermissions::role.
RoleOf(p) ==
    IF permissions.public /\ permissions.roles[p] = 0 THEN 1 ELSE permissions.roles[p]

Has(p, role) == RoleOf(p) >= role

\* Access::authorize for a token that carries every scope.
Authorized(p, role) == permissions # None /\ Has(p, 1) /\ Has(p, role)

\* Access::apply: only a newer epoch replaces what is applied.
Applies(push) == permissions # None => push.epoch > permissions.epoch

ApplyPush(push) ==
    /\ Applies(push)
    /\ permissions' = push
    /\ UNCHANGED <<rows, layers, receipts, results, policy>>

Restart ==
    /\ permissions # None
    /\ permissions' = None
    /\ UNCHANGED <<rows, layers, receipts, results, policy>>

-----------------------------------------------------------------------------
(* The state of a request.                                                 *)

NewReview == [author |-> None, state |-> "open", epoch |-> 0, revisions |-> <<>>]

Current(review) == Len(review.revisions)

\* open_revision.
IsOpen(review) == review.state = "open" /\ review.revisions # <<>>

\* Mutant of PushRevision: the approvals of the last revision are kept.
PushRevisionApproved(review, checkpoint) ==
    [review EXCEPT !.revisions =
        Append(@, [checkpoint |-> checkpoint,
                   approvals |-> IF @ = <<>> THEN {} ELSE @[Len(@)].approvals])]

PushRevision(review, checkpoint) ==
    [review EXCEPT !.revisions =
        Append(@, [checkpoint |-> checkpoint, approvals |-> {}])]

\* Review::transition accepts the command: the facts of the request allow it.
CanTransition(review, cmd) ==
    LET current == review.revisions[Current(review)]
    IN  CASE cmd.action = "open" -> review.author = None
          [] cmd.action = "revise" ->
                /\ IsOpen(review)
                /\ review.author = cmd.actor
                /\ cmd.index = Current(review)
                /\ cmd.checkpoint # current.checkpoint
          [] cmd.action = "approve" ->
                /\ IsOpen(review)
                /\ review.author # cmd.actor
                /\ cmd.index = Current(review)
                /\ cmd.checkpoint = current.checkpoint
                /\ cmd.actor \notin current.approvals
          [] cmd.action = "comment" ->
                IsOpen(review) /\ cmd.index \in {None} \cup 1..Current(review)
          [] cmd.action = "publish" -> IsOpen(review)

\* Review::transition: the request after the command.
Transition(review, cmd) ==
    LET next ==
          CASE cmd.action = "open" ->
                  PushRevision([review EXCEPT !.author = cmd.actor], cmd.checkpoint)
            [] cmd.action = "revise" -> PushRevision(review, cmd.checkpoint)
            [] cmd.action = "approve" ->
                  [review EXCEPT !.revisions[Current(review)].approvals =
                      @ \cup {cmd.actor}]
            [] cmd.action = "comment" -> review
            [] cmd.action = "publish" -> [review EXCEPT !.state = "published"]
    IN  [next EXCEPT !.epoch = cmd.epoch]

\* Review::replay: the first n commands, under the epochs they were accepted
\* with.
Replay(commands, n) ==
    LET replay[i \in 0..n] ==
          IF i = 0 THEN NewReview ELSE Transition(replay[i - 1], commands[i])
    IN  replay[n]

\* restore: the recorded commands of a request, replayed.
Replayed(r, n) == Replay(rows[r], n)

Restore(r) == Replayed(r, Len(rows[r]))

\* Mutant of CheckPermissions: any epoch will do.
CheckPermissionsNever(review) == TRUE

\* check_permissions: a request never goes back to an older epoch.
CheckPermissions(review) == permissions.epoch >= review.epoch

\* The revision a Layer was published with, if the World holds it.
WorldPublication(r, i, checkpoint) ==
    /\ <<r, i>> \in DOMAIN layers
    /\ layers[<<r, i>>].operation # None
    /\ layers[<<r, i>>].checkpoint = checkpoint

\* Mutant of Settled: the World is not asked.
SettledNever(r) == Restore(r)

\* settled: a request whose current revision the World already holds is
\* Published, even when the record of its publication was lost.
Settled(r) ==
    LET review == Restore(r)
    IN  IF /\ IsOpen(review)
           /\ WorldPublication(r, Current(review),
                               review.revisions[Current(review)].checkpoint)
        THEN [review EXCEPT !.state = "published"]
        ELSE review

-----------------------------------------------------------------------------
(* Recording commands.                                                     *)

Command(op, actor, action, index, checkpoint) ==
    [operation |-> op, actor |-> actor, action |-> action, index |-> index,
     checkpoint |-> checkpoint, epoch |-> permissions.epoch]

\* recorded: operations are unique across requests.
Recorded(op) == \E r \in Requests : \E i \in DOMAIN rows[r] : rows[r][i].operation = op

\* persist: one accepted command, in the epoch it was accepted under.
Persist(r, cmd) == rows' = [rows EXCEPT ![r] = Append(@, cmd)]

\* decide and settle_review for a new operation.
Accept(r, review, cmd) ==
    /\ ~Recorded(cmd.operation)
    /\ CheckPermissions(review)
    /\ CanTransition(review, cmd)
    /\ Persist(r, cmd)
    /\ UNCHANGED <<permissions, layers, receipts, results, policy>>

OpenRequest(op, p, r, checkpoint) ==
    /\ Authorized(p, 1)
    /\ Accept(r, Settled(r), Command(op, p, "open", None, checkpoint))

Revise(op, p, r, expected, checkpoint) ==
    /\ rows[r] # <<>>
    /\ Authorized(p, 1)
    /\ Accept(r, Settled(r), Command(op, p, "revise", expected, checkpoint))

\* The approval pins the revision's content as it is at this index.
Approve(op, p, r, index) ==
    /\ rows[r] # <<>>
    /\ Authorized(p, 2)
    /\ LET review == Settled(r)
       IN  /\ index \in DOMAIN review.revisions
           /\ Accept(r, review, Command(op, p, "approve", index,
                                        review.revisions[index].checkpoint))

\* Mutant of Comment: the World is not asked.
CommentUnsettled(op, p, r, index) ==
    /\ rows[r] # <<>>
    /\ Authorized(p, 1)
    /\ Accept(r, Restore(r), Command(op, p, "comment", index, None))

Comment(op, p, r, index) ==
    /\ rows[r] # <<>>
    /\ Authorized(p, 1)
    /\ Accept(r, Settled(r), Command(op, p, "comment", index, None))

-----------------------------------------------------------------------------
(* Required checks.                                                        *)

Matching(check, tree) ==
    {i \in DOMAIN results :
        /\ results[i].subject = tree
        /\ results[i].name = check.name
        /\ check.reporter \in {None, results[i].reporter}}

\* Mutant of Latest: any success counts, however old.
LatestSuccess(check, tree) ==
    LET passed == {i \in Matching(check, tree) : results[i].success}
        ids == IF passed = {} THEN Matching(check, tree) ELSE passed
    IN  {results[i] : i \in {i \in ids : \A j \in ids : j <= i}}

\* latest: the newest result for the tree and name from an allowed reporter,
\* as a set of at most one.
Latest(check, tree) ==
    LET ids == Matching(check, tree)
    IN  {results[i] : i \in {i \in ids : \A j \in ids : j <= i}}

\* unmet returns None: each requirement's latest result comes from a reporter
\* who still holds a role, and is a success.
ChecksMet(tree) ==
    \A check \in policy :
       \E result \in Latest(check, tree) : Has(result.reporter, 1) /\ result.success

\* checks::report for a new operation.
Report(op, p, tree, name, success) ==
    /\ Authorized(p, 1)
    /\ \A i \in DOMAIN results : results[i].operation # op
    /\ Len(results) < MaxResults
    /\ results' = Append(results,
          [operation |-> op, subject |-> tree, name |-> name, reporter |-> p,
           success |-> success])
    /\ UNCHANGED <<permissions, rows, layers, receipts, policy>>

\* checks::set_required.
SetRequired(required) ==
    /\ required # policy
    /\ policy' = required
    /\ UNCHANGED <<permissions, rows, layers, receipts, results>>

-----------------------------------------------------------------------------
(* Publishing an approved revision.                                        *)

\* Approvals of the current revision by principals who may review now.
ApprovalsOf(review) ==
    {p \in review.revisions[Current(review)].approvals :
        p # review.author /\ Has(p, 2)}

\* check_publishable.
CheckPublishable(review, p, index) ==
    /\ CheckPermissions(review)
    /\ Has(p, 3)
    /\ IsOpen(review)
    /\ index = Current(review)
    /\ Cardinality(ApprovalsOf(review)) >= permissions.required

\* decide accepts a PublishRequest that has no record.  The stored commands
\* decide, and not the World.
Publishable(op, p, r, index) ==
    /\ rows[r] # <<>>
    /\ Authorized(p, 3)
    /\ ~Recorded(op)
    /\ CheckPublishable(Restore(r), p, index)

Checkpoint(r, index) == Restore(r).revisions[index].checkpoint

\* publish_checkpoint reaches publish_layer: no receipt decides, the checks
\* are met, and the revision's Layer is new or Active at its checkpoint.
MayLand(op, r, index) ==
    /\ op \notin DOMAIN receipts
    /\ ChecksMet(SourceTree[Checkpoint(r, index)])
    /\ <<r, index>> \in DOMAIN layers =>
          layers[<<r, index>>] = [checkpoint |-> Checkpoint(r, index), operation |-> None]

\* clone_layer and publish_layer in the repository.
PutLayer(r, index, op) ==
    layers' = [k \in DOMAIN layers \cup {<<r, index>>} |->
                  IF k = <<r, index>>
                  THEN [checkpoint |-> Checkpoint(r, index), operation |-> op]
                  ELSE layers[k]]

PutReceipt(op, layer, outcome) ==
    receipts' = [o \in DOMAIN receipts \cup {op} |->
                    IF o = op THEN [layer |-> layer, outcome |-> outcome]
                    ELSE receipts[o]]

PublishRow(op, p, r, index) == Command(op, p, "publish", index, Checkpoint(r, index))

\* The revision lands in the World and the command is recorded.
PublishRequest(op, p, r, index) ==
    /\ Publishable(op, p, r, index)
    /\ MayLand(op, r, index)
    /\ PutLayer(r, index, op)
    /\ PutReceipt(op, <<r, index>>, "published")
    /\ Persist(r, PublishRow(op, p, r, index))
    /\ UNCHANGED <<permissions, results, policy>>

\* The World moved below the revision: a durable conflict, which the review
\* does not record.
PublishRequestConflict(op, p, r, index) ==
    /\ Publishable(op, p, r, index)
    /\ MayLand(op, r, index)
    /\ PutLayer(r, index, None)
    /\ PutReceipt(op, <<r, index>>, "conflict")
    /\ UNCHANGED <<permissions, rows, results, policy>>

\* The node stops, or node.db fails, after the World published the revision
\* and before the command is recorded.
PublishRequestUnrecorded(op, p, r, index) ==
    /\ Publishable(op, p, r, index)
    /\ MayLand(op, r, index)
    /\ PutLayer(r, index, op)
    /\ PutReceipt(op, <<r, index>>, "published")
    /\ permissions' \in {permissions, None}
    /\ UNCHANGED <<rows, results, policy>>

\* The node stops after it cloned the revision's Layer.
PublishRequestCloned(op, p, r, index) ==
    /\ Publishable(op, p, r, index)
    /\ MayLand(op, r, index)
    /\ <<r, index>> \notin DOMAIN layers
    /\ PutLayer(r, index, None)
    /\ permissions' \in {permissions, None}
    /\ UNCHANGED <<rows, receipts, results, policy>>

\* A receipt is published for this revision: the retry records the command
\* without asking the checks again.
PublishRequestComplete(op, p, r, index) ==
    /\ Publishable(op, p, r, index)
    /\ op \in DOMAIN receipts
    /\ receipts[op] = [layer |-> <<r, index>>, outcome |-> "published"]
    /\ Persist(r, PublishRow(op, p, r, index))
    /\ UNCHANGED <<permissions, layers, receipts, results, policy>>

\* PublishLayer of an ordinary Layer: operation IDs share one receipt table.
PublishOrdinary(op) ==
    /\ op \notin DOMAIN receipts
    /\ PutReceipt(op, None, "published")
    /\ UNCHANGED <<permissions, rows, layers, results, policy>>

-----------------------------------------------------------------------------
Init ==
    /\ permissions = None
    /\ rows = [r \in Requests |-> <<>>]
    /\ layers = [k \in {} |-> None]
    /\ receipts = [op \in {} |-> None]
    /\ results = <<>>
    /\ policy = {}

ControlNext ==
    \/ \E push \in Pushes : ApplyPush(push)
    \/ \E required \in CheckPolicies : SetRequired(required)
    \/ Restart

CommandNext ==
    \E op \in Operations, p \in Principals, r \in Requests :
       \/ \E c \in Checkpoints : OpenRequest(op, p, r, c)
       \/ \E c \in Checkpoints, i \in 1..Len(rows[r]) : Revise(op, p, r, i, c)
       \/ \E i \in 1..Len(rows[r]) : Approve(op, p, r, i)
       \/ \E i \in CommentOn : Comment(op, p, r, i)

PublishNext ==
    \E op \in Operations, p \in Principals, r \in Requests :
       \E i \in 1..Len(rows[r]) :
          \/ PublishRequest(op, p, r, i)
          \/ PublishRequestConflict(op, p, r, i)
          \/ PublishRequestUnrecorded(op, p, r, i)
          \/ PublishRequestCloned(op, p, r, i)
          \/ PublishRequestComplete(op, p, r, i)

OtherNext ==
    \E op \in Operations :
       \/ PublishOrdinary(op)
       \/ \E p \in Principals, c \in ReportOn, name \in CheckNames,
             success \in BOOLEAN :
             Report(op, p, SourceTree[c], name, success)

Next == ControlNext \/ CommandNext \/ PublishNext \/ OtherNext

Spec == Init /\ [][Next]_vars

-----------------------------------------------------------------------------
Cmd == [operation : Operations, actor : Principals, epoch : Nat,
        action : {"open", "revise", "approve", "comment", "publish"},
        index : Nat \cup {None}, checkpoint : Checkpoints \cup {None}]

\* The node's memory and both databases hold what their schemas allow, and
\* no insert meets the UNIQUE constraint on the operation of a command.
TypeOK ==
    /\ permissions \in Pushes \cup {None}
    /\ rows \in [Requests -> Seq(Cmd)]
    /\ \A r, s \in Requests : \A i \in DOMAIN rows[r], j \in DOMAIN rows[s] :
          rows[r][i].operation = rows[s][j].operation => r = s /\ i = j
    /\ DOMAIN layers \subseteq Requests \X Nat
    /\ \A k \in DOMAIN layers :
          layers[k] \in [checkpoint : Checkpoints, operation : Operations \cup {None}]
    /\ DOMAIN receipts \subseteq Operations
    /\ \A op \in DOMAIN receipts :
          receipts[op] \in [layer : (Requests \X Nat) \cup {None},
                            outcome : {"published", "conflict"}]
    /\ results \in Seq([operation : Operations, subject : {SourceTree[c] : c \in Checkpoints},
                        name : CheckNames, reporter : Principals, success : BOOLEAN])
    /\ policy \in {{}} \cup CheckPolicies

\* The revisions of a request the World holds.
LandedIn(r) == {i \in 1..Len(rows[r]) :
                  <<r, i>> \in DOMAIN layers /\ layers[<<r, i>>].operation # None}

\* restore never fails: whatever the order of commands, crashes and pushes,
\* every recorded command replays, and the epochs it was accepted under
\* never go back, though a restart forgets the applied epoch.
Restorable ==
    \A r \in Requests : \A n \in DOMAIN rows[r] :
       /\ CanTransition(Replayed(r, n - 1), rows[r][n])
       /\ \A m \in 1..n : rows[r][m].epoch <= rows[r][n].epoch

\* The two databases agree on what was published: a request reads Published
\* exactly when the World holds one of its revisions, that revision is its
\* last, and one operation published it.
PublishedIsLanded ==
    \A r \in Requests :
       /\ Settled(r).state = "published" <=> LandedIn(r) # {}
       /\ \A i \in LandedIn(r) :
             /\ i = Current(Restore(r))
             /\ layers[<<r, i>>].checkpoint = Checkpoint(r, i)
             /\ {op \in DOMAIN receipts :
                    receipts[op] = [layer |-> <<r, i>>, outcome |-> "published"]}
                   = {layers[<<r, i>>].operation}

\* What the rows say of revision i: who approved exactly its checkpoint,
\* after it was submitted.
ApproversOf(r, i, checkpoint) ==
    {rows[r][n].actor : n \in {n \in DOMAIN rows[r] :
        /\ rows[r][n].action = "approve"
        /\ rows[r][n].index = i
        /\ rows[r][n].checkpoint = checkpoint
        /\ \A m \in n..Len(rows[r]) : rows[r][m].action # "revise"}}

LandsApproved ==
    \A k \in DOMAIN layers' :
       LET landsNow == /\ layers'[k].operation # None
                       /\ k \in DOMAIN layers => layers[k].operation = None
           r == k[1]
           counted == {p \in ApproversOf(r, k[2], layers'[k].checkpoint) :
                          Has(p, 2) /\ rows[r][1].actor # p}
       IN  landsNow => /\ permissions # None
                       /\ Cardinality(counted) >= permissions.required

\* A revision enters the World only with enough approvals of that exact
\* checkpoint, by principals other than the author who may review under the
\* permissions applied at that moment: not those of an earlier revision, and
\* not those of a reviewer removed since.
ExactApprovals == [][LandsApproved]_vars

LandsChecked ==
    \A k \in DOMAIN layers' :
       LET landsNow == /\ layers'[k].operation # None
                       /\ k \in DOMAIN layers => layers[k].operation = None
           tree == SourceTree[layers'[k].checkpoint]
       IN  landsNow =>
             \A check \in policy :
                \E i \in Matching(check, tree) :
                   /\ results[i].success
                   /\ Has(results[i].reporter, 1)
                   /\ \A j \in Matching(check, tree) : results[j].success \/ j < i

\* A revision enters the World only when no required check has failed for
\* its tree since the success that is counted.
ExactChecks == [][LandsChecked]_vars

StaysFrozen ==
    \A r \in Requests :
       LandedIn(r) # {} /\ rows'[r] # rows[r] =>
          LET last == rows'[r][Len(rows'[r])]
              i == CHOOSE i \in LandedIn(r) : TRUE
          IN  last.action = "publish" /\ last.index = i
                /\ last.operation = layers[<<r, i>>].operation

\* Once the World holds a revision, the request takes nothing but the record
\* of that publication, under the operation that made it.
LandedIsFinal == [][StaysFrozen]_vars

\* "A retry after a lost reply, or after a crash between the publish and its
\* record, finds the receipt by operation and answers with the same version":
\* an operation whose record was lost is accepted again for whoever may
\* publish now.
LostRecordCompletes ==
    \A r \in Requests : \A i \in LandedIn(r) : \A p \in Principals :
       LET op == layers[<<r, i>>].operation
       IN  ~Recorded(op) /\ Authorized(p, 3) => Publishable(op, p, r, i)
=============================================================================
