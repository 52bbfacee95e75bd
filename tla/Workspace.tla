----------------------------- MODULE Workspace -----------------------------
(***************************************************************************)
(* Clone-backed Layer directories (src/src/workspace.rs), their capture    *)
(* and their refresh to a head that Stack moved                            *)
(* (src/src/workspace/refresh.rs).                                         *)
(*                                                                         *)
(* One Layer over the World, its directory, the rolling base that          *)
(* directories are cloned from, and the sync record that names the         *)
(* checkpoint the directory last matched.  Commands hold workspace.lock,   *)
(* so at most one runs (`cmd`).  The owner edits files, and other          *)
(* processes move the Layer and the World, at any time.  A command may die *)
(* between any two of its durable steps; an I/O error that ends one leaves *)
(* the same state.  Directories in `tmp` and `trash` have unique names and *)
(* are never read again, so they are left out, and so is the volume that   *)
(* folds names.                                                            *)
(***************************************************************************)
EXTENDS Capture, Sequences

CONSTANTS
    WorldTree,  \* [1..MaxWorld -> Tree]: the World's versions
    StackTrees, \* results Stack may commit
    OtherTrees, \* what other directories that are captured hold
    Supplied,   \* contents an owner may supply for a conflicting path
    MaxWorld,   \* bound: versions
    MaxHeads,   \* bound: Layer heads
    MaxCrashes  \* bound: commands that die

ASSUME WorkspaceAssumption ==
    /\ MaxWorld \in Nat \ {0} /\ MaxHeads \in Nat /\ MaxCrashes \in Nat
    /\ WorldTree \in [1..MaxWorld -> {t \in Tree : WellFormed(t)}]
    /\ StackTrees \cup OtherTrees \subseteq {t \in Tree : WellFormed(t)}
    /\ Supplied \subseteq Contents

ASSUME NoneAssumption ==
    /\ None \notin Nat /\ None \notin [tree: Tree, stacks: Nat]
    /\ \A paths \in SUBSET Paths : paths # None

VARIABLES
    world,      \* the newest World version
    base,       \* the Layer's base version
    heads,      \* the Layer's Active heads; empty before the Layer exists
    ended,      \* "active", "published" or "discarded"
    opened,     \* the Layer's directory exists
    sync,       \* its sync record: a checkpoint, or None
    rolling,    \* the rolling base's files, or None
    record,     \* base.json, or None
    cmd,        \* the command that holds the lock
    ready,      \* a `workspace publish` between capture and Publish: the
                \* paths its owner changed since its scan began, or None
    dirty,      \* history: paths the owner changed since the last sync
    left,       \* history: paths a command that died wrote ahead of `sync`
    crashes     \* commands that died

layerVars == <<world, base, heads, ended>>
baseVars == <<rolling, record>>
dirVars == <<opened, sync, dirty, left>>
vars == <<captureVars, layerVars, baseVars, dirVars, cmd, ready, crashes>>

\* A checkpoint's ID covers its tree and its Stack ancestry.
WorkCheckpoint == [tree: Tree, stacks: 0..MaxHeads]
Idle == [kind |-> "idle", phase |-> "idle"]

Active == heads # <<>> /\ ended = "active"
Latest == heads[Len(heads)]

\* Mutant of Behind: a stacked head is captured like any other.
NeverBehind == FALSE

\* Capture::behind: Stack made the head, and the directory lacks its work.
Behind == Latest.stacked /\ sync # Latest.checkpoint

-----------------------------------------------------------------------------
(* The Layer and the World, moved by any process, and the owner's edits.   *)

CreateLayer ==
    /\ heads = <<>>
    /\ \E v \in 1..world :
          /\ base' = v
          /\ heads' = <<[checkpoint |-> [tree |-> WorldTree[v], stacks |-> 0],
                         stacked |-> FALSE]>>
    /\ UNCHANGED <<captureVars, world, ended, baseVars, dirVars, cmd, ready, crashes>>

AdvanceWorld ==
    /\ world < MaxWorld
    /\ world' = world + 1
    /\ UNCHANGED <<captureVars, base, heads, ended, baseVars, dirVars, cmd, ready, crashes>>

\* commit_stack_resolved moves the head; it takes no workspace lock.
Stack(tree) ==
    /\ Active
    /\ Len(heads) < MaxHeads
    /\ heads' = Append(heads,
                   [checkpoint |-> [tree |-> tree,
                                    stacks |-> Latest.checkpoint.stacks + 1],
                    stacked |-> TRUE])
    /\ UNCHANGED <<captureVars, world, base, ended, baseVars, dirVars, cmd, ready, crashes>>

\* `layer discard` in another process takes no workspace lock either.
DiscardElsewhere ==
    /\ Active
    /\ ended' = "discarded"
    /\ UNCHANGED <<captureVars, world, base, heads, baseVars, dirVars, cmd, ready, crashes>>

OwnerEdits(p, entry) ==
    /\ opened
    /\ Edit(p, entry)
    /\ late' = IF cmd = Idle THEN {} ELSE late \cup {p}
    /\ dirty' = dirty \cup {p}
    /\ ready' = IF ready = None THEN None ELSE ready \cup {p}
    /\ UNCHANGED <<layerVars, baseVars, opened, sync, left, cmd, crashes>>

\* The directory is gone: trashed or removed.
NoDirectory ==
    /\ opened' = FALSE
    /\ disk' = EmptyTree
    /\ stamp' = [p \in Paths |-> 0]
    /\ dirty' = {} /\ left' = {}
    /\ late' = {}

\* The owner deletes the directory by hand; its sync record stays.
OwnerRemovesDirectory ==
    /\ opened
    /\ cmd = Idle
    /\ edits < MaxEdits
    /\ edits' = edits + 1
    /\ NoDirectory
    /\ UNCHANGED <<clock, cache, blobs, scan, layerVars, baseVars, sync, cmd, ready, crashes>>

-----------------------------------------------------------------------------
(* Store::recover, the first thing most commands do.                       *)

Terminal == heads # <<>> /\ ended # "active"

\* A crash mid-advance left the rolling base partial: it is dropped.
DropPartial ==
    IF record # None /\ record.advancing # None
    THEN rolling' = None /\ record' = None
    ELSE UNCHANGED baseVars

\* A terminal Layer's directory goes to trash.
TrashTerminal ==
    IF Terminal /\ opened
    THEN NoDirectory
    ELSE UNCHANGED <<opened, disk, stamp, dirty, left, late>>

RecoverWorkspaces ==
    /\ cmd = Idle
    /\ TrashTerminal
    /\ DropPartial
    /\ UNCHANGED <<clock, edits, cache, blobs, scan, layerVars, sync, cmd, ready, crashes>>

-----------------------------------------------------------------------------
(* The rolling base: ensure_rolling, for `open` and `warm_base`.           *)

\* The base is usable: its record is complete and its directory exists.
Held == record # None /\ rolling # None /\ record.advancing = None

Ensuring == cmd.phase = "ensure"

\* What follows once the rolling base holds version v or a later one.
Ensured(v) ==
    cmd' = IF cmd.kind = "open"
           THEN [kind |-> "open", phase |-> "clone", at |-> v, head |-> cmd.head]
           ELSE Idle

\* warm_base brings the rolling base to the head World; it does not recover.
WarmBase ==
    /\ cmd = Idle
    /\ cmd' = [kind |-> "warm", phase |-> "ensure", version |-> world]
    /\ UNCHANGED <<captureVars, layerVars, baseVars, dirVars, ready, crashes>>

UseRolling ==
    /\ Ensuring
    /\ Held /\ record.version >= cmd.version
    /\ Ensured(record.version)
    /\ UNCHANGED <<captureVars, layerVars, baseVars, dirVars, ready, crashes>>

\* advance_rolling records its target before the first write.
AdvanceBegin ==
    /\ Ensuring
    /\ Held /\ record.version < cmd.version
    /\ record' = [version |-> record.version, advancing |-> cmd.version]
    /\ cmd' = [cmd EXCEPT !.phase = "advance"]
    /\ UNCHANGED <<captureVars, layerVars, rolling, dirVars, ready, crashes>>

Advancing == Diff(WorldTree[record.version], WorldTree[cmd.version])

AdvanceRolling ==
    /\ cmd.phase = "advance"
    /\ rolling' = Apply(rolling, Advancing)
    /\ record' = [version |-> cmd.version, advancing |-> None]
    /\ Ensured(cmd.version)
    /\ UNCHANGED <<captureVars, layerVars, dirVars, ready, crashes>>

\* materialize_rolling drops what is there, builds the World aside, renames
\* it into place and records it.
MaterializeBegin ==
    /\ Ensuring
    /\ ~Held
    /\ rolling' = None /\ record' = None
    /\ cmd' = [cmd EXCEPT !.phase = "materialize"]
    /\ UNCHANGED <<captureVars, layerVars, dirVars, ready, crashes>>

MaterializeRename ==
    /\ cmd.phase = "materialize"
    /\ rolling' = WorldTree[cmd.version]
    /\ cmd' = [cmd EXCEPT !.phase = "record"]
    /\ UNCHANGED <<captureVars, layerVars, record, dirVars, ready, crashes>>

MaterializeRecord ==
    /\ cmd.phase = "record"
    /\ record' = [version |-> cmd.version, advancing |-> None]
    /\ Ensured(cmd.version)
    /\ UNCHANGED <<captureVars, layerVars, rolling, dirVars, ready, crashes>>

-----------------------------------------------------------------------------
(* open_workspace.                                                         *)

\* A directory that exists is returned untouched.
OpenWorkspace ==
    /\ cmd = Idle
    /\ Active /\ ~opened
    /\ DropPartial
    /\ cmd' = [kind |-> "open", phase |-> "ensure", version |-> base, head |-> Latest]
    /\ UNCHANGED <<captureVars, layerVars, dirVars, ready, crashes>>

\* Mutant of Cloned: the clone is not rewound.
ClonedAhead == Apply(rolling, Diff(WorldTree[base], cmd.head.checkpoint.tree))

\* The clone of the rolling base, rewound to the Layer's World when the base
\* is ahead of it, with the checkpoint's changes applied.
Cloned ==
    LET rewound == IF cmd.at > base
                   THEN Apply(rolling, Diff(WorldTree[cmd.at], WorldTree[base]))
                   ELSE rolling
    IN  Apply(rewound, Diff(WorldTree[base], cmd.head.checkpoint.tree))

\* The staged directory is renamed into place.
OpenRename ==
    /\ cmd.phase = "clone"
    /\ opened' = TRUE
    /\ disk' = Cloned
    /\ \E t \in Stamp :
          /\ clock - Lag <= t /\ t <= clock
          /\ stamp' = [p \in Paths |-> IF Cloned[p] = Absent THEN 0 ELSE t]
    /\ cmd' = [kind |-> "open", phase |-> "sync", checkpoint |-> cmd.head.checkpoint]
    /\ UNCHANGED <<clock, edits, cache, blobs, scan, late, layerVars, baseVars, sync,
                   dirty, left, ready, crashes>>

OpenSync ==
    /\ cmd.kind = "open" /\ cmd.phase = "sync"
    /\ sync' = cmd.checkpoint
    /\ cmd' = Idle
    /\ UNCHANGED <<captureVars, layerVars, baseVars, opened, dirty, left, ready, crashes>>

-----------------------------------------------------------------------------
(* capture_workspace, which most commands run first.                       *)

\* The scan's steps leave everything else alone.
ScanStep ==
    /\ ScanWalk \/ ScanRead
    /\ UNCHANGED <<layerVars, baseVars, dirVars, cmd, ready, crashes>>

\* A directory that is behind is not scanned.  `publishes` marks the capture
\* that `workspace publish` starts with.
CaptureBegin(publishes) ==
    /\ cmd = Idle
    /\ opened /\ Active /\ ~Behind
    /\ publishes => ready = None
    /\ ScanBegin(Latest.checkpoint.tree)
    /\ cmd' = [kind |-> "capture", phase |-> "scan", head |-> Latest,
               publishes |-> publishes]
    /\ UNCHANGED <<layerVars, baseVars, dirVars, ready, crashes>>

Captured == [tree |-> scan.entries, stacks |-> cmd.head.checkpoint.stacks]

\* capture_layer compares and sets the head; a stale capture changes nothing.
\* A publishing command goes on only with every file certain.
CaptureCommit ==
    /\ cmd.kind = "capture" /\ cmd.phase = "scan"
    /\ scan.phase = "saved"
    /\ LET unchanged == Captured = cmd.head.checkpoint
           current == Active /\ Latest = cmd.head
       IN  /\ ~unchanged /\ current => Len(heads) < MaxHeads
           /\ heads' = IF ~unchanged /\ current
                       THEN Append(heads, [checkpoint |-> Captured, stacked |-> FALSE])
                       ELSE heads
           /\ cmd' = IF unchanged \/ current
                     THEN [kind |-> "capture", phase |-> "sync", checkpoint |-> Captured,
                           publishes |-> cmd.publishes /\ scan.uncertain = {},
                           hidden |-> {p \in Paths : Hidden(scan.prior, p)}]
                     ELSE Idle
           /\ late' = IF unchanged \/ current THEN late ELSE {}
    /\ scan' = None
    /\ UNCHANGED <<clock, disk, stamp, edits, cache, blobs, world, base, ended, baseVars,
                   dirVars, ready, crashes>>

\* capture_directory of any other root (`checkpoint --path`), which holds the
\* lock throughout, so what it finds is committed against the head it read or
\* not at all.  The gate asks for the sync record of the Layer's own
\* directory, and that record does not move.  The scan cache is the Layer's,
\* and what it then holds of other files matches none of the directory's.
\* Finding no difference costs no more than the cache, which ScanBegin may
\* find lost at any time.
CaptureElsewhere(tree) ==
    LET found == [p \in Paths |-> IF Hidden(Latest.checkpoint.tree, p) THEN Absent
                                                                     ELSE tree[p]]
    IN  /\ cmd = Idle
        /\ Active /\ ~Behind
        /\ found # Latest.checkpoint.tree
        /\ Len(heads) < MaxHeads
        /\ heads' = Append(heads, [checkpoint |-> [tree |-> found,
                                                   stacks |-> Latest.checkpoint.stacks],
                                   stacked |-> FALSE])
        /\ blobs' = blobs \cup ({found[p] : p \in Paths} \ {Absent})
        /\ cache' = EmptyCache
        /\ UNCHANGED <<clock, disk, stamp, edits, scan, late, world, base, ended,
                       baseVars, dirVars, cmd, ready, crashes>>

\* capture_synced records that the directory matches the captured head.  An
\* ignored file that the head does not track is the owner's.
CaptureSync ==
    /\ cmd.kind = "capture" /\ cmd.phase = "sync"
    /\ sync' = cmd.checkpoint
    /\ dirty' = (dirty \cap (late \cup cmd.hidden)) \cup {p \in cmd.hidden : disk[p] # Absent}
    /\ left' = left \cap (late \cup cmd.hidden)
    /\ ready' = IF cmd.publishes THEN late ELSE ready
    /\ cmd' = Idle /\ late' = {}
    /\ UNCHANGED <<clock, disk, stamp, edits, cache, blobs, scan, layerVars, baseVars, opened,
                   crashes>>

-----------------------------------------------------------------------------
(* refresh_workspace_resolved.                                             *)

RefreshBegin ==
    /\ cmd = Idle
    /\ Active /\ opened
    /\ sync # None /\ sync # Latest.checkpoint
    /\ ScanBegin(sync.tree)
    /\ DropPartial
    /\ cmd' = [kind |-> "refresh", phase |-> "scan", head |-> Latest.checkpoint]
    /\ UNCHANGED <<layerVars, dirVars, ready, crashes>>

\* Manifest::renames_to: the only removed path with an entry became the only
\* added path with it.
Renamed(from, to, p, q) ==
    /\ from[p] # Absent
    /\ {r \in Paths : from[r] = from[p] /\ to[r] = Absent} = {p}
    /\ {r \in Paths : to[r] = from[p] /\ from[r] = Absent} = {q}

\* plan, with the paths still changing and the paths renamed two ways: the
\* paths on which the local edits and the head disagree.
Disagreements(from, local, head, uncertain) ==
    {p \in Moved(from, local) \cap Moved(from, head) : local[p] # head[p]}
      \cup {p \in Moved(from, local) :
              local[p] # Absent /\ \E q \in Ancestors[p] \cap Moved(from, head) : head[q] # Absent}
      \cup (uncertain \cap Moved(from, head))
      \cup UNION {{pair[1], pair[2]} : pair \in
              {two \in Paths \X Paths :
                 /\ two[1] # two[2]
                 /\ \E p \in Paths : Renamed(from, local, p, two[1])
                                       /\ Renamed(from, head, p, two[2])}}

\* Head changes of paths the directory holds as synced.
Unopposed(from, local, head, conflicts) ==
    LET paths == Moved(from, head) \ (Moved(from, local) \cup conflicts)
    IN  [p \in paths |-> head[p]]

Gone(apply) == {p \in DOMAIN apply : apply[p] = Absent}
Writes(apply) == {p \in (DOMAIN apply) \ Gone(apply) : Ancestors[p] \cap Gone(apply) = {}}

\* blocked: a write would have to replace a directory that the removals do not
\* empty, or go through a file, which lists both.
Blocked(apply) ==
    {p \in Writes(apply) : IsDir(disk, p) /\ ~(FilesUnder(disk, p) \subseteq Gone(apply))}
      \cup UNION {{pair[1], pair[2]} : pair \in
              {two \in Paths \X Paths :
                 two[1] \in Writes(apply) /\ two[2] \in Ancestors[two[1]]
                   /\ disk[two[2]] # Absent}}

\* Mutant of Occupied: files the scan did not see are replaced.
OccupiedNever(local, apply) == {}

\* Mutant of Occupied: a write that an interrupted refresh made counts too.
OccupiedStrict(local, apply) ==
    {p \in Writes(apply) : local[p] = Absent /\ disk[p] # Absent}

\* occupied: a write would replace a file the scan did not see.  A file that
\* holds the head's entry is the write of an interrupted refresh.
Occupied(local, apply) ==
    {p \in Writes(apply) : local[p] = Absent /\ disk[p] \notin {Absent, apply[p]}}

\* Paths in `overwrite` may be replaced.
Structural(local, apply, overwrite) ==
    Blocked(apply) \cup (Occupied(local, apply) \ overwrite)

\* Head writes a choice may still take count as applied.
Candidate(apply, conflicts, from, head) ==
    LET more == {p \in Moved(from, head) \cap conflicts : head[p] # Absent}
    IN  [p \in (DOMAIN apply) \cup more |-> IF p \in more THEN head[p] ELSE apply[p]]

\* The plan under the owner's choices: `keep` are the paths kept as they
\* are, `take` the paths replaced by the head's entry or a supplied one.
\* Keeping a path cancels the head's writes below it.
ResolvedApply(apply, keep, take) ==
    LET cancelled == {p \in DOMAIN apply : Ancestors[p] \cap keep # {}}
        rest == (DOMAIN apply) \ (keep \cup cancelled)
    IN  [p \in rest \cup DOMAIN take |-> IF p \in DOMAIN take THEN take[p] ELSE apply[p]]

ResolvedConflicts(conflicts, keep, take) ==
    {p \in conflicts \ (keep \cup DOMAIN take) : Ancestors[p] \cap keep = {}}

\* Every conflict of a refresh whose scan found `local`, before any choice.
Known(from, local, head, uncertain) ==
    LET conflicts == Disagreements(from, local, head, uncertain)
        apply == Unopposed(from, local, head, conflicts)
    IN  conflicts \cup Structural(local, Candidate(apply, conflicts, from, head), {})

\* A choice names a conflicting path; anything left refuses the refresh
\* before the first write.
RefreshPlan ==
    /\ cmd.kind = "refresh" /\ cmd.phase = "scan"
    /\ scan.phase = "saved"
    /\ LET from == scan.prior
           head == cmd.head.tree
           local == scan.entries
           conflicts == Disagreements(from, local, head, scan.uncertain)
           apply == Unopposed(from, local, head, conflicts)
           known == Known(from, local, head, scan.uncertain)
       IN  \E keep \in SUBSET known : \E taken \in SUBSET (known \ keep) :
           \E take \in [taken -> Entries] :
             LET plan == ResolvedApply(apply, keep, take)
                 open == ResolvedConflicts(conflicts, keep, take)
             IN  /\ \A p \in taken : take[p] \in {head[p]} \cup Supplied
                 /\ cmd' = IF open \cup Structural(local, Candidate(plan, open, from, head), taken) = {}
                           THEN [kind |-> "refresh", phase |-> "write", head |-> cmd.head,
                                 todo |-> plan, taken |-> taken,
                                 kept |-> {p \in Paths : ({p} \cup Ancestors[p]) \cap keep # {}}]
                           ELSE Idle
    /\ scan' = None
    /\ late' = IF cmd' = Idle THEN {} ELSE late
    /\ UNCHANGED <<clock, disk, stamp, edits, cache, blobs, layerVars, baseVars, dirVars,
                   ready, crashes>>

\* One path is removed or replaced by rename.  Removals come first.  A path
\* in the way of the owner's making ends the command.
RefreshWrite(p) ==
    /\ cmd.kind = "refresh" /\ cmd.phase = "write"
    /\ p \in DOMAIN cmd.todo
    /\ ~IsDir(disk, p)
    /\ IF cmd.todo[p] = Absent
       THEN disk[p] # Absent \/ \A q \in Ancestors[p] : disk[q] = Absent
       ELSE /\ \A q \in Ancestors[p] : disk[q] = Absent
            /\ \A q \in DOMAIN cmd.todo : cmd.todo[q] # Absent
    /\ disk' = [disk EXCEPT ![p] = cmd.todo[p]]
    /\ Stamped(p, cmd.todo[p])
    /\ cmd' = [cmd EXCEPT !.todo = [q \in (DOMAIN cmd.todo) \ {p} |-> cmd.todo[q]]]
    /\ ready' = IF ready # None /\ p \in cmd.taken THEN ready \cup {p} ELSE ready
    /\ UNCHANGED <<clock, edits, cache, blobs, scan, late, layerVars, baseVars, dirVars,
                   crashes>>

\* The sync record moves last.
RefreshSync ==
    /\ cmd.kind = "refresh" /\ cmd.phase = "write"
    /\ DOMAIN cmd.todo = {}
    /\ sync' = cmd.head
    /\ dirty' = dirty \cup cmd.kept \cup cmd.taken
    /\ left' = {p \in left : disk[p] # cmd.head.tree[p]}
    /\ cmd' = Idle /\ late' = {}
    /\ UNCHANGED <<clock, disk, stamp, edits, cache, blobs, scan, layerVars, baseVars, opened,
                   ready, crashes>>

-----------------------------------------------------------------------------
(* publish_workspace and discard_workspace: the database first, then the   *)
(* directory.                                                              *)

\* A Layer without a directory publishes its latest checkpoint.
PublishUnopened ==
    /\ cmd = Idle
    /\ Active /\ ~opened /\ ready = None
    /\ ready' = {}
    /\ UNCHANGED <<captureVars, layerVars, baseVars, dirVars, cmd, crashes>>

PublishWorkspace ==
    /\ cmd = Idle
    /\ ready # None /\ Active
    /\ world < MaxWorld
    /\ world' = world + 1
    /\ ended' = "published"
    /\ cmd' = [kind |-> "end", phase |-> "reclaim"]
    /\ UNCHANGED <<captureVars, base, heads, baseVars, dirVars, ready, crashes>>

\* The publishing process dies before its Publish, or is refused.
PublishAbandoned ==
    /\ cmd = Idle
    /\ ready # None /\ Active
    /\ ready' = None
    /\ UNCHANGED <<captureVars, layerVars, baseVars, dirVars, cmd, crashes>>

DiscardWorkspace ==
    /\ cmd = Idle
    /\ Active
    /\ ended' = "discarded"
    /\ cmd' = [kind |-> "end", phase |-> "reclaim"]
    /\ UNCHANGED <<captureVars, world, base, heads, baseVars, dirVars, ready, crashes>>

\* The directory goes to trash, and recovery runs.
Reclaim ==
    /\ cmd.phase = "reclaim"
    /\ TrashTerminal
    /\ DropPartial
    /\ cmd' = Idle
    /\ ready' = None
    /\ UNCHANGED <<clock, edits, cache, blobs, scan, layerVars, sync, crashes>>

-----------------------------------------------------------------------------

\* The command dies or fails.  An advance may have applied any part of its
\* changes; a drop may have moved the base and not yet its record.
Crash ==
    /\ cmd # Idle
    /\ crashes < MaxCrashes
    /\ crashes' = crashes + 1
    /\ cmd' = Idle
    /\ scan' = None /\ late' = {}
    /\ CASE cmd.phase = "advance" ->
              \E done \in SUBSET DOMAIN Advancing :
                 rolling' = Apply(rolling, [p \in done |-> Advancing[p]])
         [] cmd.phase = "ensure" /\ ~Held -> rolling' \in {rolling, None}
         [] OTHER -> rolling' = rolling
    /\ left' = CASE cmd.kind = "open" /\ cmd.phase = "sync" -> Paths
                 [] cmd.kind = "refresh" -> left \cup {p \in Paths : disk[p] # sync.tree[p]}
                 [] OTHER -> left
    /\ UNCHANGED <<clock, disk, stamp, edits, cache, blobs, layerVars, record, opened,
                   sync, dirty, ready>>

Init ==
    /\ clock = 0 /\ disk = EmptyTree /\ stamp = [p \in Paths |-> 0] /\ edits = 0
    /\ cache = EmptyCache /\ scan = None /\ late = {}
    /\ blobs = {t[p] : t \in {WorldTree[v] : v \in 1..MaxWorld} \cup StackTrees,
                       p \in Paths} \ {Absent}
    /\ world = 1 /\ base = 1 /\ heads = <<>> /\ ended = "active"
    /\ opened = FALSE /\ sync = None /\ dirty = {} /\ left = {}
    /\ rolling = None /\ record = None
    /\ cmd = Idle /\ ready = None /\ crashes = 0

\* Only scans tell the time, and none begins without a directory or after the
\* Layer ended.
TimePasses ==
    /\ opened /\ Active
    /\ Tick
    /\ UNCHANGED <<layerVars, baseVars, dirVars, cmd, ready, crashes>>

Next ==
    \/ CreateLayer \/ AdvanceWorld \/ DiscardElsewhere
    \/ \E tree \in StackTrees : Stack(tree)
    \/ \E p \in Paths, entry \in Entries : OwnerEdits(p, entry)
    \/ OwnerRemovesDirectory
    \/ TimePasses
    \/ RecoverWorkspaces
    \/ WarmBase \/ UseRolling \/ AdvanceBegin \/ AdvanceRolling
    \/ MaterializeBegin \/ MaterializeRename \/ MaterializeRecord
    \/ OpenWorkspace \/ OpenRename \/ OpenSync
    \/ \E publishes \in BOOLEAN : CaptureBegin(publishes)
    \/ ScanStep \/ CaptureCommit \/ CaptureSync
    \/ \E tree \in OtherTrees : CaptureElsewhere(tree)
    \/ RefreshBegin \/ RefreshPlan \/ RefreshSync
    \/ \E p \in Paths : RefreshWrite(p)
    \/ PublishUnopened \/ PublishWorkspace \/ PublishAbandoned
    \/ DiscardWorkspace \/ Reclaim
    \/ Crash

Spec == Init /\ [][Next]_vars

-----------------------------------------------------------------------------
(* Properties.                                                             *)

\* A capture or refresh recorded the entry at some time, so the Layer's
\* history still has it.
Recorded(p, entry) ==
    \E i \in DOMAIN heads : heads[i].checkpoint.tree[p] = entry

\* Between commands a path holds what the sync record says unless the owner
\* edited it, and where a refresh or an open was interrupted it holds what
\* some head says or the owner supplied: no partial base, rewind or crash
\* shows through.
DirectoryMatches ==
    opened /\ cmd = Idle =>
       \A p \in Paths \ dirty :
          IF p \in left
          THEN \/ disk[p] \in Supplied
               \/ \E i \in DOMAIN heads : disk[p] = heads[i].checkpoint.tree[p]
          ELSE sync # None /\ disk[p] = sync.tree[p]

KeepsEdits ==
    \A p \in Paths :
       disk'[p] # disk[p] /\ edits' = edits =>
          \/ ~opened
          \/ p \in late
          \/ Recorded(p, disk[p])
          \/ opened' /\ p \in cmd.taken
          \/ ~opened' /\ (ended = "discarded" \/ p \in Ignored \/ (ready # None /\ p \in ready))

\* No command loses an edit made before its scan, however it interleaves
\* with Stack, other processes and crashes: what it overwrites or reclaims
\* is in the Layer's history, or the owner chose to replace it.  Discard and
\* untracked ignored files are the documented exceptions.
EditsKept == [][KeepsEdits]_vars

\* The newest change of path p's entry came with a capture, not with Stack.
BroughtByCapture(p) ==
    \E j \in 2..Len(heads) :
       /\ ~heads[j].stacked
       /\ heads[j].checkpoint.tree[p] # heads[j - 1].checkpoint.tree[p]
       /\ \A k \in j..Len(heads) : heads[k].checkpoint.tree[p] = Latest.checkpoint.tree[p]

CapturesOnly(paths) ==
    \A i \in (DOMAIN heads') \ DOMAIN heads :
       i > 1 /\ ~heads'[i].stacked =>
          Moved(heads[i - 1].checkpoint.tree, heads'[i].checkpoint.tree) \subseteq paths

\* A capture of the Layer's own directory changes only what the owner changed,
\* what an interrupted refresh left, or what a capture, of another directory,
\* brought: it never reverts work that Stack put into the head and the
\* directory lacks.
CaptureKeepsStacked ==
    [][cmd # Idle => CapturesOnly(dirty \cup left \cup {p \in Paths : BroughtByCapture(p)})]_vars

\* docs/cli.md: the directory "does not receive the stacked work, and capture
\* never reverts it".
CaptureNeverReverts == [][CapturesOnly(dirty)]_vars

\* "Re-running after an interruption converges": where every file is as synced
\* or as in the head, whatever an earlier refresh left half done, a refresh
\* finds no conflict.
RefreshConverges ==
    opened /\ Active /\ sync # None /\ cmd = Idle =>
       LET head == Latest.checkpoint.tree
           local == [p \in Paths |-> IF Hidden(sync.tree, p) THEN Absent ELSE disk[p]]
       IN  (\A p \in Paths : disk[p] \in {sync.tree[p], head[p]}) =>
              Known(sync.tree, local, head, {}) = {}
=============================================================================
