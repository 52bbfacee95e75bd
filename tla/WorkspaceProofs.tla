-------------------------- MODULE WorkspaceProofs --------------------------
(***************************************************************************)
(* Layer directories: the scan misses no edit, a directory holds what its  *)
(* sync record says whatever was interrupted, and capture, refresh and     *)
(* publication lose neither the owner's edits nor Stack's work.            *)
(***************************************************************************)
EXTENDS Workspace, FileTreesProofs

-----------------------------------------------------------------------------
(* The inductive invariant: files, history and marks.                      *)

WCheckpoint == [tree: Tree, stacks: Nat]
LayerHead == [checkpoint: WCheckpoint, stacked: BOOLEAN]

\* A snapshot the repository stores.
Stored(t) ==
    /\ t \in Tree /\ WellFormed(t)
    /\ \A p \in Paths : t[p] \in blobs \cup {Absent}

\* A trusted entry has a change time that no later write can carry, so a file
\* that still carries it has the cached entry.
CachedOK(p, c) ==
    /\ c.entry \in blobs
    /\ c.trusted =>
          /\ c.stat \in Nat /\ c.stat + Lag < clock
          /\ disk[p] # Absent /\ stamp[p] = c.stat => disk[p] = c.entry

FilesOK ==
    /\ clock \in Nat
    /\ disk \in Tree /\ WellFormed(disk)
    /\ stamp \in [Paths -> Nat] /\ edits \in Nat
    /\ blobs \subseteq Contents
    /\ \A p \in Paths : cache[p] # None => CachedOK(p, cache[p])

\* A checkpoint some head of the Layer has.
IsHead(c) == \E i \in DOMAIN heads : heads[i].checkpoint = c

HistoryOK ==
    /\ world \in 1..MaxWorld /\ base \in 1..MaxWorld
    /\ heads \in Seq(LayerHead)
    /\ \A i \in DOMAIN heads : Stored(heads[i].checkpoint.tree)
    /\ \A v \in 1..MaxWorld : Stored(WorldTree[v])
    /\ \A t \in StackTrees : Stored(t)
    /\ sync # None => IsHead(sync)
    /\ ended \in {"active", "published", "discarded"}

MarksOK ==
    /\ late \subseteq dirty /\ dirty \subseteq Paths /\ left \subseteq Paths
    /\ ready # None => ready \subseteq Paths
    /\ IF opened THEN heads # <<>> ELSE dirty = {} /\ left = {}

-----------------------------------------------------------------------------
(* The rolling base and the commands that build it.                        *)

Running(kind, phase) == cmd.kind = kind /\ cmd.phase = phase

Building == {"ensure", "advance", "materialize", "record"}

\* A complete rolling base is the World its record names.
BaseOK ==
    Held => record.version \in 1..MaxWorld /\ rolling = WorldTree[record.version]

\* No command but Stack, in another process, moved the head.
HeadStays(c) == Latest.stacked \/ Latest.checkpoint = c

OpenOK ==
    /\ ~opened /\ heads # <<>> /\ ended # "published"
    /\ cmd.head \in LayerHead /\ IsHead(cmd.head.checkpoint) /\ HeadStays(cmd.head.checkpoint)

\* A command that ensures the rolling base, up to its clone.
BuildOK ==
    /\ cmd.phase \in Building =>
          /\ cmd.version \in 1..MaxWorld
          /\ \/ cmd.kind = "warm" /\ cmd = [kind |-> "warm", phase |-> cmd.phase, version |-> cmd.version]
             \/ /\ cmd.kind = "open"
                /\ cmd = [kind |-> "open", phase |-> cmd.phase, version |-> cmd.version,
                          head |-> cmd.head]
                /\ cmd.version = base /\ OpenOK
    /\ cmd.phase = "advance" =>
          /\ record.version \in 1..MaxWorld /\ rolling = WorldTree[record.version]
          /\ record.advancing = cmd.version
    /\ cmd.phase = "materialize" => record = None
    /\ cmd.phase = "record" => record = None /\ rolling = WorldTree[cmd.version]
    /\ cmd.phase = "clone" =>
          /\ cmd = [kind |-> "open", phase |-> "clone", at |-> cmd.at, head |-> cmd.head]
          /\ cmd.at \in 1..MaxWorld /\ cmd.at >= base /\ rolling = WorldTree[cmd.at]
          /\ OpenOK

-----------------------------------------------------------------------------
(* The scan.                                                               *)

\* No file of the directory has a path of `found` above it, unless edited.
Clear(found) ==
    \A p \in Paths \ late : disk[p] # Absent => Ancestors[p] \cap found = {}

WalkedOK ==
    /\ DOMAIN scan.stat \subseteq Paths
    /\ \A p \in DOMAIN scan.stat : scan.stat[p] \in Nat
    /\ \A p, q \in DOMAIN scan.stat : ~Below(p, q)
    /\ \A p \in Paths \ late :
          /\ p \in DOMAIN scan.stat <=> disk[p] # Absent /\ ~Hidden(scan.prior, p)
          /\ p \in DOMAIN scan.stat => scan.stat[p] = stamp[p]
    /\ Clear(DOMAIN scan.stat)

SavedOK ==
    /\ Stored(scan.entries)
    /\ scan.uncertain \subseteq Paths
    /\ \A p \in Paths \ late :
          /\ scan.entries[p] = IF Hidden(scan.prior, p) THEN Absent ELSE disk[p]
          /\ p \notin scan.uncertain
    /\ Clear(scan.uncertain \cup {p \in Paths : scan.entries[p] # Absent})

ScanOK ==
    IF cmd.phase = "scan"
    THEN /\ scan.phase \in {"begun", "walked", "saved"}
         /\ Stored(scan.prior)
         /\ scan.phase # "saved" => scan.racy \in Int /\ scan.racy + Lag <= clock
         /\ scan.phase = "walked" => WalkedOK
         /\ scan.phase = "saved" => SavedOK
    ELSE scan = None

-----------------------------------------------------------------------------
(* The commands that work on the directory.                                *)

FromHead(p) == \E i \in DOMAIN heads : disk[p] = heads[i].checkpoint.tree[p]

\* A path the owner did not change is as synced, or as it was left.
Matches(p) ==
    IF p \in left THEN disk[p] \in Supplied \/ FromHead(p)
    ELSE sync # None /\ disk[p] = sync.tree[p]

OpenSyncOK ==
    /\ cmd = [kind |-> "open", phase |-> "sync", checkpoint |-> cmd.checkpoint]
    /\ left = {} /\ IsHead(cmd.checkpoint) /\ HeadStays(cmd.checkpoint)
    /\ ended # "published"
    /\ \A p \in Paths \ dirty : disk[p] = cmd.checkpoint.tree[p]

CaptureScanOK ==
    /\ cmd = [kind |-> "capture", phase |-> "scan", head |-> cmd.head,
              publishes |-> cmd.publishes]
    /\ cmd.head \in LayerHead /\ cmd.publishes \in BOOLEAN
    /\ IsHead(cmd.head.checkpoint) /\ HeadStays(cmd.head.checkpoint)
    /\ scan.prior = cmd.head.checkpoint.tree
    /\ \A p \in Paths \ (dirty \cup left) :
          /\ sync # None
          /\ \/ sync.tree[p] = scan.prior[p]
             \/ ~cmd.head.stacked /\ (Latest = cmd.head => BroughtByCapture(p))

CaptureSyncOK ==
    /\ cmd = [kind |-> "capture", phase |-> "sync", checkpoint |-> cmd.checkpoint,
              publishes |-> cmd.publishes, hidden |-> cmd.hidden]
    /\ IsHead(cmd.checkpoint) /\ HeadStays(cmd.checkpoint)
    /\ cmd.hidden \subseteq Ignored
    /\ \A p \in Paths \ (late \cup cmd.hidden) : disk[p] = cmd.checkpoint.tree[p]
    /\ \A p \in cmd.hidden \ late : cmd.checkpoint.tree[p] = Absent

RefreshScanOK ==
    /\ cmd = [kind |-> "refresh", phase |-> "scan", head |-> cmd.head]
    /\ sync # None /\ IsHead(cmd.head) /\ HeadStays(cmd.head)
    /\ scan.prior = sync.tree

RefreshWriteOK ==
    /\ cmd = [kind |-> "refresh", phase |-> "write", head |-> cmd.head, todo |-> cmd.todo,
              taken |-> cmd.taken, kept |-> cmd.kept]
    /\ sync # None /\ IsHead(cmd.head) /\ HeadStays(cmd.head)
    /\ cmd.todo \in Changes /\ cmd.taken \subseteq Paths /\ cmd.kept \subseteq Paths
    /\ \A p \in DOMAIN cmd.todo :
          /\ cmd.todo[p] # cmd.head.tree[p] => p \in cmd.taken /\ cmd.todo[p] \in Supplied
          /\ p \notin late \cup cmd.taken => Recorded(p, disk[p])
    /\ \A p \in Paths \ (dirty \cup cmd.kept \cup cmd.taken) :
          p \in DOMAIN cmd.todo \/ disk[p] = cmd.head.tree[p] \/ (p \in left /\ Matches(p))
    /\ \A p \in Paths \ dirty :
          Matches(p) \/ disk[p] = cmd.head.tree[p] \/ disk[p] \in Supplied

\* A command that works on the directory.
RunOK ==
    /\ \/ cmd = Idle
       \/ cmd.kind \in {"open", "warm"} /\ cmd.phase \in Building
       \/ Running("open", "clone") \/ Running("open", "sync")
       \/ Running("capture", "scan") \/ Running("capture", "sync")
       \/ Running("refresh", "scan") \/ Running("refresh", "write")
       \/ cmd = [kind |-> "end", phase |-> "reclaim"] /\ Terminal
    /\ Running("open", "sync") => opened /\ OpenSyncOK
    /\ Running("capture", "scan") => opened /\ CaptureScanOK
    /\ Running("capture", "sync") => opened /\ CaptureSyncOK
    /\ Running("refresh", "scan") => opened /\ RefreshScanOK
    /\ Running("refresh", "write") => opened /\ RefreshWriteOK

\* The directory is being written, or not yet synced.
Unsynced == Running("open", "sync") \/ Running("refresh", "write")

MatchesOK == opened /\ ~Unsynced => \A p \in Paths \ dirty : Matches(p)

\* What a captured head has and the directory lacks is the owner's to capture,
\* or came with a capture of another directory.
HeadSyncOK ==
    opened /\ ~Running("open", "sync") /\ ~Latest.stacked =>
       \A p \in Paths \ (dirty \cup left) :
          /\ sync # None
          /\ sync.tree[p] = Latest.checkpoint.tree[p] \/ BroughtByCapture(p)

\* What a publication is about to trash is in the Layer's history.
ReadyOK ==
    /\ ready # None /\ opened => \A p \in Paths \ (ready \cup Ignored) : Recorded(p, disk[p])
    /\ ended = "published" /\ opened => ready # None

WorkspaceInv ==
    /\ FilesOK /\ HistoryOK /\ MarksOK /\ BaseOK /\ BuildOK /\ ScanOK
    /\ RunOK /\ MatchesOK /\ HeadSyncOK /\ ReadyOK

-----------------------------------------------------------------------------
(* What a step that leaves its variables alone preserves.                  *)

\* FilesOK is about the directory, the cache and the stored blobs.
LEMMA FilesFrame ==
    FilesOK /\ UNCHANGED <<clock, disk, stamp, edits, blobs, cache>> => FilesOK'
BY DEF FilesOK, CachedOK

\* HistoryOK is about the Layer, the World and the sync record.
LEMMA HistoryFrame ==
    HistoryOK /\ UNCHANGED <<world, base, heads, ended, blobs, sync>> => HistoryOK'
BY DEF HistoryOK, Stored, IsHead

\* MarksOK is about what the owner and dead commands wrote.
LEMMA MarksFrame ==
    MarksOK /\ UNCHANGED <<late, dirty, left, ready, opened, heads>> => MarksOK'
BY DEF MarksOK

\* BaseOK is about the rolling base and its record.
LEMMA BaseFrame ==
    BaseOK /\ UNCHANGED <<rolling, record>> => BaseOK'
BY DEF BaseOK, Held

\* BuildOK is about ensure_rolling's and open_workspace's steps.
LEMMA BuildFrame ==
    BuildOK /\ UNCHANGED <<cmd, rolling, record, base, opened, heads, ended>> => BuildOK'
BY DEF BuildOK, Building, OpenOK, IsHead, HeadStays, Latest

\* ScanOK is about the scan and what it reads.
LEMMA ScanFrame ==
    ScanOK /\ UNCHANGED <<cmd, scan, late, disk, stamp, clock, blobs>> => ScanOK'
BY DEF ScanOK, WalkedOK, SavedOK, Clear, Stored, Hidden

\* RunOK is about the command and the directory it works on.
LEMMA RunFrame ==
    RunOK /\ UNCHANGED <<cmd, heads, ended, opened, dirty, left, late, disk, sync, scan>>
      => RunOK'
BY DEF RunOK, Running, Idle, Building, Terminal, OpenSyncOK, CaptureScanOK, BroughtByCapture, CaptureSyncOK,
       RefreshScanOK, RefreshWriteOK, IsHead, HeadStays, Latest, Recorded, Matches, FromHead

\* MatchesOK is about the directory and its sync record.
LEMMA MatchesFrame ==
    MatchesOK /\ UNCHANGED <<opened, cmd, disk, dirty, left, sync, heads>> => MatchesOK'
BY DEF MatchesOK, Unsynced, Running, Matches, FromHead

\* HeadSyncOK is about the sync record and the head.
LEMMA HeadSyncFrame ==
    HeadSyncOK /\ UNCHANGED <<opened, cmd, heads, dirty, left, sync>> => HeadSyncOK'
BY DEF HeadSyncOK, BroughtByCapture, Running, Latest

\* ReadyOK is about the directory that `workspace publish` will trash.
LEMMA ReadyFrame ==
    ReadyOK /\ UNCHANGED <<ready, opened, disk, heads, ended>> => ReadyOK'
BY DEF ReadyOK, Recorded

-----------------------------------------------------------------------------
(* The Layer's heads.                                                      *)

\* The latest head is one of the heads.
LEMMA LatestIsHead ==
    ASSUME HistoryOK, heads # <<>>
    PROVE  /\ Latest \in LayerHead /\ IsHead(Latest.checkpoint)
           /\ Len(heads) \in DOMAIN heads /\ Latest = heads[Len(heads)]
BY DEF HistoryOK, Latest, IsHead

\* The repository stores what a head names.
LEMMA HeadStored ==
    ASSUME HistoryOK, NEW c, IsHead(c)
    PROVE  c \in WCheckpoint /\ Stored(c.tree)
<1>1. heads \in Seq(LayerHead) /\ \A i \in DOMAIN heads : Stored(heads[i].checkpoint.tree)
  BY DEF HistoryOK
<1>2. PICK i \in DOMAIN heads : heads[i].checkpoint = c
  BY DEF IsHead
<1>3. heads[i] \in LayerHead
  BY <1>1, <1>2
<1>4. QED
  BY <1>1, <1>2, <1>3 DEF LayerHead

\* Heads the Layer has before a step, it has after.
HeadsStay == \A i \in DOMAIN heads : i \in DOMAIN heads' /\ heads'[i] = heads[i]

\* A new head is the latest, and the others stay.
LEMMA HeadsGrow ==
    ASSUME HistoryOK, NEW h \in LayerHead, heads' = Append(heads, h)
    PROVE  /\ heads' \in Seq(LayerHead) /\ heads' # <<>>
           /\ HeadsStay /\ Latest' = h
           /\ DOMAIN heads' = DOMAIN heads \cup {Len(heads) + 1}
           /\ heads'[Len(heads) + 1] = h /\ IsHead(h.checkpoint)'
<1>1. heads \in Seq(LayerHead)
  BY DEF HistoryOK
<1>2. /\ heads' \in Seq(LayerHead) /\ Len(heads') = Len(heads) + 1
      /\ heads'[Len(heads) + 1] = h
      /\ \A i \in 1..Len(heads) : heads'[i] = heads[i]
  BY <1>1
<1>3. DOMAIN heads = 1..Len(heads) /\ DOMAIN heads' = 1..Len(heads') /\ Len(heads) \in Nat
  BY <1>1, <1>2
<1>4. heads' # <<>> /\ DOMAIN heads' = DOMAIN heads \cup {Len(heads) + 1} /\ HeadsStay
  BY <1>2, <1>3 DEF HeadsStay
<1>5. Latest' = h /\ IsHead(h.checkpoint)'
  BY <1>2, <1>3 DEF Latest, IsHead
<1>6. QED
  BY <1>2, <1>4, <1>5

\* An entry that a capture brought stays so in a head that does not change it.
LEMMA StillBrought ==
    ASSUME HistoryOK, heads # <<>>, NEW h \in LayerHead, heads' = Append(heads, h),
           NEW p, h.checkpoint.tree[p] = Latest.checkpoint.tree[p], BroughtByCapture(p)
    PROVE  BroughtByCapture(p)'
<1>1. heads \in Seq(LayerHead) /\ Len(heads) \in Nat
  BY DEF HistoryOK
<1>2. /\ Len(heads') = Len(heads) + 1 /\ heads'[Len(heads) + 1] = h
      /\ \A i \in 1..Len(heads) : heads'[i] = heads[i]
  BY <1>1
<1>3. Latest' = h
  BY <1>1, <1>2 DEF Latest
<1>4. PICK j \in 2..Len(heads) :
         /\ ~heads[j].stacked
         /\ heads[j].checkpoint.tree[p] # heads[j - 1].checkpoint.tree[p]
         /\ \A k \in j..Len(heads) : heads[k].checkpoint.tree[p] = Latest.checkpoint.tree[p]
  BY DEF BroughtByCapture
<1>5. /\ j \in 2..Len(heads') /\ ~heads'[j].stacked
      /\ heads'[j].checkpoint.tree[p] # heads'[j - 1].checkpoint.tree[p]
  BY <1>1, <1>2, <1>4
<1>6. ASSUME NEW k \in j..Len(heads')
      PROVE  heads'[k].checkpoint.tree[p] = h.checkpoint.tree[p]
  <2>1. CASE k = Len(heads) + 1
    BY <1>2, <2>1
  <2>2. CASE k # Len(heads) + 1
    <3>1. k \in j..Len(heads) /\ k \in 1..Len(heads)
      <4>1. /\ Len(heads) \in Nat /\ Len(heads') = Len(heads) + 1
            /\ j \in 2..Len(heads) /\ k \in j..Len(heads')
        BY <1>1, <1>2
      <4>2. QED
        BY <2>2, <4>1
    <3>2. QED
      BY <1>2, <1>4, <3>1
  <2>3. QED
    BY <2>1, <2>2
<1>7. QED
  BY <1>3, <1>5, <1>6 DEF BroughtByCapture

\* An entry that a captured head changes is one that a capture brought.
LEMMA NewlyBrought ==
    ASSUME HistoryOK, heads # <<>>, NEW h \in LayerHead, heads' = Append(heads, h),
           NEW p, h.checkpoint.tree[p] # Latest.checkpoint.tree[p], ~h.stacked
    PROVE  BroughtByCapture(p)'
<1>1. heads \in Seq(LayerHead) /\ Len(heads) \in Nat /\ Len(heads) >= 1
  BY DEF HistoryOK
<1>2. /\ Len(heads') = Len(heads) + 1 /\ heads'[Len(heads) + 1] = h
      /\ heads'[Len(heads)] = heads[Len(heads)]
  BY <1>1
<1>3. Latest' = h /\ Latest = heads[Len(heads)]
  BY <1>1, <1>2 DEF Latest
<1>4. PICK j : j = Len(heads) + 1
  OBVIOUS
<1>5. j \in 2..Len(heads') /\ j - 1 = Len(heads) /\ heads'[j] = h
  BY <1>1, <1>2, <1>4
<1>6. \A k \in j..Len(heads') : k = j
  BY <1>1, <1>2, <1>4
<1>7. QED
  BY <1>2, <1>3, <1>5, <1>6 DEF BroughtByCapture

\* A head was appended only where the sequence is longer.
LEMMA AppendGrows ==
    ASSUME HistoryOK, NEW h
    PROVE  Append(heads, h) # heads
<1>1. heads \in Seq(LayerHead) /\ Len(heads) \in Nat
  BY DEF HistoryOK
<1>2. Len(Append(heads, h)) = Len(heads) + 1
  BY <1>1
<1>3. QED
  BY <1>1, <1>2

\* A head's entries are recorded.
LEMMA IsHeadRecorded ==
    ASSUME NEW c, IsHead(c), NEW p
    PROVE  Recorded(p, c.tree[p])
BY DEF IsHead, Recorded

-----------------------------------------------------------------------------
(* The initial state.                                                      *)

\* A repository without the Layer.
LEMMA InitInv == Init => WorkspaceInv
<1> SUFFICES ASSUME Init PROVE WorkspaceInv
  OBVIOUS
<1>1. \A v \in 1..MaxWorld : WorldTree[v] \in Tree /\ WellFormed(WorldTree[v])
  BY WorkspaceAssumption
<1>2. \A t \in StackTrees : t \in Tree /\ WellFormed(t)
  BY WorkspaceAssumption
<1>3. \A v \in 1..MaxWorld : Stored(WorldTree[v])
  BY <1>1 DEF Init, Stored
<1>4. \A t \in StackTrees : Stored(t)
  BY <1>2 DEF Init, Stored
<1>5. blobs \subseteq Contents
  BY <1>1, <1>2 DEF Init, Tree, Entries
<1>6. FilesOK
  BY <1>5, EmptyTyped DEF Init, FilesOK, EmptyCache
<1>7. HistoryOK
  BY <1>3, <1>4, WorkspaceAssumption DEF Init, HistoryOK
<1>8. MarksOK /\ BaseOK /\ ReadyOK /\ MatchesOK /\ HeadSyncOK
  BY DEF Init, MarksOK, BaseOK, Held, ReadyOK, MatchesOK, HeadSyncOK, BroughtByCapture
<1>9. BuildOK /\ ScanOK /\ RunOK
  BY DEF Init, BuildOK, Building, ScanOK, RunOK, Running, Idle
<1>10. QED
  BY <1>6, <1>7, <1>8, <1>9 DEF WorkspaceInv

-----------------------------------------------------------------------------
(* The Layer and the World.                                                *)

\* Before the Layer exists there is no directory, and no sync record.
LEMMA CreateLayerInv == WorkspaceInv /\ CreateLayer => WorkspaceInv'
<1> SUFFICES ASSUME WorkspaceInv, CreateLayer PROVE WorkspaceInv'
  OBVIOUS
<1> USE DEF captureVars, layerVars, baseVars, dirVars
<1>1. /\ FilesOK /\ HistoryOK /\ MarksOK /\ BaseOK /\ BuildOK /\ ScanOK
      /\ RunOK /\ MatchesOK /\ HeadSyncOK /\ ReadyOK
  BY DEF WorkspaceInv
<1>2. heads = <<>> /\ ~opened /\ ~opened'
  BY <1>1 DEF CreateLayer, MarksOK
<1>3. ~\E i \in DOMAIN heads : TRUE
  BY <1>2
<1>4. sync = None
  BY <1>1, <1>3 DEF HistoryOK, IsHead
<1>5. PICK v \in 1..world : base' = v /\ heads' = <<[checkpoint |-> [tree |-> WorldTree[v], stacks |-> 0],
                                                     stacked |-> FALSE]>>
  BY DEF CreateLayer
<1> v \in 1..MaxWorld
  BY <1>1, <1>5, WorkspaceAssumption DEF HistoryOK
<1> UNCHANGED <<blobs, world, ended, sync>>
  BY DEF CreateLayer
<1>6. Stored(WorldTree[v])
  BY <1>1 DEF HistoryOK
<1>7. HistoryOK'
  <2>1. [checkpoint |-> [tree |-> WorldTree[v], stacks |-> 0], stacked |-> FALSE] \in LayerHead
    BY <1>6 DEF LayerHead, WCheckpoint, Stored
  <2>2. heads' \in Seq(LayerHead) /\ DOMAIN heads' = {1} /\ heads'[1].checkpoint.tree = WorldTree[v]
    BY <1>5, <2>1
  <2>3. (\A i \in DOMAIN heads : Stored(heads[i].checkpoint.tree))'
    BY <1>6, <2>2 DEF Stored
  <2>4. (\A u \in 1..MaxWorld : Stored(WorldTree[u]))' /\ (\A t \in StackTrees : Stored(t))'
    BY <1>1 DEF HistoryOK, Stored
  <2>5. QED
    BY <1>1, <1>4, <1>5, <2>2, <2>3, <2>4 DEF HistoryOK
<1>8. FilesOK' /\ BaseOK' /\ ScanOK'
  BY <1>1, FilesFrame, BaseFrame, ScanFrame DEF CreateLayer
<1>9. MarksOK' /\ MatchesOK' /\ HeadSyncOK' /\ ReadyOK'
  BY <1>1, <1>2 DEF MarksOK, MatchesOK, HeadSyncOK, BroughtByCapture, ReadyOK, CreateLayer
<1>10. BuildOK'
  BY <1>1, <1>2 DEF BuildOK, OpenOK, Building, CreateLayer
<1>11. RunOK'
  BY <1>1, <1>2 DEF RunOK, Running, Terminal, Building, Idle, CreateLayer
<1>12. QED
  BY <1>7, <1>8, <1>9, <1>10, <1>11 DEF WorkspaceInv

\* A new World version moves nothing of the Layer.
LEMMA AdvanceWorldInv == WorkspaceInv /\ AdvanceWorld => WorkspaceInv'
<1> SUFFICES ASSUME WorkspaceInv, AdvanceWorld PROVE WorkspaceInv'
  OBVIOUS
<1> USE DEF captureVars, layerVars, baseVars, dirVars
<1>1. HistoryOK'
  <2>1. world' \in 1..MaxWorld
    BY WorkspaceAssumption DEF WorkspaceInv, HistoryOK, AdvanceWorld
  <2>2. QED
    BY <2>1 DEF WorkspaceInv, HistoryOK, Stored, IsHead, AdvanceWorld
<1>2. FilesOK' /\ MarksOK' /\ BaseOK' /\ BuildOK' /\ ScanOK'
  BY FilesFrame, MarksFrame, BaseFrame, BuildFrame, ScanFrame DEF WorkspaceInv, AdvanceWorld
<1>3. RunOK' /\ MatchesOK' /\ HeadSyncOK' /\ ReadyOK'
  BY RunFrame, MatchesFrame, HeadSyncFrame, ReadyFrame DEF WorkspaceInv, AdvanceWorld
<1>4. QED
  BY <1>1, <1>2, <1>3 DEF WorkspaceInv

\* Stack puts its work into the head, whatever a command is doing.
LEMMA StackInv ==
    ASSUME WorkspaceInv, NEW tree \in StackTrees, Stack(tree)
    PROVE  WorkspaceInv'
<1> USE DEF captureVars, layerVars, baseVars, dirVars
<1>1. /\ FilesOK /\ HistoryOK /\ MarksOK /\ BaseOK /\ BuildOK /\ ScanOK
      /\ RunOK /\ MatchesOK /\ HeadSyncOK /\ ReadyOK
  BY DEF WorkspaceInv
<1>2. PICK h : h = [checkpoint |-> [tree |-> tree, stacks |-> Latest.checkpoint.stacks + 1],
                    stacked |-> TRUE]
  OBVIOUS
<1> UNCHANGED <<clock, disk, stamp, edits, cache, blobs, scan, late, world, base, ended,
                rolling, record, opened, sync, dirty, left, cmd, ready>>
  BY DEF Stack
<1>3. heads # <<>> /\ ended = "active"
  BY DEF Stack, Active
<1>4. Stored(tree)
  BY <1>1 DEF HistoryOK
<1>5. h \in LayerHead
  BY <1>1, <1>2, <1>3, <1>4, LatestIsHead DEF LayerHead, WCheckpoint, Stored
<1>6. heads' = Append(heads, h)
  BY <1>2 DEF Stack
<1>7. /\ heads' \in Seq(LayerHead) /\ heads' # <<>> /\ HeadsStay /\ Latest' = h
      /\ DOMAIN heads' = DOMAIN heads \cup {Len(heads) + 1}
      /\ heads'[Len(heads) + 1] = h
  BY <1>1, <1>5, <1>6, HeadsGrow
<1>8. Latest'.stacked /\ h.checkpoint.tree = tree
  BY <1>2, <1>7
<1>9. ASSUME NEW p PROVE Matches(p) => Matches(p)'
  BY <1>7 DEF Matches, FromHead, HeadsStay
<1>10. HistoryOK'
  <2>1. ASSUME NEW i \in DOMAIN heads' PROVE Stored(heads[i].checkpoint.tree)'
    <3>1. \/ i \in DOMAIN heads /\ heads'[i] = heads[i]
          \/ heads'[i] = h
      BY <1>7 DEF HeadsStay
    <3>2. QED
      BY <1>1, <1>4, <1>8, <3>1 DEF HistoryOK, Stored
  <2>2. (\A u \in 1..MaxWorld : Stored(WorldTree[u]))' /\ (\A t \in StackTrees : Stored(t))'
    BY <1>1 DEF HistoryOK, Stored
  <2>3. sync' # None => IsHead(sync)'
    BY <1>1, <1>7 DEF HistoryOK, IsHead, HeadsStay
  <2>4. QED
    BY <1>1, <1>7, <2>1, <2>2, <2>3 DEF HistoryOK
<1>11. FilesOK' /\ BaseOK' /\ ScanOK'
  BY <1>1, FilesFrame, BaseFrame, ScanFrame 
<1>12. MarksOK' /\ HeadSyncOK'
  BY <1>1, <1>7, <1>8 DEF MarksOK, HeadSyncOK, BroughtByCapture
<1>13. MatchesOK'
  BY <1>1, <1>9 DEF MatchesOK, Unsynced, Running
<1>14. ReadyOK'
  BY <1>1, <1>7 DEF ReadyOK, Recorded, HeadsStay
<1>15. BuildOK'
  <2>1. OpenOK => OpenOK'
    BY <1>7, <1>8 DEF OpenOK, IsHead, HeadStays, HeadsStay
  <2>2. QED
    BY <1>1, <2>1 DEF BuildOK, Building
<1>16. RunOK'
  <2>1. OpenSyncOK => OpenSyncOK'
    BY <1>7, <1>8 DEF OpenSyncOK, IsHead, HeadStays, HeadsStay
  <2>2. CaptureScanOK => CaptureScanOK'
    BY <1>7, <1>8 DEF CaptureScanOK, BroughtByCapture, IsHead, HeadStays, HeadsStay
  <2>3. CaptureSyncOK => CaptureSyncOK'
    BY <1>7, <1>8 DEF CaptureSyncOK, IsHead, HeadStays, HeadsStay
  <2>4. RefreshScanOK => RefreshScanOK'
    BY <1>7, <1>8 DEF RefreshScanOK, IsHead, HeadStays, HeadsStay
  <2>5. RefreshWriteOK => RefreshWriteOK'
    BY <1>7, <1>8, <1>9 DEF RefreshWriteOK, IsHead, HeadStays, Recorded, HeadsStay
  <2>6. QED
    BY <1>1, <1>3, <2>1, <2>2, <2>3, <2>4, <2>5 DEF RunOK, Running, Terminal
<1>17. QED
  BY <1>10, <1>11, <1>12, <1>13, <1>14, <1>15, <1>16 DEF WorkspaceInv

\* `layer discard` elsewhere ends the Layer; commands go on.
LEMMA DiscardElsewhereInv == WorkspaceInv /\ DiscardElsewhere => WorkspaceInv'
<1> SUFFICES ASSUME WorkspaceInv, DiscardElsewhere PROVE WorkspaceInv'
  OBVIOUS
<1>1. UNCHANGED <<clock, disk, stamp, edits, cache, blobs, scan, late, world, base, heads,
                  rolling, record, opened, sync, dirty, left, cmd, ready>>
      /\ heads # <<>> /\ ended' = "discarded"
  BY DEF DiscardElsewhere, Active, captureVars, baseVars, dirVars
<1>2. FilesOK' /\ MarksOK' /\ BaseOK' /\ ScanOK' /\ MatchesOK' /\ HeadSyncOK'
  BY <1>1, FilesFrame, MarksFrame, BaseFrame, ScanFrame, MatchesFrame, HeadSyncFrame
     DEF WorkspaceInv
<1>3. HistoryOK'
  BY <1>1 DEF WorkspaceInv, HistoryOK, Stored, IsHead
<1>4. ReadyOK'
  BY <1>1 DEF WorkspaceInv, ReadyOK, Recorded
<1>5. BuildOK'
  BY <1>1 DEF WorkspaceInv, BuildOK, Building, OpenOK, IsHead, HeadStays, Latest
<1>6. RunOK'
  BY <1>1 DEF WorkspaceInv, RunOK, Running, Idle, Building, Terminal, OpenSyncOK, CaptureScanOK, BroughtByCapture,
              CaptureSyncOK, RefreshScanOK, RefreshWriteOK, IsHead, HeadStays, Latest,
              Recorded, Matches, FromHead
<1>7. QED
  BY <1>2, <1>3, <1>4, <1>5, <1>6 DEF WorkspaceInv

\* Later times only make fingerprints older.
LEMMA TimePassesInv == WorkspaceInv /\ TimePasses => WorkspaceInv'
<1> SUFFICES ASSUME WorkspaceInv, TimePasses PROVE WorkspaceInv'
  OBVIOUS
<1>1. UNCHANGED <<disk, stamp, edits, cache, blobs, scan, late, world, base, heads, ended,
                  rolling, record, opened, sync, dirty, left, cmd, ready>>
      /\ clock' = clock + 1
  BY DEF TimePasses, Tick, layerVars, baseVars, dirVars
<1>2. HistoryOK' /\ MarksOK' /\ BaseOK' /\ BuildOK' /\ RunOK' /\ MatchesOK' /\ HeadSyncOK'
      /\ ReadyOK'
  BY <1>1, HistoryFrame, MarksFrame, BaseFrame, BuildFrame, RunFrame, MatchesFrame,
     HeadSyncFrame, ReadyFrame DEF WorkspaceInv
<1>3. FilesOK'
  BY <1>1, CaptureAssumption DEF WorkspaceInv, FilesOK, CachedOK
<1>4. ScanOK'
  BY <1>1, CaptureAssumption
     DEF WorkspaceInv, FilesOK, ScanOK, WalkedOK, SavedOK, Clear, Stored, Hidden
<1>5. QED
  BY <1>2, <1>3, <1>4 DEF WorkspaceInv

-----------------------------------------------------------------------------
(* The owner's edits, and the directory that goes away.                    *)

\* A write carries a change time that no trusted entry of the cache has.
LEMMA WriteFiles ==
    ASSUME FilesOK, NEW p \in Paths, NEW e \in Entries,
           WellFormed([disk EXCEPT ![p] = e]), disk' = [disk EXCEPT ![p] = e],
           Stamped(p, e), UNCHANGED <<clock, cache, blobs>>, edits' \in Nat
    PROVE  FilesOK'
<1>0. PICK t \in IF e = Absent THEN {0} ELSE StampsNow(p) : stamp' = [stamp EXCEPT ![p] = t]
  BY DEF Stamped
<1>1. t \in Nat /\ (e = Absent \/ clock - Lag <= t)
  <2>1. CASE e = Absent
    BY <1>0, <2>1
  <2>2. CASE e # Absent
    BY <1>0, <2>2, CaptureAssumption DEF StampsNow, Stamp
  <2>3. QED
    BY <2>1, <2>2
<1>2. disk' \in Tree /\ WellFormed(disk') /\ stamp' \in [Paths -> Nat]
  BY <1>0, <1>1 DEF FilesOK, Tree
<1>3. \A q \in Paths : /\ q # p => disk'[q] = disk[q] /\ stamp'[q] = stamp[q]
                       /\ q = p => disk'[q] = e /\ stamp'[q] = t
  BY <1>0, <1>1 DEF FilesOK, Tree
<1>4. ASSUME NEW q \in Paths, cache[q] # None
      PROVE  CachedOK(q, cache[q])'
  <2>1. CachedOK(q, cache[q])
    BY <1>4 DEF FilesOK
  <2>2. QED
    BY <1>1, <1>3, <2>1, CaptureAssumption DEF CachedOK, FilesOK
<1>5. QED
  BY <1>2, <1>4 DEF FilesOK

\* An edit during a command is marked late; any edit is marked dirty.
LEMMA OwnerEditsInv ==
    ASSUME WorkspaceInv, NEW p \in Paths, NEW entry \in Entries, OwnerEdits(p, entry)
    PROVE  WorkspaceInv'
<1>1. /\ FilesOK /\ HistoryOK /\ MarksOK /\ BaseOK /\ BuildOK /\ ScanOK
      /\ RunOK /\ MatchesOK /\ HeadSyncOK /\ ReadyOK
  BY DEF WorkspaceInv
<1>2. UNCHANGED <<clock, cache, blobs, scan, world, base, heads, ended, rolling, record, opened,
                  sync, left, cmd>>
  BY DEF OwnerEdits, Edit, layerVars, baseVars
<1>3. /\ opened /\ WellFormed([disk EXCEPT ![p] = entry])
      /\ disk' = [disk EXCEPT ![p] = entry] /\ Stamped(p, entry) /\ edits' = edits + 1
      /\ late' = (IF cmd = Idle THEN {} ELSE late \cup {p})
      /\ dirty' = dirty \cup {p}
      /\ ready' = (IF ready = None THEN None ELSE ready \cup {p})
  BY DEF OwnerEdits, Edit
<1>4. PICK t : stamp' = [stamp EXCEPT ![p] = t]
  BY <1>3 DEF Stamped
<1>5. \A q \in Paths \ {p} : disk'[q] = disk[q] /\ stamp'[q] = stamp[q]
  BY <1>1, <1>3, <1>4 DEF FilesOK, Tree
<1>6. FilesOK'
  <2>1. edits' \in Nat
    BY <1>1, <1>3 DEF FilesOK
  <2>2. QED
    BY <1>1, <1>2, <1>3, <2>1, WriteFiles
<1>7. HistoryOK' /\ BaseOK' /\ BuildOK'
  BY <1>1, <1>2, HistoryFrame, BaseFrame, BuildFrame
<1>8. MarksOK'
  BY <1>1, <1>2, <1>3 DEF MarksOK
<1>9. ASSUME NEW q \in Paths \ {p} PROVE Matches(q) => Matches(q)'
  BY <1>2, <1>5 DEF Matches, FromHead
<1>10. MatchesOK'
  BY <1>1, <1>2, <1>3, <1>9 DEF MatchesOK, Unsynced, Running
<1>11. HeadSyncOK'
  BY <1>1, <1>2, <1>3 DEF HeadSyncOK, BroughtByCapture, Running, Latest
<1>12. ReadyOK'
  <2>1. ready # None => ready' # None /\ ready' = ready \cup {p}
    BY <1>1, <1>3, NoneAssumption DEF MarksOK
  <2>2. ready' # None => ready # None
    BY <1>3
  <2>3. QED
    BY <1>1, <1>2, <1>5, <2>1, <2>2 DEF ReadyOK, Recorded
<1>13. CASE cmd = Idle
  <2>1. BuildOK' /\ ScanOK' /\ RunOK'
    BY <1>1, <1>2, <1>7, <1>13 DEF ScanOK, RunOK, Running, Idle
  <2>2. QED
    BY <1>6, <1>7, <1>8, <1>10, <1>11, <1>12, <2>1 DEF WorkspaceInv
<1>14. CASE cmd # Idle
  <2>1. late' = late \cup {p}
    BY <1>3, <1>14
  <2>2. ScanOK'
    <3>1. WalkedOK => WalkedOK'
      BY <1>2, <1>5, <2>1 DEF WalkedOK, Clear, Hidden
    <3>2. SavedOK => SavedOK'
      BY <1>2, <1>5, <2>1 DEF SavedOK, Stored, Clear, Hidden
    <3>3. QED
      BY <1>1, <1>2, <3>1, <3>2 DEF ScanOK, Stored
  <2>3. OpenSyncOK => OpenSyncOK'
    BY <1>2, <1>3, <1>5 DEF OpenSyncOK, IsHead, HeadStays, Latest
  <2>4. CaptureScanOK => CaptureScanOK'
    BY <1>2, <1>3, <1>5 DEF CaptureScanOK, BroughtByCapture, IsHead, HeadStays, Latest
  <2>5. CaptureSyncOK => CaptureSyncOK'
    BY <1>2, <1>3, <1>5, <2>1 DEF CaptureSyncOK, IsHead, HeadStays, Latest
  <2>6. RefreshScanOK => RefreshScanOK'
    BY <1>2 DEF RefreshScanOK, IsHead, HeadStays, Latest
  <2>7. RefreshWriteOK => RefreshWriteOK'
    <3> SUFFICES ASSUME RefreshWriteOK PROVE RefreshWriteOK'
      OBVIOUS
    <3>1. DOMAIN cmd.todo \subseteq Paths
      BY ChangesType DEF RefreshWriteOK
    <3>2. ASSUME NEW q \in DOMAIN cmd.todo, q \notin late' \cup cmd.taken
          PROVE  Recorded(q, disk[q])'
      BY <1>2, <1>5, <2>1, <3>1, <3>2 DEF RefreshWriteOK, Recorded
    <3>3. \A q \in Paths \ (dirty' \cup cmd.kept \cup cmd.taken) :
             \/ q \in DOMAIN cmd.todo \/ disk'[q] = cmd.head.tree[q]
             \/ (q \in left /\ Matches(q)')
      BY <1>2, <1>3, <1>5, <1>9 DEF RefreshWriteOK
    <3>4. \A q \in Paths \ dirty' :
             Matches(q)' \/ disk'[q] = cmd.head.tree[q] \/ disk'[q] \in Supplied
      BY <1>2, <1>3, <1>5, <1>9 DEF RefreshWriteOK
    <3>5. IsHead(cmd.head)' /\ HeadStays(cmd.head)'
      BY <1>2 DEF RefreshWriteOK, IsHead, HeadStays, Latest
    <3>6. QED
      BY <1>2, <3>2, <3>3, <3>4, <3>5 DEF RefreshWriteOK
  <2>8. RunOK'
    BY <1>1, <1>2, <2>3, <2>4, <2>5, <2>6, <2>7 DEF RunOK, Running, Terminal
  <2>9. QED
    BY <1>6, <1>7, <1>8, <1>10, <1>11, <1>12, <2>2, <2>8 DEF WorkspaceInv
<1>15. QED
  BY <1>13, <1>14

\* Between commands nothing is being scanned, built or written.
LEMMA IdleAfter == cmd' = Idle /\ scan' = None => BuildOK' /\ ScanOK' /\ RunOK'
BY DEF BuildOK, Building, ScanOK, RunOK, Running, Idle

\* Before one starts, too.
LEMMA IdleBefore == WorkspaceInv /\ cmd = Idle => scan = None /\ ~Unsynced
BY DEF WorkspaceInv, ScanOK, Unsynced, Running, Idle

\* Without a directory nothing is owed to its owner.
LEMMA NoDirectoryParts ==
    ASSUME WorkspaceInv, NoDirectory, UNCHANGED <<clock, cache, blobs>>, edits' \in Nat,
           ready' = ready \/ ready' = None
    PROVE  FilesOK' /\ MarksOK' /\ MatchesOK' /\ HeadSyncOK' /\ ReadyOK'
<1>1. /\ opened' = FALSE /\ disk' = EmptyTree /\ stamp' = [p \in Paths |-> 0]
      /\ dirty' = {} /\ left' = {} /\ late' = {}
  BY DEF NoDirectory
<1>2. \A p \in Paths : disk'[p] = Absent
  BY <1>1 DEF EmptyTree
<1>3. FilesOK'
  BY <1>1, <1>2, EmptyTyped DEF WorkspaceInv, FilesOK, CachedOK
<1>4. MarksOK'
  BY <1>1 DEF WorkspaceInv, MarksOK
<1>5. QED
  BY <1>1, <1>3, <1>4 DEF MatchesOK, HeadSyncOK, BroughtByCapture, ReadyOK

\* Dropping a partial base leaves none.
LEMMA DropPartialBase == BaseOK /\ DropPartial => BaseOK'
<1>1. ASSUME record' = None PROVE BaseOK'
  BY <1>1 DEF BaseOK, Held
<1>2. QED
  BY <1>1, BaseFrame DEF DropPartial, baseVars

\* A directory its owner deletes.
LEMMA OwnerRemovesDirectoryInv == WorkspaceInv /\ OwnerRemovesDirectory => WorkspaceInv'
<1> SUFFICES ASSUME WorkspaceInv, OwnerRemovesDirectory PROVE WorkspaceInv'
  OBVIOUS
<1>1. /\ UNCHANGED <<clock, cache, blobs, scan, world, base, heads, ended, rolling, record, sync,
                     cmd, ready>>
      /\ cmd = Idle /\ edits' = edits + 1 /\ NoDirectory
  BY DEF OwnerRemovesDirectory, layerVars, baseVars
<1>2. edits' \in Nat
  BY <1>1 DEF WorkspaceInv, FilesOK
<1>3. FilesOK' /\ MarksOK' /\ MatchesOK' /\ HeadSyncOK' /\ ReadyOK'
  BY <1>1, <1>2, NoDirectoryParts
<1>4. BuildOK' /\ ScanOK' /\ RunOK'
  BY <1>1, IdleBefore, IdleAfter
<1>5. HistoryOK' /\ BaseOK'
  BY <1>1, HistoryFrame, BaseFrame DEF WorkspaceInv
<1>6. QED
  BY <1>3, <1>4, <1>5 DEF WorkspaceInv

\* Recovery and reclaim trash the directory of a Layer that ended.
LEMMA TrashTerminalParts ==
    ASSUME WorkspaceInv, TrashTerminal, DropPartial, ~Unsynced,
           UNCHANGED <<clock, edits, cache, blobs, scan, world, base, heads, ended, sync>>,
           cmd' = Idle, scan = None, ready' = ready \/ (ready' = None /\ Terminal)
    PROVE  WorkspaceInv'
<1>1. HistoryOK' /\ BaseOK' /\ BuildOK' /\ ScanOK' /\ RunOK'
  BY HistoryFrame, DropPartialBase, IdleAfter DEF WorkspaceInv
<1>2. CASE Terminal /\ opened
  <2>1. edits' \in Nat /\ NoDirectory
    BY <1>2 DEF WorkspaceInv, FilesOK, TrashTerminal
  <2>2. QED
    BY <1>1, <2>1, NoDirectoryParts DEF WorkspaceInv
<1>3. CASE ~(Terminal /\ opened)
  <2>1. UNCHANGED <<opened, disk, stamp, dirty, left, late>>
    BY <1>3 DEF TrashTerminal
  <2>2. FilesOK'
    BY <2>1, FilesFrame DEF WorkspaceInv
  <2>3. MarksOK' /\ HeadSyncOK' /\ ReadyOK'
    BY <1>3, <2>1 DEF WorkspaceInv, MarksOK, HeadSyncOK, BroughtByCapture, ReadyOK, Recorded, Latest, Running,
                      Unsynced, Terminal
  <2>4. MatchesOK'
    BY <2>1 DEF WorkspaceInv, MatchesOK, Matches, FromHead
  <2>5. QED
    BY <1>1, <2>2, <2>3, <2>4 DEF WorkspaceInv
<1>4. QED
  BY <1>2, <1>3

\* Store::recover.
LEMMA RecoverWorkspacesInv == WorkspaceInv /\ RecoverWorkspaces => WorkspaceInv'
<1> SUFFICES ASSUME WorkspaceInv, RecoverWorkspaces PROVE WorkspaceInv'
  OBVIOUS
<1>1. /\ UNCHANGED <<clock, edits, cache, blobs, scan, world, base, heads, ended, sync, cmd, ready>>
      /\ cmd = Idle /\ TrashTerminal /\ DropPartial
  BY DEF RecoverWorkspaces, layerVars
<1>2. QED
  BY <1>1, IdleBefore, TrashTerminalParts

\* The end of `workspace publish` and `workspace discard`.
LEMMA ReclaimInv == WorkspaceInv /\ Reclaim => WorkspaceInv'
<1> SUFFICES ASSUME WorkspaceInv, Reclaim PROVE WorkspaceInv'
  OBVIOUS
<1>1. /\ UNCHANGED <<clock, edits, cache, blobs, scan, world, base, heads, ended, sync>>
      /\ cmd.phase = "reclaim" /\ cmd' = Idle /\ ready' = None /\ TrashTerminal /\ DropPartial
  BY DEF Reclaim, layerVars
<1>2. Terminal /\ ~Unsynced /\ scan = None
  BY <1>1 DEF WorkspaceInv, RunOK, Running, Idle, Building, Unsynced, ScanOK
<1>3. QED
  BY <1>1, <1>2, TrashTerminalParts

-----------------------------------------------------------------------------
(* The rolling base.                                                       *)

\* While the rolling base is built nothing is scanned, and no directory is
\* half written.
LEMMA BuildingBefore ==
    ASSUME WorkspaceInv, cmd.phase \in Building \cup {"clone"}
    PROVE  scan = None /\ ~Unsynced
BY DEF WorkspaceInv, Building, ScanOK, Unsynced, Running

\* A command that builds the base runs as it should.
LEMMA BuildingRuns ==
    ASSUME \/ cmd'.kind \in {"open", "warm"} /\ cmd'.phase \in Building
           \/ cmd'.kind = "open" /\ cmd'.phase = "clone"
    PROVE  RunOK'
BY DEF RunOK, Running, Building

\* Building the base touches neither the directory nor the Layer.
LEMMA BaseStepParts ==
    ASSUME WorkspaceInv, scan = None, ~Unsynced, cmd'.phase # "scan",
           UNCHANGED <<captureVars, layerVars, dirVars, ready>>
    PROVE  FilesOK' /\ HistoryOK' /\ MarksOK' /\ ReadyOK' /\ ScanOK' /\ MatchesOK'
             /\ HeadSyncOK'
<1>1. UNCHANGED <<clock, disk, stamp, edits, cache, blobs, scan, late, world, base, heads, ended,
                  opened, sync, dirty, left, ready>>
  BY DEF captureVars, layerVars, dirVars
<1>2. FilesOK' /\ HistoryOK' /\ MarksOK' /\ ReadyOK'
  BY <1>1, FilesFrame, HistoryFrame, MarksFrame, ReadyFrame DEF WorkspaceInv
<1>3. ScanOK'
  BY <1>1 DEF ScanOK
<1>4. MatchesOK'
  BY <1>1 DEF WorkspaceInv, MatchesOK, Matches, FromHead
<1>5. HeadSyncOK'
  BY <1>1 DEF WorkspaceInv, HeadSyncOK, BroughtByCapture, Latest, Unsynced
<1>6. QED
  BY <1>2, <1>3, <1>4, <1>5

\* The clone starts from a base that is the World it names.
LEMMA EnsuredParts ==
    ASSUME WorkspaceInv, cmd.phase \in Building, NEW v \in 1..MaxWorld, Ensured(v),
           UNCHANGED <<captureVars, layerVars, dirVars, ready>>,
           rolling' = WorldTree[v], BaseOK', v >= cmd.version
    PROVE  WorkspaceInv'
<1>1. scan = None /\ ~Unsynced
  BY BuildingBefore
<1>2. scan' = None /\ base' = base /\ (OpenOK <=> opened' = FALSE /\ OpenOK)
  BY <1>1 DEF captureVars, layerVars, dirVars, OpenOK, Building
<1>3. CASE cmd.kind = "open"
  <2>1. cmd' = [kind |-> "open", phase |-> "clone", at |-> v, head |-> cmd.head]
    BY <1>3 DEF Ensured
  <2>2. RunOK'
    BY <2>1, BuildingRuns
  <2>3. OpenOK /\ cmd.version = base
    BY <1>3 DEF WorkspaceInv, BuildOK
  <2>4. OpenOK'
    BY <2>1, <2>3 DEF OpenOK, IsHead, HeadStays, Latest, layerVars, dirVars
  <2>5. BuildOK'
    BY <1>2, <2>1, <2>3, <2>4 DEF BuildOK, Building
  <2>6. QED
    BY <1>1, <2>1, <2>2, <2>5, BaseStepParts DEF WorkspaceInv
<1>4. CASE cmd.kind # "open"
  <2>1. cmd' = Idle
    BY <1>4 DEF Ensured
  <2>2. cmd'.phase # "scan"
    BY <2>1 DEF Idle
  <2>3. QED
    BY <1>1, <1>2, <2>1, <2>2, IdleAfter, BaseStepParts DEF WorkspaceInv
<1>5. QED
  BY <1>3, <1>4

\* warm_base.
LEMMA WarmBaseInv == WorkspaceInv /\ WarmBase => WorkspaceInv'
<1> SUFFICES ASSUME WorkspaceInv, WarmBase PROVE WorkspaceInv'
  OBVIOUS
<1>1. /\ UNCHANGED <<captureVars, layerVars, dirVars, ready>> /\ UNCHANGED <<rolling, record>>
      /\ cmd = Idle /\ cmd' = [kind |-> "warm", phase |-> "ensure", version |-> world]
  BY DEF WarmBase, baseVars
<1>2. RunOK'
  BY <1>1, BuildingRuns DEF Building
<1>3. BuildOK'
  BY <1>1 DEF BuildOK, Building, WorkspaceInv, HistoryOK
<1>4. BaseOK'
  BY <1>1, BaseFrame DEF WorkspaceInv
<1>5. QED
  BY <1>1, <1>2, <1>3, <1>4, IdleBefore, BaseStepParts DEF WorkspaceInv

\* ensure_rolling finds the base recent enough.
LEMMA UseRollingInv == WorkspaceInv /\ UseRolling => WorkspaceInv'
<1> SUFFICES ASSUME WorkspaceInv, UseRolling PROVE WorkspaceInv'
  OBVIOUS
<1>1. /\ UNCHANGED <<captureVars, layerVars, dirVars, ready>> /\ UNCHANGED <<rolling, record>>
      /\ cmd.phase = "ensure" /\ Held /\ record.version >= cmd.version /\ Ensured(record.version)
  BY DEF UseRolling, Ensuring, baseVars
<1>2. record.version \in 1..MaxWorld /\ rolling' = WorldTree[record.version] /\ BaseOK'
  BY <1>1, BaseFrame DEF WorkspaceInv, BaseOK
<1>3. PICK v \in 1..MaxWorld : v = record.version
  BY <1>2
<1>4. Ensured(v) /\ rolling' = WorldTree[v] /\ v >= cmd.version /\ cmd.phase \in Building
  BY <1>1, <1>2, <1>3 DEF Building
<1>5. QED
  BY <1>1, <1>2, <1>4, EnsuredParts

\* A step of ensure_rolling that goes on to another one.
LEMMA BuildingStep ==
    ASSUME WorkspaceInv, cmd.phase \in Building, NEW phase \in Building,
           cmd' = [cmd EXCEPT !.phase = phase],
           UNCHANGED <<captureVars, layerVars, dirVars, ready>>
    PROVE  /\ cmd'.phase = phase /\ cmd'.version = cmd.version /\ cmd.version \in 1..MaxWorld
           /\ BaseOK' /\ (phase = "advance" => /\ record'.version \in 1..MaxWorld
                                               /\ rolling' = WorldTree[record'.version]
                                               /\ record'.advancing = cmd.version)
                /\ (phase = "materialize" => record' = None)
                /\ (phase = "record" => record' = None /\ rolling' = WorldTree[cmd.version])
              => WorkspaceInv'
<1>1. scan = None /\ ~Unsynced
  BY BuildingBefore
<1>2. /\ cmd.version \in 1..MaxWorld
      /\ \/ cmd = [kind |-> "warm", phase |-> cmd.phase, version |-> cmd.version]
         \/ /\ cmd = [kind |-> "open", phase |-> cmd.phase, version |-> cmd.version,
                      head |-> cmd.head]
            /\ cmd.version = base /\ OpenOK
  BY DEF WorkspaceInv, BuildOK
<1>3. \/ cmd' = [kind |-> "warm", phase |-> phase, version |-> cmd.version]
      \/ /\ cmd' = [kind |-> "open", phase |-> phase, version |-> cmd.version,
                    head |-> cmd.head]
         /\ cmd.version = base /\ OpenOK
  BY <1>2
<1>4. cmd'.phase = phase /\ cmd'.version = cmd.version /\ cmd'.kind \in {"open", "warm"}
  BY <1>3
<1>5. RunOK'
  BY <1>4, BuildingRuns
<1>6. \/ cmd' = [kind |-> "warm", phase |-> cmd'.phase, version |-> cmd'.version]
      \/ /\ cmd' = [kind |-> "open", phase |-> cmd'.phase, version |-> cmd'.version,
                    head |-> cmd'.head]
         /\ cmd'.version = base' /\ OpenOK'
  BY <1>3 DEF OpenOK, IsHead, HeadStays, Latest, layerVars, dirVars
<1>7. phase # "clone" /\ phase # "scan"
  BY DEF Building
<1>8. ASSUME (phase = "advance" => /\ record'.version \in 1..MaxWorld
                                   /\ rolling' = WorldTree[record'.version]
                                   /\ record'.advancing = cmd.version),
             (phase = "materialize" => record' = None),
             (phase = "record" => record' = None /\ rolling' = WorldTree[cmd.version])
      PROVE  BuildOK'
  BY <1>2, <1>4, <1>6, <1>7, <1>8 DEF BuildOK
<1>9. QED
  BY <1>1, <1>2, <1>4, <1>5, <1>7, <1>8, BaseStepParts DEF WorkspaceInv

\* advance_rolling records its target first.
LEMMA AdvanceBeginInv == WorkspaceInv /\ AdvanceBegin => WorkspaceInv'
<1> SUFFICES ASSUME WorkspaceInv, AdvanceBegin PROVE WorkspaceInv'
  OBVIOUS
<1>1. /\ UNCHANGED <<captureVars, layerVars, dirVars, ready>> /\ rolling' = rolling
      /\ cmd.phase = "ensure" /\ Held /\ cmd' = [cmd EXCEPT !.phase = "advance"]
      /\ record' = [version |-> record.version, advancing |-> cmd.version]
  BY DEF AdvanceBegin, Ensuring
<1>2. cmd.phase \in Building /\ "advance" \in Building
  BY <1>1 DEF Building
<1>3. record.version \in 1..MaxWorld /\ rolling = WorldTree[record.version]
  BY <1>1 DEF WorkspaceInv, BaseOK
<1>4. cmd.version \in 1..MaxWorld
  BY <1>1, <1>2, BuildingStep
<1>5. BaseOK'
  BY <1>1, <1>4, NoneAssumption DEF BaseOK, Held
<1>6. QED
  BY <1>1, <1>2, <1>3, <1>5, BuildingStep

\* advance_rolling applies the World's changes.
LEMMA AdvanceRollingInv == WorkspaceInv /\ AdvanceRolling => WorkspaceInv'
<1> SUFFICES ASSUME WorkspaceInv, AdvanceRolling PROVE WorkspaceInv'
  OBVIOUS
<1>1. /\ UNCHANGED <<captureVars, layerVars, dirVars, ready>>
      /\ cmd.phase = "advance" /\ rolling' = Apply(rolling, Advancing)
      /\ record' = [version |-> cmd.version, advancing |-> None] /\ Ensured(cmd.version)
  BY DEF AdvanceRolling
<1>2. /\ cmd.version \in 1..MaxWorld
      /\ record.version \in 1..MaxWorld /\ rolling = WorldTree[record.version]
  BY <1>1 DEF WorkspaceInv, BuildOK, Building
<1>3. \A v \in 1..MaxWorld : WorldTree[v] \in Tree /\ WellFormed(WorldTree[v])
  BY WorkspaceAssumption
<1>4. PICK u \in 1..MaxWorld, v \in 1..MaxWorld : u = record.version /\ v = cmd.version
  BY <1>2
<1>5. Apply(WorldTree[u], Diff(WorldTree[u], WorldTree[v])) = WorldTree[v]
  BY <1>3, DiffCanonical
<1>6. rolling' = WorldTree[v]
  BY <1>1, <1>2, <1>4, <1>5 DEF Advancing
<1>7. BaseOK'
  BY <1>1, <1>2, <1>4, <1>6 DEF BaseOK
<1>8. Ensured(v) /\ v >= cmd.version /\ cmd.phase \in Building
  BY <1>1, <1>2, <1>4 DEF Building
<1>9. QED
  BY <1>1, <1>6, <1>7, <1>8, EnsuredParts

\* materialize_rolling drops what is there.
LEMMA MaterializeBeginInv == WorkspaceInv /\ MaterializeBegin => WorkspaceInv'
<1> SUFFICES ASSUME WorkspaceInv, MaterializeBegin PROVE WorkspaceInv'
  OBVIOUS
<1>1. /\ UNCHANGED <<captureVars, layerVars, dirVars, ready>> /\ record' = None
      /\ cmd.phase \in Building /\ "materialize" \in Building
      /\ cmd' = [cmd EXCEPT !.phase = "materialize"]
  BY DEF MaterializeBegin, Ensuring, Building
<1>2. BaseOK'
  BY <1>1 DEF BaseOK, Held
<1>3. QED
  BY <1>1, <1>2, BuildingStep

\* The World built aside becomes the base.
LEMMA MaterializeRenameInv == WorkspaceInv /\ MaterializeRename => WorkspaceInv'
<1> SUFFICES ASSUME WorkspaceInv, MaterializeRename PROVE WorkspaceInv'
  OBVIOUS
<1>1. /\ UNCHANGED <<captureVars, layerVars, dirVars, ready>> /\ record' = record
      /\ rolling' = WorldTree[cmd.version] /\ cmd.phase = "materialize"
      /\ cmd.phase \in Building /\ "record" \in Building
      /\ cmd' = [cmd EXCEPT !.phase = "record"]
  BY DEF MaterializeRename, Building
<1>2. record' = None
  BY <1>1 DEF WorkspaceInv, BuildOK
<1>3. BaseOK'
  BY <1>2 DEF BaseOK, Held
<1>4. QED
  BY <1>1, <1>2, <1>3, BuildingStep

\* Its record makes the base usable.
LEMMA MaterializeRecordInv == WorkspaceInv /\ MaterializeRecord => WorkspaceInv'
<1> SUFFICES ASSUME WorkspaceInv, MaterializeRecord PROVE WorkspaceInv'
  OBVIOUS
<1>1. /\ UNCHANGED <<captureVars, layerVars, dirVars, ready>>
      /\ cmd.phase = "record" /\ rolling' = rolling
      /\ record' = [version |-> cmd.version, advancing |-> None] /\ Ensured(cmd.version)
  BY DEF MaterializeRecord
<1>2. cmd.version \in 1..MaxWorld /\ rolling = WorldTree[cmd.version]
  BY <1>1 DEF WorkspaceInv, BuildOK, Building
<1>3. PICK v \in 1..MaxWorld : v = cmd.version
  BY <1>2
<1>4. Ensured(v) /\ v >= cmd.version /\ cmd.phase \in Building /\ rolling' = WorldTree[v]
  BY <1>1, <1>2, <1>3 DEF Building
<1>5. BaseOK'
  BY <1>1, <1>2 DEF BaseOK
<1>6. QED
  BY <1>1, <1>4, <1>5, EnsuredParts

-----------------------------------------------------------------------------
(* open_workspace.                                                         *)

\* The base is ensured for the Layer's World.
LEMMA OpenWorkspaceInv == WorkspaceInv /\ OpenWorkspace => WorkspaceInv'
<1> SUFFICES ASSUME WorkspaceInv, OpenWorkspace PROVE WorkspaceInv'
  OBVIOUS
<1>1. /\ UNCHANGED <<captureVars, layerVars, dirVars, ready>>
      /\ cmd = Idle /\ heads # <<>> /\ ended = "active" /\ ~opened /\ DropPartial
      /\ cmd' = [kind |-> "open", phase |-> "ensure", version |-> base, head |-> Latest]
  BY DEF OpenWorkspace, Active
<1>2. RunOK'
  BY <1>1, BuildingRuns DEF Building
<1>3. Latest \in LayerHead /\ IsHead(Latest.checkpoint)
  BY <1>1, LatestIsHead DEF WorkspaceInv
<1>4. cmd'.head = Latest /\ Latest' = Latest /\ heads' = heads /\ ended' = ended /\ opened' = opened
      /\ base' = base
  BY <1>1 DEF Latest, layerVars, dirVars
<1>5. OpenOK'
  BY <1>1, <1>3, <1>4 DEF OpenOK, IsHead, HeadStays
<1>6. BuildOK'
  BY <1>1, <1>4, <1>5 DEF BuildOK, Building, WorkspaceInv, HistoryOK
<1>7. BaseOK'
  BY <1>1, DropPartialBase DEF WorkspaceInv
<1>8. cmd'.phase # "scan"
  BY <1>1
<1>9. QED
  BY <1>1, <1>2, <1>6, <1>7, <1>8, IdleBefore, BaseStepParts DEF WorkspaceInv

\* A clone rewound to the Layer's World with the checkpoint's changes on top
\* is the checkpoint.
LEMMA ClonedIsHead ==
    ASSUME WorkspaceInv, cmd.phase = "clone"
    PROVE  Cloned = cmd.head.checkpoint.tree
<1>1. /\ cmd.at \in 1..MaxWorld /\ cmd.at >= base /\ rolling = WorldTree[cmd.at]
      /\ IsHead(cmd.head.checkpoint)
  BY DEF WorkspaceInv, BuildOK, OpenOK
<1>2. HistoryOK /\ base \in 1..MaxWorld
  BY DEF WorkspaceInv, HistoryOK
<1>3. PICK at \in 1..MaxWorld, b \in 1..MaxWorld : at = cmd.at /\ b = base
  BY <1>1, <1>2
<1>4. PICK c : c = cmd.head.checkpoint
  OBVIOUS
<1>5. c.tree \in Tree /\ WellFormed(c.tree)
  BY <1>1, <1>2, <1>4, HeadStored DEF Stored
<1>6. \A v \in 1..MaxWorld : WorldTree[v] \in Tree /\ WellFormed(WorldTree[v])
  BY WorkspaceAssumption
<1>7. Apply(WorldTree[at], Diff(WorldTree[at], WorldTree[b])) = WorldTree[b]
  BY <1>6, DiffCanonical
<1>8. Apply(WorldTree[b], Diff(WorldTree[b], c.tree)) = c.tree
  BY <1>5, <1>6, DiffCanonical
<1>9. CASE cmd.at > base
  BY <1>1, <1>3, <1>4, <1>7, <1>8, <1>9 DEF Cloned
<1>10. CASE ~(cmd.at > base)
  <2>1. at = b
    BY <1>1, <1>2, <1>3, <1>10
  <2>2. QED
    BY <1>1, <1>3, <1>4, <1>8, <1>10, <2>1 DEF Cloned
<1>11. QED
  BY <1>9, <1>10

\* The directory appears with every file as in the checkpoint.
LEMMA OpenRenameInv == WorkspaceInv /\ OpenRename => WorkspaceInv'
<1> SUFFICES ASSUME WorkspaceInv, OpenRename PROVE WorkspaceInv'
  OBVIOUS
<1>1. /\ UNCHANGED <<clock, edits, cache, blobs, scan, late, world, base, heads, ended, rolling,
                     record, sync, dirty, left, ready>>
      /\ cmd.phase = "clone" /\ opened' = TRUE /\ disk' = Cloned
      /\ cmd' = [kind |-> "open", phase |-> "sync", checkpoint |-> cmd.head.checkpoint]
  BY DEF OpenRename, layerVars, baseVars
<1>2. PICK t \in Stamp : /\ clock - Lag <= t
                         /\ stamp' = [p \in Paths |-> IF Cloned[p] = Absent THEN 0 ELSE t]
  BY DEF OpenRename
<1>3. PICK c : c = cmd.head.checkpoint
  OBVIOUS
<1>4. /\ ~opened /\ heads # <<>> /\ ended # "published"
      /\ IsHead(c) /\ HeadStays(c)
  BY <1>1, <1>3 DEF WorkspaceInv, BuildOK, OpenOK
<1>5. HistoryOK /\ FilesOK /\ MarksOK /\ scan = None
  BY <1>1, BuildingBefore DEF WorkspaceInv
<1>6. disk' = c.tree
  BY <1>1, <1>3, ClonedIsHead
<1>7. c.tree \in Tree /\ WellFormed(c.tree)
  BY <1>4, <1>5, HeadStored DEF Stored
<1>8. FilesOK'
  <2>1. t \in Nat
    BY CaptureAssumption DEF Stamp
  <2>2. stamp' \in [Paths -> Nat]
    BY <1>2, <2>1
  <2>3. \A p \in Paths : disk'[p] # Absent => stamp'[p] = t
    BY <1>1, <1>2
  <2>4. ASSUME NEW p \in Paths, cache[p] # None PROVE CachedOK(p, cache[p])'
    <3>1. CachedOK(p, cache[p])
      BY <1>5, <2>4 DEF FilesOK
    <3>2. QED
      BY <1>1, <1>2, <1>5, <2>1, <2>3, <3>1, CaptureAssumption DEF CachedOK, FilesOK
  <2>5. QED
    BY <1>1, <1>5, <1>6, <1>7, <2>2, <2>4 DEF FilesOK
<1>9. HistoryOK' /\ BaseOK'
  BY <1>1, HistoryFrame, BaseFrame DEF WorkspaceInv
<1>10. dirty = {} /\ left = {}
  BY <1>4, <1>5 DEF MarksOK
<1>11. MarksOK'
  BY <1>1, <1>4, <1>5 DEF MarksOK
<1>12. cmd'.checkpoint = c /\ cmd'.kind = "open" /\ cmd'.phase = "sync"
  BY <1>1, <1>3
<1>13. BuildOK' /\ ScanOK' /\ MatchesOK' /\ HeadSyncOK'
  BY <1>1, <1>5, <1>12
     DEF BuildOK, Building, ScanOK, MatchesOK, Unsynced, Running, HeadSyncOK, BroughtByCapture
<1>14. RunOK'
  <2>1. OpenSyncOK'
    BY <1>1, <1>3, <1>4, <1>6, <1>10, <1>12 DEF OpenSyncOK, IsHead, HeadStays, Latest
  <2>2. QED
    BY <1>1, <1>12, <2>1 DEF RunOK, Running
<1>15. ReadyOK'
  BY <1>1, <1>4, <1>6 DEF ReadyOK, Recorded, IsHead
<1>16. QED
  BY <1>8, <1>9, <1>11, <1>13, <1>14, <1>15 DEF WorkspaceInv

\* The sync record names the checkpoint the directory was made from.
LEMMA OpenSyncInv == WorkspaceInv /\ OpenSync => WorkspaceInv'
<1> SUFFICES ASSUME WorkspaceInv, OpenSync PROVE WorkspaceInv'
  OBVIOUS
<1>1. /\ UNCHANGED <<clock, disk, stamp, edits, cache, blobs, scan, late, world, base, heads,
                     ended, rolling, record, opened, dirty, left, ready>>
      /\ cmd.kind = "open" /\ cmd.phase = "sync" /\ sync' = cmd.checkpoint /\ cmd' = Idle
  BY DEF OpenSync, captureVars, layerVars, baseVars
<1>2. scan = None /\ opened /\ OpenSyncOK
  BY <1>1 DEF WorkspaceInv, ScanOK, RunOK, Running
<1>3. PICK c : c = cmd.checkpoint
  OBVIOUS
<1>4. IsHead(c) /\ HeadStays(c) /\ left = {} /\ \A p \in Paths \ dirty : disk[p] = c.tree[p]
  BY <1>2, <1>3 DEF OpenSyncOK
<1>5. c # None
  BY <1>4, HeadStored, NoneAssumption DEF WorkspaceInv, WCheckpoint
<1>6. FilesOK' /\ MarksOK' /\ BaseOK' /\ ReadyOK'
  BY <1>1, FilesFrame, MarksFrame, BaseFrame, ReadyFrame DEF WorkspaceInv
<1>7. BuildOK' /\ ScanOK' /\ RunOK'
  BY <1>1, <1>2, IdleAfter
<1>8. HistoryOK'
  BY <1>1, <1>3, <1>4 DEF WorkspaceInv, HistoryOK, Stored, IsHead
<1>9. MatchesOK'
  BY <1>1, <1>3, <1>4, <1>5 DEF MatchesOK, Matches
<1>10. HeadSyncOK'
  BY <1>1, <1>3, <1>4, <1>5 DEF HeadSyncOK, BroughtByCapture, HeadStays, Latest
<1>11. QED
  BY <1>6, <1>7, <1>8, <1>9, <1>10 DEF WorkspaceInv

-----------------------------------------------------------------------------
(* The scan.                                                               *)

\* A scan begins with a cache that is as it was, or lost.
LEMMA ScanBeginParts ==
    ASSUME WorkspaceInv, NEW prior, Stored(prior), ScanBegin(prior), cmd'.phase = "scan"
    PROVE  FilesOK' /\ ScanOK' /\ scan'.prior = prior
<1>1. /\ UNCHANGED <<clock, disk, stamp, edits, blobs>> /\ late' = {}
      /\ scan' = [phase |-> "begun", prior |-> prior, racy |-> clock - Margin]
      /\ cache' = cache \/ cache' = EmptyCache
  BY DEF ScanBegin
<1>2. FilesOK'
  <2>1. CASE cache' = cache
    BY <1>1, <2>1, FilesFrame DEF WorkspaceInv
  <2>2. CASE cache' = EmptyCache
    <3>1. \A p \in Paths : cache'[p] = None
      BY <2>2 DEF EmptyCache
    <3>2. QED
      BY <1>1, <3>1 DEF WorkspaceInv, FilesOK
  <2>3. QED
    BY <1>1, <2>1, <2>2
<1>3. clock - Margin \in Int /\ clock - Margin + Lag <= clock
  BY CaptureAssumption DEF WorkspaceInv, FilesOK
<1>4. ScanOK'
  BY <1>1, <1>3 DEF ScanOK, Stored
<1>5. QED
  BY <1>1, <1>2, <1>4

\* What the scan's steps change concerns the scan alone.
LEMMA ScanStepParts ==
    ASSUME WorkspaceInv,
           UNCHANGED <<clock, disk, stamp, edits, late, layerVars, baseVars, dirVars, cmd, ready>>,
           scan'.prior = scan.prior, blobs \subseteq blobs'
    PROVE  HistoryOK' /\ MarksOK' /\ BaseOK' /\ BuildOK' /\ RunOK' /\ MatchesOK'
             /\ HeadSyncOK' /\ ReadyOK'
<1>1. UNCHANGED <<clock, disk, stamp, edits, late, world, base, heads, ended, rolling, record,
                  opened, sync, dirty, left, cmd, ready>>
  BY DEF layerVars, baseVars, dirVars
<1>2. HistoryOK'
  BY <1>1 DEF WorkspaceInv, HistoryOK, Stored, IsHead
<1>3. MarksOK' /\ BaseOK' /\ BuildOK' /\ MatchesOK' /\ HeadSyncOK' /\ ReadyOK'
  BY <1>1, MarksFrame, BaseFrame, BuildFrame, MatchesFrame, HeadSyncFrame, ReadyFrame
     DEF WorkspaceInv
<1>4. RunOK'
  BY <1>1 DEF WorkspaceInv, RunOK, Running, Idle, Building, Terminal, OpenSyncOK, CaptureScanOK, BroughtByCapture,
              CaptureSyncOK, RefreshScanOK, RefreshWriteOK, IsHead, HeadStays, Latest,
              Recorded, Matches, FromHead
<1>5. QED
  BY <1>2, <1>3, <1>4

\* The walk lists every visible file with its fingerprint.
LEMMA ScanWalkInv ==
    ASSUME WorkspaceInv, ScanWalk, UNCHANGED <<layerVars, baseVars, dirVars, cmd, ready>>
    PROVE  WorkspaceInv'
<1>1. PICK found : found = {p \in Paths : disk[p] # Absent /\ ~Hidden(scan.prior, p)}
  OBVIOUS
<1>2. /\ UNCHANGED <<clock, disk, stamp, edits, cache, blobs, late>>
      /\ scan # None /\ scan.phase = "begun"
      /\ scan' = [phase |-> "walked", prior |-> scan.prior, racy |-> scan.racy,
                  stat |-> [p \in found |-> stamp[p]]]
  BY <1>1 DEF ScanWalk
<1>3. cmd.phase = "scan" /\ Stored(scan.prior) /\ scan.racy \in Int /\ scan.racy + Lag <= clock
  BY <1>2 DEF WorkspaceInv, ScanOK
<1>4. /\ scan'.prior = scan.prior /\ scan'.racy = scan.racy /\ scan'.phase = "walked"
      /\ DOMAIN scan'.stat = found /\ \A p \in found : scan'.stat[p] = stamp[p]
  BY <1>2
<1>5. disk \in Tree /\ WellFormed(disk) /\ stamp \in [Paths -> Nat] /\ found \subseteq Paths
  BY <1>1 DEF WorkspaceInv, FilesOK
<1>6. WalkedOK'
  <2>1. \A p, q \in found : ~Below(p, q)
    BY <1>1, <1>5 DEF WellFormed
  <2>2. \A p \in Paths : disk[p] # Absent => Ancestors[p] \cap found = {}
    BY <1>1, <1>5, PathsAssumption DEF WellFormed, Below
  <2>3. Clear(DOMAIN scan.stat)'
    BY <1>2, <1>4, <2>2 DEF Clear
  <2>4. QED
    BY <1>1, <1>2, <1>4, <1>5, <2>1, <2>3 DEF WalkedOK, Hidden
<1>7. ScanOK'
  BY <1>2, <1>3, <1>4, <1>6 DEF ScanOK, Stored
<1>8. FilesOK'
  BY <1>2, FilesFrame DEF WorkspaceInv
<1>9. QED
  BY <1>2, <1>4, <1>7, <1>8, ScanStepParts DEF WorkspaceInv

\* The loop finds every file that was not edited since the scan began, reads
\* only what no trusted entry stands for, and caches what stays true.
LEMMA ScanReadInv ==
    ASSUME WorkspaceInv, ScanRead, UNCHANGED <<layerVars, baseVars, dirVars, cmd, ready>>
    PROVE  WorkspaceInv'
<1> DEFINE toRead == {p \in DOMAIN scan.stat : ~Reused(p)}
           reused == (DOMAIN scan.stat) \ toRead
           dirs == {p \in toRead : IsDir(disk, p)}
           gone == {p \in toRead \ dirs : disk[p] = Absent}
<1>1. /\ UNCHANGED <<clock, disk, stamp, edits, late>>
      /\ scan # None /\ scan.phase = "walked"
  BY DEF ScanRead
<1>2. PICK changing \in SUBSET ((toRead \cap late) \ (gone \cup dirs)) :
        LET unstable == changing \cup dirs
            stable == toRead \ (gone \cup unstable)
            fresh == [p \in Paths |-> CASE p \in stable -> Hashed(p)
                                       [] p \in reused -> cache[p]
                                       [] OTHER -> None]
        IN  /\ scan' = [phase |-> "saved", prior |-> scan.prior,
                        uncertain |-> unstable,
                        entries |-> [p \in Paths |->
                           CASE p \in stable -> disk[p]
                             [] p \in unstable -> scan.prior[p]
                             [] p \in reused -> cache[p].entry
                             [] OTHER -> Absent]]
            /\ blobs' = blobs \cup {disk[p] : p \in stable}
            /\ cache' \in {cache, fresh}
  BY DEF ScanRead
<1> DEFINE unstable == changing \cup dirs
           stable == toRead \ (gone \cup unstable)
           fresh == [p \in Paths |-> CASE p \in stable -> Hashed(p)
                                      [] p \in reused -> cache[p]
                                      [] OTHER -> None]
           entries == [p \in Paths |->
                           CASE p \in stable -> disk[p]
                             [] p \in unstable -> scan.prior[p]
                             [] p \in reused -> cache[p].entry
                             [] OTHER -> Absent]
<1>3. /\ scan' = [phase |-> "saved", prior |-> scan.prior, uncertain |-> unstable,
                  entries |-> entries]
      /\ blobs' = blobs \cup {disk[p] : p \in stable}
      /\ cache' = cache \/ cache' = fresh
  BY <1>2
<1>4. /\ scan'.phase = "saved" /\ scan'.prior = scan.prior /\ scan'.uncertain = unstable
      /\ scan'.entries = entries
  BY <1>3
<1>5. /\ cmd.phase = "scan" /\ Stored(scan.prior)
      /\ scan.racy \in Int /\ scan.racy + Lag <= clock /\ WalkedOK
  BY <1>1 DEF WorkspaceInv, ScanOK
<1>6. /\ clock \in Nat /\ disk \in Tree /\ WellFormed(disk) /\ stamp \in [Paths -> Nat]
      /\ blobs \subseteq Contents
      /\ \A p \in Paths : cache[p] # None => CachedOK(p, cache[p])
  BY DEF WorkspaceInv, FilesOK
<1>7. /\ DOMAIN scan.stat \subseteq Paths /\ \A p \in DOMAIN scan.stat : scan.stat[p] \in Nat
      /\ \A p, q \in DOMAIN scan.stat : ~Below(p, q)
      /\ Clear(DOMAIN scan.stat)
      /\ \A p \in Paths \ late :
            /\ p \in DOMAIN scan.stat <=> disk[p] # Absent /\ ~Hidden(scan.prior, p)
            /\ p \in DOMAIN scan.stat => scan.stat[p] = stamp[p]
  BY <1>5 DEF WalkedOK
<1>8. /\ \A p \in Paths : p \in stable => entries[p] = disk[p] /\ fresh[p] = Hashed(p)
      /\ \A p \in Paths : p \notin stable /\ p \in unstable => entries[p] = scan.prior[p]
      /\ \A p \in Paths : p \notin stable /\ p \notin unstable /\ p \in reused =>
            entries[p] = cache[p].entry
      /\ \A p \in Paths : p \notin stable /\ p \notin unstable /\ p \notin reused =>
            entries[p] = Absent
      /\ \A p \in Paths : p \notin stable /\ p \in reused => fresh[p] = cache[p]
      /\ \A p \in Paths : p \notin stable /\ p \notin reused => fresh[p] = None
  OBVIOUS
<1>9. /\ unstable \subseteq DOMAIN scan.stat /\ stable \subseteq DOMAIN scan.stat
      /\ \A p \in stable : disk[p] # Absent
      /\ \A p \in reused : cache[p] # None /\ cache[p].trusted /\ cache[p].stat = scan.stat[p]
      /\ \A p \in DOMAIN scan.stat : p \in stable \/ p \in unstable \/ p \in reused \/ p \in gone
      /\ unstable \cap reused = {} /\ unstable \cap stable = {} /\ stable \cap reused = {}
  BY DEF Reused
<1>10. \A p \in stable : disk[p] \in Contents /\ disk[p] \in blobs'
  BY <1>3, <1>6, <1>7, <1>9 DEF Tree, Entries
<1>11. blobs' \subseteq Contents /\ blobs \subseteq blobs'
  BY <1>3, <1>6, <1>10
<1>12. \A p \in reused : cache[p].entry \in blobs
  BY <1>6, <1>7, <1>9 DEF CachedOK
<1> HIDE DEF unstable, stable, fresh, entries
<1>13. /\ entries \in Tree /\ WellFormed(entries)
       /\ \A p \in Paths : entries[p] \in blobs' \cup {Absent}
  <2>1. \A p \in Paths : entries[p] \in blobs' \cup {Absent}
    BY <1>5, <1>8, <1>10, <1>11, <1>12 DEF Stored
  <2>2. entries \in Tree
    BY <1>11, <2>1 DEF Tree, Entries, entries
  <2>3. \A p \in Paths : entries[p] # Absent => p \in DOMAIN scan.stat
    BY <1>8, <1>9
  <2>4. WellFormed(entries)
    BY <1>7, <2>3 DEF WellFormed
  <2>5. QED
    BY <2>1, <2>2, <2>4
<1>14. ASSUME NEW p \in Paths \ late
       PROVE  /\ entries[p] = IF Hidden(scan.prior, p) THEN Absent ELSE disk[p]
              /\ p \notin unstable
  <2>1. CASE p \notin DOMAIN scan.stat
    BY <1>7, <1>8, <1>9, <2>1
  <2>2. CASE p \in DOMAIN scan.stat
    <3>1. disk[p] # Absent /\ ~Hidden(scan.prior, p) /\ scan.stat[p] = stamp[p]
      BY <1>7, <2>2
    <3>2. ~IsDir(disk, p)
      BY <1>6, <3>1 DEF IsDir, FilesUnder, WellFormed
    <3>3. p \notin unstable /\ p \notin gone
      BY <3>1, <3>2 DEF unstable
    <3>4. CASE p \in stable
      BY <1>8, <3>1, <3>3, <3>4
    <3>5. CASE p \notin stable
      <4>1. p \in reused
        BY <1>9, <2>2, <3>3, <3>5
      <4>2. CachedOK(p, cache[p]) /\ cache[p].trusted /\ cache[p].stat = stamp[p]
        BY <1>6, <1>9, <3>1, <4>1
      <4>3. disk[p] = cache[p].entry
        BY <3>1, <4>2 DEF CachedOK
      <4>4. QED
        BY <1>8, <3>1, <3>3, <3>5, <4>1, <4>3
    <3>6. QED
      BY <3>4, <3>5
  <2>3. QED
    BY <2>1, <2>2
<1>15. SavedOK'
  <2>1. unstable \subseteq DOMAIN scan.stat
          /\ {p \in Paths : entries[p] # Absent} \subseteq DOMAIN scan.stat
    BY <1>8, <1>9
  <2>2. Clear(scan.uncertain \cup {p \in Paths : scan.entries[p] # Absent})'
    BY <1>1, <1>4, <1>7, <2>1 DEF Clear
  <2>3. Stored(scan.entries)'
    BY <1>4, <1>13 DEF Stored
  <2>4. (\A p \in Paths \ late :
           /\ scan.entries[p] = IF Hidden(scan.prior, p) THEN Absent ELSE disk[p]
           /\ p \notin scan.uncertain)'
    BY <1>1, <1>4, <1>14 DEF Hidden
  <2>5. QED
    BY <1>4, <1>7, <2>1, <2>2, <2>3, <2>4 DEF SavedOK
<1>16. ScanOK'
  BY <1>1, <1>4, <1>5, <1>11, <1>15 DEF ScanOK, Stored
<1>17. FilesOK'
  <2>1. ASSUME NEW p \in Paths, cache'[p] # None PROVE CachedOK(p, cache[p])'
    <3>1. CASE cache'[p] = cache[p]
      BY <1>1, <1>6, <1>11, <2>1, <3>1 DEF CachedOK
    <3>2. CASE cache'[p] # cache[p]
      <4>1. p \in stable /\ cache'[p] = Hashed(p)
        BY <1>3, <1>8, <2>1, <3>2
      <4>2. /\ cache'[p].entry = disk[p] /\ cache'[p].stat = scan.stat[p]
            /\ cache'[p].trusted => scan.stat[p] < scan.racy
        <5>1. PICK h : h = Hashed(p)
          OBVIOUS
        <5>2. /\ h.entry = disk[p] /\ h.stat = scan.stat[p]
              /\ h.trusted = (Old(scan.stat[p]) /\ Old(stamp[p]) /\ scan.stat[p] = stamp[p])
          BY <5>1 DEF Hashed
        <5>3. h.trusted => scan.stat[p] < scan.racy
          BY <5>2 DEF Old
        <5>4. QED
          BY <4>1, <5>1, <5>2, <5>3
      <4>3. scan.stat[p] \in Nat
        BY <1>7, <1>9, <4>1
      <4>4. cache'[p].trusted => cache'[p].stat \in Nat /\ cache'[p].stat + Lag < clock
        BY <1>5, <1>6, <4>2, <4>3, CaptureAssumption
      <4>5. QED
        BY <1>1, <1>10, <4>1, <4>2, <4>4 DEF CachedOK
    <3>3. QED
      BY <3>1, <3>2
  <2>2. QED
    BY <1>1, <1>6, <1>11, <2>1 DEF WorkspaceInv, FilesOK
<1>18. QED
  BY <1>1, <1>4, <1>11, <1>16, <1>17, ScanStepParts DEF WorkspaceInv

\* Walk or read.
LEMMA ScanStepInv == WorkspaceInv /\ ScanStep => WorkspaceInv'
BY ScanWalkInv, ScanReadInv DEF ScanStep

-----------------------------------------------------------------------------
(* capture_workspace.                                                      *)

\* A capture starts only where the directory has all the head has.
LEMMA CaptureBeginInv ==
    ASSUME WorkspaceInv, NEW publishes \in BOOLEAN, CaptureBegin(publishes)
    PROVE  WorkspaceInv'
<1>1. /\ UNCHANGED <<clock, disk, stamp, edits, blobs, world, base, heads, ended, rolling, record,
                     opened, sync, dirty, left, ready>>
      /\ late' = {}
      /\ cmd = Idle /\ opened /\ heads # <<>> /\ ended = "active" /\ ~Behind
      /\ cmd' = [kind |-> "capture", phase |-> "scan", head |-> Latest, publishes |-> publishes]
  BY DEF CaptureBegin, ScanBegin, Active, layerVars, baseVars, dirVars
<1>2. HistoryOK /\ MarksOK /\ BaseOK /\ MatchesOK /\ HeadSyncOK /\ ReadyOK
  BY DEF WorkspaceInv
<1>3. PICK h : h = Latest
  OBVIOUS
<1>4. h \in LayerHead /\ IsHead(h.checkpoint) /\ Latest' = h
  BY <1>1, <1>2, <1>3, LatestIsHead DEF Latest
<1>5. PICK prior : prior = h.checkpoint.tree
  OBVIOUS
<1>6. Stored(prior) /\ ScanBegin(prior)
  BY <1>2, <1>3, <1>4, <1>5, HeadStored DEF CaptureBegin
<1>7. cmd'.phase = "scan" /\ cmd'.kind = "capture" /\ cmd'.head = h /\ cmd'.publishes = publishes
  BY <1>1, <1>3
<1>8. FilesOK' /\ ScanOK' /\ scan'.prior = prior
  BY <1>6, <1>7, ScanBeginParts
<1>9. HistoryOK' /\ BaseOK' /\ ReadyOK'
  BY <1>1, <1>2, HistoryFrame, BaseFrame, ReadyFrame
<1>10. MarksOK' /\ BuildOK'
  BY <1>1, <1>2, <1>7 DEF MarksOK, BuildOK, Building
<1>11. ~Unsynced /\ ~Unsynced'
  BY <1>1, <1>7 DEF Unsynced, Running, Idle
<1>12. MatchesOK'
  BY <1>1, <1>2, <1>11 DEF MatchesOK, Matches, FromHead
<1>13. HeadSyncOK'
  BY <1>1, <1>2, <1>11 DEF HeadSyncOK, BroughtByCapture, Latest, Unsynced
<1>14. \A p \in Paths \ (dirty \cup left) :
          /\ sync # None
          /\ sync.tree[p] = prior[p] \/ (~h.stacked /\ BroughtByCapture(p))
  <2>1. CASE h.stacked
    <3>1. sync = h.checkpoint
      BY <1>1, <1>3, <2>1 DEF Behind
    <3>2. sync # None
      BY <1>2, <1>4, <3>1, HeadStored, NoneAssumption DEF WCheckpoint
    <3>3. QED
      BY <1>5, <3>1, <3>2
  <2>2. CASE ~h.stacked
    BY <1>1, <1>2, <1>3, <1>5, <1>11, <2>2 DEF HeadSyncOK, Unsynced
  <2>3. QED
    BY <2>1, <2>2
<1>15. CaptureScanOK'
  BY <1>1, <1>4, <1>5, <1>7, <1>8, <1>14 DEF CaptureScanOK, BroughtByCapture, IsHead, HeadStays
<1>16. RunOK'
  BY <1>1, <1>7, <1>15 DEF RunOK, Running
<1>17. QED
  BY <1>8, <1>9, <1>10, <1>12, <1>13, <1>16 DEF WorkspaceInv

\* A file the owner left alone is captured as the head has it, a hidden one
\* too, unless another directory's capture brought what the head has.
LEMMA CaptureEntries ==
    ASSUME WorkspaceInv, Running("capture", "scan"), scan.phase = "saved"
    PROVE  /\ Stored(scan.entries) /\ CaptureScanOK
           /\ \A p \in Paths \ late :
                 ~Hidden(scan.prior, p) => scan.entries[p] = disk[p]
           /\ \A p \in Paths \ late :
                 Hidden(scan.prior, p) =>
                    scan.entries[p] = Absent /\ scan.prior[p] = Absent
           /\ \A p \in Paths \ (dirty \cup left) :
                 /\ sync # None
                 /\ Latest = cmd.head =>
                       sync.tree[p] = scan.prior[p] \/ BroughtByCapture(p)
                 /\ scan.entries[p] \in {scan.prior[p], sync.tree[p]}
                 /\ scan.entries[p] = sync.tree[p] \/ Hidden(scan.prior, p)
<1>1. CaptureScanOK /\ opened /\ SavedOK /\ cmd.phase = "scan"
  BY DEF WorkspaceInv, RunOK, ScanOK, Running
<1>2. ~Unsynced
  BY DEF Unsynced, Running
<1>3. \A p \in Paths \ late : scan.entries[p] = IF Hidden(scan.prior, p) THEN Absent ELSE disk[p]
  BY <1>1 DEF SavedOK
<1>4. ASSUME NEW p \in Paths \ (dirty \cup left)
      PROVE  /\ sync # None
             /\ Latest = cmd.head =>
                   sync.tree[p] = scan.prior[p] \/ BroughtByCapture(p)
             /\ scan.entries[p] \in {scan.prior[p], sync.tree[p]}
             /\ scan.entries[p] = sync.tree[p] \/ Hidden(scan.prior, p)
  <2>1. /\ sync # None
        /\ Latest = cmd.head => sync.tree[p] = scan.prior[p] \/ BroughtByCapture(p)
    BY <1>1 DEF CaptureScanOK
  <2>2. disk[p] = sync.tree[p]
    BY <1>1, <1>2 DEF WorkspaceInv, MatchesOK, Matches
  <2>3. p \notin late
    BY DEF WorkspaceInv, MarksOK
  <2>4. QED
    BY <1>3, <2>1, <2>2, <2>3 DEF Hidden
<1>5. \A p \in Paths \ late :
         Hidden(scan.prior, p) => scan.entries[p] = Absent /\ scan.prior[p] = Absent
  BY <1>3 DEF Hidden
<1>6. QED
  BY <1>1, <1>3, <1>4, <1>5 DEF SavedOK

\* capture_layer: the captured head is new, the old one, or refused as stale.
LEMMA CaptureCommitInv == WorkspaceInv /\ CaptureCommit => WorkspaceInv'
<1> SUFFICES ASSUME WorkspaceInv, CaptureCommit PROVE WorkspaceInv'
  OBVIOUS
<1> DEFINE unchanged == Captured = cmd.head.checkpoint
           current == Active /\ Latest = cmd.head
<1>1. /\ UNCHANGED <<clock, disk, stamp, edits, cache, blobs, world, base, ended, rolling, record,
                     opened, sync, dirty, left, ready>>
      /\ cmd.kind = "capture" /\ cmd.phase = "scan" /\ scan.phase = "saved" /\ scan' = None
  BY DEF CaptureCommit, baseVars, dirVars
<1>2. PICK c : c = Captured
  OBVIOUS
<1>3. PICK h : h = [checkpoint |-> c, stacked |-> FALSE]
  OBVIOUS
<1>4. PICK hidden : hidden = {p \in Paths : Hidden(scan.prior, p)}
  OBVIOUS
<1>5. PICK certain : certain = (cmd.publishes /\ scan.uncertain = {})
  OBVIOUS
<1>6. /\ heads' = IF ~unchanged /\ current THEN Append(heads, h) ELSE heads
      /\ unchanged \/ current =>
            /\ cmd' = [kind |-> "capture", phase |-> "sync", checkpoint |-> c,
                       publishes |-> certain, hidden |-> hidden]
            /\ late' = late
      /\ ~(unchanged \/ current) => cmd' = Idle /\ late' = {}
  BY <1>2, <1>3, <1>4, <1>5 DEF CaptureCommit
<1>7. Running("capture", "scan") /\ ~Unsynced /\ opened
  BY <1>1 DEF Running, Unsynced, WorkspaceInv, RunOK
<1>8. /\ FilesOK /\ HistoryOK /\ MarksOK /\ BaseOK /\ MatchesOK /\ HeadSyncOK /\ ReadyOK
      /\ heads # <<>>
  BY <1>7 DEF WorkspaceInv, MarksOK
<1>9. /\ Stored(scan.entries) /\ CaptureScanOK
      /\ \A p \in Paths \ late : ~Hidden(scan.prior, p) => scan.entries[p] = disk[p]
      /\ \A p \in Paths \ late :
            Hidden(scan.prior, p) => scan.entries[p] = Absent /\ scan.prior[p] = Absent
      /\ \A p \in Paths \ (dirty \cup left) :
            /\ sync # None
            /\ Latest = cmd.head => sync.tree[p] = scan.prior[p] \/ BroughtByCapture(p)
            /\ scan.entries[p] \in {scan.prior[p], sync.tree[p]}
            /\ scan.entries[p] = sync.tree[p] \/ Hidden(scan.prior, p)
  BY <1>1, <1>7, CaptureEntries
<1>10. c.tree = scan.entries /\ c.stacks = cmd.head.checkpoint.stacks /\ Stored(c.tree)
  BY <1>2, <1>9 DEF Captured
<1>11. c \in WCheckpoint /\ h \in LayerHead /\ h.checkpoint = c /\ h.stacked = FALSE
  <2>1. cmd.head.checkpoint.stacks \in Nat /\ c.tree \in Tree
    BY <1>9, <1>10 DEF CaptureScanOK, BroughtByCapture, LayerHead, WCheckpoint, Stored
  <2>2. c \in WCheckpoint
    BY <1>2, <1>10, <2>1 DEF Captured, WCheckpoint
  <2>3. QED
    BY <1>3, <2>2 DEF LayerHead
<1>12. FilesOK' /\ BaseOK'
  BY <1>1, <1>8, FilesFrame, BaseFrame
<1>13. HeadsStay
  BY <1>6, <1>8, <1>11, HeadsGrow DEF HeadsStay
<1>14. HistoryOK' /\ heads' # <<>>
  <2>1. CASE heads' = heads
    BY <1>1, <1>8, <2>1, HistoryFrame
  <2>2. CASE heads' = Append(heads, h)
    <3>1. /\ heads' \in Seq(LayerHead) /\ heads' # <<>>
          /\ DOMAIN heads' = DOMAIN heads \cup {Len(heads) + 1} /\ heads'[Len(heads) + 1] = h
      BY <1>8, <1>11, <2>2, HeadsGrow
    <3>2. ASSUME NEW i \in DOMAIN heads' PROVE Stored(heads[i].checkpoint.tree)'
      <4>1. \/ i \in DOMAIN heads /\ heads'[i] = heads[i]
            \/ heads'[i] = h
        BY <1>13, <3>1 DEF HeadsStay
      <4>2. QED
        BY <1>1, <1>8, <1>10, <1>11, <4>1 DEF HistoryOK, Stored
    <3>3. (\A u \in 1..MaxWorld : Stored(WorldTree[u]))' /\ (\A t \in StackTrees : Stored(t))'
      BY <1>1, <1>8 DEF HistoryOK, Stored
    <3>4. sync' # None => IsHead(sync)'
      BY <1>1, <1>8, <1>13 DEF HistoryOK, IsHead, HeadsStay
    <3>5. QED
      BY <1>1, <1>8, <3>1, <3>2, <3>3, <3>4 DEF HistoryOK
  <2>3. QED
    BY <1>6, <2>1, <2>2
<1>15. MarksOK'
  BY <1>1, <1>6, <1>8, <1>14 DEF MarksOK
<1>16. ReadyOK'
  BY <1>1, <1>8, <1>13 DEF ReadyOK, Recorded, HeadsStay
<1>17. MatchesOK'
  <2>1. ASSUME NEW p PROVE Matches(p) => Matches(p)'
    BY <1>1, <1>13 DEF Matches, FromHead, HeadsStay
  <2>2. QED
    BY <1>1, <1>7, <1>8, <2>1 DEF MatchesOK
<1>18. HeadSyncOK'
  <2>1. CASE heads' = heads
    BY <1>1, <1>7, <1>8, <2>1 DEF HeadSyncOK, BroughtByCapture, Latest, Unsynced
  <2>2. CASE heads' = Append(heads, h)
    <3>1. Latest' = h
      BY <1>8, <1>11, <2>2, HeadsGrow
    <3>2. Latest = cmd.head /\ Latest.checkpoint.tree = scan.prior
      BY <1>6, <1>8, <1>9, <2>2, AppendGrows DEF CaptureScanOK
    <3>3. ASSUME NEW p \in Paths \ (dirty \cup left)
          PROVE  /\ sync # None
                 /\ sync.tree[p] = h.checkpoint.tree[p] \/ BroughtByCapture(p)'
      <4>1. CASE h.checkpoint.tree[p] = sync.tree[p]
        BY <1>9, <4>1
      <4>2. CASE h.checkpoint.tree[p] # sync.tree[p]
        <5>1. h.checkpoint.tree[p] = Latest.checkpoint.tree[p] /\ BroughtByCapture(p)
          BY <1>9, <1>10, <1>11, <3>2, <4>2
        <5>2. QED
          BY <1>8, <1>9, <1>11, <2>2, <5>1, StillBrought
      <4>3. QED
        BY <4>1, <4>2
    <3>4. QED
      BY <1>1, <3>1, <3>3 DEF HeadSyncOK
  <2>3. QED
    BY <1>6, <2>1, <2>2
<1>19. CASE unchanged \/ current
  <2>1. /\ cmd'.kind = "capture" /\ cmd'.phase = "sync" /\ cmd'.checkpoint = c
        /\ cmd'.publishes = certain /\ cmd'.hidden = hidden /\ late' = late
        /\ cmd' = [kind |-> "capture", phase |-> "sync", checkpoint |-> c,
                   publishes |-> certain, hidden |-> hidden]
    BY <1>6, <1>19
  <2>2. IsHead(c)' /\ (Latest'.stacked \/ Latest'.checkpoint = c)
    <3>1. CASE unchanged
      <4>1. heads' = heads /\ IsHead(c) /\ HeadStays(c)
        BY <1>2, <1>6, <1>9, <3>1 DEF CaptureScanOK, BroughtByCapture
      <4>2. QED
        BY <4>1 DEF IsHead, HeadStays, Latest
    <3>2. CASE ~unchanged
      <4>1. Latest' = h /\ IsHead(h.checkpoint)'
        BY <1>6, <1>8, <1>11, <1>19, <3>2, HeadsGrow
      <4>2. QED
        BY <1>11, <4>1 DEF IsHead
    <3>3. QED
      BY <3>1, <3>2
  <2>3. hidden \subseteq Ignored
    BY <1>4 DEF Hidden
  <2>4. /\ \A p \in Paths \ (late \cup hidden) : disk[p] = c.tree[p]
        /\ \A p \in hidden \ late : c.tree[p] = Absent
    BY <1>4, <1>9, <1>10
  <2>5. IsHead(cmd.checkpoint)' /\ HeadStays(cmd.checkpoint)'
    BY <2>1, <2>2 DEF IsHead, HeadStays
  <2>6. CaptureSyncOK'
    BY <1>1, <2>1, <2>3, <2>4, <2>5 DEF CaptureSyncOK
  <2>7. RunOK' /\ BuildOK' /\ ScanOK'
    BY <1>1, <1>7, <2>1, <2>6 DEF RunOK, Running, BuildOK, Building, ScanOK
  <2>8. QED
    BY <1>12, <1>14, <1>15, <1>16, <1>17, <1>18, <2>7 DEF WorkspaceInv
<1>20. CASE ~(unchanged \/ current)
  BY <1>1, <1>6, <1>12, <1>14, <1>15, <1>16, <1>17, <1>18, <1>20, IdleAfter DEF WorkspaceInv
<1>21. QED
  BY <1>19, <1>20

\* capture_synced: what was not captured stays marked.
LEMMA CaptureSyncInv == WorkspaceInv /\ CaptureSync => WorkspaceInv'
<1> SUFFICES ASSUME WorkspaceInv, CaptureSync PROVE WorkspaceInv'
  OBVIOUS
<1>1. /\ UNCHANGED <<clock, disk, stamp, edits, cache, blobs, scan, world, base, heads, ended,
                     rolling, record, opened>>
      /\ cmd.kind = "capture" /\ cmd.phase = "sync" /\ cmd' = Idle /\ late' = {}
      /\ sync' = cmd.checkpoint
      /\ dirty' = (dirty \cap (late \cup cmd.hidden)) \cup {p \in cmd.hidden : disk[p] # Absent}
      /\ left' = left \cap (late \cup cmd.hidden)
      /\ ready' = IF cmd.publishes THEN late ELSE ready
  BY DEF CaptureSync, layerVars, baseVars
<1>2. Running("capture", "sync") /\ ~Unsynced /\ opened /\ scan = None /\ CaptureSyncOK
  BY <1>1 DEF Running, Unsynced, WorkspaceInv, RunOK, ScanOK
<1>3. FilesOK /\ HistoryOK /\ MarksOK /\ BaseOK /\ MatchesOK /\ HeadSyncOK /\ ReadyOK
  BY DEF WorkspaceInv
<1>4. PICK c : c = cmd.checkpoint
  OBVIOUS
<1>5. /\ IsHead(c) /\ HeadStays(c) /\ cmd.hidden \subseteq Ignored
      /\ \A p \in Paths \ (late \cup cmd.hidden) : disk[p] = c.tree[p]
      /\ \A p \in cmd.hidden \ late : c.tree[p] = Absent
  BY <1>2, <1>4 DEF CaptureSyncOK
<1>6. c # None
  BY <1>3, <1>5, HeadStored, NoneAssumption DEF WCheckpoint
<1>7. FilesOK' /\ BaseOK' /\ BuildOK' /\ ScanOK' /\ RunOK'
  BY <1>1, <1>2, <1>3, FilesFrame, BaseFrame, IdleAfter
<1>8. HistoryOK'
  BY <1>1, <1>3, <1>4, <1>5 DEF HistoryOK, Stored, IsHead
<1>9. MarksOK'
  <2>1. dirty' \subseteq Paths /\ left' \subseteq Paths /\ late' \subseteq dirty'
    BY <1>1, <1>3, <1>5, CaptureAssumption DEF MarksOK
  <2>2. ready' # None => ready' \subseteq Paths
    BY <1>1, <1>3 DEF MarksOK
  <2>3. opened' /\ heads' # <<>>
    BY <1>1, <1>2, <1>3 DEF MarksOK
  <2>4. QED
    BY <2>1, <2>2, <2>3 DEF MarksOK
<1>10. MatchesOK'
  <2>1. ASSUME NEW p \in Paths \ dirty' PROVE Matches(p)'
    <3>1. p \notin late
      BY <1>1, <1>3, <2>1 DEF MarksOK
    <3>2. disk[p] = c.tree[p]
      BY <1>1, <1>5, <2>1, <3>1
    <3>3. FromHead(p)'
      BY <1>1, <1>5, <3>2 DEF IsHead, FromHead
    <3>4. QED
      BY <1>1, <1>4, <1>6, <3>2, <3>3 DEF Matches
  <2>2. QED
    BY <2>1 DEF MatchesOK
<1>11. HeadSyncOK'
  BY <1>1, <1>4, <1>5, <1>6 DEF HeadSyncOK, BroughtByCapture, HeadStays, Latest
<1>12. ReadyOK'
  <2>1. CASE cmd.publishes
    <3>1. ready' = late /\ ready' # None
      BY <1>1, <1>3, <2>1, NoneAssumption DEF MarksOK
    <3>2. ASSUME NEW p \in Paths \ (late \cup Ignored) PROVE Recorded(p, disk[p])'
      <4>1. disk[p] = c.tree[p]
        BY <1>5
      <4>2. QED
        BY <1>1, <1>5, <4>1 DEF IsHead, Recorded
    <3>3. QED
      BY <3>1, <3>2 DEF ReadyOK
  <2>2. CASE ~cmd.publishes
    BY <1>1, <1>3, <2>2, ReadyFrame
  <2>3. QED
    BY <2>1, <2>2
<1>13. QED
  BY <1>7, <1>8, <1>9, <1>10, <1>11, <1>12 DEF WorkspaceInv

\* capture_directory elsewhere: the head moves, the directory and its sync
\* record stay.
LEMMA CaptureElsewhereInv ==
    ASSUME WorkspaceInv, NEW tree \in OtherTrees, CaptureElsewhere(tree)
    PROVE  WorkspaceInv'
<1>1. /\ UNCHANGED <<clock, disk, stamp, edits, scan, late, world, base, ended, rolling,
                     record, opened, sync, dirty, left, cmd, ready>>
      /\ cmd = Idle /\ heads # <<>> /\ ~Behind /\ cache' = EmptyCache
  BY DEF CaptureElsewhere, Active, baseVars, dirVars
<1>2. /\ FilesOK /\ HistoryOK /\ MarksOK /\ BaseOK /\ MatchesOK /\ HeadSyncOK /\ ReadyOK
      /\ scan = None /\ ~Unsynced
  BY <1>1, IdleBefore DEF WorkspaceInv
<1>3. PICK found : found = [p \in Paths |-> IF Hidden(Latest.checkpoint.tree, p) THEN Absent
                                                                              ELSE tree[p]]
  OBVIOUS
<1>4. PICK h : h = [checkpoint |-> [tree |-> found, stacks |-> Latest.checkpoint.stacks],
                    stacked |-> FALSE]
  OBVIOUS
<1>5. /\ heads' = Append(heads, h)
      /\ blobs' = blobs \cup ({found[p] : p \in Paths} \ {Absent})
  BY <1>3, <1>4 DEF CaptureElsewhere
<1>6. tree \in Tree /\ WellFormed(tree)
  BY WorkspaceAssumption
<1>7. found \in Tree /\ WellFormed(found)
  <2>1. found \in Tree
    BY <1>3, <1>6 DEF Tree, Entries
  <2>2. \A p \in Paths : found[p] # Absent => tree[p] = found[p]
    BY <1>3
  <2>3. QED
    BY <1>6, <2>1, <2>2 DEF WellFormed
<1>8. blobs \subseteq blobs' /\ blobs' \subseteq Contents /\ Stored(found)'
  BY <1>2, <1>5, <1>7 DEF FilesOK, Tree, Entries, Stored
<1>9. h \in LayerHead /\ h.checkpoint.tree = found /\ h.stacked = FALSE
  BY <1>1, <1>2, <1>4, <1>7, LatestIsHead DEF LayerHead, WCheckpoint
<1>10. /\ heads' \in Seq(LayerHead) /\ heads' # <<>> /\ HeadsStay /\ Latest' = h
       /\ DOMAIN heads' = DOMAIN heads \cup {Len(heads) + 1}
       /\ heads'[Len(heads) + 1] = h
  BY <1>2, <1>5, <1>9, HeadsGrow
<1>11. FilesOK'
  <2>1. \A p \in Paths : cache'[p] = None
    BY <1>1 DEF EmptyCache
  <2>2. QED
    BY <1>1, <1>2, <1>8, <2>1 DEF FilesOK
<1>12. HistoryOK'
  <2>1. ASSUME NEW i \in DOMAIN heads' PROVE Stored(heads[i].checkpoint.tree)'
    <3>1. \/ i \in DOMAIN heads /\ heads'[i] = heads[i]
          \/ heads'[i] = h
      BY <1>10 DEF HeadsStay
    <3>2. QED
      BY <1>2, <1>8, <1>9, <3>1 DEF HistoryOK, Stored
  <2>2. (\A u \in 1..MaxWorld : Stored(WorldTree[u]))' /\ (\A t \in StackTrees : Stored(t))'
    BY <1>2, <1>8 DEF HistoryOK, Stored
  <2>3. sync' # None => IsHead(sync)'
    BY <1>1, <1>2, <1>10 DEF HistoryOK, IsHead, HeadsStay
  <2>4. QED
    BY <1>1, <1>2, <1>10, <2>1, <2>2, <2>3 DEF HistoryOK
<1>13. MarksOK' /\ BaseOK' /\ BuildOK' /\ ScanOK' /\ RunOK'
  BY <1>1, <1>2, <1>10, BaseFrame, IdleAfter DEF MarksOK
<1>14. MatchesOK'
  <2>1. ASSUME NEW p PROVE Matches(p) => Matches(p)'
    BY <1>1, <1>10 DEF Matches, FromHead, HeadsStay
  <2>2. QED
    BY <1>1, <1>2, <2>1 DEF MatchesOK, Unsynced, Running
<1>15. HeadSyncOK'
  <2>1. ASSUME NEW p \in Paths \ (dirty \cup left), opened
        PROVE  /\ sync # None
               /\ sync.tree[p] = h.checkpoint.tree[p] \/ BroughtByCapture(p)'
    <3>1. /\ sync # None
          /\ sync.tree[p] = Latest.checkpoint.tree[p] \/ BroughtByCapture(p)
      <4>1. CASE Latest.stacked
        BY <1>1, <1>2, <4>1, LatestIsHead, HeadStored, NoneAssumption DEF Behind, WCheckpoint
      <4>2. CASE ~Latest.stacked
        BY <1>2, <2>1, <4>2 DEF HeadSyncOK, Unsynced
      <4>3. QED
        BY <4>1, <4>2
    <3>2. CASE h.checkpoint.tree[p] = Latest.checkpoint.tree[p]
      BY <1>1, <1>2, <1>5, <1>9, <3>1, <3>2, StillBrought
    <3>3. CASE h.checkpoint.tree[p] # Latest.checkpoint.tree[p]
      BY <1>1, <1>2, <1>5, <1>9, <3>1, <3>3, NewlyBrought
    <3>4. QED
      BY <3>2, <3>3
  <2>2. QED
    BY <1>1, <1>10, <2>1 DEF HeadSyncOK
<1>16. ReadyOK'
  BY <1>1, <1>2, <1>10 DEF ReadyOK, Recorded, HeadsStay
<1>17. QED
  BY <1>11, <1>12, <1>13, <1>14, <1>15, <1>16 DEF WorkspaceInv

-----------------------------------------------------------------------------
(* refresh_workspace_resolved.                                             *)

\* A refresh scans against what the directory was synced to.
LEMMA RefreshBeginInv == WorkspaceInv /\ RefreshBegin => WorkspaceInv'
<1> SUFFICES ASSUME WorkspaceInv, RefreshBegin PROVE WorkspaceInv'
  OBVIOUS
<1>1. /\ UNCHANGED <<clock, disk, stamp, edits, blobs, world, base, heads, ended, opened, sync,
                     dirty, left, ready>>
      /\ late' = {} /\ DropPartial
      /\ cmd = Idle /\ opened /\ heads # <<>> /\ sync # None
      /\ cmd' = [kind |-> "refresh", phase |-> "scan", head |-> Latest.checkpoint]
  BY DEF RefreshBegin, ScanBegin, Active, layerVars, dirVars
<1>2. HistoryOK /\ MarksOK /\ BaseOK /\ MatchesOK /\ HeadSyncOK /\ ReadyOK
  BY DEF WorkspaceInv
<1>3. PICK c, prior : c = Latest.checkpoint /\ prior = sync.tree
  OBVIOUS
<1>4. IsHead(c) /\ HeadStays(c) /\ IsHead(sync)
  BY <1>1, <1>2, <1>3, LatestIsHead DEF HistoryOK, HeadStays
<1>5. Stored(prior)
  <2>1. PICK s : s = sync
    OBVIOUS
  <2>2. QED
    BY <1>2, <1>3, <1>4, <2>1, HeadStored
<1>6. ScanBegin(prior)
  BY <1>3 DEF RefreshBegin
<1>7. cmd'.phase = "scan" /\ cmd'.kind = "refresh" /\ cmd'.head = c
  BY <1>1, <1>3
<1>8. FilesOK' /\ ScanOK' /\ scan'.prior = prior
  BY <1>5, <1>6, <1>7, ScanBeginParts
<1>9. HistoryOK' /\ BaseOK' /\ ReadyOK'
  BY <1>1, <1>2, HistoryFrame, DropPartialBase, ReadyFrame
<1>10. MarksOK' /\ BuildOK'
  BY <1>1, <1>2, <1>7 DEF MarksOK, BuildOK, Building
<1>11. ~Unsynced /\ ~Unsynced'
  BY <1>1, <1>7 DEF Unsynced, Running, Idle
<1>12. MatchesOK'
  BY <1>1, <1>2, <1>11 DEF MatchesOK, Matches, FromHead
<1>13. HeadSyncOK'
  BY <1>1, <1>2, <1>11 DEF HeadSyncOK, BroughtByCapture, Latest, Unsynced
<1>14. RefreshScanOK'
  BY <1>1, <1>3, <1>4, <1>7, <1>8 DEF RefreshScanOK, IsHead, HeadStays, Latest
<1>15. RunOK'
  BY <1>1, <1>7, <1>14 DEF RunOK, Running
<1>16. QED
  BY <1>8, <1>9, <1>10, <1>12, <1>13, <1>15 DEF WorkspaceInv

\* Taking one path of a plan writes the plan's entry there.
LEMMA RefreshWriteFiles ==
    ASSUME WorkspaceInv, NEW p \in Paths, RefreshWrite(p)
    PROVE  /\ RefreshWriteOK /\ opened /\ FilesOK'
           /\ disk' = [disk EXCEPT ![p] = cmd.todo[p]]
           /\ \A q \in Paths \ {p} : disk'[q] = disk[q]
           /\ disk'[p] = cmd.todo[p]
<1>1. /\ UNCHANGED <<clock, edits, cache, blobs>>
      /\ cmd.kind = "refresh" /\ cmd.phase = "write"
      /\ p \in DOMAIN cmd.todo /\ ~IsDir(disk, p)
      /\ cmd.todo[p] # Absent => \A q \in Ancestors[p] : disk[q] = Absent
      /\ disk' = [disk EXCEPT ![p] = cmd.todo[p]]
      /\ Stamped(p, cmd.todo[p])
  BY DEF RefreshWrite
<1>2. RefreshWriteOK /\ opened /\ FilesOK
  BY <1>1 DEF WorkspaceInv, RunOK, Running
<1>3. PICK e : e = cmd.todo[p]
  OBVIOUS
<1>4. e \in Entries
  BY <1>1, <1>2, <1>3, ChangesType DEF RefreshWriteOK
<1>5. disk \in Tree /\ WellFormed(disk) /\ edits' \in Nat
  BY <1>1, <1>2 DEF FilesOK
<1>6. \A q \in Paths \ {p} : disk'[q] = disk[q]
  BY <1>1, <1>5 DEF Tree
<1>7. disk'[p] = e
  BY <1>1, <1>3, <1>5 DEF Tree
<1>8. WellFormed([disk EXCEPT ![p] = e])
  <2>1. SUFFICES ASSUME NEW q \in Paths, NEW r \in Paths, Below(q, r)
                 PROVE  disk'[q] = Absent \/ disk'[r] = Absent
    BY <1>1, <1>3 DEF WellFormed
  <2>2. q # r
    BY <2>1, PathsAssumption DEF Below
  <2>3. CASE q = p
    BY <1>1, <1>6, <2>1, <2>2, <2>3 DEF IsDir, FilesUnder
  <2>4. CASE r = p
    BY <1>1, <1>3, <1>6, <1>7, <2>1, <2>2, <2>4 DEF Below
  <2>5. CASE q # p /\ r # p
    BY <1>5, <1>6, <2>1, <2>5 DEF WellFormed
  <2>6. QED
    BY <2>3, <2>4, <2>5
<1>9. FilesOK'
  BY <1>1, <1>2, <1>3, <1>4, <1>5, <1>8, WriteFiles
<1>10. QED
  BY <1>1, <1>2, <1>3, <1>6, <1>7, <1>9

\* A write brings the head's entry, or what the owner supplied.
LEMMA RefreshWriteInv ==
    ASSUME WorkspaceInv, NEW p \in Paths, RefreshWrite(p)
    PROVE  WorkspaceInv'
<1>1. /\ UNCHANGED <<clock, edits, cache, blobs, scan, late, world, base, heads, ended, rolling,
                     record, opened, sync, dirty, left>>
      /\ cmd.kind = "refresh" /\ cmd.phase = "write" /\ p \in DOMAIN cmd.todo
      /\ cmd' = [cmd EXCEPT !.todo = [q \in (DOMAIN cmd.todo) \ {p} |-> cmd.todo[q]]]
      /\ ready' = IF ready # None /\ p \in cmd.taken THEN ready \cup {p} ELSE ready
  BY DEF RefreshWrite, layerVars, baseVars, dirVars
<1>2. /\ RefreshWriteOK /\ opened /\ FilesOK'
      /\ \A q \in Paths \ {p} : disk'[q] = disk[q]
      /\ disk'[p] = cmd.todo[p]
  BY RefreshWriteFiles
<1>3. PICK todo : todo = [q \in (DOMAIN cmd.todo) \ {p} |-> cmd.todo[q]]
  OBVIOUS
<1>4. /\ cmd' = [kind |-> "refresh", phase |-> "write", head |-> cmd.head, todo |-> todo,
                 taken |-> cmd.taken, kept |-> cmd.kept]
      /\ cmd'.kind = "refresh" /\ cmd'.phase = "write" /\ cmd'.head = cmd.head
      /\ cmd'.todo = todo /\ cmd'.taken = cmd.taken /\ cmd'.kept = cmd.kept
  <2>1. cmd = [kind |-> "refresh", phase |-> "write", head |-> cmd.head, todo |-> cmd.todo,
              taken |-> cmd.taken, kept |-> cmd.kept]
    BY <1>2 DEF RefreshWriteOK
  <2>2. QED
    BY <1>1, <1>3, <2>1
<1>5. /\ DOMAIN todo = (DOMAIN cmd.todo) \ {p} /\ \A q \in DOMAIN todo : todo[q] = cmd.todo[q]
  BY <1>3
<1>6. /\ DOMAIN cmd.todo \subseteq Paths /\ \A q \in DOMAIN cmd.todo : cmd.todo[q] \in Entries
  BY <1>2, ChangesType DEF RefreshWriteOK
<1>7. todo \in Changes
  <2>1. todo \in [(DOMAIN cmd.todo) \ {p} -> Entries] /\ (DOMAIN cmd.todo) \ {p} \in SUBSET Paths
    BY <1>3, <1>6
  <2>2. QED
    BY <2>1 DEF Changes
<1>8. HistoryOK' /\ BaseOK'
  BY <1>1, HistoryFrame, BaseFrame DEF WorkspaceInv
<1>9. MarksOK'
  BY <1>1 DEF WorkspaceInv, MarksOK
<1>10. BuildOK' /\ ScanOK' /\ MatchesOK'
  BY <1>1, <1>4 DEF WorkspaceInv, BuildOK, Building, ScanOK, MatchesOK, Unsynced, Running
<1>11. HeadSyncOK'
  BY <1>1, <1>4 DEF WorkspaceInv, HeadSyncOK, BroughtByCapture, Running, Latest
<1>12. RefreshWriteOK'
  <2>1. sync' # None /\ IsHead(cmd.head)' /\ HeadStays(cmd.head)'
    BY <1>1, <1>2, <1>4 DEF RefreshWriteOK, IsHead, HeadStays, Latest
  <2>2. ASSUME NEW q \in DOMAIN todo
        PROVE  /\ todo[q] # cmd.head.tree[q] => q \in cmd.taken /\ todo[q] \in Supplied
               /\ q \notin late \cup cmd.taken => Recorded(q, disk[q])'
    <3>1. q \in DOMAIN cmd.todo /\ q # p /\ todo[q] = cmd.todo[q] /\ disk'[q] = disk[q]
      BY <1>2, <1>5, <1>6
    <3>2. QED
      BY <1>1, <1>2, <3>1 DEF RefreshWriteOK, Recorded
  <2>3. ASSUME NEW q \in Paths, q # p PROVE Matches(q) => Matches(q)'
    BY <1>1, <1>2, <2>3 DEF Matches, FromHead
  <2>4. ASSUME NEW q \in Paths \ (dirty \cup cmd.kept \cup cmd.taken)
        PROVE  \/ q \in DOMAIN todo \/ disk'[q] = cmd.head.tree[q]
               \/ (q \in left /\ Matches(q)')
    <3>1. CASE q = p
      BY <1>1, <1>2, <3>1 DEF RefreshWriteOK
    <3>2. CASE q # p
      BY <1>2, <1>5, <2>3, <3>2 DEF RefreshWriteOK
    <3>3. QED
      BY <3>1, <3>2
  <2>5. ASSUME NEW q \in Paths \ dirty
        PROVE  Matches(q)' \/ disk'[q] = cmd.head.tree[q] \/ disk'[q] \in Supplied
    <3>1. CASE q = p
      BY <1>1, <1>2, <3>1 DEF RefreshWriteOK
    <3>2. CASE q # p
      BY <1>2, <2>3, <3>2 DEF RefreshWriteOK
    <3>3. QED
      BY <3>1, <3>2
  <2>6. cmd.taken \subseteq Paths /\ cmd.kept \subseteq Paths
    BY <1>2 DEF RefreshWriteOK
  <2>7. QED
    BY <1>1, <1>4, <1>7, <2>1, <2>2, <2>4, <2>5, <2>6 DEF RefreshWriteOK
<1>13. RunOK'
  BY <1>1, <1>2, <1>4, <1>12 DEF RunOK, Running
<1>14. ReadyOK'
  <2>1. ready # None => /\ ready' # None /\ ready \subseteq ready'
                        /\ p \in cmd.taken => p \in ready'
    BY <1>1, NoneAssumption DEF WorkspaceInv, MarksOK
  <2>2. ready' # None => ready # None
    BY <1>1
  <2>3. ASSUME ready' # None, NEW q \in Paths \ (ready' \cup Ignored)
        PROVE  Recorded(q, disk[q])'
    <3>1. CASE q = p
      <4>1. disk'[p] = cmd.head.tree[p] /\ IsHead(cmd.head)
        BY <1>1, <1>2, <2>1, <2>2, <2>3, <3>1 DEF RefreshWriteOK
      <4>2. QED
        BY <1>1, <3>1, <4>1 DEF IsHead, Recorded
    <3>2. CASE q # p
      BY <1>1, <1>2, <2>1, <2>2, <2>3, <3>2 DEF WorkspaceInv, ReadyOK, Recorded
    <3>3. QED
      BY <3>1, <3>2
  <2>4. ended' = "published" /\ opened' => ready' # None
    BY <1>1, <2>1 DEF WorkspaceInv, ReadyOK
  <2>5. QED
    BY <2>3, <2>4 DEF ReadyOK
<1>15. QED
  BY <1>2, <1>8, <1>9, <1>10, <1>11, <1>13, <1>14 DEF WorkspaceInv

\* The directory has the head's work, except what the owner kept or chose.
LEMMA RefreshSyncInv == WorkspaceInv /\ RefreshSync => WorkspaceInv'
<1> SUFFICES ASSUME WorkspaceInv, RefreshSync PROVE WorkspaceInv'
  OBVIOUS
<1>1. /\ UNCHANGED <<clock, disk, stamp, edits, cache, blobs, scan, world, base, heads, ended,
                     rolling, record, opened, ready>>
      /\ cmd.kind = "refresh" /\ cmd.phase = "write" /\ DOMAIN cmd.todo = {}
      /\ sync' = cmd.head /\ cmd' = Idle /\ late' = {}
      /\ dirty' = dirty \cup cmd.kept \cup cmd.taken
      /\ left' = {p \in left : disk[p] # cmd.head.tree[p]}
  BY DEF RefreshSync, layerVars, baseVars
<1>2. RefreshWriteOK /\ opened /\ scan = None
  BY <1>1 DEF WorkspaceInv, RunOK, Running, ScanOK
<1>3. FilesOK /\ HistoryOK /\ MarksOK /\ BaseOK /\ ReadyOK
  BY DEF WorkspaceInv
<1>4. PICK c : c = cmd.head
  OBVIOUS
<1>5. /\ IsHead(c) /\ HeadStays(c) /\ cmd.kept \subseteq Paths /\ cmd.taken \subseteq Paths
      /\ \A p \in Paths \ (dirty \cup cmd.kept \cup cmd.taken) :
            disk[p] = c.tree[p] \/ (p \in left /\ Matches(p))
  BY <1>1, <1>2, <1>4 DEF RefreshWriteOK
<1>6. c # None
  BY <1>3, <1>5, HeadStored, NoneAssumption DEF WCheckpoint
<1>7. FilesOK' /\ BaseOK' /\ ReadyOK' /\ BuildOK' /\ ScanOK' /\ RunOK'
  BY <1>1, <1>2, <1>3, FilesFrame, BaseFrame, ReadyFrame, IdleAfter
<1>8. HistoryOK'
  BY <1>1, <1>3, <1>4, <1>5 DEF HistoryOK, Stored, IsHead
<1>9. MarksOK'
  BY <1>1, <1>2, <1>3, <1>5 DEF MarksOK
<1>10. MatchesOK'
  <2>1. ASSUME NEW p \in Paths \ dirty' PROVE Matches(p)'
    <3>1. disk[p] = c.tree[p] \/ (p \in left /\ Matches(p))
      BY <1>1, <1>5
    <3>2. CASE p \in left'
      BY <1>1, <1>4, <3>1, <3>2 DEF Matches, FromHead
    <3>3. CASE p \notin left'
      BY <1>1, <1>4, <1>6, <3>1, <3>3 DEF Matches
    <3>4. QED
      BY <3>2, <3>3
  <2>2. QED
    BY <2>1 DEF MatchesOK
<1>11. HeadSyncOK'
  BY <1>1, <1>4, <1>5, <1>6 DEF HeadSyncOK, BroughtByCapture, HeadStays, Latest
<1>12. QED
  BY <1>7, <1>8, <1>9, <1>10, <1>11 DEF WorkspaceInv

-----------------------------------------------------------------------------
(* publish_workspace and discard_workspace.                                *)

\* A publication starts or is given up.
LEMMA ReadyInv ==
    ASSUME WorkspaceInv, PublishUnopened \/ PublishAbandoned
    PROVE  WorkspaceInv'
<1>1. /\ UNCHANGED <<clock, disk, stamp, edits, cache, blobs, scan, late, world, base, heads,
                     ended, rolling, record, opened, sync, dirty, left, cmd>>
      /\ (ready' = {} /\ ~opened) \/ (ready' = None /\ ended = "active")
  BY DEF PublishUnopened, PublishAbandoned, Active, captureVars, layerVars, baseVars, dirVars
<1>2. FilesOK' /\ HistoryOK' /\ BaseOK' /\ BuildOK' /\ ScanOK' /\ RunOK' /\ MatchesOK'
        /\ HeadSyncOK'
  BY <1>1, FilesFrame, HistoryFrame, BaseFrame, BuildFrame, ScanFrame, RunFrame, MatchesFrame,
     HeadSyncFrame DEF WorkspaceInv
<1>3. MarksOK' /\ ReadyOK'
  BY <1>1 DEF WorkspaceInv, MarksOK, ReadyOK
<1>4. QED
  BY <1>2, <1>3 DEF WorkspaceInv

\* The database ends the Layer before its directory goes.
LEMMA EndInv ==
    ASSUME WorkspaceInv, PublishWorkspace \/ DiscardWorkspace
    PROVE  WorkspaceInv'
<1>1. /\ UNCHANGED <<clock, disk, stamp, edits, cache, blobs, scan, late, base, heads, rolling,
                     record, opened, sync, dirty, left, ready>>
      /\ cmd = Idle /\ heads # <<>> /\ cmd' = [kind |-> "end", phase |-> "reclaim"]
      /\ \/ ended' = "published" /\ ready # None /\ world < MaxWorld /\ world' = world + 1
         \/ ended' = "discarded" /\ world' = world
  BY DEF PublishWorkspace, DiscardWorkspace, Active, captureVars, baseVars, dirVars
<1>2. FilesOK' /\ MarksOK' /\ BaseOK'
  BY <1>1, FilesFrame, MarksFrame, BaseFrame DEF WorkspaceInv
<1>3. HistoryOK'
  <2>1. world' \in 1..MaxWorld
    BY <1>1, WorkspaceAssumption DEF WorkspaceInv, HistoryOK
  <2>2. QED
    BY <1>1, <2>1 DEF WorkspaceInv, HistoryOK, Stored, IsHead
<1>4. scan = None /\ ~Unsynced
  BY <1>1, IdleBefore
<1>5. BuildOK' /\ ScanOK' /\ RunOK'
  BY <1>1, <1>4 DEF BuildOK, Building, ScanOK, RunOK, Running, Terminal
<1>6. MatchesOK'
  BY <1>1, <1>4 DEF WorkspaceInv, MatchesOK, Matches, FromHead
<1>7. HeadSyncOK'
  BY <1>1, <1>4 DEF WorkspaceInv, HeadSyncOK, BroughtByCapture, Latest, Unsynced
<1>8. ReadyOK'
  BY <1>1 DEF WorkspaceInv, ReadyOK, Recorded
<1>9. QED
  BY <1>2, <1>3, <1>5, <1>6, <1>7, <1>8 DEF WorkspaceInv

-----------------------------------------------------------------------------
(* A command that dies.                                                    *)

\* Whatever a dead command left is no complete base, and is marked.
LEMMA CrashInv == WorkspaceInv /\ Crash => WorkspaceInv'
<1> SUFFICES ASSUME WorkspaceInv, Crash PROVE WorkspaceInv'
  OBVIOUS
<1>1. /\ UNCHANGED <<clock, disk, stamp, edits, cache, blobs, world, base, heads, ended, record,
                     opened, sync, dirty, ready>>
      /\ cmd' = Idle /\ scan' = None /\ late' = {}
  BY DEF Crash, layerVars
<1>2. /\ FilesOK /\ HistoryOK /\ MarksOK /\ BaseOK /\ BuildOK /\ RunOK /\ MatchesOK
      /\ HeadSyncOK /\ ReadyOK
  BY DEF WorkspaceInv
<1>3. FilesOK' /\ HistoryOK' /\ ReadyOK' /\ BuildOK' /\ ScanOK' /\ RunOK'
  BY <1>1, <1>2, FilesFrame, HistoryFrame, ReadyFrame, IdleAfter
<1>4. BaseOK'
  <2>1. CASE cmd.phase = "advance"
    <3>1. record.advancing = cmd.version /\ cmd.version \in 1..MaxWorld
      BY <1>2, <2>1 DEF BuildOK, Building
    <3>2. QED
      BY <1>1, <3>1, NoneAssumption DEF BaseOK, Held
  <2>2. CASE cmd.phase = "ensure" /\ ~Held
    <3>1. rolling' = rolling \/ rolling' = None
      BY <2>2 DEF Crash
    <3>2. QED
      BY <1>1, <2>2, <3>1 DEF BaseOK, Held
  <2>3. CASE cmd.phase # "advance" /\ ~(cmd.phase = "ensure" /\ ~Held)
    <3>1. rolling' = rolling
      BY <2>3 DEF Crash
    <3>2. QED
      BY <1>1, <1>2, <3>1, BaseFrame
  <2>4. QED
    BY <2>1, <2>2, <2>3
<1>5. CASE Running("open", "sync")
  <2>1. left' = Paths /\ opened /\ OpenSyncOK
    BY <1>2, <1>5 DEF Crash, RunOK, Running
  <2>2. MarksOK' /\ HeadSyncOK'
    BY <1>1, <1>2, <2>1 DEF MarksOK, HeadSyncOK, BroughtByCapture
  <2>3. MatchesOK'
    BY <1>1, <2>1 DEF MatchesOK, Matches, FromHead, OpenSyncOK, IsHead
  <2>4. QED
    BY <1>3, <1>4, <2>2, <2>3 DEF WorkspaceInv
<1>6. CASE cmd.kind = "refresh"
  <2>1. left' = left \cup {p \in Paths : disk[p] # sync.tree[p]}
    BY <1>6 DEF Crash
  <2>2. opened /\ sync # None /\ ~Running("open", "sync")
          /\ (Running("refresh", "scan") \/ Running("refresh", "write"))
    BY <1>2, <1>6 DEF RunOK, Running, Idle, Building, RefreshScanOK, RefreshWriteOK
  <2>3. MarksOK'
    BY <1>1, <1>2, <2>1, <2>2 DEF MarksOK
  <2>4. HeadSyncOK'
    BY <1>1, <1>2, <2>1, <2>2 DEF HeadSyncOK, BroughtByCapture, Latest
  <2>5. ASSUME NEW p \in Paths \ dirty PROVE Matches(p)'
    <3>1. Matches(p) \/ FromHead(p) \/ disk[p] \in Supplied
      <4>1. CASE Running("refresh", "scan")
        BY <1>2, <2>2, <4>1 DEF MatchesOK, Unsynced, Running
      <4>2. CASE Running("refresh", "write")
        BY <1>2, <4>2 DEF RunOK, RefreshWriteOK, IsHead, FromHead
      <4>3. QED
        BY <2>2, <4>1, <4>2
    <3>2. QED
      BY <1>1, <2>1, <2>2, <3>1 DEF Matches, FromHead
  <2>6. MatchesOK'
    BY <1>1, <2>5 DEF MatchesOK
  <2>7. QED
    BY <1>3, <1>4, <2>3, <2>4, <2>6 DEF WorkspaceInv
<1>7. CASE ~Running("open", "sync") /\ cmd.kind # "refresh"
  <2>1. left' = left /\ ~Unsynced
    BY <1>7 DEF Crash, Running, Unsynced
  <2>2. MarksOK' /\ HeadSyncOK'
    BY <1>1, <1>2, <1>7, <2>1 DEF MarksOK, HeadSyncOK, BroughtByCapture, Latest
  <2>3. MatchesOK'
    BY <1>1, <1>2, <2>1 DEF MatchesOK, Matches, FromHead
  <2>4. QED
    BY <1>3, <1>4, <2>2, <2>3 DEF WorkspaceInv
<1>8. QED
  BY <1>5, <1>6, <1>7

-----------------------------------------------------------------------------
(* The plan of a refresh.                                                  *)

\* Every conflict is a path, and one the head deletes is a file the scan found
\* or was unsure of, or one that is there.
LEMMA KnownFacts ==
    ASSUME NEW from \in Tree, NEW local \in Tree, NEW head \in Tree,
           NEW uncertain \in SUBSET Paths, NEW p \in Known(from, local, head, uncertain)
    PROVE  /\ p \in Paths
           /\ head[p] = Absent => p \in uncertain \/ local[p] # Absent \/ disk[p] # Absent
<1> DEFINE conflicts == Disagreements(from, local, head, uncertain)
           apply == Unopposed(from, local, head, conflicts)
           cand == Candidate(apply, conflicts, from, head)
<1>1. ASSUME p \in conflicts
      PROVE  p \in Paths /\ (head[p] = Absent => p \in uncertain \/ local[p] # Absent)
  <2>1. CASE p \in {q \in Moved(from, local) \cap Moved(from, head) : local[q] # head[q]}
    BY <2>1 DEF Moved
  <2>2. CASE p \in {q \in Moved(from, local) :
              local[q] # Absent /\ \E r \in Ancestors[q] \cap Moved(from, head) : head[r] # Absent}
    BY <2>2 DEF Moved
  <2>3. CASE p \in uncertain \cap Moved(from, head)
    BY <2>3
  <2>4. CASE p \in UNION {{pair[1], pair[2]} : pair \in
              {two \in Paths \X Paths :
                 /\ two[1] # two[2]
                 /\ \E q \in Paths : Renamed(from, local, q, two[1])
                                       /\ Renamed(from, head, q, two[2])}}
    <3>1. PICK pair \in Paths \X Paths :
             /\ p \in {pair[1], pair[2]}
             /\ \E q \in Paths : Renamed(from, local, q, pair[1]) /\ Renamed(from, head, q, pair[2])
      BY <2>4
    <3>2. PICK q \in Paths : Renamed(from, local, q, pair[1]) /\ Renamed(from, head, q, pair[2])
      BY <3>1
    <3>3. pair[1] \in Paths /\ pair[2] \in Paths
      BY <3>1
    <3>4. local[pair[1]] # Absent /\ head[pair[2]] # Absent
      <4>1. from[q] # Absent
        BY <3>2 DEF Renamed
      <4>2. pair[1] \in {r \in Paths : local[r] = from[q] /\ from[r] = Absent}
        BY <3>2 DEF Renamed
      <4>3. pair[2] \in {r \in Paths : head[r] = from[q] /\ from[r] = Absent}
        BY <3>2 DEF Renamed
      <4>4. QED
        BY <4>1, <4>2, <4>3
    <3>5. QED
      BY <3>1, <3>3, <3>4
  <2>5. QED
    BY <1>1, <2>1, <2>2, <2>3, <2>4 DEF Disagreements
<1>2. /\ DOMAIN cand \subseteq Paths
      /\ \A q \in DOMAIN cand : cand[q] = head[q]
  BY DEF Candidate, Unopposed, Moved
<1> HIDE DEF conflicts, apply, cand
<1>3. ASSUME NEW q \in Writes(cand) PROVE q \in Paths /\ head[q] # Absent
  BY <1>2, <1>3 DEF Writes, Gone
<1>4. ASSUME p \in Blocked(cand)
      PROVE  p \in Paths /\ (head[p] # Absent \/ disk[p] # Absent)
  <2>1. CASE p \in UNION {{pair[1], pair[2]} : pair \in
             {two \in Paths \X Paths :
                two[1] \in Writes(cand) /\ two[2] \in Ancestors[two[1]]
                  /\ disk[two[2]] # Absent}}
    <3>1. PICK pair \in Paths \X Paths :
             /\ p \in {pair[1], pair[2]} /\ pair[1] \in Writes(cand) /\ disk[pair[2]] # Absent
      BY <2>1
    <3>2. QED
      BY <1>3, <3>1
  <2>2. CASE p \in Writes(cand)
    BY <1>3, <2>2
  <2>3. QED
    BY <1>4, <2>1, <2>2 DEF Blocked
<1>5. ASSUME p \in Occupied(local, cand) PROVE p \in Paths /\ head[p] # Absent
  BY <1>3, <1>5 DEF Occupied
<1>6. p \in conflicts \/ p \in Blocked(cand) \/ p \in Occupied(local, cand)
  BY DEF Known, Structural, conflicts, apply, cand
<1>7. QED
  BY <1>1, <1>4, <1>5, <1>6

\* A resolved plan that nothing is left to refuse.
Planned(from, local, head, conflicts, keep, taken, take, plan) ==
    /\ from \in Tree /\ local \in Tree /\ head \in Tree
    /\ taken \subseteq Paths /\ take \in [taken -> Entries]
    /\ plan = ResolvedApply(Unopposed(from, local, head, conflicts), keep, take)
    /\ ResolvedConflicts(conflicts, keep, take) = {}
    /\ Structural(local, Candidate(plan, {}, from, head), taken) = {}

\* What such a plan writes.
LEMMA PlanFacts ==
    ASSUME NEW from, NEW local, NEW head, NEW conflicts, NEW keep, NEW taken, NEW take, NEW plan,
           Planned(from, local, head, conflicts, keep, taken, take, plan)
    PROVE  /\ plan \in Changes
           /\ \A p \in DOMAIN plan :
                 IF p \in taken THEN plan[p] = take[p]
                 ELSE /\ plan[p] = head[p] /\ from[p] # head[p] /\ from[p] = local[p]
           /\ \A p \in Paths \ taken :
                 from[p] # head[p] /\ from[p] = local[p] /\ ({p} \cup Ancestors[p]) \cap keep = {}
                   => p \in DOMAIN plan
           /\ \A p \in Writes(plan) \ taken : local[p] = Absent => disk[p] \in {Absent, plan[p]}
<1>0. PICK apply : apply = Unopposed(from, local, head, conflicts)
  OBVIOUS
<1> /\ from \in Tree /\ local \in Tree /\ head \in Tree
    /\ taken \in SUBSET Paths /\ take \in [taken -> Entries]
    /\ plan = ResolvedApply(apply, keep, take)
    /\ ResolvedConflicts(conflicts, keep, take) = {}
    /\ Structural(local, Candidate(plan, {}, from, head), taken) = {}
  BY <1>0 DEF Planned
<1>1. /\ DOMAIN take = taken
      /\ DOMAIN apply = Moved(from, head) \ (Moved(from, local) \cup conflicts)
      /\ \A p \in DOMAIN apply : apply[p] = head[p]
  BY <1>0 DEF Unopposed
<1> DEFINE cancelled == {p \in DOMAIN apply : Ancestors[p] \cap keep # {}}
           rest == (DOMAIN apply) \ (keep \cup cancelled)
<1>2. /\ plan = [p \in rest \cup taken |-> IF p \in taken THEN take[p] ELSE apply[p]]
      /\ DOMAIN plan = rest \cup taken
      /\ \A p \in DOMAIN plan : IF p \in taken THEN plan[p] = take[p] ELSE plan[p] = apply[p]
  BY <1>1 DEF ResolvedApply
<1>3. \A p \in DOMAIN apply : /\ p \in Paths /\ apply[p] = head[p] /\ head[p] \in Entries
                              /\ from[p] # head[p] /\ from[p] = local[p]
  BY <1>1 DEF Moved, Tree
<1>4. plan \in Changes
  <2>1. rest \cup taken \in SUBSET Paths
    BY <1>3
  <2>2. plan \in [rest \cup taken -> Entries]
    BY <1>2, <1>3
  <2>3. QED
    BY <2>1, <2>2 DEF Changes
<1>5. \A p \in DOMAIN plan :
         IF p \in taken THEN plan[p] = take[p]
         ELSE plan[p] = head[p] /\ from[p] # head[p] /\ from[p] = local[p]
  BY <1>2, <1>3
<1>6. ASSUME NEW p \in Paths \ taken, from[p] # head[p], from[p] = local[p],
             ({p} \cup Ancestors[p]) \cap keep = {}
      PROVE  p \in DOMAIN plan
  <2>1. p \notin conflicts
    BY <1>1, <1>6 DEF ResolvedConflicts
  <2>2. p \in DOMAIN apply
    BY <1>1, <1>6, <2>1 DEF Moved
  <2>3. QED
    BY <1>2, <1>6, <2>2
<1>7. Candidate(plan, {}, from, head) = plan
  <2>1. {p \in Moved(from, head) \cap {} : head[p] # Absent} = {}
    OBVIOUS
  <2>2. Candidate(plan, {}, from, head) = [p \in DOMAIN plan |-> plan[p]]
    BY <2>1 DEF Candidate
  <2>3. QED
    BY <1>2, <2>2
<1>8. \A p \in Writes(plan) \ taken : local[p] = Absent => disk[p] \in {Absent, plan[p]}
  BY <1>7 DEF Structural, Occupied
<1>9. QED
  BY <1>4, <1>5, <1>6, <1>8

\* The plan overwrites only what is recorded, what was edited after the scan
\* and what the owner chose to replace, and reaches the head everywhere else.
LEMMA RefreshPlanned ==
    ASSUME WorkspaceInv, Running("refresh", "scan"), scan.phase = "saved",
           NEW from, NEW local, NEW head, NEW conflicts, NEW keep, NEW taken, NEW take, NEW plan,
           Planned(from, local, head, conflicts, keep, taken, take, plan),
           from = scan.prior, local = scan.entries, head = cmd.head.tree,
           taken \subseteq Known(from, local, head, scan.uncertain),
           \A p \in taken : take[p] \in {head[p]} \cup Supplied
    PROVE  /\ plan \in Changes /\ taken \subseteq Paths
           /\ \A p \in DOMAIN plan :
                 /\ plan[p] # head[p] => p \in taken /\ plan[p] \in Supplied
                 /\ p \notin late \cup taken => Recorded(p, disk[p])
           /\ \A p \in Paths \ (dirty \cup taken) :
                 ({p} \cup Ancestors[p]) \cap keep = {} =>
                    p \in DOMAIN plan \/ disk[p] = head[p] \/ p \in left
<1>0. PICK uncertain : uncertain = scan.uncertain
  OBVIOUS
<1>1. RefreshScanOK /\ opened /\ SavedOK /\ ~Unsynced
  BY DEF WorkspaceInv, RunOK, ScanOK, Running, Unsynced
<1>2. PICK c, s : c = cmd.head /\ s = sync
  OBVIOUS
<1>3. /\ s # None /\ IsHead(c) /\ IsHead(s) /\ from = s.tree /\ head = c.tree
  BY <1>1, <1>2 DEF RefreshScanOK, WorkspaceInv, HistoryOK
<1>4. from \in Tree /\ head \in Tree /\ local \in Tree /\ uncertain \in SUBSET Paths
  <2>1. Stored(c.tree) /\ Stored(s.tree)
    BY <1>3, HeadStored DEF WorkspaceInv
  <2>2. QED
    BY <1>0, <1>1, <1>3, <2>1 DEF Stored, SavedOK
<1>5. /\ disk \in Tree /\ WellFormed(disk) /\ late \subseteq dirty
  BY DEF WorkspaceInv, FilesOK, MarksOK
<1>6. \A p \in Known(from, local, head, uncertain) :
         /\ p \in Paths
         /\ head[p] = Absent => p \in uncertain \/ local[p] # Absent \/ disk[p] # Absent
  BY <1>4, KnownFacts
<1>7. taken \in SUBSET Paths
  BY DEF Planned
<1>9. /\ plan \in Changes
      /\ \A p \in DOMAIN plan :
            IF p \in taken THEN plan[p] = take[p]
            ELSE /\ plan[p] = head[p] /\ from[p] # head[p] /\ from[p] = local[p]
      /\ \A p \in Paths \ taken :
            from[p] # head[p] /\ from[p] = local[p] /\ ({p} \cup Ancestors[p]) \cap keep = {}
              => p \in DOMAIN plan
      /\ \A p \in Writes(plan) \ taken : local[p] = Absent => disk[p] \in {Absent, plan[p]}
  BY PlanFacts
<1>10. DOMAIN plan \subseteq Paths
  BY <1>9, ChangesType
<1>11. \A p \in Paths \ late :
          /\ local[p] = IF Hidden(from, p) THEN Absent ELSE disk[p]
          /\ p \notin uncertain
          /\ disk[p] # Absent => /\ Ancestors[p] \cap uncertain = {}
                                 /\ \A q \in Ancestors[p] : local[q] = Absent
  <2>1. \A p \in Paths \ late : disk[p] # Absent =>
           Ancestors[p] \cap (uncertain \cup {q \in Paths : local[q] # Absent}) = {}
    BY <1>0, <1>1 DEF SavedOK, Clear
  <2>2. \A p \in Paths : Ancestors[p] \subseteq Paths
    BY PathsAssumption
  <2>3. QED
    BY <1>0, <1>1, <2>1, <2>2 DEF SavedOK
<1>12. \A p \in DOMAIN plan : plan[p] # head[p] => p \in taken /\ plan[p] \in Supplied
  BY <1>9
<1>13. \A p : Recorded(p, from[p]) /\ Recorded(p, head[p])
  BY <1>3, IsHeadRecorded
<1>14. ASSUME NEW p \in DOMAIN plan, p \notin late \cup taken
       PROVE  Recorded(p, disk[p])
  <2>1. /\ p \in Paths /\ plan[p] = head[p] /\ from[p] # head[p] /\ from[p] = local[p]
    BY <1>9, <1>10, <1>14
  <2>2. CASE ~Hidden(from, p)
    <3>1. disk[p] = from[p]
      BY <1>11, <1>14, <2>1, <2>2
    <3>2. QED
      BY <1>13, <3>1
  <2>3. CASE Hidden(from, p)
    <3>1. from[p] = Absent /\ local[p] = Absent /\ head[p] # Absent
      BY <2>1, <2>3 DEF Hidden
    <3>2. CASE p \in Writes(plan)
      <4>1. disk[p] = from[p] \/ disk[p] = head[p]
        BY <1>9, <1>14, <2>1, <3>1, <3>2
      <4>2. QED
        BY <1>13, <4>1
    <3>3. CASE p \notin Writes(plan)
      <4>1. p \notin Gone(plan)
        BY <2>1, <3>1 DEF Gone
      <4>2. PICK q \in Ancestors[p] : q \in Gone(plan)
        BY <1>14, <3>3, <4>1 DEF Writes
      <4>3. q \in Paths /\ q \in DOMAIN plan /\ plan[q] = Absent
        BY <1>10, <4>2 DEF Gone
      <4>4. head[q] = Absent
        BY <1>9, <4>3, AbsentAssumption, WorkspaceAssumption
      <4>5. q \in uncertain \/ local[q] # Absent \/ disk[q] # Absent
        <5>1. CASE q \in taken
          BY <1>0, <1>6, <4>4, <5>1
        <5>2. CASE q \notin taken
          BY <1>9, <4>3, <4>4, <5>2
        <5>3. QED
          BY <5>1, <5>2
      <4>6. disk[p] = Absent
        BY <1>5, <1>11, <1>14, <2>1, <4>2, <4>3, <4>5 DEF WellFormed, Below
      <4>7. QED
        BY <1>13, <3>1, <4>6
    <3>4. QED
      BY <3>2, <3>3
  <2>4. QED
    BY <2>2, <2>3
<1>15. ASSUME NEW p \in Paths \ (dirty \cup taken), ({p} \cup Ancestors[p]) \cap keep = {},
              p \notin left
       PROVE  p \in DOMAIN plan \/ disk[p] = head[p]
  <2>1. disk[p] = from[p]
    BY <1>1, <1>2, <1>3, <1>15 DEF WorkspaceInv, MatchesOK, Matches
  <2>2. local[p] = from[p]
    BY <1>5, <1>11, <1>15, <2>1 DEF Hidden
  <2>3. QED
    BY <1>9, <1>15, <2>1, <2>2
<1>16. QED
  BY <1>7, <1>9, <1>12, <1>14, <1>15

\* The plan is carried out, or refused before the first write.
LEMMA RefreshPlanInv == WorkspaceInv /\ RefreshPlan => WorkspaceInv'
<1> SUFFICES ASSUME WorkspaceInv, RefreshPlan PROVE WorkspaceInv'
  OBVIOUS
<1>1. /\ UNCHANGED <<clock, disk, stamp, edits, cache, blobs, world, base, heads, ended, rolling,
                     record, opened, sync, dirty, left, ready>>
      /\ cmd.kind = "refresh" /\ cmd.phase = "scan" /\ scan.phase = "saved" /\ scan' = None
      /\ late' = IF cmd' = Idle THEN {} ELSE late
  BY DEF RefreshPlan, layerVars, baseVars, dirVars
<1> DEFINE From == scan.prior
           Local == scan.entries
           Heads == cmd.head.tree
           Conflicts == Disagreements(From, Local, Heads, scan.uncertain)
           Plan(keep, take) == ResolvedApply(Unopposed(From, Local, Heads, Conflicts), keep, take)
           Open(keep, take) == ResolvedConflicts(Conflicts, keep, take)
           Refused(keep, taken, take) ==
              Open(keep, take)
                \cup Structural(Local, Candidate(Plan(keep, take), Open(keep, take), From, Heads), taken)
           Kept(keep) == {p \in Paths : ({p} \cup Ancestors[p]) \cap keep # {}}
<1>2. \E keep \in SUBSET Known(From, Local, Heads, scan.uncertain) :
        \E taken \in SUBSET (Known(From, Local, Heads, scan.uncertain) \ keep) :
          \E take \in [taken -> Entries] :
             /\ \A p \in taken : take[p] \in {Heads[p]} \cup Supplied
             /\ cmd' = IF Refused(keep, taken, take) = {}
                       THEN [kind |-> "refresh", phase |-> "write", head |-> cmd.head,
                             todo |-> Plan(keep, take), taken |-> taken, kept |-> Kept(keep)]
                       ELSE Idle
  BY DEF RefreshPlan
<1> HIDE DEF From, Local, Heads, Conflicts, Plan, Open, Refused, Kept
<1>3. PICK keep, taken, take :
        /\ keep \in SUBSET Known(From, Local, Heads, scan.uncertain)
        /\ taken \in SUBSET (Known(From, Local, Heads, scan.uncertain) \ keep)
        /\ take \in [taken -> Entries]
        /\ \A p \in taken : take[p] \in {Heads[p]} \cup Supplied
        /\ cmd' = IF Refused(keep, taken, take) = {}
                  THEN [kind |-> "refresh", phase |-> "write", head |-> cmd.head,
                        todo |-> Plan(keep, take), taken |-> taken, kept |-> Kept(keep)]
                  ELSE Idle
  BY <1>2
<1>4. PICK from, local, head : from = From /\ local = Local /\ head = Heads
  OBVIOUS
<1>5. PICK conflicts : conflicts = Conflicts
  OBVIOUS
<1>6. PICK plan : plan = Plan(keep, take)
  OBVIOUS
<1>7. PICK kept : kept = Kept(keep)
  OBVIOUS
<1>8. from = scan.prior /\ local = scan.entries /\ head = cmd.head.tree
  BY <1>4 DEF From, Local, Heads
<1>9. /\ conflicts = Disagreements(from, local, head, scan.uncertain)
      /\ plan = ResolvedApply(Unopposed(from, local, head, conflicts), keep, take)
      /\ Open(keep, take) = ResolvedConflicts(conflicts, keep, take)
  BY <1>4, <1>5, <1>6 DEF Conflicts, Plan, Open
<1>10. \/ cmd' = Idle
       \/ /\ ResolvedConflicts(conflicts, keep, take) = {}
          /\ Structural(local, Candidate(plan, {}, from, head), taken) = {}
          /\ cmd' = [kind |-> "refresh", phase |-> "write", head |-> cmd.head, todo |-> plan,
                     taken |-> taken, kept |-> kept]
  <2>1. CASE Refused(keep, taken, take) = {}
    <3>1. Open(keep, take) = {}
      BY <2>1 DEF Refused
    <3>2. Structural(local, Candidate(plan, {}, from, head), taken) = {}
      BY <1>4, <1>6, <2>1, <3>1 DEF Refused
    <3>3. QED
      BY <1>3, <1>6, <1>7, <1>9, <2>1, <3>1, <3>2
  <2>2. CASE Refused(keep, taken, take) # {}
    BY <1>3, <2>2
  <2>3. QED
    BY <2>1, <2>2
<1>11. Running("refresh", "scan") /\ ~Unsynced /\ RefreshScanOK /\ opened
  BY <1>1 DEF Running, Unsynced, WorkspaceInv, RunOK
<1>12. FilesOK' /\ HistoryOK' /\ BaseOK' /\ ReadyOK'
  BY <1>1, FilesFrame, HistoryFrame, BaseFrame, ReadyFrame DEF WorkspaceInv
<1>13. MarksOK'
  BY <1>1 DEF WorkspaceInv, MarksOK
<1>14. MatchesOK'
  BY <1>1, <1>11 DEF WorkspaceInv, MatchesOK, Matches, FromHead
<1>15. HeadSyncOK'
  BY <1>1, <1>11 DEF WorkspaceInv, HeadSyncOK, BroughtByCapture, Latest, Unsynced
<1>16. CASE cmd' = Idle
  BY <1>1, <1>12, <1>13, <1>14, <1>15, <1>16, IdleAfter DEF WorkspaceInv
<1>17. CASE cmd' # Idle
  <2>1. /\ ResolvedConflicts(conflicts, keep, take) = {}
        /\ Structural(local, Candidate(plan, {}, from, head), taken) = {}
        /\ cmd' = [kind |-> "refresh", phase |-> "write", head |-> cmd.head, todo |-> plan,
                   taken |-> taken, kept |-> kept]
        /\ late' = late
    BY <1>1, <1>10, <1>17
  <2>2. Planned(from, local, head, conflicts, keep, taken, take, plan)
    <3>1. PICK c, s : c = cmd.head /\ s = sync
      OBVIOUS
    <3>2. IsHead(c) /\ IsHead(s) /\ from = s.tree /\ head = c.tree /\ HistoryOK
      BY <1>8, <1>11, <3>1 DEF RefreshScanOK, WorkspaceInv, HistoryOK
    <3>3. Stored(c.tree) /\ Stored(s.tree) /\ Stored(local) /\ scan.uncertain \in SUBSET Paths
      BY <1>1, <1>8, <3>2, HeadStored DEF WorkspaceInv, ScanOK, SavedOK
    <3>4. PICK uncertain : uncertain = scan.uncertain
      OBVIOUS
    <3>5. from \in Tree /\ head \in Tree /\ local \in Tree /\ uncertain \in SUBSET Paths
      BY <3>2, <3>3, <3>4 DEF Stored
    <3>6. taken \subseteq Known(from, local, head, uncertain)
      BY <1>3, <1>4, <3>4
    <3>7. taken \subseteq Paths
      BY <3>5, <3>6, KnownFacts
    <3>8. QED
      BY <1>3, <1>9, <2>1, <3>5, <3>7 DEF Planned
  <2>3. /\ plan \in Changes /\ taken \subseteq Paths /\ kept \subseteq Paths
        /\ \A p \in DOMAIN plan :
              /\ plan[p] # head[p] => p \in taken /\ plan[p] \in Supplied
              /\ p \notin late \cup taken => Recorded(p, disk[p])
        /\ \A p \in Paths \ (dirty \cup kept \cup taken) :
              p \in DOMAIN plan \/ disk[p] = head[p] \/ p \in left
    <3>1. /\ taken \subseteq Known(from, local, head, scan.uncertain)
          /\ \A p \in taken : take[p] \in {head[p]} \cup Supplied
      BY <1>3, <1>4
    <3>2. kept \subseteq Paths /\ \A p \in Paths \ kept : ({p} \cup Ancestors[p]) \cap keep = {}
      BY <1>7 DEF Kept
    <3>3. /\ plan \in Changes /\ taken \subseteq Paths
          /\ \A p \in DOMAIN plan :
                /\ plan[p] # head[p] => p \in taken /\ plan[p] \in Supplied
                /\ p \notin late \cup taken => Recorded(p, disk[p])
          /\ \A p \in Paths \ (dirty \cup taken) :
                ({p} \cup Ancestors[p]) \cap keep = {} =>
                   p \in DOMAIN plan \/ disk[p] = head[p] \/ p \in left
      BY <1>1, <1>8, <1>11, <2>2, <3>1, RefreshPlanned
    <3>4. QED
      BY <3>2, <3>3
  <2>4. \A p \in Paths \ dirty : Matches(p)'
    BY <1>1, <1>11 DEF WorkspaceInv, MatchesOK, Matches, FromHead
  <2>5. /\ cmd'.kind = "refresh" /\ cmd'.phase = "write" /\ cmd'.head = cmd.head
        /\ cmd'.todo = plan /\ cmd'.taken = taken /\ cmd'.kept = kept
        /\ cmd' = [kind |-> "refresh", phase |-> "write", head |-> cmd'.head, todo |-> cmd'.todo,
                   taken |-> cmd'.taken, kept |-> cmd'.kept]
    BY <2>1
  <2>6. sync' # None /\ IsHead(cmd.head)' /\ HeadStays(cmd.head)'
    BY <1>1, <1>11, <2>5 DEF RefreshScanOK, IsHead, HeadStays, Latest
  <2>7. ASSUME NEW p \in DOMAIN plan
        PROVE  /\ plan[p] # cmd'.head.tree[p] => p \in taken /\ plan[p] \in Supplied
               /\ p \notin late' \cup taken => Recorded(p, disk[p])'
    BY <1>1, <1>8, <2>1, <2>3, <2>5 DEF Recorded
  <2>8. \A p \in Paths \ (dirty' \cup kept \cup taken) :
           p \in DOMAIN plan \/ disk'[p] = cmd'.head.tree[p] \/ (p \in left' /\ Matches(p)')
    BY <1>1, <1>8, <2>3, <2>4, <2>5
  <2>9. RefreshWriteOK'
    BY <1>1, <2>3, <2>4, <2>5, <2>6, <2>7, <2>8 DEF RefreshWriteOK
  <2>10. RunOK' /\ BuildOK' /\ ScanOK'
    BY <1>1, <1>11, <2>5, <2>9 DEF RunOK, Running, BuildOK, Building, ScanOK
  <2>11. QED
    BY <1>12, <1>13, <1>14, <1>15, <2>10 DEF WorkspaceInv
<1>18. QED
  BY <1>16, <1>17

-----------------------------------------------------------------------------
(* The theorems.                                                           *)

\* The invariant holds initially and every step keeps it.
THEOREM WorkspaceInvTheorem == Spec => []WorkspaceInv
<1>1. Init => WorkspaceInv
  BY InitInv
<1>2. ASSUME WorkspaceInv, [Next]_vars PROVE WorkspaceInv'
  <2>1. CASE UNCHANGED vars
    <3>1. UNCHANGED <<clock, disk, stamp, edits, cache, blobs, scan, late, world, base, heads,
                      ended, rolling, record, opened, sync, dirty, left, cmd, ready>>
      BY <2>1 DEF vars, captureVars, layerVars, baseVars, dirVars
    <3>2. FilesOK' /\ HistoryOK' /\ MarksOK' /\ BaseOK' /\ BuildOK'
      BY <1>2, <3>1, FilesFrame, HistoryFrame, MarksFrame, BaseFrame, BuildFrame
         DEF WorkspaceInv
    <3>3. ScanOK' /\ RunOK' /\ MatchesOK' /\ HeadSyncOK' /\ ReadyOK'
      BY <1>2, <3>1, ScanFrame, RunFrame, MatchesFrame, HeadSyncFrame, ReadyFrame
         DEF WorkspaceInv
    <3>4. QED
      BY <3>2, <3>3 DEF WorkspaceInv
  <2>2. CASE CreateLayer \/ AdvanceWorld \/ DiscardElsewhere
               \/ \E tree \in StackTrees : Stack(tree)
    BY <1>2, <2>2, CreateLayerInv, AdvanceWorldInv, DiscardElsewhereInv, StackInv
  <2>3. CASE (\E p \in Paths, entry \in Entries : OwnerEdits(p, entry))
               \/ OwnerRemovesDirectory \/ TimePasses \/ RecoverWorkspaces
    BY <1>2, <2>3, OwnerEditsInv, OwnerRemovesDirectoryInv, TimePassesInv, RecoverWorkspacesInv
  <2>4. CASE WarmBase \/ UseRolling \/ AdvanceBegin \/ AdvanceRolling
               \/ MaterializeBegin \/ MaterializeRename \/ MaterializeRecord
    BY <1>2, <2>4, WarmBaseInv, UseRollingInv, AdvanceBeginInv, AdvanceRollingInv,
       MaterializeBeginInv, MaterializeRenameInv, MaterializeRecordInv
  <2>5. CASE OpenWorkspace \/ OpenRename \/ OpenSync
    BY <1>2, <2>5, OpenWorkspaceInv, OpenRenameInv, OpenSyncInv
  <2>6. CASE (\E publishes \in BOOLEAN : CaptureBegin(publishes))
               \/ ScanStep \/ CaptureCommit \/ CaptureSync
               \/ \E tree \in OtherTrees : CaptureElsewhere(tree)
    BY <1>2, <2>6, CaptureBeginInv, ScanStepInv, CaptureCommitInv, CaptureSyncInv,
       CaptureElsewhereInv
  <2>7. CASE RefreshBegin \/ RefreshPlan \/ RefreshSync
               \/ \E p \in Paths : RefreshWrite(p)
    BY <1>2, <2>7, RefreshBeginInv, RefreshPlanInv, RefreshSyncInv, RefreshWriteInv
  <2>8. CASE PublishUnopened \/ PublishWorkspace \/ PublishAbandoned \/ DiscardWorkspace
               \/ Reclaim \/ Crash
    BY <1>2, <2>8, ReadyInv, EndInv, ReclaimInv, CrashInv
  <2>9. QED
    BY <1>2, <2>1, <2>2, <2>3, <2>4, <2>5, <2>6, <2>7, <2>8 DEF Next
<1>3. QED
  BY <1>1, <1>2, PTL DEF Spec

\* scan_source misses no edit: with RACY_MARGIN_NS at least the file system's
\* lag, no cached fingerprint hides one, and the repository stores what the
\* scan names.
THEOREM ScanExactTheorem == Spec => []ScanExact
<1>1. WorkspaceInv => ScanExact
  BY DEF WorkspaceInv, ScanOK, SavedOK, Stored, ScanExact
<1>2. QED
  BY <1>1, WorkspaceInvTheorem, PTL

\* Between commands a directory is what its sync record says, but for the
\* owner's edits and the marked leftovers of a command that died.
THEOREM DirectoryMatchesTheorem == Spec => []DirectoryMatches
<1>1. WorkspaceInv => DirectoryMatches
  <2> SUFFICES ASSUME WorkspaceInv, opened, cmd = Idle, NEW p \in Paths \ dirty
               PROVE  IF p \in left
                      THEN \/ disk[p] \in Supplied
                           \/ \E i \in DOMAIN heads : disk[p] = heads[i].checkpoint.tree[p]
                      ELSE sync # None /\ disk[p] = sync.tree[p]
    BY DEF DirectoryMatches
  <2>1. Matches(p)
    BY IdleBefore DEF WorkspaceInv, MatchesOK
  <2>2. QED
    BY <2>1 DEF Matches, FromHead
<1>2. QED
  BY <1>1, WorkspaceInvTheorem, PTL

\* A refresh after an interruption finds no conflict where every file is as
\* synced or as in the head: what an earlier refresh wrote does not stop the
\* next one.
THEOREM RefreshConvergesTheorem == Spec => []RefreshConverges
<1>1. ASSUME WorkspaceInv, opened, Active, sync # None, cmd = Idle,
             NEW from, NEW head, NEW local, from = sync.tree, head = Latest.checkpoint.tree,
             local = [p \in Paths |-> IF Hidden(from, p) THEN Absent ELSE disk[p]],
             \A p \in Paths : disk[p] \in {from[p], head[p]}
      PROVE  Known(from, local, head, {}) = {}
  <2>1. PICK c, s : c = Latest.checkpoint /\ s = sync
    OBVIOUS
  <2>2. IsHead(c) /\ IsHead(s) /\ HistoryOK
    BY <1>1, <2>1, LatestIsHead DEF WorkspaceInv, HistoryOK, Active
  <2>3. from \in Tree /\ head \in Tree /\ WellFormed(head)
    <3>1. Stored(c.tree) /\ Stored(s.tree)
      BY <2>2, HeadStored
    <3>2. QED
      BY <1>1, <2>1, <3>1 DEF Stored
  <2>4. \A p \in Paths : /\ local[p] = from[p] \/ local[p] = head[p]
                         /\ from[p] # Absent => local[p] = disk[p]
    BY <1>1 DEF Hidden
  <2>5. \A p \in Paths : Ancestors[p] \subseteq Paths
    BY PathsAssumption
  <2>6. Disagreements(from, local, head, {}) = {}
    <3>1. {p \in Moved(from, local) \cap Moved(from, head) : local[p] # head[p]} = {}
      BY <2>4 DEF Moved
    <3>2. {p \in Moved(from, local) :
             local[p] # Absent /\ \E q \in Ancestors[p] \cap Moved(from, head) : head[q] # Absent} = {}
      BY <2>3, <2>4, <2>5 DEF Moved, WellFormed, Below
    <3>3. \A two \in Paths \X Paths : \A p \in Paths :
             Renamed(from, local, p, two[1]) /\ Renamed(from, head, p, two[2]) => two[1] = two[2]
      <4> SUFFICES ASSUME NEW q \in Paths, NEW r \in Paths, NEW p \in Paths,
                          Renamed(from, local, p, q), Renamed(from, head, p, r)
                   PROVE  q = r
        OBVIOUS
      <4>1. from[p] # Absent /\ local[q] = from[p] /\ from[q] = Absent
        <5>1. q \in {x \in Paths : local[x] = from[p] /\ from[x] = Absent} /\ from[p] # Absent
          BY DEF Renamed
        <5>2. QED
          BY <5>1
      <4>2. head[q] = from[p]
        BY <2>4, <4>1
      <4>3. q \in {x \in Paths : head[x] = from[p] /\ from[x] = Absent}
        BY <4>1, <4>2
      <4>4. QED
        BY <4>3 DEF Renamed
    <3>4. {two \in Paths \X Paths :
             /\ two[1] # two[2]
             /\ \E p \in Paths : Renamed(from, local, p, two[1])
                                   /\ Renamed(from, head, p, two[2])} = {}
      BY <3>3
    <3>5. UNION {{pair[1], pair[2]} : pair \in
             {two \in Paths \X Paths :
                /\ two[1] # two[2]
                /\ \E p \in Paths : Renamed(from, local, p, two[1])
                                      /\ Renamed(from, head, p, two[2])}} = {}
      BY <3>4
    <3>6. QED
      BY <3>1, <3>2, <3>5 DEF Disagreements
  <2>7. PICK apply : apply = Unopposed(from, local, head, {})
    OBVIOUS
  <2>8. /\ DOMAIN apply = Moved(from, head) \ Moved(from, local)
        /\ \A p \in DOMAIN apply : apply[p] = head[p]
        /\ apply = [p \in DOMAIN apply |-> apply[p]]
    BY <2>7 DEF Unopposed
  <2>9. Candidate(apply, {}, from, head) = apply
    <3>1. {p \in Moved(from, head) \cap {} : head[p] # Absent} = {}
      OBVIOUS
    <3>2. Candidate(apply, {}, from, head) = [p \in DOMAIN apply |-> apply[p]]
      BY <3>1 DEF Candidate
    <3>3. QED
      BY <2>8, <3>2
  <2>10. \A p \in Paths : from[p] # head[p] /\ disk[p] = from[p] /\ from[p] # Absent /\ head[p] = Absent
                            => p \in Gone(apply)
    BY <2>4, <2>8 DEF Gone, Moved
  <2>11. \A p \in Writes(apply) : /\ p \in Paths /\ head[p] # Absent /\ apply[p] = head[p]
                                  /\ Ancestors[p] \cap Gone(apply) = {}
    BY <2>8 DEF Writes, Gone, Moved
  <2>12. \A p \in Writes(apply) : \A q \in Ancestors[p] : disk[q] = Absent
    <3> SUFFICES ASSUME NEW p \in Writes(apply), NEW q \in Ancestors[p], disk[q] # Absent
                 PROVE  FALSE
      OBVIOUS
    <3>1. p \in Paths /\ q \in Paths /\ head[p] # Absent
      BY <2>5, <2>11
    <3>2. head[q] = Absent
      BY <2>3, <3>1 DEF WellFormed, Below
    <3>3. q \in Gone(apply)
      BY <1>1, <2>10, <3>1, <3>2
    <3>4. QED
      BY <2>11, <3>3
  <2>13. \A p \in Writes(apply) : FilesUnder(disk, p) \subseteq Gone(apply)
    <3> SUFFICES ASSUME NEW p \in Writes(apply), NEW q \in FilesUnder(disk, p)
                 PROVE  q \in Gone(apply)
      OBVIOUS
    <3>1. p \in Paths /\ q \in Paths /\ head[p] # Absent /\ Below(p, q) /\ disk[q] # Absent
      BY <2>11 DEF FilesUnder
    <3>2. head[q] = Absent
      BY <2>3, <3>1 DEF WellFormed
    <3>3. QED
      BY <1>1, <2>10, <3>1, <3>2
  <2>14. Blocked(apply) = {}
    <3>1. {p \in Writes(apply) : IsDir(disk, p) /\ ~(FilesUnder(disk, p) \subseteq Gone(apply))} = {}
      BY <2>13
    <3>2. {two \in Paths \X Paths :
             two[1] \in Writes(apply) /\ two[2] \in Ancestors[two[1]]
               /\ disk[two[2]] # Absent} = {}
      BY <2>12
    <3>3. UNION {{pair[1], pair[2]} : pair \in
             {two \in Paths \X Paths :
                two[1] \in Writes(apply) /\ two[2] \in Ancestors[two[1]]
                  /\ disk[two[2]] # Absent}} = {}
      BY <3>2
    <3>4. QED
      BY <3>1, <3>3 DEF Blocked
  <2>15. Occupied(local, apply) = {}
    <3> SUFFICES ASSUME NEW p \in Writes(apply), local[p] = Absent,
                        disk[p] \notin {Absent, apply[p]}
                 PROVE  FALSE
      BY DEF Occupied
    <3>1. p \in Paths /\ apply[p] = head[p]
      BY <2>11
    <3>2. QED
      BY <1>1, <2>4, <3>1
  <2>16. QED
    BY <2>6, <2>7, <2>9, <2>14, <2>15 DEF Known, Structural
<1>2. WorkspaceInv => RefreshConverges
  BY <1>1 DEF RefreshConverges
<1>3. QED
  BY <1>2, WorkspaceInvTheorem, PTL

\* Trashing a directory loses no edit: a publication recorded or ignored it,
\* or the owner made it while the publication ran.
LEMMA TrashKeepsEdits ==
    ASSUME WorkspaceInv, TrashTerminal
    PROVE  KeepsEdits
<1>1. CASE Terminal /\ opened
  <2>1. ended = "published" \/ ended = "discarded"
    BY <1>1 DEF Terminal, WorkspaceInv, HistoryOK
  <2>2. opened' = FALSE
    BY <1>1 DEF TrashTerminal, NoDirectory
  <2>3. CASE ended = "published"
    BY <1>1, <2>2, <2>3 DEF WorkspaceInv, ReadyOK, KeepsEdits
  <2>4. CASE ended = "discarded"
    BY <2>2, <2>4 DEF KeepsEdits
  <2>5. QED
    BY <2>1, <2>3, <2>4
<1>2. CASE ~(Terminal /\ opened)
  BY <1>2 DEF TrashTerminal, KeepsEdits
<1>3. QED
  BY <1>1, <1>2

\* No command loses an edit made before its scan: what it overwrites or
\* reclaims is in the Layer's history, or the owner chose to replace it.
THEOREM EditsKeptTheorem == Spec => EditsKept
<1>1. ASSUME WorkspaceInv, Next PROVE KeepsEdits
  <2>1. ASSUME disk' = disk PROVE KeepsEdits
    BY <2>1 DEF KeepsEdits
  <2>2. ASSUME edits' = edits + 1 PROVE KeepsEdits
    <3>1. edits' # edits
      BY <1>1, <2>2 DEF WorkspaceInv, FilesOK
    <3>2. QED
      BY <3>1 DEF KeepsEdits
  <2>3. CASE CreateLayer \/ AdvanceWorld \/ DiscardElsewhere
               \/ (\E tree \in StackTrees : Stack(tree)) \/ TimePasses
    BY <2>1, <2>3 DEF CreateLayer, AdvanceWorld, DiscardElsewhere, Stack, TimePasses, Tick,
                      captureVars
  <2>4. CASE (\E p \in Paths, entry \in Entries : OwnerEdits(p, entry)) \/ OwnerRemovesDirectory
    BY <2>2, <2>4 DEF OwnerEdits, Edit, OwnerRemovesDirectory
  <2>5. CASE RecoverWorkspaces \/ Reclaim
    BY <1>1, <2>5, TrashKeepsEdits DEF RecoverWorkspaces, Reclaim
  <2>6. CASE WarmBase \/ UseRolling \/ AdvanceBegin \/ AdvanceRolling
               \/ MaterializeBegin \/ MaterializeRename \/ MaterializeRecord
               \/ OpenWorkspace \/ OpenSync
    BY <2>1, <2>6 DEF WarmBase, UseRolling, AdvanceBegin, AdvanceRolling, MaterializeBegin,
                      MaterializeRename, MaterializeRecord, OpenWorkspace, OpenSync, captureVars
  <2>7. CASE OpenRename
    <3>1. ~opened
      BY <1>1, <2>7 DEF OpenRename, WorkspaceInv, BuildOK, OpenOK
    <3>2. QED
      BY <3>1 DEF KeepsEdits
  <2>8. CASE (\E publishes \in BOOLEAN : CaptureBegin(publishes)) \/ ScanStep \/ CaptureCommit
               \/ CaptureSync \/ (\E tree \in OtherTrees : CaptureElsewhere(tree)) \/ RefreshBegin
    BY <2>1, <2>8 DEF CaptureBegin, ScanBegin, ScanStep, ScanWalk, ScanRead, CaptureCommit,
                      CaptureSync, CaptureElsewhere, RefreshBegin
  <2>9. CASE RefreshPlan \/ RefreshSync
    BY <2>1, <2>9 DEF RefreshPlan, RefreshSync
  <2>10. CASE \E p \in Paths : RefreshWrite(p)
    <3>1. PICK p \in Paths : RefreshWrite(p)
      BY <2>10
    <3>2. RefreshWriteOK /\ opened /\ \A q \in Paths \ {p} : disk'[q] = disk[q]
      BY <1>1, <3>1, RefreshWriteFiles
    <3>3. p \in DOMAIN cmd.todo /\ opened' = opened
      BY <3>1 DEF RefreshWrite, dirVars
    <3>4. p \in late \/ p \in cmd.taken \/ Recorded(p, disk[p])
      BY <3>2, <3>3 DEF RefreshWriteOK
    <3>5. QED
      BY <3>2, <3>3, <3>4 DEF KeepsEdits
  <2>11. CASE PublishUnopened \/ PublishWorkspace \/ PublishAbandoned \/ DiscardWorkspace \/ Crash
    BY <2>1, <2>11 DEF PublishUnopened, PublishWorkspace, PublishAbandoned, DiscardWorkspace,
                       Crash, captureVars
  <2>12. QED
    BY <1>1, <2>3, <2>4, <2>5, <2>6, <2>7, <2>8, <2>9, <2>10, <2>11 DEF Next
<1>2. QED
  BY <1>1, WorkspaceInvTheorem, PTL DEF Spec, EditsKept

\* A capture of the Layer's directory changes only what the owner changed, a dead
\* command left or a capture elsewhere brought: Stack's work in the head is never
\* reverted.
THEOREM CaptureKeepsStackedTheorem == Spec => CaptureKeepsStacked
<1> DEFINE brought == {p \in Paths : BroughtByCapture(p)}
<1>1. ASSUME WorkspaceInv, Next, cmd # Idle
      PROVE  CapturesOnly(dirty \cup left \cup brought)
  <2> SUFFICES ASSUME NEW i \in (DOMAIN heads') \ DOMAIN heads, i > 1, ~heads'[i].stacked
               PROVE  Moved(heads[i - 1].checkpoint.tree, heads'[i].checkpoint.tree)
                        \subseteq dirty \cup left \cup brought
    BY DEF CapturesOnly
  <2>1. heads' # heads
    OBVIOUS
  <2>2. ASSUME CreateLayer PROVE FALSE
    BY <2>2 DEF CreateLayer
  <2>3. ASSUME NEW tree \in StackTrees, Stack(tree) PROVE FALSE
    <3>1. HistoryOK /\ heads # <<>> /\ Latest \in LayerHead
      BY <1>1, <2>3, LatestIsHead DEF WorkspaceInv, Stack, Active
    <3>2. PICK h : h = [checkpoint |-> [tree |-> tree, stacks |-> Latest.checkpoint.stacks + 1],
                        stacked |-> TRUE]
      OBVIOUS
    <3>3. heads' = Append(heads, h) /\ heads \in Seq(LayerHead)
      BY <2>3, <3>1, <3>2 DEF Stack, HistoryOK
    <3>4. i = Len(heads) + 1 /\ heads'[i] = h
      BY <3>3
    <3>5. QED
      BY <3>2, <3>4
  <2>4. CASE CaptureCommit
    <3>1. PICK h : h = [checkpoint |-> Captured, stacked |-> FALSE]
      OBVIOUS
    <3>2. /\ heads' = Append(heads, h) /\ Active /\ Latest = cmd.head
          /\ Running("capture", "scan") /\ scan.phase = "saved"
      BY <2>1, <2>4, <3>1 DEF CaptureCommit, Running
    <3>3. HistoryOK /\ heads \in Seq(LayerHead) /\ heads # <<>>
      BY <1>1, <3>2 DEF WorkspaceInv, HistoryOK, Active
    <3>4. i = Len(heads) + 1 /\ heads'[i] = h /\ heads[i - 1] = Latest
      BY <3>2, <3>3 DEF Latest
    <3>5. /\ scan.prior = cmd.head.checkpoint.tree
          /\ \A p \in Paths \ (dirty \cup left) :
                scan.entries[p] = scan.prior[p] \/ BroughtByCapture(p)
      BY <1>1, <3>2, CaptureEntries DEF CaptureScanOK
    <3>6. heads'[i].checkpoint.tree = scan.entries /\ heads[i - 1].checkpoint.tree = scan.prior
      BY <3>1, <3>2, <3>4, <3>5 DEF Captured
    <3>7. QED
      BY <3>5, <3>6 DEF Moved
  <2>5. ASSUME AdvanceWorld \/ DiscardElsewhere \/ TimePasses \/ OwnerRemovesDirectory
                 \/ (\E p \in Paths, entry \in Entries : OwnerEdits(p, entry))
                 \/ RecoverWorkspaces \/ Reclaim
        PROVE  FALSE
    BY <2>1, <2>5 DEF AdvanceWorld, DiscardElsewhere, TimePasses, OwnerRemovesDirectory, OwnerEdits,
                      RecoverWorkspaces, Reclaim, layerVars
  <2>6. ASSUME WarmBase \/ UseRolling \/ AdvanceBegin \/ AdvanceRolling
                 \/ MaterializeBegin \/ MaterializeRename \/ MaterializeRecord
                 \/ OpenWorkspace \/ OpenRename \/ OpenSync
        PROVE  FALSE
    BY <2>1, <2>6 DEF WarmBase, UseRolling, AdvanceBegin, AdvanceRolling, MaterializeBegin,
                      MaterializeRename, MaterializeRecord, OpenWorkspace, OpenRename, OpenSync,
                      layerVars
  <2>7. ASSUME (\E publishes \in BOOLEAN : CaptureBegin(publishes)) \/ ScanStep
                 \/ CaptureSync \/ (\E tree \in OtherTrees : CaptureElsewhere(tree))
                 \/ RefreshBegin
        PROVE  FALSE
    BY <1>1, <2>1, <2>7 DEF CaptureBegin, ScanStep, CaptureSync, CaptureElsewhere, RefreshBegin,
                            layerVars
  <2>8. ASSUME RefreshPlan \/ RefreshSync \/ (\E p \in Paths : RefreshWrite(p))
        PROVE  FALSE
    BY <2>1, <2>8 DEF RefreshPlan, RefreshSync, RefreshWrite, layerVars
  <2>9. ASSUME PublishUnopened \/ PublishWorkspace \/ PublishAbandoned \/ DiscardWorkspace \/ Crash
        PROVE  FALSE
    BY <2>1, <2>9 DEF PublishUnopened, PublishWorkspace, PublishAbandoned, DiscardWorkspace, Crash,
                      layerVars
  <2>10. QED
    BY <1>1, <2>2, <2>3, <2>4, <2>5, <2>6, <2>7, <2>8, <2>9 DEF Next
<1>2. QED
  BY <1>1, WorkspaceInvTheorem, PTL DEF Spec, CaptureKeepsStacked
=============================================================================
