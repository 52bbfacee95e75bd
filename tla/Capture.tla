------------------------------ MODULE Capture ------------------------------
(***************************************************************************)
(* The daemonless scan of a Layer's directory (src/src/capture.rs): files  *)
(* whose fingerprint is cached and trusted are not read again.             *)
(*                                                                         *)
(* A fingerprint (`Stat`) is the file's change time.  All contents have    *)
(* one size and a file keeps its inode, the case in which only time tells  *)
(* two contents apart.  The file system's clock is up to Lag ticks behind  *)
(* the one the scan reads, so two writes may carry one change time.        *)
(*                                                                         *)
(* A scan reads its clock, then walks, then reads.  Paths are walked at    *)
(* one instant and read at one instant: they do not affect each other, and *)
(* an edit of any one of them may come before, between or after the two.   *)
(***************************************************************************)
EXTENDS FileTrees, Integers

CONSTANTS
    Ignored,    \* paths that .javelinignore matches, closed downwards
    Lag,        \* ticks the file system's clock may lag behind
    Margin,     \* RACY_MARGIN_NS
    MaxClock,   \* bound: ticks
    MaxEdits,   \* bound: edits of the directory's owner
    None        \* no scan, no cached entry

ASSUME CaptureAssumption ==
    /\ Lag \in Nat /\ Margin \in Nat /\ Lag <= Margin
    /\ MaxClock \in Nat /\ MaxEdits \in Nat
    /\ Ignored \subseteq Paths
    /\ \A p \in Paths : Ancestors[p] \cap Ignored # {} => p \in Ignored

VARIABLES
    clock,      \* the time `now` reads
    disk,       \* the directory's files
    stamp,      \* change time of each file
    edits,      \* edits so far
    cache,      \* StatCache on disk
    blobs,      \* blobs stored in the repository
    scan,       \* the running scan, or None
    late        \* history: paths edited since the command's scan began

captureVars == <<clock, disk, stamp, edits, cache, blobs, scan, late>>

Stamp == 0..MaxClock
Cached == [stat: Stamp, entry: Contents, trusted: BOOLEAN]
EmptyCache == [p \in Paths |-> None]

CaptureTypeOK ==
    /\ clock \in Stamp
    /\ disk \in Tree /\ WellFormed(disk)
    /\ stamp \in [Paths -> Stamp]
    /\ edits \in 0..MaxEdits
    /\ cache \in [Paths -> Cached \cup {None}]
    /\ blobs \subseteq Contents
    /\ scan # None => scan.phase \in {"begun", "walked", "saved"}
    /\ late \subseteq Paths

-----------------------------------------------------------------------------
(* The directory and its owner.                                            *)

\* Change times the file system may give a write now.
StampsNow(p) == {t \in Stamp : clock - Lag <= t /\ t <= clock /\ stamp[p] <= t}

\* The change time a path has after `entry` was put there: none without a file.
Stamped(p, entry) ==
    \E t \in IF entry = Absent THEN {0} ELSE StampsNow(p) :
       stamp' = [stamp EXCEPT ![p] = t]

\* The owner writes, replaces or removes a file.
Edit(p, entry) ==
    /\ edits < MaxEdits
    /\ disk[p] # entry
    /\ WellFormed([disk EXCEPT ![p] = entry])
    /\ disk' = [disk EXCEPT ![p] = entry]
    /\ Stamped(p, entry)
    /\ edits' = edits + 1
    /\ UNCHANGED <<clock, cache, blobs, scan>>

Tick ==
    /\ clock < MaxClock
    /\ clock' = clock + 1
    /\ UNCHANGED <<disk, stamp, edits, cache, blobs, scan, late>>

-----------------------------------------------------------------------------
(* The scan.                                                               *)

\* Ignore rules hide only untracked paths.
Hidden(prior, p) == p \in Ignored /\ prior[p] = Absent

\* scan_source takes the time before the walk.  A missing, unreadable or
\* corrupt cache loads as empty.
ScanBegin(prior) ==
    /\ cache' \in {cache, EmptyCache}
    /\ scan' = [phase |-> "begun", prior |-> prior, racy |-> clock - Margin]
    /\ late' = {}
    /\ UNCHANGED <<clock, disk, stamp, edits, blobs>>

\* walk and list: every visible file with its fingerprint.
ScanWalk ==
    /\ scan # None /\ scan.phase = "begun"
    /\ LET found == {p \in Paths : disk[p] # Absent /\ ~Hidden(scan.prior, p)}
       IN  scan' = [phase |-> "walked", prior |-> scan.prior, racy |-> scan.racy,
                    stat |-> [p \in found |-> stamp[p]]]
    /\ UNCHANGED <<clock, disk, stamp, edits, cache, blobs, late>>

\* Mutant of Old: every fingerprint from before the scan is old enough.
OldNoMargin(stat) == stat < scan.racy + Margin

\* A fingerprint old enough that no later write can carry it.
Old(stat) == stat < scan.racy

\* A cached entry that may stand for the file.
Reused(p) ==
    /\ p \in DOMAIN scan.stat
    /\ cache[p] # None
    /\ cache[p].trusted /\ cache[p].stat = scan.stat[p]

\* The entry a stable read finds, with the cache's new record of it.
Hashed(p) ==
    [stat |-> scan.stat[p], entry |-> disk[p],
     trusted |-> Old(scan.stat[p]) /\ Old(stamp[p]) /\ scan.stat[p] = stamp[p]]

\* scan_source's loop over what the walk found.  A file that kept changing,
\* or became a directory, is unstable: it keeps its prior entry and is not
\* cached.  A file below what became a file fails the scan.  The transaction
\* that stores the blobs commits, then the cache is saved, best effort.
ScanRead ==
    /\ scan # None /\ scan.phase = "walked"
    /\ LET toRead == {p \in DOMAIN scan.stat : ~Reused(p)}
           reused == (DOMAIN scan.stat) \ toRead
           dirs == {p \in toRead : IsDir(disk, p)}
           gone == {p \in toRead \ dirs : disk[p] = Absent}
       IN  /\ \A p \in toRead : \A q \in Ancestors[p] : disk[q] = Absent
           /\ \E changing \in SUBSET ((toRead \cap late) \ (gone \cup dirs)) :
                LET unstable == changing \cup dirs
                    stable == toRead \ (gone \cup unstable)
                    fresh == [p \in Paths |-> CASE p \in stable -> Hashed(p)
                                               [] p \in reused -> cache[p]
                                               [] OTHER -> None]
                IN  /\ scan' = [phase |-> "saved", prior |-> scan.prior,
                                uncertain |-> unstable,
                                entries |-> [p \in Paths |->
                                   CASE p \in stable -> disk[p]
                                     [] p \in unstable -> scan.prior[p]
                                     [] p \in reused -> cache[p].entry
                                     [] OTHER -> Absent]]
                    /\ blobs' = blobs \cup {disk[p] : p \in stable}
                    /\ cache' \in {cache, fresh}
    /\ UNCHANGED <<clock, disk, stamp, edits, late>>

-----------------------------------------------------------------------------
(* What a scan promises.                                                   *)

\* A finished scan found every file that was not edited meanwhile as it is
\* on disk: no cached fingerprint hides an edit, however close to the last
\* scan it came.  And the repository stores what the scan names.
ScanExact ==
    scan # None /\ scan.phase = "saved" =>
       /\ \A p \in Paths \ late :
             /\ scan.entries[p] = IF Hidden(scan.prior, p) THEN Absent ELSE disk[p]
             /\ p \notin scan.uncertain
       /\ \A p \in Paths : scan.entries[p] \in blobs \cup {Absent}
=============================================================================
