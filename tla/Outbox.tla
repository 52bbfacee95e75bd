------------------------------- MODULE Outbox -------------------------------
(***************************************************************************)
(* The client outbox: a durable, append-only journal of requests that wait *)
(* for a node, and the replay that delivers them in order                  *)
(* (src/src/outbox.rs).                                                    *)
(*                                                                         *)
(* The journal is a sequence of frames.  `file` is what a reader sees,     *)
(* `disk` what a power loss leaves for certain; between a write and its    *)
(* sync the two differ.  Garbage stands for bytes no checksum accepts: a   *)
(* torn frame, a damaged one, or what remains of a longer frame that was   *)
(* overwritten.  Payloads, scopes and replies are left out.                *)
(***************************************************************************)
EXTENDS Naturals, Sequences, FiniteSetsExt

CONSTANTS
    Operations,  \* operation IDs of requests
    Handles,     \* processes that open the journal
    MaxSeq,      \* bound on sequence numbers
    MaxFaults,   \* bound on failed appends
    MaxLosses,   \* bound on kills and power losses
    MaxRot       \* bound on frames the medium damages

ASSUME OutboxBounds ==
    /\ MaxSeq \in Nat /\ MaxFaults \in Nat /\ MaxLosses \in Nat /\ MaxRot \in Nat

VARIABLES
    file,      \* the journal as readers see it
    disk,      \* the journal as the last sync left it
    saved,     \* damaged tails kept in sibling files
    handles,   \* what each process holds of the journal
    decided,   \* operations the node has decided
    promised,  \* frames whose call returned Ok: the caller relies on them
    rotted,    \* frames the medium damaged
    faults,    \* failed appends so far
    losses     \* kills and power losses so far

vars == <<file, disk, saved, handles, decided, promised, rotted, faults, losses>>

Queued == [kind : {"queued"}, seq : 1..MaxSeq, operation : Operations]
Acked == [kind : {"acked"}, seq : 1..MaxSeq]
Garbage == [kind |-> "garbage"]
Frame == Queued \cup Acked \cup {Garbage}

Closed == [phase |-> "closed"]

Phases == {"idle", "replaying", "saving", "truncating", "writing", "written"}

\* records are the frames up to valid_len, and so the entries; tail is the
\* number of frames ignored at open; damage tells whether it was moved aside.
Handle == [phase : Phases, records : Seq(Frame), tail : Nat, damage : BOOLEAN,
           frame : Frame]

-----------------------------------------------------------------------------
(* Reading the journal.                                                    *)

Prefix(frames, n) == SubSeq(frames, 1, n)

Frames(frames) == {frames[i] : i \in DOMAIN frames}

\* read_frame and apply: the i-th frame extends the frames before it.
Readable(frames, i) ==
    LET before == Frames(Prefix(frames, i - 1))
        same(kind) == {f \in before : f.kind = kind /\ f.seq = frames[i].seq}
    IN  CASE frames[i].kind = "queued"  -> same("queued") = {}
          [] frames[i].kind = "acked"   -> same("queued") # {} /\ same("acked") = {}
          [] frames[i].kind = "garbage" -> FALSE

\* How many frames the loop in open reads before the first it cannot.
ValidLen(frames) ==
    Max({n \in 0..Len(frames) : \A i \in 1..n : Readable(frames, i)})

Seqs(frames, kind) == {f.seq : f \in {g \in Frames(frames) : g.kind = kind}}

NextSeq(frames) ==
    IF Seqs(frames, "queued") = {} THEN 1 ELSE Max(Seqs(frames, "queued")) + 1

Pending(frames) == Seqs(frames, "queued") \ Seqs(frames, "acked")

\* Mutant of Due: the newest record goes first.
DueNewest(frames) == Max(Pending(frames))

\* The record replay sends next: the oldest that is not acknowledged.
Due(frames) == Min(Pending(frames))

OperationOf(frames, seq) ==
    (CHOOSE f \in Frames(frames) : f.kind = "queued" /\ f.seq = seq).operation

-----------------------------------------------------------------------------
(* Opening and appending.                                                  *)

Put(h, state) == handles' = [handles EXCEPT ![h] = state]

Opened ==
    LET n == ValidLen(file)
    IN  [phase |-> "idle", records |-> Prefix(file, n), tail |-> Len(file) - n,
         damage |-> n < Len(file), frame |-> Garbage]

\* The lock admits one live handle.  Reading never changes the file.
Open(h) ==
    /\ \A g \in Handles : handles[g] = Closed
    /\ Put(h, Opened)
    /\ UNCHANGED <<file, disk, saved, decided, promised, rotted, faults, losses>>

Close(h) ==
    /\ handles[h].phase = "idle"
    /\ Put(h, Closed)
    /\ UNCHANGED <<file, disk, saved, decided, promised, rotted, faults, losses>>

\* append: a damaged tail is moved aside before the first write.
Appending(h, frame) ==
    [handles[h] EXCEPT !.frame = frame,
                       !.phase = IF handles[h].damage THEN "saving" ELSE "writing"]

\* A caller that did not get Ok may send the request again.
Enqueue(h, op) ==
    LET seq == NextSeq(handles[h].records)
    IN  /\ handles[h].phase = "idle"
        /\ seq <= MaxSeq
        /\ \A f \in promised : f.kind = "queued" => f.operation # op
        /\ Put(h, Appending(h, [kind |-> "queued", seq |-> seq, operation |-> op]))
        /\ UNCHANGED <<file, disk, saved, decided, promised, rotted, faults, losses>>

\* Mutant of SaveTail: the copy is left out.
SaveTailNot(h) ==
    /\ handles[h].phase = "saving"
    /\ Put(h, [handles[h] EXCEPT !.phase = "truncating"])
    /\ UNCHANGED <<file, disk, saved, decided, promised, rotted, faults, losses>>

\* move_damage_aside: the tail is read and saved durably.
SaveTail(h) ==
    LET n == Len(handles[h].records)
    IN  /\ handles[h].phase = "saving"
        /\ Len(file) = n + handles[h].tail
        /\ saved' = saved \cup {SubSeq(file, n + 1, Len(file))}
        /\ Put(h, [handles[h] EXCEPT !.phase = "truncating"])
        /\ UNCHANGED <<file, disk, decided, promised, rotted, faults, losses>>

\* The tail cannot be read again after a truncation whose sync failed: this
\* handle appends nothing more.
TailGone(h) ==
    /\ handles[h].phase = "saving"
    /\ Len(file) # Len(handles[h].records) + handles[h].tail
    /\ Put(h, [handles[h] EXCEPT !.phase = "idle"])
    /\ UNCHANGED <<file, disk, saved, decided, promised, rotted, faults, losses>>

\* move_damage_aside: the journal ends at its last valid record.
TruncateTail(h) ==
    /\ handles[h].phase = "truncating"
    /\ file' = Prefix(file, Len(handles[h].records))
    /\ disk' = file'
    /\ Put(h, [handles[h] EXCEPT !.phase = "writing", !.damage = FALSE])
    /\ UNCHANGED <<saved, decided, promised, rotted, faults, losses>>

\* What can follow a frame written over the frames after the n-th: whole
\* frames it did not reach, behind the rest of one it reached in part.
Remains(n) ==
    IF Len(file) <= n THEN {<<>>}
    ELSE LET behind(k) == SubSeq(file, k, Len(file))
         IN  UNION {{behind(k), <<Garbage>> \o behind(k)} : k \in (n + 2)..(Len(file) + 1)}

WriteFrame(h) ==
    LET n == Len(handles[h].records)
    IN  /\ handles[h].phase = "writing"
        /\ \E rest \in Remains(n) :
              file' = Prefix(file, n) \o <<handles[h].frame>> \o rest
        /\ Put(h, [handles[h] EXCEPT !.phase = "written"])
        /\ UNCHANGED <<disk, saved, decided, promised, rotted, faults, losses>>

\* Mutant of SyncFrame: the call returns without a sync.
SyncFrameLater(h) ==
    /\ handles[h].phase = "written"
    /\ promised' = promised \cup {handles[h].frame}
    /\ Put(h, [handles[h] EXCEPT
                 !.records = Append(@, handles[h].frame),
                 !.phase = IF handles[h].frame.kind = "acked" THEN "replaying"
                           ELSE "idle"])
    /\ UNCHANGED <<file, disk, saved, decided, rotted, faults, losses>>

\* The frame is durable: enqueue returns its number, replay reports the
\* delivery and goes on.
SyncFrame(h) ==
    /\ handles[h].phase = "written"
    /\ disk' = file
    /\ promised' = promised \cup {handles[h].frame}
    /\ Put(h, [handles[h] EXCEPT
                 !.records = Append(@, handles[h].frame),
                 !.phase = IF handles[h].frame.kind = "acked" THEN "replaying"
                           ELSE "idle"])
    /\ UNCHANGED <<file, saved, decided, rotted, faults, losses>>

\* An I/O error ends the call.  A failed write or truncation may have left
\* part of its effect in the file; valid_len stays.
AppendFails(h) ==
    LET n == Len(handles[h].records)
        phase == handles[h].phase
    IN  /\ phase \in {"saving", "truncating", "writing", "written"}
        /\ faults < MaxFaults
        /\ faults' = faults + 1
        /\ file' \in {file}
              \cup (IF phase = "truncating" THEN {Prefix(file, n)} ELSE {})
              \cup (IF phase = "writing"
                    THEN {Prefix(file, n) \o <<Garbage>> \o rest : rest \in Remains(n)}
                    ELSE {})
        /\ Put(h, [handles[h] EXCEPT !.phase = "idle"])
        /\ UNCHANGED <<disk, saved, decided, promised, rotted, losses>>

-----------------------------------------------------------------------------
(* Replay.                                                                 *)

Replay(h) ==
    /\ handles[h].phase = "idle"
    /\ Pending(handles[h].records) # {}
    /\ Put(h, [handles[h] EXCEPT !.phase = "replaying"])
    /\ UNCHANGED <<file, disk, saved, decided, promised, rotted, faults, losses>>

\* The node decides the operation, or repeats its decision, and the reply is
\* acknowledged.
Deliver(h) ==
    LET records == handles[h].records
    IN  /\ handles[h].phase = "replaying"
        /\ Pending(records) # {}
        /\ decided' = decided \cup {OperationOf(records, Due(records))}
        /\ Put(h, Appending(h, [kind |-> "acked", seq |-> Due(records)]))
        /\ UNCHANGED <<file, disk, saved, promised, rotted, faults, losses>>

\* A fault stops the replay.  The node may have decided all the same.
Stall(h) ==
    LET records == handles[h].records
    IN  /\ handles[h].phase = "replaying"
        /\ Pending(records) # {}
        /\ \/ decided' = decided
           \/ decided' = decided \cup {OperationOf(records, Due(records))}
        /\ Put(h, [handles[h] EXCEPT !.phase = "idle"])
        /\ UNCHANGED <<file, disk, saved, promised, rotted, faults, losses>>

ReplayEnds(h) ==
    /\ handles[h].phase = "replaying"
    /\ Pending(handles[h].records) = {}
    /\ Put(h, [handles[h] EXCEPT !.phase = "idle"])
    /\ UNCHANGED <<file, disk, saved, decided, promised, rotted, faults, losses>>

-----------------------------------------------------------------------------
(* The environment.                                                        *)

\* A process dies; what it wrote stays readable.
Kill(h) ==
    /\ handles[h] # Closed
    /\ losses < MaxLosses
    /\ losses' = losses + 1
    /\ Put(h, Closed)
    /\ UNCHANGED <<file, disk, saved, decided, promised, rotted, faults>>

\* How many frames the medium and the readers' view share.
Agreed ==
    Max({n \in 0..Len(disk) : n <= Len(file) /\ Prefix(disk, n) = Prefix(file, n)})

\* What was not synced may be kept, lost or torn.
PowerLoss ==
    /\ losses < MaxLosses
    /\ losses' = losses + 1
    /\ file' \in {disk, file}
          \cup (IF disk = file THEN {} ELSE {Append(Prefix(file, Agreed), Garbage)})
    /\ disk' = file'
    /\ handles' = [h \in Handles |-> Closed]
    /\ UNCHANGED <<saved, decided, promised, rotted, faults>>

\* The medium damages a frame while nobody has the journal open.
Rot(i) ==
    /\ \A h \in Handles : handles[h] = Closed
    /\ disk = file
    /\ file[i] # Garbage
    /\ Cardinality(rotted) < MaxRot
    /\ rotted' = rotted \cup {file[i]}
    /\ file' = [file EXCEPT ![i] = Garbage]
    /\ disk' = file'
    /\ UNCHANGED <<saved, handles, decided, promised, faults, losses>>

\* create_journal: the header and the name are durable before any open.
Init ==
    /\ file = <<>>
    /\ disk = <<>>
    /\ saved = {}
    /\ handles = [h \in Handles |-> Closed]
    /\ decided = {}
    /\ promised = {}
    /\ rotted = {}
    /\ faults = 0
    /\ losses = 0

AppendNext(h) ==
    \/ SaveTail(h)
    \/ TailGone(h)
    \/ TruncateTail(h)
    \/ WriteFrame(h)
    \/ SyncFrame(h)
    \/ AppendFails(h)

ReplayNext(h) ==
    \/ Replay(h)
    \/ Deliver(h)
    \/ Stall(h)
    \/ ReplayEnds(h)

Next ==
    \/ \E h \in Handles :
          \/ Open(h)
          \/ Close(h)
          \/ \E op \in Operations : Enqueue(h, op)
          \/ AppendNext(h)
          \/ ReplayNext(h)
          \/ Kill(h)
    \/ PowerLoss
    \/ \E i \in DOMAIN file : Rot(i)

Spec == Init /\ [][Next]_vars

-----------------------------------------------------------------------------
(* Properties.                                                             *)

\* Every variable has its type.
TypeOK ==
    /\ file \in Seq(Frame) /\ disk \in Seq(Frame)
    /\ saved \subseteq Seq(Frame)
    /\ handles \in [Handles -> Handle \cup {Closed}]
    /\ decided \subseteq Operations
    /\ promised \subseteq Queued \cup Acked
    /\ rotted \subseteq Frame
    /\ faults \in Nat /\ losses \in Nat

\* A caller that got Ok may drop the request, and a reported delivery stays
\* acknowledged: whatever fails or crashes, an open reads the record, unless
\* the medium itself damaged the journal.
PromisesKept ==
    rotted = {} =>
       /\ promised \subseteq Frames(Prefix(disk, ValidLen(disk)))
       /\ promised \subseteq Frames(Prefix(file, ValidLen(file)))

\* Damage costs only the damaged frame: every other promised record is still
\* in the journal, read or ignored, or in a saved sibling.
NothingDestroyed ==
    promised \subseteq
       Frames(disk) \cup (UNION {Frames(tail) : tail \in saved}) \cup rotted

FirstUndecided ==
    LET queued == {i \in 1..ValidLen(file) : file[i].kind = "queued"}
    IN  \A op \in decided' \ decided :
          \E j \in queued :
             /\ file[j].operation = op
             /\ \A i \in queued : i < j => file[i].operation \in decided

\* The node decides in journal order: a record is decided only after every
\* record queued before it, whatever was lost, damaged or sent again.
DecidesInOrder == [][FirstUndecided]_vars
=============================================================================
