---------------------------- MODULE OutboxProofs -----------------------------
(***************************************************************************)
(* The client outbox keeps its promises, destroys nothing and delivers in  *)
(* order, for any number of records, processes, faults, losses and damaged *)
(* frames.                                                                 *)
(***************************************************************************)
EXTENDS Outbox, WellFoundedInduction, FiniteSetTheorems, TLAPS

-----------------------------------------------------------------------------
(* Reading the journal.                                                    *)

\* The frames up to the n-th extend one another.
Good(s, n) == n \in 0..Len(s) /\ \A i \in 1..n : Readable(s, i)

\* What apply checks of the i-th frame, by position.
Reads(s, i) ==
    \/ /\ s[i].kind = "queued"
       /\ \A j \in 1..(i - 1) : s[j].kind = "queued" => s[j].seq # s[i].seq
    \/ /\ s[i].kind = "acked"
       /\ \E j \in 1..(i - 1) : s[j].kind = "queued" /\ s[j].seq = s[i].seq
       /\ \A j \in 1..(i - 1) : s[j].kind = "acked" => s[j].seq # s[i].seq

\* A nonempty set of naturals has a least element.
LEMMA LeastNumber ==
    ASSUME NEW S \in SUBSET Nat, S # {}
    PROVE  \E n \in S : \A m \in S : n <= m
<1> DEFINE R == OpToRel(<, Nat)
<1>1. IsWellFoundedOn(R, Nat)
  BY NatLessThanWellFounded
<1>2. PICK n \in S : \A m \in S : ~(<<m, n>> \in R)
  <2> HIDE DEF R
  <2> QED BY <1>1, WFMin
<1>3. \A m \in S : ~(m < n)
  BY <1>2 DEF OpToRel
<1> QED BY <1>3

\* The least and greatest of a bounded set of naturals.
LEMMA Extremes ==
    ASSUME NEW k \in Nat, NEW S \in SUBSET (0..k), S # {}
    PROVE  /\ Max(S) \in S /\ \A m \in S : m <= Max(S)
           /\ Min(S) \in S /\ \A m \in S : Min(S) <= m
<1>1. S \in SUBSET Nat
  OBVIOUS
<1>2. PICK a \in S : \A m \in S : a <= m
  BY <1>1, LeastNumber
<1> DEFINE T == {n \in Nat : k - n \in S}
<1>3. T \in SUBSET Nat /\ T # {}
  <2>1. k - (k - a) = a /\ k - a \in Nat
    OBVIOUS
  <2> QED BY <2>1
<1>4. PICK n \in T : \A m \in T : n <= m
  BY <1>3, LeastNumber
<1>5. k - n \in S /\ \A m \in S : m <= k - n
  <2>1. ASSUME NEW m \in S PROVE m <= k - n
    <3>1. k - m \in Nat /\ k - (k - m) = m
      OBVIOUS
    <3>2. n <= k - m
      BY <1>4, <3>1
    <3> QED BY <1>4, <3>1, <3>2
  <2> QED BY <1>4, <2>1
<1>6. Max(S) \in S /\ \A m \in S : m <= Max(S)
  <2>1. \A m \in S : k - n >= m
    BY <1>1, <1>5
  <2>2. Max(S) \in S /\ \A m \in S : Max(S) >= m
    BY <1>5, <2>1 DEF Max
  <2> QED BY <1>1, <2>2
<1> QED BY <1>2, <1>6 DEF Min

\* The frames before a position.
LEMMA PrefixFrames ==
    ASSUME NEW s \in Seq(Frame), NEW n \in 0..Len(s)
    PROVE  /\ Prefix(s, n) \in Seq(Frame) /\ Len(Prefix(s, n)) = n
           /\ \A i \in 1..n : Prefix(s, n)[i] = s[i]
           /\ Frames(Prefix(s, n)) = {s[i] : i \in 1..n}
<1>1. /\ Prefix(s, n) \in Seq(Frame) /\ Len(Prefix(s, n)) = n
      /\ \A i \in 1..n : Prefix(s, n)[i] = s[i]
  BY DEF Prefix
<1>2. DOMAIN Prefix(s, n) = 1..n
  BY <1>1
<1> QED BY <1>1, <1>2 DEF Frames

\* read_frame and apply, by position.
LEMMA ReadableMeaning ==
    ASSUME NEW s \in Seq(Frame), NEW i \in 1..Len(s)
    PROVE  Readable(s, i) <=> Reads(s, i)
<1>1. i - 1 \in 0..Len(s)
  OBVIOUS
<1>2. Frames(Prefix(s, i - 1)) = {s[j] : j \in 1..(i - 1)}
  BY <1>1, PrefixFrames
<1>3. s[i].kind \in {"queued", "acked", "garbage"}
  BY DEF Frame, Queued, Acked, Garbage
<1>4. CASE s[i].kind = "queued"
  BY <1>2, <1>4 DEF Readable, Reads
<1>5. CASE s[i].kind = "acked"
  BY <1>2, <1>5 DEF Readable, Reads
<1>6. CASE s[i].kind = "garbage"
  BY <1>6 DEF Readable, Reads
<1> QED BY <1>3, <1>4, <1>5, <1>6

\* Readability depends on the frames so far only.
LEMMA GoodKept ==
    ASSUME NEW a \in Seq(Frame), NEW b \in Seq(Frame),
           NEW m \in 0..Len(a), m <= Len(b), \A i \in 1..m : a[i] = b[i],
           NEW n \in 0..m, Good(a, n)
    PROVE  Good(b, n)
<1>1. n \in 0..Len(b)
  OBVIOUS
<1>2. ASSUME NEW i \in 1..n PROVE Readable(b, i)
  <2>1. i \in 1..Len(a) /\ i \in 1..Len(b) /\ \A j \in 1..i : a[j] = b[j]
    OBVIOUS
  <2>2. Reads(a, i)
    BY <2>1, ReadableMeaning DEF Good
  <2>3. Reads(b, i)
    <3>1. b[i] = a[i] /\ \A j \in 1..(i - 1) : b[j] = a[j]
      BY <2>1
    <3> QED BY <2>2, <3>1 DEF Reads
  <2> QED BY <2>1, <2>3, ReadableMeaning
<1> QED BY <1>1, <1>2 DEF Good

\* Garbage is never read.
LEMMA GarbageStops ==
    ASSUME NEW s \in Seq(Frame), NEW i \in 1..Len(s), s[i] = Garbage, NEW n, Good(s, n)
    PROVE  n < i
<1>1. ~Readable(s, i)
  BY ReadableMeaning DEF Reads, Garbage
<1> QED BY <1>1 DEF Good

\* open reads the longest readable prefix.
LEMMA ValidLenFacts ==
    ASSUME NEW s \in Seq(Frame)
    PROVE  /\ ValidLen(s) \in 0..Len(s) /\ Good(s, ValidLen(s))
           /\ \A n : Good(s, n) => n <= ValidLen(s)
<1> DEFINE S == {n \in 0..Len(s) : \A i \in 1..n : Readable(s, i)}
<1>1. Len(s) \in Nat /\ S \in SUBSET (0..Len(s)) /\ 0 \in S
  OBVIOUS
<1>2. Max(S) \in S /\ \A m \in S : m <= Max(S)
  BY <1>1, Extremes
<1>3. ValidLen(s) = Max(S)
  BY DEF ValidLen
<1> HIDE DEF S
<1>4. \A n : n \in S <=> Good(s, n)
  BY DEF S, Good
<1> QED BY <1>1, <1>2, <1>3, <1>4

-----------------------------------------------------------------------------
(* What a journal and its handle always satisfy.                           *)

\* f may be appended to the first n frames: a queued record is numbered past
\* the others, an acknowledgement is the first of a record decided before it.
Fits(s, n, f, done) ==
    \/ /\ f \in Queued
       /\ \A i \in 1..n : s[i].kind = "queued" => s[i].seq < f.seq
    \/ /\ f \in Acked
       /\ \E i \in 1..n : /\ s[i].kind = "queued" /\ s[i].seq = f.seq
                          /\ s[i].operation \in done
       /\ \A i \in 1..n : s[i].kind = "acked" => s[i].seq # f.seq

OrderedTo(s, n, done) ==
    /\ \A i, j \in 1..n : i < j /\ s[i].kind = "queued" /\ s[j].kind = "queued" =>
          s[i].seq < s[j].seq
    /\ \A i \in 1..n : s[i].kind = "acked" =>
          \E j \in 1..n : /\ s[j].kind = "queued" /\ s[j].seq = s[i].seq
                          /\ s[j].operation \in done

\* Where the journal can be read, records are numbered in journal order and
\* only decided ones are acknowledged.
Ordered(s, done) == \A n : Good(s, n) => OrderedTo(s, n, done)

Busy == {"saving", "truncating", "writing", "written"}

\* A handle holds a readable prefix of the journal and appends a frame that
\* fits; past the damage it moved aside, nothing readable follows its write.
Sound(s, done, H) ==
    /\ Good(s, Len(H.records))
    /\ \A i \in 1..Len(H.records) : H.records[i] = s[i]
    /\ H.phase \in Busy => Fits(s, Len(H.records), H.frame, done)
    /\ H.phase \in {"writing", "written"} => ~H.damage
    /\ H.phase = "written" =>
          Len(H.records) + 1 <= Len(s) /\ s[Len(H.records) + 1] = H.frame
    /\ ~H.damage => \A i \in (Len(H.records) + 2)..Len(s) : s[i] = Garbage

\* The first k frames of the medium are those readers see, with all of S.
Shared(a, b, k, S) ==
    /\ k \in 0..Len(a) /\ k <= Len(b)
    /\ \A i \in 1..k : a[i] = b[i]
    /\ \A f \in S : \E i \in 1..k : b[i] = f

\* Promised frames that are neither damaged nor saved.
Exposed == promised \ (rotted \cup UNION {Frames(tail) : tail \in saved})

IsOpen(h) == handles[h] # Closed

\* Without damage, what was promised is readable, durable and known to the
\* handle, however much was written after it.
Kept ==
    rotted = {} =>
       \E k : /\ Shared(disk, file, k, promised)
              /\ Good(file, k)
              /\ \A h \in Handles : IsOpen(h) => k <= Len(handles[h].records)

\* What was promised is durable, or damaged, or saved, and a handle that may
\* write over the tail holds what is neither damaged nor saved.
Spared ==
    \E k : /\ Shared(disk, file, k, Exposed)
           /\ \A h \in Handles :
                 /\ IsOpen(h)
                 /\ ~handles[h].damage \/ handles[h].phase = "truncating"
                 => k <= Len(handles[h].records)

\* The lock admits one handle.
OneOpen == \A g, h \in Handles : IsOpen(g) /\ IsOpen(h) => g = h

HandlesSound == \A h \in Handles : IsOpen(h) => Sound(file, decided, handles[h])

\* The inductive invariant.
IInv ==
    /\ TypeOK
    /\ OneOpen
    /\ HandlesSound
    /\ Ordered(file, decided) /\ Ordered(disk, decided)
    /\ Kept
    /\ Spared

\* A frame that fits can be read.
LEMMA FitsReads ==
    ASSUME NEW s \in Seq(Frame), NEW n \in Nat, n + 1 <= Len(s), Good(s, n),
           NEW done, Fits(s, n, s[n + 1], done)
    PROVE  Good(s, n + 1)
<1>1. (n + 1) - 1 = n /\ n + 1 \in 1..Len(s) /\ n + 1 \in 0..Len(s)
  OBVIOUS
<1>2. Reads(s, n + 1)
  <2>1. CASE /\ s[n + 1] \in Queued
             /\ \A i \in 1..n : s[i].kind = "queued" => s[i].seq < s[n + 1].seq
    <3>1. s[n + 1].kind = "queued" /\ s[n + 1].seq \in 1..MaxSeq
      BY <2>1 DEF Queued
    <3>2. ASSUME NEW i \in 1..n, s[i].kind = "queued" PROVE s[i].seq # s[n + 1].seq
      <4>1. s[i] \in Frame
        BY <1>1
      <4>2. s[i].seq \in 1..MaxSeq
        BY <3>2, <4>1 DEF Frame, Queued, Acked, Garbage
      <4> QED BY <2>1, <3>1, <3>2, <4>2, OutboxBounds
    <3> QED BY <1>1, <3>1, <3>2 DEF Reads
  <2>2. CASE s[n + 1] \in Acked
    <3>1. s[n + 1].kind = "acked" /\ s[n + 1] \notin Queued
      BY <2>2 DEF Acked, Queued
    <3> QED BY <1>1, <3>1 DEF Fits, Reads
  <2> QED BY <2>1, <2>2 DEF Fits
<1>3. Readable(s, n + 1)
  BY <1>1, <1>2, ReadableMeaning
<1> QED BY <1>1, <1>3 DEF Good

\* Order depends on the readable frames only.
LEMMA OrderKept ==
    ASSUME NEW a \in Seq(Frame), NEW b \in Seq(Frame),
           NEW m \in 0..Len(a), m <= Len(b), \A i \in 1..m : a[i] = b[i],
           NEW done, Ordered(a, done), \A n : Good(b, n) => n <= m
    PROVE  Ordered(b, done)
<1>1. SUFFICES ASSUME NEW n, Good(b, n) PROVE OrderedTo(b, n, done)
  BY DEF Ordered
<1>2. n \in 0..m /\ m \in 0..Len(b) /\ m <= Len(a)
  BY <1>1 DEF Good
<1>3. Good(a, n)
  BY <1>1, <1>2, GoodKept
<1>4. OrderedTo(a, n, done) /\ \A i \in 1..n : a[i] = b[i]
  BY <1>2, <1>3 DEF Ordered
<1> QED BY <1>4 DEF OrderedTo

\* A decision orders nothing anew.
LEMMA OrderGrows ==
    ASSUME NEW s, NEW done, NEW more, done \subseteq more, Ordered(s, done)
    PROVE  Ordered(s, more)
BY DEF Ordered, OrderedTo

\* A frame that fits, with nothing readable behind it, keeps the order.
LEMMA OrderAppended ==
    ASSUME NEW a \in Seq(Frame), NEW b \in Seq(Frame), NEW done, Ordered(a, done),
           NEW n \in 0..Len(a), n + 1 <= Len(b), \A i \in 1..n : a[i] = b[i],
           Good(a, n), Fits(b, n, b[n + 1], done), \A m : Good(b, m) => m <= n + 1
    PROVE  Ordered(b, done)
<1>1. SUFFICES ASSUME NEW m, Good(b, m) PROVE OrderedTo(b, m, done)
  BY DEF Ordered
<1>2. m \in 0..(n + 1) /\ n \in Nat
  BY <1>1 DEF Good
<1>3. OrderedTo(a, n, done)
  BY DEF Ordered
<1>4. OrderedTo(b, n, done)
  BY <1>3 DEF OrderedTo
<1>5. CASE m <= n
  <2>1. n \in 0..Len(b) /\ n <= Len(a) /\ m \in 0..n
    BY <1>2, <1>5
  <2>2. Good(a, m)
    BY <1>1, <2>1, GoodKept
  <2>3. OrderedTo(a, m, done) /\ \A i \in 1..m : a[i] = b[i]
    BY <2>1, <2>2 DEF Ordered
  <2> QED BY <2>3 DEF OrderedTo
<1>6. CASE m = n + 1
  <2>1. \A i \in 1..m : i \in 1..n \/ i = n + 1
    BY <1>2, <1>6
  <2>2. n + 1 \in 1..m /\ \A i \in 1..n : i \in 1..m /\ ~(n + 1 < i)
    BY <1>2, <1>6
  <2>3. b[n + 1] \in Queued => b[n + 1].kind = "queued"
    BY DEF Queued
  <2>4. b[n + 1] \in Acked => b[n + 1].kind = "acked"
    BY DEF Acked
  <2>5. ASSUME NEW i \in 1..m, NEW j \in 1..m, i < j,
               b[i].kind = "queued", b[j].kind = "queued"
        PROVE  b[i].seq < b[j].seq
    <3>1. CASE j \in 1..n
      BY <1>2, <1>4, <2>1, <2>5, <3>1 DEF OrderedTo
    <3>2. CASE j = n + 1
      <4>1. i \in 1..n
        BY <1>2, <2>5, <3>2
      <4> QED BY <2>4, <2>5, <3>2, <4>1 DEF Fits
    <3> QED BY <2>1, <3>1, <3>2
  <2>6. ASSUME NEW i \in 1..m, b[i].kind = "acked"
        PROVE  \E j \in 1..m : /\ b[j].kind = "queued" /\ b[j].seq = b[i].seq
                               /\ b[j].operation \in done
    <3>1. CASE i \in 1..n
      BY <1>4, <2>2, <2>6, <3>1 DEF OrderedTo
    <3>2. CASE i = n + 1
      BY <2>2, <2>3, <2>6, <3>2 DEF Fits
    <3> QED BY <2>1, <3>1, <3>2
  <2> QED BY <2>5, <2>6 DEF OrderedTo
<1> QED BY <1>2, <1>5, <1>6

-----------------------------------------------------------------------------
(* Numbers and operations of a handle's records.                           *)

\* The sequence numbers of one kind of frame.
LEMMA SeqsFacts ==
    ASSUME NEW s \in Seq(Frame), NEW kind \in {"queued", "acked"}
    PROVE  /\ Seqs(s, kind) \in SUBSET (1..MaxSeq)
           /\ \A n : n \in Seqs(s, kind) <=>
                        \E i \in 1..Len(s) : s[i].kind = kind /\ s[i].seq = n
<1>1. Frames(s) = {s[i] : i \in 1..Len(s)}
  BY DEF Frames
<1>2. \A i \in 1..Len(s) : s[i].kind = kind => s[i].seq \in 1..MaxSeq
  <2>1. ASSUME NEW i \in 1..Len(s), s[i].kind = kind PROVE s[i].seq \in 1..MaxSeq
    <3>1. s[i] \in Frame
      OBVIOUS
    <3> QED BY <2>1, <3>1 DEF Frame, Queued, Acked, Garbage
  <2> QED BY <2>1
<1>3. \A n : n \in Seqs(s, kind) <=>
                \E i \in 1..Len(s) : s[i].kind = kind /\ s[i].seq = n
  BY <1>1 DEF Seqs
<1> QED BY <1>2, <1>3

\* enqueue numbers a record past all others.
LEMMA NextSeqFacts ==
    ASSUME NEW s \in Seq(Frame)
    PROVE  /\ NextSeq(s) \in Nat \ {0}
           /\ \A i \in 1..Len(s) : s[i].kind = "queued" => s[i].seq < NextSeq(s)
<1> DEFINE S == Seqs(s, "queued")
<1>1. /\ S \in SUBSET (1..MaxSeq)
      /\ \A n : n \in S <=> \E i \in 1..Len(s) : s[i].kind = "queued" /\ s[i].seq = n
  BY SeqsFacts
<1>2. NextSeq(s) = IF S = {} THEN 1 ELSE Max(S) + 1
  BY DEF NextSeq
<1> HIDE DEF S
<1>3. CASE S = {}
  <2>1. NextSeq(s) = 1
    BY <1>2, <1>3
  <2>2. \A i \in 1..Len(s) : s[i].kind # "queued"
    BY <1>1, <1>3
  <2> QED BY <2>1, <2>2
<1>4. CASE S # {}
  <2>1. S \in SUBSET (0..MaxSeq) /\ MaxSeq \in Nat
    BY <1>1, OutboxBounds
  <2>2. Max(S) \in S /\ \A m \in S : m <= Max(S)
    BY <1>4, <2>1, Extremes
  <2>3. Max(S) \in Nat /\ NextSeq(s) = Max(S) + 1 /\ \A m \in S : m \in Nat
    <3>1. NextSeq(s) = Max(S) + 1
      BY <1>2, <1>4
    <3>2. \A m \in S : m \in Nat
      BY <2>1
    <3> QED BY <2>2, <3>1, <3>2
  <2>4. \A i \in 1..Len(s) : s[i].kind = "queued" => s[i].seq \in S
    BY <1>1
  <2>5. \A m \in S : m < NextSeq(s)
    BY <2>2, <2>3
  <2> QED BY <2>3, <2>4, <2>5
<1> QED BY <1>3, <1>4

\* replay sends the oldest record that is not acknowledged.
LEMMA DueFacts ==
    ASSUME NEW s \in Seq(Frame), Good(s, Len(s)), Pending(s) # {}
    PROVE  /\ Due(s) \in 1..MaxSeq
           /\ \E i \in 1..Len(s) : /\ s[i] \in Queued /\ s[i].seq = Due(s)
                                   /\ s[i].operation = OperationOf(s, Due(s))
           /\ \A i \in 1..Len(s) : s[i].kind = "acked" => s[i].seq # Due(s)
           /\ \A i \in 1..Len(s) : s[i].kind = "queued" /\ s[i].seq < Due(s) =>
                 \E j \in 1..Len(s) : s[j].kind = "acked" /\ s[j].seq = s[i].seq
<1> DEFINE S == Pending(s)
<1>1. /\ Seqs(s, "queued") \in SUBSET (1..MaxSeq)
      /\ \A n : n \in Seqs(s, "queued") <=>
                   \E i \in 1..Len(s) : s[i].kind = "queued" /\ s[i].seq = n
  BY SeqsFacts
<1>2. \A n : n \in Seqs(s, "acked") <=>
                \E i \in 1..Len(s) : s[i].kind = "acked" /\ s[i].seq = n
  BY SeqsFacts
<1>3. S = Seqs(s, "queued") \ Seqs(s, "acked") /\ Due(s) = Min(S) /\ S # {}
  BY DEF Pending, Due
<1> HIDE DEF S
<1>4. S \in SUBSET (0..MaxSeq) /\ MaxSeq \in Nat
  BY <1>1, <1>3, OutboxBounds
<1>5. Due(s) \in S /\ \A m \in S : Due(s) <= m
  <2>1. Min(S) \in S /\ \A m \in S : Min(S) <= m
    BY <1>3, <1>4, Extremes
  <2> QED BY <1>3, <2>1
<1>6. PICK i \in 1..Len(s) : s[i].kind = "queued" /\ s[i].seq = Due(s)
  BY <1>1, <1>3, <1>5
<1>7. s[i] \in Queued
  <2>1. s[i] \in Frame
    OBVIOUS
  <2> QED BY <1>6, <2>1 DEF Frame, Acked, Garbage
<1>8. ASSUME NEW j \in 1..Len(s), s[j].kind = "queued", s[j].seq = Due(s)
      PROVE  j = i
  <2>1. Reads(s, i) /\ Reads(s, j)
    BY ReadableMeaning DEF Good
  <2>2. ~(j < i) /\ ~(i < j)
    <3>1. ASSUME j < i PROVE FALSE
      <4>1. j \in 1..(i - 1)
        BY <3>1
      <4> QED BY <1>6, <1>8, <2>1, <4>1 DEF Reads
    <3>2. ASSUME i < j PROVE FALSE
      <4>1. i \in 1..(j - 1)
        BY <3>2
      <4> QED BY <1>6, <1>8, <2>1, <4>1 DEF Reads
    <3> QED BY <3>1, <3>2
  <2> QED BY <2>2
<1>9. OperationOf(s, Due(s)) = s[i].operation
  <2>1. Frames(s) = {s[j] : j \in 1..Len(s)}
    BY DEF Frames
  <2>2. s[i] \in Frames(s) /\ s[i].kind = "queued" /\ s[i].seq = Due(s)
    BY <1>6, <2>1
  <2>3. \A f \in Frames(s) : f.kind = "queued" /\ f.seq = Due(s) => f = s[i]
    BY <1>8, <2>1
  <2> DEFINE f == CHOOSE g \in Frames(s) : g.kind = "queued" /\ g.seq = Due(s)
  <2>4. f = s[i]
    BY <2>2, <2>3
  <2> QED BY <2>4 DEF OperationOf
<1>10. \A j \in 1..Len(s) : s[j].kind = "acked" => s[j].seq # Due(s)
  BY <1>2, <1>3, <1>5
<1>11. ASSUME NEW j \in 1..Len(s), s[j].kind = "queued", s[j].seq < Due(s)
       PROVE  \E m \in 1..Len(s) : s[m].kind = "acked" /\ s[m].seq = s[j].seq
  <2>1. s[j].seq \in Seqs(s, "queued") /\ s[j].seq \in Nat /\ Due(s) \in Nat
    <3>1. s[j].seq \in Seqs(s, "queued")
      BY <1>1, <1>11
    <3>2. Due(s) \in 0..MaxSeq /\ s[j].seq \in 1..MaxSeq
      BY <1>1, <1>4, <1>5, <3>1
    <3> QED BY <3>1, <3>2
  <2>2. s[j].seq \notin S
    BY <1>5, <1>11, <2>1
  <2> QED BY <1>2, <1>3, <2>1, <2>2
<1>12. Due(s) \in 1..MaxSeq
  BY <1>1, <1>3, <1>5
<1> QED BY <1>6, <1>7, <1>9, <1>10, <1>11, <1>12

-----------------------------------------------------------------------------
(* Writing.                                                                *)

\* One sequence behind another.
LEMMA Joined ==
    ASSUME NEW p \in Seq(Frame), NEW q \in Seq(Frame)
    PROVE  /\ p \o q \in Seq(Frame) /\ Len(p \o q) = Len(p) + Len(q)
           /\ \A i \in 1..Len(p) : (p \o q)[i] = p[i]
           /\ \A i \in (Len(p) + 1)..(Len(p) + Len(q)) : (p \o q)[i] = q[i - Len(p)]
OBVIOUS

\* b is s up to n, then f, then rest.
IsWritten(s, n, f, rest, b) ==
    /\ b \in Seq(Frame) /\ Len(b) = n + 1 + Len(rest)
    /\ \A i \in 1..n : b[i] = s[i]
    /\ b[n + 1] = f
    /\ \A i \in (n + 2)..Len(b) : b[i] = rest[i - (n + 1)]

\* A frame written after the n-th, and what remains behind it.
LEMMA Written ==
    ASSUME NEW s \in Seq(Frame), NEW n \in 0..Len(s), NEW f \in Frame,
           NEW rest \in Seq(Frame), NEW b, b = Prefix(s, n) \o <<f>> \o rest
    PROVE  IsWritten(s, n, f, rest, b)
<1> DEFINE p == Prefix(s, n)
           q == p \o <<f>>
<1>1. p \in Seq(Frame) /\ Len(p) = n /\ \A i \in 1..n : p[i] = s[i]
  BY PrefixFrames
<1> HIDE DEF p
<1>2. <<f>> \in Seq(Frame) /\ Len(<<f>>) = 1 /\ <<f>>[1] = f
  OBVIOUS
<1>3. /\ q \in Seq(Frame) /\ Len(q) = n + 1 /\ q[n + 1] = f
      /\ \A i \in 1..n : q[i] = s[i]
  BY <1>1, <1>2
<1> HIDE DEF q
<1>4. /\ q \o rest \in Seq(Frame) /\ Len(q \o rest) = Len(q) + Len(rest)
      /\ \A i \in 1..Len(q) : (q \o rest)[i] = q[i]
      /\ \A i \in (Len(q) + 1)..(Len(q) + Len(rest)) : (q \o rest)[i] = rest[i - Len(q)]
  BY <1>3, Joined
<1>5. b = q \o rest
  BY DEF p, q
<1>6. n \in Nat /\ Len(rest) \in Nat
  OBVIOUS
<1>7. b \in Seq(Frame) /\ Len(b) = n + 1 + Len(rest)
  BY <1>3, <1>4, <1>5
<1>8. b[n + 1] = f /\ \A i \in 1..n : b[i] = s[i]
  BY <1>3, <1>4, <1>5, <1>6
<1>9. \A i \in (n + 2)..Len(b) : b[i] = rest[i - (n + 1)]
  BY <1>3, <1>4, <1>5, <1>6, <1>7
<1> QED BY <1>7, <1>8, <1>9 DEF IsWritten

\* What remains of frames written over.
LEMMA RemainsFacts ==
    ASSUME file \in Seq(Frame), NEW n \in 0..Len(file), NEW rest \in Remains(n)
    PROVE  /\ rest \in Seq(Frame)
           /\ (\A i \in (n + 2)..Len(file) : file[i] = Garbage) =>
                 \A i \in 1..Len(rest) : rest[i] = Garbage
<1>1. CASE Len(file) <= n
  BY <1>1 DEF Remains
<1>2. CASE ~(Len(file) <= n)
  <2>1. PICK k \in (n + 2)..(Len(file) + 1) :
          rest \in {SubSeq(file, k, Len(file)), <<Garbage>> \o SubSeq(file, k, Len(file))}
    BY <1>2 DEF Remains
  <2> DEFINE behind == SubSeq(file, k, Len(file))
  <2>2. /\ behind \in Seq(Frame)
        /\ \A i \in 1..Len(behind) : /\ i + k - 1 \in (n + 2)..Len(file)
                                     /\ behind[i] = file[i + k - 1]
    OBVIOUS
  <2> HIDE DEF behind
  <2>3. Garbage \in Frame
    BY DEF Frame
  <2>4. CASE rest = behind
    BY <2>2, <2>4
  <2>5. CASE rest = <<Garbage>> \o behind
    <3>1. /\ rest \in Seq(Frame) /\ Len(rest) = Len(behind) + 1 /\ rest[1] = Garbage
          /\ \A i \in 2..Len(rest) : rest[i] = behind[i - 1]
      BY <2>2, <2>3, <2>5
    <3>2. \A i \in 1..Len(rest) : i = 1 \/ (i \in 2..Len(rest) /\ i - 1 \in 1..Len(behind))
      BY <2>2, <3>1
    <3> QED BY <2>2, <3>1, <3>2
  <2> QED BY <2>1, <2>4, <2>5 DEF behind
<1> QED BY <1>1, <1>2

-----------------------------------------------------------------------------
(* Steps.                                                                  *)

\* An open handle has its fields.
LEMMA HandleFacts ==
    ASSUME TypeOK, NEW h \in Handles
    PROVE  /\ IsOpen(h) => /\ handles[h] \in Handle
                           /\ handles[h].records \in Seq(Frame)
                           /\ Len(handles[h].records) \in Nat
           /\ handles[h].phase # "closed" => IsOpen(h)
BY DEF TypeOK, IsOpen, Handle, Closed

\* One handle changes.
LEMMA PutFacts ==
    ASSUME TypeOK, NEW h \in Handles, NEW H \in Handle \cup {Closed}, Put(h, H)
    PROVE  /\ handles' \in [Handles -> Handle \cup {Closed}]
           /\ handles'[h] = H
           /\ \A g \in Handles : g # h => handles'[g] = handles[g]
BY DEF TypeOK, Put

\* The one open handle changes and stays open.
LEMMA OneOpenKept ==
    ASSUME IInv, NEW h \in Handles, IsOpen(h), NEW H \in Handle, Put(h, H)
    PROVE  /\ handles' \in [Handles -> Handle \cup {Closed}] /\ handles'[h] = H
           /\ OneOpen'
           /\ \A g \in Handles : IsOpen(g)' => g = h
<1>1. /\ handles' \in [Handles -> Handle \cup {Closed}]
      /\ handles'[h] = H
      /\ \A g \in Handles : g # h => handles'[g] = handles[g]
  BY PutFacts DEF IInv
<1>2. \A g \in Handles : IsOpen(g)' => g = h
  BY <1>1 DEF IInv, OneOpen, IsOpen
<1> QED BY <1>1, <1>2 DEF OneOpen

\* A handle goes on without touching the journal.
LEMMA QuietStep ==
    ASSUME IInv, NEW h \in Handles, IsOpen(h), NEW H \in Handle, Put(h, H),
           UNCHANGED <<file, disk, saved, promised, rotted>>,
           decided \subseteq decided', decided' \subseteq Operations,
           faults' \in Nat, losses' \in Nat,
           H.records = handles[h].records, H.damage = handles[h].damage,
           H.phase = "truncating" => handles[h].phase = "truncating",
           Sound(file, decided', H)
    PROVE  IInv'
<1>1. /\ handles' \in [Handles -> Handle \cup {Closed}] /\ handles'[h] = H
      /\ OneOpen' /\ \A g \in Handles : IsOpen(g)' => g = h
  BY OneOpenKept
<1>2. TypeOK'
  BY <1>1 DEF IInv, TypeOK
<1>3. HandlesSound'
  BY <1>1 DEF HandlesSound
<1>4. Ordered(file, decided)' /\ Ordered(disk, decided)'
  BY OrderGrows DEF IInv
<1>5. Kept'
  BY <1>1 DEF IInv, Kept
<1>6. Spared'
  <2>1. Exposed' = Exposed
    BY DEF Exposed
  <2>2. PICK k : /\ Shared(disk, file, k, Exposed)
                 /\ \A g \in Handles :
                       /\ IsOpen(g)
                       /\ ~handles[g].damage \/ handles[g].phase = "truncating"
                       => k <= Len(handles[g].records)
    BY DEF IInv, Spared
  <2>3. Shared(disk, file, k, Exposed)'
    BY <2>1, <2>2
  <2>4. ~H.damage \/ H.phase = "truncating" => k <= Len(H.records)
    BY <2>2
  <2> QED BY <1>1, <2>3, <2>4 DEF Spared
<1> QED BY <1>1, <1>2, <1>3, <1>4, <1>5, <1>6 DEF IInv

\* Handles close.
LEMMA ClosedStep ==
    ASSUME IInv, NEW h \in Handles, Put(h, Closed),
           UNCHANGED <<file, disk, saved, decided, promised, rotted, faults>>,
           losses' \in Nat
    PROVE  IInv'
<1>1. /\ handles' \in [Handles -> Handle \cup {Closed}]
      /\ \A g \in Handles : IsOpen(g)' => IsOpen(g) /\ handles'[g] = handles[g]
  BY PutFacts DEF IInv, IsOpen
<1>2. TypeOK'
  BY <1>1 DEF IInv, TypeOK
<1>3. HandlesSound' /\ OneOpen'
  BY <1>1 DEF IInv, HandlesSound, OneOpen
<1>4. Kept'
  BY <1>1 DEF IInv, Kept
<1>5. Spared'
  BY <1>1 DEF IInv, Spared, Exposed
<1> QED BY <1>2, <1>3, <1>4, <1>5 DEF IInv

\* A handle changes what is behind its records, where nothing promised is.
LEMMA FileStep ==
    ASSUME IInv, NEW h \in Handles, IsOpen(h), NEW H \in Handle, Put(h, H),
           UNCHANGED <<saved, decided, promised, rotted, losses>>, faults' \in Nat,
           ~handles[h].damage \/ handles[h].phase = "truncating",
           H.records = handles[h].records,
           NEW b \in Seq(Frame), file' = b, disk' = disk \/ disk' = b,
           Len(H.records) <= Len(b), \A i \in 1..Len(H.records) : b[i] = file[i],
           Sound(b, decided, H), Ordered(b, decided)
    PROVE  IInv'
<1>1. /\ handles' \in [Handles -> Handle \cup {Closed}] /\ handles'[h] = H
      /\ OneOpen' /\ \A g \in Handles : IsOpen(g)' => g = h
  BY OneOpenKept
<1>2. TypeOK'
  BY <1>1 DEF IInv, TypeOK
<1>3. HandlesSound'
  BY <1>1 DEF HandlesSound
<1>4. Ordered(file, decided)' /\ Ordered(disk, decided)'
  BY DEF IInv
<1>5. /\ Len(H.records) \in Nat /\ Sound(file, decided, handles[h])
      /\ file \in Seq(Frame) /\ disk \in Seq(Frame)
  BY HandleFacts DEF IInv, HandlesSound, TypeOK
<1>6. ASSUME NEW k, NEW S, Shared(disk, file, k, S), k <= Len(H.records)
      PROVE  Shared(disk', b, k, S)
  <2>1. k \in Nat /\ k \in 0..Len(disk) /\ k <= Len(b)
    BY <1>5, <1>6 DEF Shared
  <2>2. \A i \in 1..k : i \in 1..Len(H.records)
    BY <1>5, <1>6, <2>1
  <2>3. \A i \in 1..k : b[i] = file[i] /\ disk[i] = file[i]
    BY <1>6, <2>2 DEF Shared
  <2>4. k \in 0..Len(disk') /\ \A i \in 1..k : disk'[i] = b[i]
    BY <2>1, <2>3
  <2>5. \A f \in S : \E i \in 1..k : b[i] = f
    BY <1>6, <2>3 DEF Shared
  <2> QED BY <2>1, <2>4, <2>5 DEF Shared
<1>7. Kept'
  <2>1. SUFFICES ASSUME rotted = {} PROVE Kept'
    BY DEF Kept
  <2>2. PICK k : Shared(disk, file, k, promised) /\ Good(file, k) /\ k <= Len(H.records)
    BY <2>1 DEF IInv, Kept
  <2>3. Shared(disk, file, k, promised)'
    BY <1>6, <2>2
  <2>4. Good(b, k)
    <3>1. k \in 0..Len(H.records) /\ Len(H.records) \in 0..Len(file)
      BY <1>5, <2>2 DEF Shared, Sound, Good
    <3> QED BY <1>5, <2>2, <3>1, GoodKept
  <2> QED BY <1>1, <2>2, <2>3, <2>4 DEF Kept
<1>8. Spared'
  <2>1. PICK k : Shared(disk, file, k, Exposed) /\ k <= Len(H.records)
    BY DEF IInv, Spared
  <2>2. Exposed' = Exposed
    BY DEF Exposed
  <2>3. Shared(disk, file, k, Exposed)'
    BY <1>6, <2>1, <2>2
  <2> QED BY <1>1, <2>1, <2>3 DEF Spared
<1> QED BY <1>1, <1>2, <1>3, <1>4, <1>7, <1>8 DEF IInv

\* open reads the longest readable prefix and changes nothing.
LEMMA OpenStep ==
    ASSUME IInv, NEW h \in Handles, Open(h)
    PROVE  IInv'
<1>1. PICK n, H : n = ValidLen(file) /\ H = Opened
  OBVIOUS
<1>2. /\ file \in Seq(Frame) /\ n \in 0..Len(file) /\ Good(file, n)
      /\ \A m : Good(file, m) => m <= n
  BY <1>1, ValidLenFacts DEF IInv, TypeOK
<1>3. /\ Prefix(file, n) \in Seq(Frame) /\ Len(Prefix(file, n)) = n
      /\ \A i \in 1..n : Prefix(file, n)[i] = file[i]
  BY <1>2, PrefixFrames
<1>4. H = [phase |-> "idle", records |-> Prefix(file, n), tail |-> Len(file) - n,
           damage |-> n < Len(file), frame |-> Garbage]
  BY <1>1 DEF Opened
<1>5. H \in Handle
  <2>1. "idle" \in Phases /\ Garbage \in Frame /\ Len(file) - n \in Nat
        /\ (n < Len(file)) \in BOOLEAN
    BY <1>2 DEF Phases, Frame
  <2> QED BY <1>3, <1>4, <2>1 DEF Handle
<1>6. /\ handles' \in [Handles -> Handle \cup {Closed}] /\ handles'[h] = H
      /\ \A g \in Handles : IsOpen(g)' => g = h
  BY <1>1, <1>5, PutFacts DEF Open, IInv, IsOpen
<1>7. UNCHANGED <<file, disk, saved, decided, promised, rotted, faults, losses>>
  BY DEF Open
<1>8. TypeOK' /\ OneOpen'
  BY <1>6, <1>7 DEF IInv, TypeOK, OneOpen
<1>9. H.records = Prefix(file, n) /\ H.phase = "idle" /\ (~H.damage => n = Len(file))
  <2>1. H.records = Prefix(file, n) /\ H.phase = "idle" /\ H.damage = (n < Len(file))
    BY <1>4
  <2>2. ~(n < Len(file)) => n = Len(file)
    BY <1>2
  <2> QED BY <2>1, <2>2, Zenon
<1>10. Sound(file, decided, H)
  BY <1>2, <1>3, <1>9 DEF Sound, Busy
<1>11. HandlesSound'
  BY <1>6, <1>7, <1>10 DEF HandlesSound
<1>12. Kept'
  <2>1. SUFFICES ASSUME rotted = {} PROVE Kept'
    BY <1>7 DEF Kept
  <2>2. PICK k : Shared(disk, file, k, promised) /\ Good(file, k)
    BY <2>1 DEF IInv, Kept
  <2>3. k <= Len(H.records)
    BY <1>2, <1>3, <1>9, <2>2
  <2> QED BY <1>6, <1>7, <2>2, <2>3 DEF Kept
<1>13. Spared'
  <2>1. PICK k : Shared(disk, file, k, Exposed)
    BY DEF IInv, Spared
  <2>2. Shared(disk, file, k, Exposed)'
    BY <1>7, <2>1 DEF Exposed
  <2>3. ~H.damage => k <= Len(H.records)
    BY <1>3, <1>9, <2>1 DEF Shared
  <2> QED BY <1>6, <1>9, <2>2, <2>3 DEF Spared
<1> QED BY <1>7, <1>8, <1>11, <1>12, <1>13 DEF IInv

\* A call of append starts with a frame that fits.
LEMMA AppendingStep ==
    ASSUME IInv, NEW h \in Handles, IsOpen(h), handles[h].phase \notin Busy,
           NEW f \in Frame, Put(h, Appending(h, f)),
           UNCHANGED <<file, disk, saved, promised, rotted, faults, losses>>,
           decided \subseteq decided', decided' \subseteq Operations,
           Fits(file, Len(handles[h].records), f, decided')
    PROVE  IInv'
<1>1. PICK H : H = Appending(h, f)
  OBVIOUS
<1>2. handles[h] \in Handle /\ Sound(file, decided, handles[h])
  BY HandleFacts DEF IInv, HandlesSound
<1>3. /\ H.records = handles[h].records /\ H.damage = handles[h].damage /\ H.frame = f
      /\ H.phase = IF handles[h].damage THEN "saving" ELSE "writing"
  BY <1>1, <1>2 DEF Appending, Handle
<1>4. H \in Handle
  BY <1>1, <1>2 DEF Appending, Handle, Phases
<1>5. Sound(file, decided', H)
  BY <1>2, <1>3 DEF Sound, Busy
<1>6. faults' \in Nat /\ losses' \in Nat
  BY DEF IInv, TypeOK
<1> QED BY <1>1, <1>3, <1>4, <1>5, <1>6, QuietStep

\* A queued record is numbered past the others.
LEMMA EnqueueStep ==
    ASSUME IInv, NEW h \in Handles, NEW op \in Operations, Enqueue(h, op)
    PROVE  IInv'
<1>1. IsOpen(h) /\ handles[h].phase = "idle" /\ TypeOK
  BY HandleFacts DEF Enqueue, IInv
<1>2. PICK R : R = handles[h].records
  OBVIOUS
<1>3. R \in Seq(Frame) /\ Sound(file, decided, handles[h])
  BY <1>1, <1>2, HandleFacts DEF IInv, HandlesSound
<1>4. PICK f : f = [kind |-> "queued", seq |-> NextSeq(R), operation |-> op]
  OBVIOUS
<1>5. /\ NextSeq(R) \in Nat \ {0} /\ NextSeq(R) <= MaxSeq
      /\ \A i \in 1..Len(R) : R[i].kind = "queued" => R[i].seq < NextSeq(R)
  BY <1>2, <1>3, NextSeqFacts DEF Enqueue
<1>6. f \in Queued /\ f \in Frame /\ f.seq = NextSeq(R)
  <2>1. NextSeq(R) \in 1..MaxSeq
    BY <1>5, OutboxBounds
  <2> QED BY <1>4, <2>1 DEF Queued, Frame
<1>7. \A i \in 1..Len(R) : R[i] = file[i]
  BY <1>2, <1>3 DEF Sound
<1>8. Fits(file, Len(handles[h].records), f, decided)
  BY <1>2, <1>5, <1>6, <1>7 DEF Fits
<1>9. /\ Put(h, Appending(h, f)) /\ decided' = decided
      /\ UNCHANGED <<file, disk, saved, promised, rotted, faults, losses>>
  BY <1>2, <1>4 DEF Enqueue
<1>10. decided' \subseteq Operations /\ handles[h].phase \notin Busy
  BY <1>1, <1>9 DEF TypeOK, Busy
<1> QED BY <1>1, <1>6, <1>8, <1>9, <1>10, AppendingStep

\* What a replay is about to send.
LEMMA ReplayFacts ==
    ASSUME IInv, NEW h \in Handles, handles[h].phase = "replaying",
           Pending(handles[h].records) # {}
    PROVE  LET R == handles[h].records
           IN  /\ IsOpen(h) /\ R \in Seq(Frame)
               /\ Good(file, Len(R)) /\ \A i \in 1..Len(R) : R[i] = file[i]
               /\ Due(R) \in 1..MaxSeq
               /\ \E i \in 1..Len(R) : /\ R[i] \in Queued /\ R[i].seq = Due(R)
                                       /\ R[i].operation = OperationOf(R, Due(R))
               /\ \A i \in 1..Len(R) : R[i].kind = "acked" => R[i].seq # Due(R)
               /\ \A i \in 1..Len(R) : R[i].kind = "queued" /\ R[i].seq < Due(R) =>
                     \E j \in 1..Len(R) : R[j].kind = "acked" /\ R[j].seq = R[i].seq
<1>1. TypeOK /\ IsOpen(h)
  BY HandleFacts DEF IInv
<1>2. PICK R : R = handles[h].records
  OBVIOUS
<1>3. /\ R \in Seq(Frame) /\ Good(file, Len(R)) /\ \A i \in 1..Len(R) : R[i] = file[i]
  BY <1>1, <1>2, HandleFacts DEF IInv, HandlesSound, Sound
<1>4. file \in Seq(Frame) /\ Len(R) \in 0..Len(file) /\ Len(R) \in 0..Len(R)
  BY <1>1, <1>3 DEF TypeOK, Good
<1>5. Good(R, Len(R))
  BY <1>3, <1>4, GoodKept
<1> QED BY <1>1, <1>2, <1>3, <1>5, DueFacts

\* The acknowledged record is the oldest pending one, and it is decided.
LEMMA DeliverStep ==
    ASSUME IInv, NEW h \in Handles, Deliver(h)
    PROVE  IInv'
<1>1. PICK R : R = handles[h].records
  OBVIOUS
<1>2. handles[h].phase = "replaying" /\ Pending(R) # {}
  BY <1>1 DEF Deliver
<1>3. /\ IsOpen(h) /\ R \in Seq(Frame)
      /\ Good(file, Len(R)) /\ \A i \in 1..Len(R) : R[i] = file[i]
      /\ Due(R) \in 1..MaxSeq
      /\ \A i \in 1..Len(R) : R[i].kind = "acked" => R[i].seq # Due(R)
  BY <1>1, <1>2, ReplayFacts
<1>4. PICK i \in 1..Len(R) : /\ R[i] \in Queued /\ R[i].seq = Due(R)
                             /\ R[i].operation = OperationOf(R, Due(R))
  BY <1>1, <1>2, ReplayFacts
<1>5. PICK f : f = [kind |-> "acked", seq |-> Due(R)]
  OBVIOUS
<1>6. f \in Acked /\ f \in Frame /\ f.seq = Due(R)
  BY <1>3, <1>5 DEF Acked, Frame
<1>7. /\ Put(h, Appending(h, f)) /\ decided' = decided \cup {OperationOf(R, Due(R))}
      /\ UNCHANGED <<file, disk, saved, promised, rotted, faults, losses>>
  BY <1>1, <1>5 DEF Deliver
<1>8. R[i].kind = "queued" /\ R[i].operation \in Operations
  BY <1>4 DEF Queued
<1>9. decided' \subseteq Operations /\ handles[h].phase \notin Busy
  BY <1>2, <1>4, <1>7, <1>8 DEF IInv, TypeOK, Busy
<1>10. Fits(file, Len(R), f, decided')
  <2>1. file[i].kind = "queued" /\ file[i].seq = f.seq /\ file[i].operation \in decided'
    BY <1>3, <1>4, <1>6, <1>7, <1>8
  <2> QED BY <1>3, <1>6, <2>1 DEF Fits
<1> QED BY <1>1, <1>3, <1>6, <1>7, <1>9, <1>10, AppendingStep

\* A handle changes its phase only.
LEMMA PhaseStep ==
    ASSUME IInv, NEW h \in Handles, IsOpen(h), NEW phase \in {"idle", "replaying"},
           Put(h, [handles[h] EXCEPT !.phase = phase]),
           UNCHANGED <<file, disk, saved, promised, rotted, losses>>,
           decided \subseteq decided', decided' \subseteq Operations, faults' \in Nat
    PROVE  IInv'
<1>1. PICK H : H = [handles[h] EXCEPT !.phase = phase]
  OBVIOUS
<1>2. handles[h] \in Handle /\ Sound(file, decided, handles[h])
  BY HandleFacts DEF IInv, HandlesSound
<1>3. /\ H.records = handles[h].records /\ H.damage = handles[h].damage
      /\ H.phase = phase /\ H \in Handle
  BY <1>1, <1>2 DEF Handle, Phases
<1>4. Sound(file, decided', H)
  BY <1>2, <1>3 DEF Sound, Busy
<1>5. losses' \in Nat
  BY DEF IInv, TypeOK
<1> QED BY <1>1, <1>3, <1>4, <1>5, QuietStep

\* A fault stops a replay; the node may have decided all the same.
LEMMA StallStep ==
    ASSUME IInv, NEW h \in Handles, Stall(h)
    PROVE  IInv'
<1>1. PICK R : R = handles[h].records
  OBVIOUS
<1>2. handles[h].phase = "replaying" /\ Pending(R) # {}
  BY <1>1 DEF Stall
<1>3. PICK i \in 1..Len(R) : R[i] \in Queued /\ R[i].operation = OperationOf(R, Due(R))
  BY <1>1, <1>2, ReplayFacts
<1>4. OperationOf(R, Due(R)) \in Operations /\ decided \subseteq Operations
  BY <1>3 DEF Queued, IInv, TypeOK
<1>5. decided \subseteq decided' /\ decided' \subseteq Operations
  BY <1>1, <1>4 DEF Stall
<1>6. IsOpen(h) /\ faults' \in Nat
  BY <1>2, HandleFacts DEF IInv, TypeOK, Stall
<1> QED BY <1>5, <1>6, PhaseStep DEF Stall

\* The tail is copied before anything is written over it.
LEMMA SaveTailStep ==
    ASSUME IInv, NEW h \in Handles, SaveTail(h)
    PROVE  IInv'
<1>1. PICK n, H : /\ n = Len(handles[h].records)
                  /\ H = [handles[h] EXCEPT !.phase = "truncating"]
  OBVIOUS
<1>2. IsOpen(h) /\ handles[h].phase = "saving"
  BY HandleFacts DEF SaveTail, IInv
<1>3. handles[h] \in Handle /\ Sound(file, decided, handles[h]) /\ n \in Nat
  BY <1>1, <1>2, HandleFacts DEF IInv, HandlesSound
<1>4. /\ H.records = handles[h].records /\ H.damage = handles[h].damage
      /\ H.phase = "truncating" /\ H.frame = handles[h].frame /\ H \in Handle
  BY <1>1, <1>3 DEF Handle, Phases
<1>5. PICK tail : tail = SubSeq(file, n + 1, Len(file))
  OBVIOUS
<1>6. /\ Put(h, H) /\ saved' = saved \cup {tail}
      /\ UNCHANGED <<file, disk, decided, promised, rotted, faults, losses>>
  BY <1>1, <1>5 DEF SaveTail
<1>7. /\ handles' \in [Handles -> Handle \cup {Closed}] /\ handles'[h] = H
      /\ OneOpen' /\ \A g \in Handles : IsOpen(g)' => g = h
  BY <1>2, <1>4, <1>6, OneOpenKept
<1>8. file \in Seq(Frame) /\ disk \in Seq(Frame) /\ n \in 0..Len(file)
  BY <1>1, <1>3 DEF IInv, TypeOK, Sound, Good
<1>9. /\ tail \in Seq(Frame)
      /\ \A i \in (n + 1)..Len(file) : file[i] \in Frames(tail)
  <2>1. tail \in Seq(Frame) /\ Len(tail) = Len(file) - n
    BY <1>5, <1>8
  <2>2. \A i \in (n + 1)..Len(file) : i - n \in DOMAIN tail /\ tail[i - n] = file[i]
    BY <1>5, <1>8, <2>1
  <2> QED BY <2>1, <2>2 DEF Frames
<1>10. TypeOK'
  BY <1>6, <1>7, <1>9 DEF IInv, TypeOK
<1>11. Sound(file, decided, H)
  BY <1>2, <1>3, <1>4 DEF Sound, Busy
<1>12. HandlesSound'
  BY <1>6, <1>7, <1>11 DEF HandlesSound
<1>13. Kept'
  BY <1>4, <1>6, <1>7, <1>2 DEF IInv, Kept
<1>14. Spared'
  <2>1. PICK k : Shared(disk, file, k, Exposed)
    BY DEF IInv, Spared
  <2>2. Exposed' = Exposed \ Frames(tail)
    BY <1>6 DEF Exposed
  <2>3. PICK m : m = IF k <= n THEN k ELSE n
    OBVIOUS
  <2>4. k \in Nat /\ m \in Nat /\ m <= k /\ m <= n /\ (m = k \/ m = n)
    BY <1>3, <2>1, <2>3 DEF Shared
  <2>5. ASSUME NEW f \in Exposed \ Frames(tail) PROVE \E i \in 1..m : file[i] = f
    <3>1. PICK i \in 1..k : file[i] = f
      BY <2>1, <2>5 DEF Shared
    <3>2. i \notin (n + 1)..Len(file)
      BY <1>9, <2>5, <3>1
    <3>3. i \in 1..m
      BY <1>8, <2>1, <2>3, <2>4, <3>2 DEF Shared
    <3> QED BY <3>1, <3>3
  <2>6. Shared(disk, file, m, Exposed \ Frames(tail))
    BY <1>8, <2>1, <2>4, <2>5 DEF Shared
  <2>7. Shared(disk, file, m, Exposed)'
    BY <1>6, <2>2, <2>6
  <2>8. m <= Len(H.records)
    BY <1>1, <1>4, <2>4
  <2> QED BY <1>7, <2>7, <2>8 DEF Spared
<1>15. Ordered(file, decided)' /\ Ordered(disk, decided)'
  BY <1>6 DEF IInv
<1> QED BY <1>7, <1>10, <1>12, <1>13, <1>14, <1>15 DEF IInv

\* The journal of a handle that cut its tail off ends at its records.
LEMMA CutFacts ==
    ASSUME IInv, NEW h \in Handles, IsOpen(h), NEW n, n = Len(handles[h].records)
    PROVE  /\ n \in 0..Len(file) /\ Good(file, n)
           /\ Prefix(file, n) \in Seq(Frame) /\ Len(Prefix(file, n)) = n
           /\ \A i \in 1..n : Prefix(file, n)[i] = file[i]
           /\ Ordered(Prefix(file, n), decided)
<1>1. n \in 0..Len(file) /\ file \in Seq(Frame) /\ Good(file, n)
  BY HandleFacts DEF IInv, HandlesSound, Sound, Good, TypeOK
<1>2. /\ Prefix(file, n) \in Seq(Frame) /\ Len(Prefix(file, n)) = n
      /\ \A i \in 1..n : Prefix(file, n)[i] = file[i]
  BY <1>1, PrefixFrames
<1>3. \A m : Good(Prefix(file, n), m) => m <= n
  BY <1>2 DEF Good
<1>4. Ordered(Prefix(file, n), decided)
  BY <1>1, <1>2, <1>3, OrderKept DEF IInv
<1> QED BY <1>1, <1>2, <1>4

\* What a handle knows of its records survives a write behind them.
LEMMA SoundBehind ==
    ASSUME NEW a \in Seq(Frame), NEW b \in Seq(Frame), NEW done, NEW H \in Handle,
           Sound(a, done, H), Len(H.records) <= Len(b),
           \A i \in 1..Len(H.records) : b[i] = a[i]
    PROVE  /\ Good(b, Len(H.records))
           /\ \A i \in 1..Len(H.records) : H.records[i] = b[i]
           /\ H.phase \in Busy => Fits(b, Len(H.records), H.frame, done)
<1>1. Len(H.records) \in 0..Len(a) /\ Len(H.records) \in 0..Len(H.records)
  BY DEF Handle, Sound, Good
<1>2. Good(b, Len(H.records))
  BY <1>1, GoodKept DEF Sound
<1> QED BY <1>2 DEF Sound, Fits

\* move_damage_aside ends the journal at its last valid record, durably.
LEMMA TruncateStep ==
    ASSUME IInv, NEW h \in Handles, TruncateTail(h)
    PROVE  IInv'
<1>1. PICK n, H, b : /\ n = Len(handles[h].records) /\ b = Prefix(file, n)
                     /\ H = [handles[h] EXCEPT !.phase = "writing", !.damage = FALSE]
  OBVIOUS
<1>2. IsOpen(h) /\ handles[h].phase = "truncating" /\ file \in Seq(Frame)
  BY HandleFacts DEF TruncateTail, IInv, TypeOK
<1>3. handles[h] \in Handle /\ Sound(file, decided, handles[h])
  BY <1>2, HandleFacts DEF IInv, HandlesSound
<1>4. /\ H.records = handles[h].records /\ H.damage = FALSE
      /\ H.phase = "writing" /\ H.frame = handles[h].frame /\ H \in Handle
  BY <1>1, <1>3 DEF Handle, Phases
<1>5. /\ n \in 0..Len(file) /\ b \in Seq(Frame) /\ Len(b) = n
      /\ \A i \in 1..n : b[i] = file[i]
      /\ Ordered(b, decided)
  BY <1>1, <1>2, CutFacts
<1>6. /\ Good(b, n) /\ \A i \in 1..n : handles[h].records[i] = b[i]
      /\ Fits(b, n, handles[h].frame, decided)
  BY <1>1, <1>2, <1>3, <1>5, SoundBehind DEF Busy
<1>7. Sound(b, decided, H)
  BY <1>1, <1>4, <1>5, <1>6 DEF Sound
<1>8. /\ Put(h, H) /\ file' = b /\ disk' = b
      /\ UNCHANGED <<saved, decided, promised, rotted, losses>> /\ faults' \in Nat
  BY <1>1 DEF TruncateTail, IInv, TypeOK
<1>9. Len(H.records) = n /\ Len(H.records) <= Len(b)
  BY <1>1, <1>4, <1>5
<1>10. \A i \in 1..Len(H.records) : b[i] = file[i]
  BY <1>5, <1>9
<1> QED BY <1>2, <1>4, <1>5, <1>7, <1>8, <1>9, <1>10, FileStep

\* The journal b holds f behind the n records of the handle.
WritesBehind(h, n, f, b) ==
    /\ IsOpen(h) /\ n \in 0..Len(file)
    /\ b \in Seq(Frame) /\ n + 1 <= Len(b)
    /\ \A i \in 1..n : b[i] = file[i]
    /\ b[n + 1] = f /\ \A i \in (n + 2)..Len(b) : b[i] = Garbage
    /\ Good(b, n) /\ \A i \in 1..n : handles[h].records[i] = b[i]
    /\ Fits(b, n, handles[h].frame, decided)
    /\ Ordered(b, decided)

\* A frame of a handle, or a torn one, is written behind its records.
LEMMA WriteFacts ==
    ASSUME IInv, NEW h \in Handles, handles[h].phase = "writing",
           NEW n, n = Len(handles[h].records), NEW rest \in Remains(n),
           NEW f \in {handles[h].frame, Garbage}, NEW b, b = Prefix(file, n) \o <<f>> \o rest
    PROVE  WritesBehind(h, n, f, b)
<1>1. IsOpen(h) /\ file \in Seq(Frame)
  BY HandleFacts DEF IInv, TypeOK
<1>2. /\ handles[h] \in Handle /\ Sound(file, decided, handles[h]) /\ n \in Nat
  BY <1>1, HandleFacts DEF IInv, HandlesSound
<1>3. n \in 0..Len(file) /\ Good(file, n)
  BY <1>2 DEF Sound, Good
<1>4. f \in Frame
  BY <1>2 DEF Handle, Frame
<1>5. rest \in Seq(Frame) /\ \A i \in 1..Len(rest) : rest[i] = Garbage
  BY <1>1, <1>2, <1>3, RemainsFacts DEF Sound
<1>6. /\ b \in Seq(Frame) /\ Len(b) = n + 1 + Len(rest)
      /\ \A i \in 1..n : b[i] = file[i]
      /\ b[n + 1] = f
      /\ \A i \in (n + 2)..Len(b) : b[i] = rest[i - (n + 1)]
  <2>1. IsWritten(file, n, f, rest, b)
    BY <1>1, <1>3, <1>4, <1>5, Written, Zenon
  <2> QED BY <2>1 DEF IsWritten
<1>7. n + 1 <= Len(b) /\ n <= Len(b)
  BY <1>2, <1>5, <1>6
<1>8. \A i \in (n + 2)..Len(b) : b[i] = Garbage
  <2>1. \A i \in (n + 2)..Len(b) : i - (n + 1) \in 1..Len(rest)
    BY <1>2, <1>5, <1>6
  <2> QED BY <1>5, <1>6, <2>1
<1>9. /\ Good(b, n) /\ \A i \in 1..n : handles[h].records[i] = b[i]
      /\ Fits(b, n, handles[h].frame, decided)
  BY <1>1, <1>2, <1>6, <1>7, SoundBehind DEF Busy
<1>10. \A m : Good(b, m) => m <= n + 1
  <2>1. SUFFICES ASSUME NEW m, Good(b, m), ~(m <= n + 1) PROVE FALSE
    OBVIOUS
  <2>2. n + 2 \in 1..Len(b) /\ n + 2 <= m
    BY <1>2, <1>6, <2>1 DEF Good
  <2>3. b[n + 2] = Garbage
    <3>1. n + 2 \in (n + 2)..Len(b)
      BY <1>2, <1>6, <2>2
    <3> QED BY <1>8, <3>1
  <2>4. m < n + 2
    BY <1>6, <2>1, <2>2, <2>3, GarbageStops
  <2> QED BY <1>2, <2>1, <2>2, <2>4 DEF Good
<1>11. Ordered(b, decided)
  <2>1. CASE f = Garbage
    <3>1. \A m : Good(b, m) => m <= n
      <4>1. SUFFICES ASSUME NEW m, Good(b, m) PROVE m <= n
        OBVIOUS
      <4>2. n + 1 \in 1..Len(b)
        BY <1>2, <1>7
      <4>3. m < n + 1
        <5>1. b \in Seq(Frame) /\ b[n + 1] = Garbage
          BY <1>6, <2>1
        <5> QED BY <4>1, <4>2, <5>1, GarbageStops
      <4> QED BY <1>2, <1>6, <4>1, <4>3 DEF Good
    <3> QED BY <1>1, <1>3, <1>6, <1>7, <3>1, OrderKept DEF IInv
  <2>2. CASE f = handles[h].frame
    <3>1. Fits(b, n, b[n + 1], decided)
      BY <1>6, <1>9, <2>2
    <3> QED BY <1>1, <1>3, <1>6, <1>7, <1>10, <3>1, OrderAppended DEF IInv
  <2> QED BY <2>1, <2>2
<1> QED BY <1>1, <1>3, <1>6, <1>7, <1>8, <1>9, <1>11 DEF WritesBehind

\* append writes its frame behind the records.
LEMMA WriteStep ==
    ASSUME IInv, NEW h \in Handles, WriteFrame(h)
    PROVE  IInv'
<1>1. PICK n, H : /\ n = Len(handles[h].records)
                  /\ H = [handles[h] EXCEPT !.phase = "written"]
  OBVIOUS
<1>0. PICK f : f = handles[h].frame
  OBVIOUS
<1>2. PICK rest \in Remains(n) : file' = Prefix(file, n) \o <<f>> \o rest
  BY <1>0, <1>1 DEF WriteFrame
<1>3. PICK b : b = Prefix(file, n) \o <<f>> \o rest
  OBVIOUS
<1>4. handles[h].phase = "writing"
  BY DEF WriteFrame
<1>5. /\ IsOpen(h) /\ n \in 0..Len(file)
      /\ b \in Seq(Frame) /\ n + 1 <= Len(b)
      /\ \A i \in 1..n : b[i] = file[i]
      /\ b[n + 1] = handles[h].frame /\ \A i \in (n + 2)..Len(b) : b[i] = Garbage
      /\ Good(b, n) /\ \A i \in 1..n : handles[h].records[i] = b[i]
      /\ Fits(b, n, handles[h].frame, decided)
      /\ Ordered(b, decided)
  <2>1. f \in {handles[h].frame, Garbage} /\ n = Len(handles[h].records)
    BY <1>0, <1>1
  <2>2. WritesBehind(h, n, f, b)
    BY <1>3, <1>4, <2>1, WriteFacts, Zenon
  <2> QED BY <1>0, <2>2 DEF WritesBehind
<1>6. handles[h] \in Handle /\ Sound(file, decided, handles[h])
  BY <1>5, HandleFacts DEF IInv, HandlesSound
<1>7. ~handles[h].damage
  BY <1>4, <1>6 DEF Sound
<1>8. /\ H.records = handles[h].records /\ H.damage = handles[h].damage
      /\ H.phase = "written" /\ H.frame = handles[h].frame /\ H \in Handle
  BY <1>1, <1>6 DEF Handle, Phases
<1>9. Sound(b, decided, H)
  BY <1>1, <1>5, <1>7, <1>8 DEF Sound
<1>10. /\ Put(h, H) /\ file' = b /\ disk' = disk
       /\ UNCHANGED <<saved, decided, promised, rotted, losses>> /\ faults' \in Nat
  BY <1>1, <1>2, <1>3 DEF WriteFrame, IInv, TypeOK
<1>11. Len(H.records) <= Len(b) /\ \A i \in 1..Len(H.records) : b[i] = file[i]
  BY <1>1, <1>5, <1>8
<1> QED BY <1>5, <1>7, <1>8, <1>9, <1>10, <1>11, FileStep

\* A failed append may leave part of its effect; no record is behind it.
LEMMA FailStep ==
    ASSUME IInv, NEW h \in Handles, AppendFails(h)
    PROVE  IInv'
<1>1. PICK n, H : /\ n = Len(handles[h].records)
                  /\ H = [handles[h] EXCEPT !.phase = "idle"]
  OBVIOUS
<1>2. IsOpen(h) /\ file \in Seq(Frame)
  BY HandleFacts DEF AppendFails, IInv, TypeOK
<1>3. handles[h] \in Handle /\ Sound(file, decided, handles[h])
  BY <1>2, HandleFacts DEF IInv, HandlesSound
<1>4. /\ H.records = handles[h].records /\ H.damage = handles[h].damage
      /\ H.phase = "idle" /\ H \in Handle
  BY <1>1, <1>3 DEF Handle, Phases
<1>5. /\ Put(h, H) /\ disk' = disk /\ faults' \in Nat
      /\ UNCHANGED <<disk, saved, decided, promised, rotted, losses>>
  BY <1>1 DEF AppendFails, IInv, TypeOK
<1>6. CASE file' = file
  <2>1. decided \subseteq decided' /\ decided' \subseteq Operations
    BY <1>5 DEF IInv, TypeOK
  <2> QED BY <1>1, <1>2, <1>5, <1>6, <2>1, PhaseStep
<1>7. CASE handles[h].phase = "truncating" /\ file' = Prefix(file, n)
  <2>1. PICK b : b = Prefix(file, n)
    OBVIOUS
  <2>2. /\ n \in 0..Len(file) /\ b \in Seq(Frame) /\ Len(b) = n
        /\ \A i \in 1..n : b[i] = file[i]
        /\ Ordered(b, decided)
    BY <1>1, <1>2, <2>1, CutFacts
  <2>3. Len(H.records) = n /\ Len(H.records) <= Len(b)
    BY <1>1, <1>4, <2>2
  <2>4. Good(b, n) /\ \A i \in 1..n : handles[h].records[i] = b[i]
    BY <1>1, <1>2, <1>3, <2>2, SoundBehind
  <2>5. Sound(b, decided, H)
    BY <1>4, <2>2, <2>3, <2>4 DEF Sound, Busy
  <2>6. \A i \in 1..Len(H.records) : b[i] = file[i]
    BY <2>2, <2>3
  <2>7. file' = b
    BY <1>7, <2>1
  <2> QED BY <1>2, <1>4, <1>5, <1>7, <2>2, <2>3, <2>5, <2>6, <2>7, FileStep
<1>8. ASSUME handles[h].phase = "writing", NEW rest \in Remains(n),
             file' = Prefix(file, n) \o <<Garbage>> \o rest
      PROVE  IInv'
  <2>1. PICK b : b = Prefix(file, n) \o <<Garbage>> \o rest
    OBVIOUS
  <2>2. Garbage \in {handles[h].frame, Garbage} /\ n = Len(handles[h].records)
    BY <1>1
  <2>3. WritesBehind(h, n, Garbage, b)
    BY <1>8, <2>1, <2>2, WriteFacts, Zenon
  <2>4. ~handles[h].damage
    BY <1>3, <1>8 DEF Sound
  <2>5. Len(H.records) = n /\ Len(H.records) <= Len(b) /\ b \in Seq(Frame)
    BY <1>1, <1>4, <2>3 DEF WritesBehind
  <2>6. \A i \in 1..Len(H.records) : b[i] = file[i]
    BY <2>3, <2>5 DEF WritesBehind
  <2>7. Sound(b, decided, H) /\ Ordered(b, decided)
    BY <1>4, <2>3, <2>5 DEF Sound, Busy, WritesBehind
  <2>8. file' = b
    BY <1>8, <2>1
  <2> QED BY <1>2, <1>4, <1>5, <2>4, <2>5, <2>6, <2>7, <2>8, FileStep
<1> QED BY <1>1, <1>6, <1>7, <1>8 DEF AppendFails

\* A synced frame is durable, readable and known to its handle.
LEMMA SyncStep ==
    ASSUME IInv, NEW h \in Handles, SyncFrame(h)
    PROVE  IInv'
<1>1. PICK n, f, H : /\ n = Len(handles[h].records) /\ f = handles[h].frame
                     /\ H = [handles[h] EXCEPT
                               !.records = Append(@, handles[h].frame),
                               !.phase = IF handles[h].frame.kind = "acked"
                                         THEN "replaying" ELSE "idle"]
  OBVIOUS
<1>2. IsOpen(h) /\ handles[h].phase = "written" /\ file \in Seq(Frame)
  BY HandleFacts DEF SyncFrame, IInv, TypeOK
<1>3. handles[h] \in Handle /\ Sound(file, decided, handles[h]) /\ n \in Nat
  BY <1>1, <1>2, HandleFacts DEF IInv, HandlesSound
<1>4. /\ n \in 0..Len(file) /\ n + 1 <= Len(file) /\ file[n + 1] = f
      /\ Good(file, n) /\ Fits(file, n, f, decided) /\ ~handles[h].damage
      /\ \A i \in (n + 2)..Len(file) : file[i] = Garbage
  BY <1>1, <1>2, <1>3 DEF Sound, Good, Busy
<1>5. Good(file, n + 1)
  BY <1>2, <1>3, <1>4, FitsReads
<1>6. f \in Queued \cup Acked /\ f \in Frame
  BY <1>4 DEF Fits, Frame
<1>7. /\ H.records = Append(handles[h].records, f) /\ H.damage = handles[h].damage
      /\ H.phase \in {"replaying", "idle"}
  BY <1>1, <1>3 DEF Handle
<1>8. /\ H.records \in Seq(Frame) /\ Len(H.records) = n + 1
      /\ \A i \in 1..(n + 1) : H.records[i] = file[i]
  <2>1. handles[h].records \in Seq(Frame) /\ \A i \in 1..n : handles[h].records[i] = file[i]
    BY <1>1, <1>3 DEF Handle, Sound
  <2> QED BY <1>1, <1>3, <1>4, <1>6, <1>7, <2>1
<1>9. H \in Handle
  BY <1>1, <1>3, <1>7, <1>8 DEF Handle, Phases
<1>10. /\ Put(h, H) /\ disk' = file /\ promised' = promised \cup {f}
       /\ UNCHANGED <<file, saved, decided, rotted, faults, losses>>
  BY <1>1 DEF SyncFrame
<1>11. /\ handles' \in [Handles -> Handle \cup {Closed}] /\ handles'[h] = H
       /\ OneOpen' /\ \A g \in Handles : IsOpen(g)' => g = h
  BY <1>2, <1>9, <1>10, OneOpenKept
<1>12. TypeOK'
  BY <1>6, <1>10, <1>11 DEF IInv, TypeOK
<1>13. Sound(file, decided, H)
  <2>1. \A i \in (Len(H.records) + 2)..Len(file) : i \in (n + 2)..Len(file)
    BY <1>3, <1>4, <1>8
  <2> QED BY <1>4, <1>5, <1>7, <1>8, <2>1 DEF Sound, Busy
<1>14. HandlesSound'
  BY <1>10, <1>11, <1>13 DEF HandlesSound
<1>15. ASSUME NEW S, NEW k, Shared(disk, file, k, S), k <= n
       PROVE  Shared(file, file, n + 1, S \cup {f})
  <2>1. \A i \in 1..k : i \in 1..(n + 1)
    BY <1>3, <1>15 DEF Shared
  <2> QED BY <1>2, <1>3, <1>4, <1>15, <2>1 DEF Shared
<1>16. Kept'
  <2>1. SUFFICES ASSUME rotted = {} PROVE Kept'
    BY <1>10 DEF Kept
  <2>2. PICK k : Shared(disk, file, k, promised) /\ k <= n
    BY <1>1, <1>2, <2>1 DEF IInv, Kept
  <2>3. Shared(file, file, n + 1, promised \cup {f})
    BY <1>15, <2>2
  <2>4. Shared(disk', file', n + 1, promised') /\ Good(file', n + 1)
    BY <1>5, <1>10, <2>3
  <2>5. n + 1 <= Len(H.records)
    BY <1>3, <1>8
  <2> QED BY <1>11, <2>4, <2>5 DEF Kept
<1>17. Spared'
  <2>1. PICK k : Shared(disk, file, k, Exposed) /\ k <= n
    BY <1>1, <1>2, <1>4 DEF IInv, Spared
  <2>2. Shared(file, file, n + 1, Exposed \cup {f})
    BY <1>15, <2>1
  <2>3. Exposed' \subseteq Exposed \cup {f}
    BY <1>10 DEF Exposed
  <2>4. Shared(disk', file', n + 1, Exposed')
    BY <1>10, <2>2, <2>3 DEF Shared
  <2>5. n + 1 <= Len(H.records)
    BY <1>3, <1>8
  <2> QED BY <1>11, <2>4, <2>5 DEF Spared
<1>18. Ordered(file, decided)' /\ Ordered(disk, decided)'
  BY <1>10 DEF IInv
<1> QED BY <1>11, <1>12, <1>14, <1>16, <1>17, <1>18 DEF IInv

\* What the medium and the readers' view share.
LEMMA AgreedFacts ==
    ASSUME file \in Seq(Frame), disk \in Seq(Frame)
    PROVE  /\ Agreed \in 0..Len(disk) /\ Agreed <= Len(file)
           /\ \A k \in 0..Len(disk) :
                 k <= Len(file) /\ (\A i \in 1..k : disk[i] = file[i]) => k <= Agreed
<1> DEFINE S == {n \in 0..Len(disk) : n <= Len(file) /\ Prefix(disk, n) = Prefix(file, n)}
<1>1. ASSUME NEW k \in 0..Len(disk), k <= Len(file), \A i \in 1..k : disk[i] = file[i]
      PROVE  k \in S
  <2>1. k \in 0..Len(file)
    BY <1>1
  <2>2. /\ Prefix(disk, k) \in Seq(Frame) /\ Len(Prefix(disk, k)) = k
        /\ \A i \in 1..k : Prefix(disk, k)[i] = disk[i]
    BY PrefixFrames
  <2>3. /\ Prefix(file, k) \in Seq(Frame) /\ Len(Prefix(file, k)) = k
        /\ \A i \in 1..k : Prefix(file, k)[i] = file[i]
    BY <2>1, PrefixFrames
  <2>4. Prefix(disk, k) = Prefix(file, k)
    BY <1>1, <2>2, <2>3
  <2> QED BY <1>1, <2>4
<1>2. Len(disk) \in Nat /\ Len(file) \in Nat /\ S \in SUBSET (0..Len(disk))
  OBVIOUS
<1>3. 0 \in S
  BY <1>1, <1>2
<1>4. Agreed = Max(S) /\ \A n \in S : n <= Len(file)
  BY DEF Agreed
<1> HIDE DEF S
<1>5. Max(S) \in S /\ \A m \in S : m <= Max(S)
  BY <1>2, <1>3, Extremes
<1> QED BY <1>1, <1>2, <1>4, <1>5

\* A power loss leaves what was synced; the rest is kept, lost or torn.
LEMMA LossFacts ==
    ASSUME IInv, NEW b, b \in {disk, file} \cup {Append(Prefix(file, Agreed), Garbage)}
    PROVE  /\ b \in Seq(Frame) /\ Ordered(b, decided)
           /\ \A k \in 0..Len(disk) :
                 k <= Len(file) /\ (\A i \in 1..k : disk[i] = file[i]) =>
                    k \in 0..Len(b) /\ \A i \in 1..k : b[i] = file[i]
<1>1. /\ file \in Seq(Frame) /\ disk \in Seq(Frame)
      /\ Ordered(file, decided) /\ Ordered(disk, decided)
  BY DEF IInv, TypeOK
<1>2. CASE b = disk \/ b = file
  BY <1>1, <1>2
<1>3. CASE b = Append(Prefix(file, Agreed), Garbage)
  <2>1. PICK m : m = Agreed
    OBVIOUS
  <2>2. /\ m \in 0..Len(file)
        /\ \A k \in 0..Len(disk) :
              k <= Len(file) /\ (\A i \in 1..k : disk[i] = file[i]) => k <= m
    BY <1>1, <2>1, AgreedFacts
  <2>3. /\ Prefix(file, m) \in Seq(Frame) /\ Len(Prefix(file, m)) = m
        /\ \A i \in 1..m : Prefix(file, m)[i] = file[i]
    BY <1>1, <2>2, PrefixFrames
  <2>4. Garbage \in Frame
    BY DEF Frame
  <2>5. /\ b \in Seq(Frame) /\ Len(b) = m + 1 /\ b[m + 1] = Garbage
        /\ \A i \in 1..m : b[i] = file[i]
    BY <1>3, <2>1, <2>3, <2>4
  <2>6. m \in Nat /\ m + 1 \in 1..Len(b) /\ m <= Len(b)
    BY <2>2, <2>5
  <2>7. \A n : Good(b, n) => n <= m
    <3>1. SUFFICES ASSUME NEW n, Good(b, n) PROVE n <= m
      OBVIOUS
    <3>2. n < m + 1
      BY <2>5, <2>6, <3>1, GarbageStops
    <3> QED BY <2>5, <2>6, <3>1, <3>2 DEF Good
  <2>8. Ordered(b, decided)
    BY <1>1, <2>2, <2>5, <2>6, <2>7, OrderKept
  <2>9. ASSUME NEW k \in 0..Len(disk), k <= Len(file), \A i \in 1..k : disk[i] = file[i]
        PROVE  k \in 0..Len(b) /\ \A i \in 1..k : b[i] = file[i]
    <3>1. k <= m
      BY <2>2, <2>9
    <3> QED BY <2>5, <2>6, <3>1
  <2> QED BY <2>5, <2>8, <2>9
<1> QED BY <1>2, <1>3

\* Handles are gone, and what they were promised is where it was.
LEMMA LossStep ==
    ASSUME IInv, PowerLoss
    PROVE  IInv'
<1>1. PICK b : b = file'
  OBVIOUS
<1>2. /\ b \in {disk, file} \cup {Append(Prefix(file, Agreed), Garbage)}
      /\ file' = b /\ disk' = b /\ handles' = [h \in Handles |-> Closed]
      /\ UNCHANGED <<saved, decided, promised, rotted, faults>>
      /\ losses' \in Nat
  BY <1>1 DEF PowerLoss, IInv, TypeOK
<1>3. /\ b \in Seq(Frame) /\ Ordered(b, decided)
      /\ \A k \in 0..Len(disk) :
            k <= Len(file) /\ (\A i \in 1..k : disk[i] = file[i]) =>
               k \in 0..Len(b) /\ \A i \in 1..k : b[i] = file[i]
  BY <1>2, LossFacts
<1>4. \A h \in Handles : ~IsOpen(h)'
  BY <1>2 DEF IsOpen
<1>5. TypeOK' /\ OneOpen' /\ HandlesSound'
  BY <1>2, <1>3, <1>4 DEF IInv, TypeOK, OneOpen, HandlesSound
<1>6. ASSUME NEW k, NEW S, Shared(disk, file, k, S)
      PROVE  k \in 0..Len(b) /\ (\A i \in 1..k : b[i] = file[i]) /\ Shared(b, b, k, S)
  <2>1. k \in 0..Len(b) /\ \A i \in 1..k : b[i] = file[i]
    BY <1>3, <1>6 DEF Shared
  <2> QED BY <1>3, <1>6, <2>1 DEF Shared
<1>7. Kept'
  <2>1. SUFFICES ASSUME rotted = {} PROVE Kept'
    BY <1>2 DEF Kept
  <2>2. PICK k : Shared(disk, file, k, promised) /\ Good(file, k)
    BY <2>1 DEF IInv, Kept
  <2>3. k \in 0..Len(b) /\ (\A i \in 1..k : b[i] = file[i]) /\ Shared(b, b, k, promised)
    BY <1>6, <2>2
  <2>4. file \in Seq(Frame) /\ k \in 0..Len(file) /\ k \in 0..k /\ k <= Len(b)
    BY <2>2, <2>3 DEF IInv, TypeOK, Good
  <2>5. Good(b, k)
    BY <1>3, <2>2, <2>3, <2>4, GoodKept
  <2> QED BY <1>2, <1>4, <2>3, <2>5 DEF Kept
<1>8. Spared'
  <2>1. PICK k : Shared(disk, file, k, Exposed)
    BY DEF IInv, Spared
  <2>2. Shared(b, b, k, Exposed) /\ Exposed' = Exposed
    BY <1>2, <1>6, <2>1 DEF Exposed
  <2> QED BY <1>2, <1>4, <2>2 DEF Spared
<1> QED BY <1>2, <1>3, <1>5, <1>7, <1>8 DEF IInv

\* The medium damages a frame: only that frame is lost.
LEMMA RotStep ==
    ASSUME IInv, NEW i \in DOMAIN file, Rot(i)
    PROVE  IInv'
<1>1. PICK b : b = [file EXCEPT ![i] = Garbage]
  OBVIOUS
<1>2. /\ file' = b /\ disk' = b /\ disk = file
      /\ rotted' = rotted \cup {file[i]}
      /\ UNCHANGED <<saved, handles, decided, promised, faults, losses>>
      /\ \A h \in Handles : ~IsOpen(h) /\ ~IsOpen(h)'
  BY <1>1 DEF Rot, IsOpen
<1>3. file \in Seq(Frame) /\ i \in 1..Len(file) /\ file[i] \in Frame /\ Garbage \in Frame
  BY DEF IInv, TypeOK, Frame
<1>4. /\ b \in Seq(Frame) /\ Len(b) = Len(file) /\ b[i] = Garbage
      /\ \A j \in 1..Len(file) : j # i => b[j] = file[j]
  BY <1>1, <1>3
<1>5. TypeOK' /\ OneOpen' /\ HandlesSound'
  BY <1>2, <1>3, <1>4 DEF IInv, TypeOK, OneOpen, HandlesSound
<1>6. Ordered(b, decided)
  <2>1. i - 1 \in 0..Len(file) /\ i - 1 <= Len(b) /\ \A j \in 1..(i - 1) : file[j] = b[j]
    BY <1>3, <1>4
  <2>2. \A n : Good(b, n) => n <= i - 1
    <3>1. SUFFICES ASSUME NEW n, Good(b, n) PROVE n <= i - 1
      OBVIOUS
    <3>2. i \in 1..Len(b)
      BY <1>3, <1>4
    <3>3. n < i
      BY <1>4, <3>1, <3>2, GarbageStops
    <3> QED BY <1>3, <1>4, <3>1, <3>3 DEF Good
  <2> QED BY <1>3, <1>4, <2>1, <2>2, OrderKept DEF IInv
<1>7. Kept'
  BY <1>2 DEF Kept
<1>8. Spared'
  <2>1. PICK k : Shared(disk, file, k, Exposed)
    BY DEF IInv, Spared
  <2>2. Exposed' \subseteq Exposed \ {file[i]}
    BY <1>2 DEF Exposed
  <2>3. k \in 0..Len(file)
    BY <1>2, <2>1 DEF Shared
  <2>4. ASSUME NEW f \in Exposed \ {file[i]} PROVE \E j \in 1..k : b[j] = f
    <3>1. PICK j \in 1..k : file[j] = f
      BY <2>1, <2>4 DEF Shared
    <3>2. j \in 1..Len(file) /\ j # i
      BY <1>3, <2>3, <2>4, <3>1
    <3> QED BY <1>4, <3>1, <3>2
  <2>5. Shared(b, b, k, Exposed')
    BY <1>4, <2>2, <2>3, <2>4 DEF Shared
  <2> QED BY <1>2, <2>5 DEF Spared
<1> QED BY <1>2, <1>5, <1>6, <1>7, <1>8 DEF IInv

\* Every step keeps the invariant.
LEMMA InvarianceStep ==
    ASSUME IInv, [Next]_vars
    PROVE  IInv'
<1>1. ASSUME UNCHANGED vars PROVE IInv'
  BY <1>1 DEF vars, IInv, TypeOK, OneOpen, HandlesSound, Kept, Spared, Exposed, IsOpen
<1>2. ASSUME NEW h \in Handles, Close(h) \/ Kill(h) PROVE IInv'
  <2>1. Put(h, Closed) /\ losses' \in Nat
        /\ UNCHANGED <<file, disk, saved, decided, promised, rotted, faults>>
    BY <1>2 DEF Close, Kill, IInv, TypeOK
  <2> QED BY <2>1, ClosedStep
<1>3. ASSUME NEW h \in Handles, TailGone(h) \/ Replay(h) \/ ReplayEnds(h) PROVE IInv'
  <2>1. PICK phase \in {"idle", "replaying"} : Put(h, [handles[h] EXCEPT !.phase = phase])
    BY <1>3 DEF TailGone, Replay, ReplayEnds
  <2>2. UNCHANGED <<file, disk, saved, decided, promised, rotted, faults, losses>>
    BY <1>3 DEF TailGone, Replay, ReplayEnds
  <2>3. IsOpen(h)
    BY <1>3, HandleFacts DEF TailGone, Replay, ReplayEnds, IInv
  <2>4. decided \subseteq decided' /\ decided' \subseteq Operations /\ faults' \in Nat
    BY <2>2 DEF IInv, TypeOK
  <2> QED BY <2>1, <2>2, <2>3, <2>4, PhaseStep
<1>4. ASSUME NEW h \in Handles, AppendNext(h) \/ ReplayNext(h) PROVE IInv'
  BY <1>3, <1>4, SaveTailStep, TruncateStep, WriteStep, SyncStep, FailStep, DeliverStep,
     StallStep DEF AppendNext, ReplayNext
<1> QED BY <1>1, <1>2, <1>4, OpenStep, EnqueueStep, LossStep, RotStep DEF Next

\* Every reachable journal satisfies the invariant.
THEOREM Invariance == Spec => []IInv
<1>1. Init => IInv
  <2>1. SUFFICES ASSUME Init PROVE IInv
    OBVIOUS
  <2>2. file = <<>> /\ disk = <<>> /\ \A h \in Handles : ~IsOpen(h)
    BY <2>1 DEF Init, IsOpen
  <2>3. TypeOK /\ OneOpen /\ HandlesSound
    BY <2>1, <2>2 DEF Init, TypeOK, OneOpen, HandlesSound
  <2>4. \A n : Good(<<>>, n) => n = 0
    BY DEF Good
  <2>5. Ordered(<<>>, decided)
    BY <2>4 DEF Ordered, OrderedTo
  <2>6. Shared(<<>>, <<>>, 0, {}) /\ Good(<<>>, 0)
    BY DEF Shared, Good
  <2>7. promised = {} /\ Exposed = {}
    BY <2>1 DEF Init, Exposed
  <2>8. Kept /\ Spared
    BY <2>2, <2>6, <2>7 DEF Kept, Spared
  <2> QED BY <2>2, <2>3, <2>5, <2>8 DEF IInv
<1> QED BY <1>1, InvarianceStep, PTL DEF Spec

\* The journal, its handles and the caller's promises always have their types.
THEOREM TypeCorrect == Spec => []TypeOK
BY Invariance, PTL DEF IInv

\* What enqueue and replay reported stays readable and durable through any
\* number of failed appends, kills and power losses (outbox.rs, append).
THEOREM PromisesKeptTheorem == Spec => []PromisesKept
<1>1. IInv => PromisesKept
  <2>1. SUFFICES ASSUME IInv, rotted = {}
                 PROVE  /\ promised \subseteq Frames(Prefix(disk, ValidLen(disk)))
                        /\ promised \subseteq Frames(Prefix(file, ValidLen(file)))
    BY DEF PromisesKept
  <2>2. PICK k : Shared(disk, file, k, promised) /\ Good(file, k)
    BY <2>1 DEF IInv, Kept
  <2>3. file \in Seq(Frame) /\ disk \in Seq(Frame)
    BY <2>1 DEF IInv, TypeOK
  <2>4. /\ k \in 0..Len(file) /\ k <= Len(disk) /\ k \in 0..k
        /\ \A i \in 1..k : file[i] = disk[i]
    BY <2>2, <2>3 DEF Shared
  <2>5. Good(disk, k)
    BY <2>2, <2>3, <2>4, GoodKept
  <2>6. ASSUME NEW s \in Seq(Frame), Good(s, k), \A f \in promised : \E i \in 1..k : s[i] = f
        PROVE  promised \subseteq Frames(Prefix(s, ValidLen(s)))
    <3>1. ValidLen(s) \in 0..Len(s) /\ k <= ValidLen(s)
      BY <2>6, ValidLenFacts
    <3>2. Frames(Prefix(s, ValidLen(s))) = {s[i] : i \in 1..ValidLen(s)}
      BY <3>1, PrefixFrames
    <3>3. \A i \in 1..k : i \in 1..ValidLen(s)
      BY <2>4, <3>1
    <3> QED BY <2>6, <3>2, <3>3
  <2>7. \A f \in promised : \E i \in 1..k : file[i] = f /\ disk[i] = f
    BY <2>2, <2>4 DEF Shared
  <2> QED BY <2>2, <2>3, <2>5, <2>6, <2>7
<1> QED BY <1>1, Invariance, PTL

\* Damage costs only the damaged frames: the tail behind them is saved before
\* it is written over, whatever fails in between (move_damage_aside).
THEOREM NothingDestroyedTheorem == Spec => []NothingDestroyed
<1>1. IInv => NothingDestroyed
  <2>1. SUFFICES ASSUME IInv PROVE Exposed \subseteq Frames(disk)
    BY DEF NothingDestroyed, Exposed
  <2>2. PICK k : Shared(disk, file, k, Exposed)
    BY <2>1 DEF IInv, Spared
  <2>3. disk \in Seq(Frame)
    BY <2>1 DEF IInv, TypeOK
  <2>4. \A i \in 1..k : i \in DOMAIN disk /\ disk[i] = file[i]
    BY <2>2, <2>3 DEF Shared
  <2> QED BY <2>2, <2>4 DEF Shared, Frames
<1> QED BY <1>1, Invariance, PTL

\* A replay sends the first undecided record of the journal.
LEMMA OrderStep ==
    ASSUME IInv, [Next]_vars
    PROVE  FirstUndecided
<1>1. CASE decided' = decided
  BY <1>1 DEF FirstUndecided
<1>2. ASSUME NEW h \in Handles, Deliver(h) \/ Stall(h)
      PROVE  FirstUndecided
  <2>1. PICK R : R = handles[h].records
    OBVIOUS
  <2>2. /\ handles[h].phase = "replaying" /\ Pending(R) # {}
        /\ decided' \ decided \subseteq {OperationOf(R, Due(R))}
    BY <1>2, <2>1 DEF Deliver, Stall
  <2>3. /\ R \in Seq(Frame)
        /\ Good(file, Len(R)) /\ \A i \in 1..Len(R) : R[i] = file[i]
        /\ Due(R) \in 1..MaxSeq
        /\ \A i \in 1..Len(R) : R[i].kind = "queued" /\ R[i].seq < Due(R) =>
              \E j \in 1..Len(R) : R[j].kind = "acked" /\ R[j].seq = R[i].seq
    BY <2>1, <2>2, ReplayFacts
  <2>4. PICK j \in 1..Len(R) : /\ R[j] \in Queued /\ R[j].seq = Due(R)
                               /\ R[j].operation = OperationOf(R, Due(R))
    BY <2>1, <2>2, ReplayFacts
  <2>5. /\ file \in Seq(Frame) /\ Len(R) <= ValidLen(file) /\ ValidLen(file) \in 0..Len(file)
        /\ OrderedTo(file, Len(R), decided)
    BY <2>3, ValidLenFacts DEF IInv, TypeOK, Ordered
  <2>6. j \in 1..ValidLen(file) /\ file[j] = R[j] /\ R[j].kind = "queued"
    BY <2>3, <2>4, <2>5 DEF Queued
  <2>7. ASSUME NEW i \in 1..ValidLen(file), file[i].kind = "queued", i < j
        PROVE  file[i].operation \in decided
    <3>1. i \in 1..Len(R) /\ R[i] = file[i]
      BY <2>3, <2>5, <2>7
    <3>2. file[i].seq < Due(R)
      BY <2>4, <2>5, <2>6, <2>7, <3>1 DEF OrderedTo
    <3>3. PICK m \in 1..Len(R) : file[m].kind = "acked" /\ file[m].seq = file[i].seq
      BY <2>3, <2>7, <3>1, <3>2
    <3>4. PICK q \in 1..Len(R) : /\ file[q].kind = "queued" /\ file[q].seq = file[m].seq
                                 /\ file[q].operation \in decided
      BY <2>5, <3>3 DEF OrderedTo
    <3>5. file[i].seq \in Int
      <4>1. file[i] \in Frame
        BY <2>5, <2>7
      <4> QED BY <2>7, <4>1 DEF Frame, Queued, Acked, Garbage
    <3>6. ~(i < q) /\ ~(q < i)
      BY <2>5, <2>7, <3>1, <3>3, <3>4, <3>5 DEF OrderedTo
    <3>7. i = q
      BY <3>6
    <3> QED BY <3>4, <3>7
  <2> QED BY <2>2, <2>4, <2>6, <2>7 DEF FirstUndecided
<1> QED BY <1>1, <1>2 DEF Next, AppendNext, ReplayNext, Open, Close, Enqueue, SaveTail,
        TailGone, TruncateTail, WriteFrame, SyncFrame, AppendFails, Replay, ReplayEnds,
        Kill, PowerLoss, Rot, vars

\* The node decides in journal order: replay passes no record by, although
\* records were lost, damaged, acknowledged without a sync or queued again
\* (outbox.rs, replay).
THEOREM DecidesInOrderTheorem == Spec => DecidesInOrder
<1>1. IInv /\ [Next]_vars => [FirstUndecided]_vars
  BY OrderStep
<1> QED BY <1>1, Invariance, PTL DEF Spec, DecidesInOrder
=============================================================================
