------------------------- MODULE AuditPipelineProofs -------------------------
(***************************************************************************)
(* The audit pipeline implements the append-only log, for any number of    *)
(* writers, entries and crashes and any sizes of the buffer and the index. *)
(*                                                                         *)
(* What waits in the log are the lines left in the bufio.Writer, the batch *)
(* and the buffer, in this order.  Taking the buffer must not change that: *)
(* it becomes the batch as a whole, and the batch it replaces must be      *)
(* empty, which it is whenever the worker is not writing (BatchTaken).     *)
(* A batch given up half-way (Encoded) moves its first part to the         *)
(* bufio.Writer and loses the rest.                                        *)
(*                                                                         *)
(* Four more theorems are about the parts: the wakeups of the flush worker *)
(* and the order of a shutdown (FlushInv), where the accepted entries are  *)
(* (AllAccounted), the index as the end of the file (TailOf), and the      *)
(* lines a crash can spoil (GluedInv).                                     *)
(*                                                                         *)
(* The last one is about queries on the index: what the loop of Query has  *)
(* after k rounds is given by the number of hits among the first k entries *)
(* (ReadSoFar), by induction on k, and so the pages are the hits in order. *)
(***************************************************************************)
EXTENDS AuditQuery, FiniteSetTheorems, WellFoundedInduction, TLAPS

BatchTaken == worker # "write" => batch = <<>>

PipeInv ==
  /\ accepted \in Nat
  /\ buffer \in Seq(Nat) /\ batch \in Seq(Nat) /\ written \in Seq(Nat) /\ file \in Seq(Nat)
  /\ bufErr \in BOOLEAN /\ BatchTaken

(* What a Flush of the batch writes, and what was written of it when its   *)
(* entry m + 1 cannot be encoded.                                          *)
Lines == written \o batch

Encoded(m) == written \o SubSeq(batch, 1, m)

-----------------------------------------------------------------------------

(* Appending to the second of two sequences appends to both together.      *)
LEMMA ConcatAppend ==
  ASSUME NEW s \in Seq(Nat), NEW t \in Seq(Nat), NEW x \in Nat
  PROVE  s \o Append(t, x) = Append(s \o t, x)
  OBVIOUS

LEMMA ConcatPrefix ==
  ASSUME NEW s \in Seq(Nat), NEW t \in Seq(Nat), NEW n \in 0..Len(s)
  PROVE  SubSeq(s \o t, 1, n) = SubSeq(s, 1, n)
  OBVIOUS

LEMMA ConcatRest ==
  ASSUME NEW s \in Seq(Nat), NEW t \in Seq(Nat)
  PROVE  SubSeq(s \o t, Len(s) + 1, Len(s \o t)) = t
  OBVIOUS

LEMMA ConcatEmpty ==
  ASSUME NEW s \in Seq(Nat)
  PROVE  <<>> \o s = s /\ s \o <<>> = s
  OBVIOUS

LEMMA ConcatLength ==
  ASSUME NEW s \in Seq(Nat), NEW t \in Seq(Nat)
  PROVE  s \o t \in Seq(Nat) /\ Len(s \o t) = Len(s) + Len(t)
  OBVIOUS

LEMMA ConcatFirst ==
  ASSUME NEW s \in Seq(Nat), NEW t \in Seq(Nat), NEW i \in 1..Len(s)
  PROVE  (s \o t)[i] = s[i]
  OBVIOUS

LEMMA ConcatSecond ==
  ASSUME NEW s \in Seq(Nat), NEW t \in Seq(Nat), NEW i \in Len(s) + 1..Len(s) + Len(t)
  PROVE  (s \o t)[i] = t[i - Len(s)]
  OBVIOUS

(* The rest of a sequence behind its first n elements. *)
LEMMA RestAt ==
  ASSUME NEW s \in Seq(Nat), NEW n \in 0..Len(s), NEW j \in 1..Len(s) - n
  PROVE  SubSeq(s, n + 1, Len(s))[j] = s[j + n]
<1>1. n \in Nat /\ j \in Nat /\ Len(s) \in Nat /\ j + n \in 1..Len(s)
  OBVIOUS
<1>2. j \in 1..((Len(s) - (n + 1)) + 1)
  BY <1>1
<1>3. (n + 1) + j - 1 = j + n
  BY <1>1
<1>4. SubSeq(s, n + 1, Len(s))[j] = s[(n + 1) + j - 1]
  BY <1>1, <1>2
<1> QED
  BY <1>3, <1>4

(* A part of a sequence. *)
LEMMA PartAt ==
  ASSUME NEW s \in Seq(Nat), NEW b \in 0..Len(s), NEW a \in 0..b
  PROVE  LET u == SubSeq(s, a + 1, b) IN
         u \in Seq(Nat) /\ Len(u) = b - a /\ \A j \in 1..b - a : u[j] = s[j + a]
<1>1. a \in Nat /\ b \in Nat /\ a <= b /\ b <= Len(s) /\ Len(s) \in Nat
  OBVIOUS
<1>2. SubSeq(s, a + 1, b) \in Seq(Nat) /\ Len(SubSeq(s, a + 1, b)) = b - a
  BY <1>1
<1>3. ASSUME NEW j \in 1..b - a
      PROVE  SubSeq(s, a + 1, b)[j] = s[j + a]
  <2>1. j \in 1..((b - (a + 1)) + 1) /\ (a + 1) + j - 1 = j + a
    BY <1>1
  <2>2. SubSeq(s, a + 1, b)[j] = s[(a + 1) + j - 1]
    BY <1>1, <2>1
  <2> QED
    BY <2>1, <2>2
<1> QED
  BY <1>2, <1>3

LEMMA SameSequence ==
  ASSUME NEW s \in Seq(Nat), NEW t \in Seq(Nat), Len(s) = Len(t), \A j \in 1..Len(s) : s[j] = t[j]
  PROVE  s = t
  OBVIOUS

(* Two sequences that agree up to b have the same parts there. *)
LEMMA SamePart ==
  ASSUME NEW s \in Seq(Nat), NEW t \in Seq(Nat), NEW b \in 0..Len(s), b \in 0..Len(t),
         \A j \in 1..b : s[j] = t[j], NEW a \in 0..b
  PROVE  SubSeq(s, a + 1, b) = SubSeq(t, a + 1, b)
<1> DEFINE u == SubSeq(s, a + 1, b)
           v == SubSeq(t, a + 1, b)
<1>1. u \in Seq(Nat) /\ Len(u) = b - a /\ \A j \in 1..b - a : u[j] = s[j + a]
  BY PartAt
<1>2. v \in Seq(Nat) /\ Len(v) = b - a /\ \A j \in 1..b - a : v[j] = t[j + a]
  BY PartAt
<1>3. \A j \in 1..b - a : j + a \in 1..b
  OBVIOUS
<1> HIDE DEF u, v
<1>4. \A j \in 1..Len(u) : u[j] = v[j]
  BY <1>1, <1>2, <1>3
<1> QED
  BY <1>1, <1>2, <1>4, SameSequence DEF u, v

(* The entries of a part of a sequence, by their places in the whole.      *)
Places(w, a, b) == {w[i] : i \in a..b}

LEMMA EntriesShifted ==
  ASSUME NEW u \in Seq(Nat), NEW w \in Seq(Nat), NEW n \in Nat, NEW m \in Nat,
         Len(u) = m - n, \A j \in 1..Len(u) : u[j] = w[j + n]
  PROVE  Entries(u) = Places(w, n + 1, m)
<1>1. ASSUME NEW x \in Entries(u)
      PROVE  x \in Places(w, n + 1, m)
  <2>1. PICK j \in 1..Len(u) : x = u[j]
    BY <1>1 DEF Entries
  <2>2. j + n \in n + 1..m /\ x = w[j + n]
    BY <2>1
  <2> QED
    BY <2>2 DEF Places
<1>2. ASSUME NEW i \in n + 1..m
      PROVE  w[i] \in Entries(u)
  <2>1. i - n \in 1..Len(u) /\ u[i - n] = w[i]
    BY <1>2
  <2> QED
    BY <2>1 DEF Entries
<1> QED
  BY <1>1, <1>2 DEF Places

LEMMA EntriesRest ==
  ASSUME NEW s \in Seq(Nat), NEW t \in Seq(Nat), NEW n \in 0..Len(s)
  PROVE  Entries(SubSeq(s, n + 1, Len(s))) = {(s \o t)[i] : i \in n + 1..Len(s)}
<1> DEFINE u == SubSeq(s, n + 1, Len(s))
           w == s \o t
<1>1. u \in Seq(Nat) /\ w \in Seq(Nat) /\ Len(u) = Len(s) - n /\ n \in Nat /\ Len(s) \in Nat
  OBVIOUS
<1>2. ASSUME NEW j \in 1..Len(u)
      PROVE  u[j] = w[j + n]
  <2>1. j + n \in 1..Len(s)
    BY <1>1
  <2>2. u[j] = s[j + n]
    BY <1>1, RestAt
  <2>3. w[j + n] = s[j + n]
    BY <2>1
  <2> QED
    BY <2>2, <2>3
<1> HIDE DEF u, w
<1>3. Entries(u) = Places(w, n + 1, Len(s))
  BY <1>1, <1>2, EntriesShifted, Zenon
<1> QED
  BY <1>3 DEF u, w, Places

LEMMA EntriesAll ==
  ASSUME NEW s \in Seq(Nat), NEW t \in Seq(Nat), NEW n \in 0..Len(s)
  PROVE  Entries(SubSeq(s, n + 1, Len(s)) \o t) = {(s \o t)[i] : i \in n + 1..Len(s \o t)}
<1> DEFINE r == SubSeq(s, n + 1, Len(s))
           u == r \o t
           w == s \o t
<1>1. r \in Seq(Nat) /\ Len(r) = Len(s) - n /\ n \in Nat /\ Len(s) \in Nat /\ Len(t) \in Nat
  OBVIOUS
<1>2. ASSUME NEW j \in 1..Len(r)
      PROVE  r[j] = s[j + n]
  BY <1>1, RestAt, SMTT(30)
<1> HIDE DEF r
<1>4. u \in Seq(Nat) /\ w \in Seq(Nat) /\ Len(u) = Len(r) + Len(t) /\ Len(w) = Len(s) + Len(t)
  BY <1>1, ConcatLength, Zenon
<1>5. Len(u) = Len(w) - n /\ Len(w) \in Nat /\ n \in Nat
  BY <1>1, <1>4
<1>6. ASSUME NEW j \in 1..Len(u)
      PROVE  u[j] = w[j + n]
  <2>1. CASE j <= Len(r)
    <3>1. j \in 1..Len(r) /\ j + n \in 1..Len(s)
      BY <1>1, <1>4, <2>1
    <3>2. u[j] = r[j] /\ w[j + n] = s[j + n]
      BY <1>1, <3>1, ConcatFirst
    <3> QED
      BY <1>2, <3>1, <3>2
  <2>2. CASE j > Len(r)
    <3>1. j \in Len(r) + 1..Len(r) + Len(t) /\ j + n \in Len(s) + 1..Len(s) + Len(t)
      BY <1>1, <1>4, <2>2
    <3>2. u[j] = t[j - Len(r)]
      BY <1>1, <3>1, ConcatSecond, SMTT(30)
    <3>3. w[j + n] = t[(j + n) - Len(s)]
      BY <1>1, <3>1, ConcatSecond
    <3>4. j - Len(r) = (j + n) - Len(s)
      BY <1>1, <3>1
    <3> QED
      BY <3>2, <3>3, <3>4, Zenon
  <2>3. j <= Len(r) \/ j > Len(r)
    BY <1>1, <1>4
  <2> QED
    BY <2>1, <2>2, <2>3, Zenon
<1> HIDE DEF u, w
<1>3. Entries(u) = Places(w, n + 1, Len(w))
  BY <1>4, <1>5, <1>6, EntriesShifted, Zenon
<1> QED
  BY <1>3, SMTT(30) DEF r, u, w, Places
-----------------------------------------------------------------------------
LEMMA PipeInitInv == Init => PipeInv
<1>1. Init => bufErr \in BOOLEAN
  BY Zenon DEF Init
<1> QED
  BY <1>1 DEF Init, PipeInv, BatchTaken

(* The worker goes back to its select, or ends: it is not writing.         *)
LEMMA FlushedNotWriting == Flushed => worker' # "write"
  BY DEF Flushed

(* What reaches the file are entries. *)
LEMMA AppendedLines ==
  ASSUME NEW lines \in Seq(Nat), NEW n \in 0..Len(lines), file \in Seq(Nat), AppendLines(lines, n)
  PROVE  file' = file \o SubSeq(lines, 1, n) /\ file' \in Seq(Nat)
<1>1. file' = file \o SubSeq(lines, 1, n)
  BY DEF AppendLines
<1>2. SubSeq(lines, 1, n) \in Seq(Nat)
  OBVIOUS
<1> QED
  BY <1>1, <1>2

LEMMA LinesTyped ==
  ASSUME PipeInv
  PROVE  Lines \in Seq(Nat) /\ Len(Lines) = Len(written) + Len(batch) /\ Len(Lines) \in Nat
  BY ConcatLength DEF PipeInv, Lines

(* A write of the lines, of n of them and perhaps a part of the next; the  *)
(* others are lost and the bufio.Writer is empty.                          *)
LinesWritten(n) ==
  /\ n \in 0..Len(Lines) /\ (bufErr => n = 0) /\ BreakOff(Lines, n)
  /\ lost' = lost \cup Entries(SubSeq(Lines, n + 1, Len(Lines)))
  /\ bufErr' \in BOOLEAN /\ (bufErr' \/ n = Len(Lines))

(* A batch that succeeds, one that fails at the disk and the Flush of      *)
(* storage.Close are such writes.                                          *)
LEMMA WritesLines ==
  ASSUME PipeInv, WriteBatch \/ WriteBatchFails \/ StorageClose
  PROVE  /\ \E n \in 0..Len(Lines) : LinesWritten(n)
         /\ batch' = <<>> /\ written' = <<>> /\ UNCHANGED <<accepted, buffer, crashes>>
<1>1. Lines \in Seq(Nat) /\ Len(Lines) = Len(written) + Len(batch) /\ Len(Lines) \in Nat
  BY LinesTyped
<1>2. written \in Seq(Nat) /\ batch \in Seq(Nat) /\ Len(written) \in Nat /\ Len(batch) \in Nat
  BY DEF PipeInv
<1>3. CASE WriteBatch
  <2>1. Len(Lines) \in 0..Len(Lines) /\ Entries(SubSeq(Lines, Len(Lines) + 1, Len(Lines))) = {}
    BY <1>1 DEF Entries
  <2>2. /\ BreakOff(Lines, Len(Lines)) /\ ~bufErr /\ bufErr' \in BOOLEAN
        /\ lost' = lost \cup Entries(SubSeq(Lines, Len(Lines) + 1, Len(Lines)))
    BY <1>3, <2>1 DEF WriteBatch, Lines, PipeInv
  <2>3. LinesWritten(Len(Lines))
    BY <2>1, <2>2, Zenon DEF LinesWritten
  <2> QED
    BY <1>3, <2>1, <2>3 DEF WriteBatch
<1>4. CASE WriteBatchFails
  <2>1. PICK m \in 0..Len(batch) : \E n \in 0..Len(written) + m :
          /\ bufErr => m = 0 /\ n = 0
          /\ BreakOff(Lines, n)
          /\ lost' = lost \cup Entries(SubSeq(Lines, n + 1, Len(Lines)))
    BY <1>4 DEF WriteBatchFails, Lines
  <2>2. PICK n \in 0..Len(written) + m :
          /\ bufErr => m = 0 /\ n = 0
          /\ BreakOff(Lines, n)
          /\ lost' = lost \cup Entries(SubSeq(Lines, n + 1, Len(Lines)))
    BY <2>1
  <2>3. n \in 0..Len(Lines)
    BY <1>1, <1>2, <2>1, <2>2
  <2>4. bufErr' = TRUE /\ bufErr' \in BOOLEAN
    BY <1>4, Zenon DEF WriteBatchFails
  <2>5. LinesWritten(n)
    BY <2>2, <2>3, <2>4, Zenon DEF LinesWritten
  <2> QED
    BY <1>4, <2>3, <2>5 DEF WriteBatchFails
<1>5. CASE StorageClose
  <2>1. batch = <<>>
    BY <1>5 DEF PipeInv, BatchTaken, StorageClose
  <2>2. Lines = written
    BY <1>2, <2>1, ConcatEmpty DEF Lines
  <2>3. PICK n \in 0..Len(Lines) :
          /\ bufErr => n = 0
          /\ BreakOff(Lines, n)
          /\ lost' = lost \cup Entries(SubSeq(Lines, n + 1, Len(Lines)))
          /\ bufErr' = (bufErr \/ n < Len(Lines))
    BY <1>5, <2>2 DEF StorageClose
  <2>4. n < Len(Lines) \/ n = Len(Lines)
    BY <1>1, <2>3
  <2>5. bufErr' \in BOOLEAN /\ (bufErr' \/ n = Len(Lines))
    BY <2>3, <2>4, Zenon
  <2>6. LinesWritten(n)
    BY <2>3, <2>5, Zenon DEF LinesWritten
  <2> QED
    BY <1>5, <2>1, <2>3, <2>6 DEF StorageClose
<1> QED
  BY <1>3, <1>4, <1>5

(* A batch given up: the lines before the entry that cannot be encoded are *)
(* in the bufio.Writer, n of them in the file, the rest of the batch lost. *)
GivenUp(m, n) ==
  /\ n \in 0..Len(Encoded(m)) /\ (m = 0 => n = 0) /\ (m # 0 => n < Len(Encoded(m)))
  /\ AppendLines(Encoded(m), n) /\ torn' = (torn /\ n = 0)
  /\ written' = SubSeq(Encoded(m), n + 1, Len(Encoded(m)))
  /\ index' = index \o SubSeq(batch, 1, m)
  /\ lost' = lost \cup Entries(SubSeq(batch, m + 1, Len(batch)))

LEMMA GivesUp ==
  ASSUME PipeInv, MarshalFails
  PROVE  /\ \E m \in 0..Len(batch) - 1 : \E n \in 0..Len(Encoded(m)) : GivenUp(m, n)
         /\ ~bufErr /\ batch' = <<>> /\ UNCHANGED <<accepted, buffer, crashes, bufErr, phase>>
  BY Zenon DEF MarshalFails, GivenUp, Encoded

(* The lines of such a batch are a beginning of all its lines. *)
LEMMA EncodedFacts ==
  ASSUME PipeInv, NEW m \in 0..Len(batch) - 1
  PROVE  /\ m \in Nat /\ m \in 0..Len(batch) /\ SubSeq(batch, 1, m) \in Seq(Nat)
         /\ Encoded(m) \in Seq(Nat) /\ Len(Encoded(m)) = Len(written) + m
         /\ Len(Encoded(m)) \in 0..Len(Lines)
         /\ \A j \in 1..Len(Encoded(m)) : Encoded(m)[j] = Lines[j]
<1> DEFINE p == SubSeq(batch, 1, m)
<1>1. written \in Seq(Nat) /\ batch \in Seq(Nat) /\ Len(written) \in Nat /\ Len(batch) \in Nat
  BY DEF PipeInv
<1>2. m \in Nat /\ m \in 0..Len(batch) /\ 0 \in 0..m
  BY <1>1
<1>3. p \in Seq(Nat) /\ Len(p) = m /\ \A j \in 1..m : p[j] = batch[j]
  BY <1>1, <1>2
<1> HIDE DEF p
<1>4. written \o p \in Seq(Nat) /\ Len(written \o p) = Len(written) + m
  BY <1>1, <1>3, ConcatLength
<1>5. Len(Lines) = Len(written) + Len(batch)
  BY LinesTyped
<1>6. ASSUME NEW j \in 1..Len(written \o p)
      PROVE  (written \o p)[j] = Lines[j]
  <2>1. CASE j \in 1..Len(written)
    BY <1>1, <1>3, <2>1, ConcatFirst, Zenon DEF Lines
  <2>2. CASE j \notin 1..Len(written)
    <3>1. /\ j \in Len(written) + 1..Len(written) + Len(p) /\ j \in Len(written) + 1..Len(written) + Len(batch)
          /\ j - Len(written) \in 1..m
      BY <1>1, <1>2, <1>3, <1>4, <2>2
    <3>2. (written \o p)[j] = p[j - Len(written)]
      BY <1>1, <1>3, <3>1, ConcatSecond, Zenon
    <3>3. Lines[j] = batch[j - Len(written)]
      BY <1>1, <3>1, ConcatSecond, Zenon DEF Lines
    <3> QED
      BY <1>3, <3>1, <3>2, <3>3, Zenon
  <2> QED
    BY <2>1, <2>2
<1> QED
  BY <1>1, <1>2, <1>3, <1>4, <1>5, <1>6 DEF Encoded, p

LEMMA PipeStepInv == PipeInv /\ [Next]_vars => PipeInv'
<1> SUFFICES ASSUME PipeInv, [Next]_vars
             PROVE  PipeInv'
  OBVIOUS
<1>t. /\ accepted \in Nat /\ buffer \in Seq(Nat) /\ batch \in Seq(Nat) /\ written \in Seq(Nat)
      /\ file \in Seq(Nat) /\ bufErr \in BOOLEAN
  BY DEF PipeInv
<1>1. ASSUME NEW w \in Writers, writeEntry(w)
      PROVE  PipeInv'
  BY <1>1 DEF writeEntry, storageVars, PipeInv, BatchTaken
<1>2. ASSUME NEW w \in Writers, Notify(w)
      PROVE  PipeInv'
  BY <1>2 DEF Notify, storageVars, PipeInv, BatchTaken
<1>3. CASE Tick \/ Notified \/ Closed \/ GracefulStop \/ Close \/ UNCHANGED vars
  BY <1>3 DEF Tick, Notified, Closed, GracefulStop, Close, vars, storageVars, PipeInv, BatchTaken
<1>4. CASE Swap
  BY <1>4, FlushedNotWriting DEF Swap, storageVars, PipeInv, BatchTaken
<1>5. CASE WriteBatch \/ WriteBatchFails \/ StorageClose
  <2>0. PICK n \in 0..Len(Lines) : LinesWritten(n)
    BY <1>5, WritesLines
  <2>1. AppendLines(Lines, n) /\ bufErr' \in BOOLEAN
    BY <2>0 DEF LinesWritten, BreakOff
  <2>2. file' \in Seq(Nat)
    BY <1>t, <2>0, <2>1, LinesTyped, AppendedLines
  <2>3. batch' = <<>> /\ written' = <<>> /\ UNCHANGED <<accepted, buffer>>
    BY <1>5, WritesLines
  <2> QED
    BY <1>t, <2>1, <2>2, <2>3 DEF PipeInv, BatchTaken
<1>6. CASE MarshalFails
  <2>1. PICK m \in 0..Len(batch) - 1 : \E n \in 0..Len(Encoded(m)) : GivenUp(m, n)
    BY <1>6, GivesUp
  <2>2. PICK n \in 0..Len(Encoded(m)) : GivenUp(m, n)
    BY <2>1
  <2>3. Encoded(m) \in Seq(Nat)
    BY <2>1, EncodedFacts
  <2>4. file' \in Seq(Nat)
    BY <1>t, <2>2, <2>3, AppendedLines DEF GivenUp
  <2>5. written' \in Seq(Nat)
    <3>1. SubSeq(Encoded(m), n + 1, Len(Encoded(m))) \in Seq(Nat)
      BY <2>2, <2>3
    <3> QED
      BY <2>2, <3>1 DEF GivenUp
  <2>6. batch' = <<>> /\ UNCHANGED <<accepted, buffer, bufErr>>
    BY <1>6, GivesUp
  <2> QED
    BY <2>4, <2>5, <2>6 DEF PipeInv, BatchTaken
<1>8. CASE Crash
  <2>1. PICK n \in 0..Len(Lines) : AppendLines(Lines, n)
    BY <1>8 DEF Crash, BreakOff, Lines
  <2>2. file' \in Seq(Nat)
    BY <1>t, <2>1, LinesTyped, AppendedLines
  <2>3. bufErr' \in BOOLEAN
    BY <1>8, Zenon DEF Crash
  <2> QED
    BY <1>t, <1>8, <2>2, <2>3 DEF Crash, PipeInv, BatchTaken
<1> QED
  BY <1>1, <1>2, <1>3, <1>4, <1>5, <1>6, <1>8 DEF Next
-----------------------------------------------------------------------------
(* The lines are settled: n of them reached the file, the others are lost. *)
(* The buffer goes on waiting.                                             *)
LEMMA LinesSettled ==
  ASSUME PipeInv, NEW n \in 0..Len(Lines), file' = file \o SubSeq(Lines, 1, n),
         lost' = lost \cup Entries(SubSeq(Lines, n + 1, Len(Lines))),
         batch' = <<>>, written' = <<>>, UNCHANGED <<buffer, accepted>>
  PROVE  Log!LogNext
<1> DEFINE waiting == Lines \o buffer
           m == Len(Lines)
<1>1. Lines \in Seq(Nat) /\ buffer \in Seq(Nat) /\ n \in 0..m /\ n \in 0..n /\ n \in Nat /\ m \in Nat
  BY LinesTyped DEF PipeInv
<1>2. waiting \in Seq(Nat) /\ m \in 0..Len(waiting)
  BY <1>1, ConcatLength
<1>3. file' = file \o SubSeq(waiting, 1, n)
  BY <1>1, ConcatPrefix, SMTT(30)
<1>4. lost' = lost \cup {waiting[i] : i \in n + 1..m}
  BY <1>1, EntriesRest
<1>5. SubSeq(waiting, n + 1, n) = <<>>
  BY <1>1, <1>2
<1>6. SubSeq(waiting, m + 1, Len(waiting)) = buffer
  BY <1>1, ConcatRest
<1>7. (written \o batch \o buffer)' = SubSeq(waiting, n + 1, n) \o SubSeq(waiting, m + 1, Len(waiting))
  BY <1>1, <1>5, <1>6, ConcatEmpty
<1> QED
  BY <1>1, <1>2, <1>3, <1>4, <1>7, Zenon DEF Log!LogNext, Log!Settle, Lines

(* A crash settles all that waits. *)
LEMMA AllSettled ==
  ASSUME PipeInv, NEW n \in 0..Len(Lines), file' = file \o SubSeq(Lines, 1, n),
         lost' = lost \cup Entries(SubSeq(Lines, n + 1, Len(Lines)) \o buffer),
         batch' = <<>>, written' = <<>>, buffer' = <<>>, UNCHANGED accepted
  PROVE  Log!LogNext
<1> DEFINE waiting == Lines \o buffer
           m == Len(waiting)
<1>1. Lines \in Seq(Nat) /\ buffer \in Seq(Nat) /\ n \in 0..n /\ n \in Nat
  BY LinesTyped DEF PipeInv
<1>2. waiting \in Seq(Nat) /\ m \in 0..Len(waiting) /\ n \in 0..m /\ m \in Nat
  BY <1>1, ConcatLength
<1>3. file' = file \o SubSeq(waiting, 1, n)
  BY <1>1, ConcatPrefix, Zenon
<1>4. lost' = lost \cup {waiting[i] : i \in n + 1..m}
  BY <1>1, EntriesAll, Zenon
<1>5. SubSeq(waiting, n + 1, n) = <<>> /\ SubSeq(waiting, m + 1, Len(waiting)) = <<>>
  BY <1>1, <1>2
<1>6. (written \o batch \o buffer)' = SubSeq(waiting, n + 1, n) \o SubSeq(waiting, m + 1, Len(waiting))
  BY <1>5, ConcatEmpty
<1> QED
  BY <1>1, <1>2, <1>3, <1>4, <1>6, Zenon DEF Log!LogNext, Log!Settle, Lines

(* A batch given up settles some of its entries, and others behind those   *)
(* that stay in the bufio.Writer.                                          *)
Settles(waiting, n, k, b) ==
  /\ file' = file \o SubSeq(waiting, 1, n)
  /\ lost' = lost \cup {waiting[i] : i \in k + 1..b}
  /\ (written \o batch \o buffer)' = SubSeq(waiting, n + 1, k) \o SubSeq(waiting, b + 1, Len(waiting))

LEMMA SettlesLog ==
  ASSUME NEW waiting, waiting = written \o batch \o buffer, NEW b \in 0..Len(waiting), NEW k \in 0..b,
         NEW n \in 0..k, Settles(waiting, n, k, b), UNCHANGED accepted
  PROVE  Log!LogNext
<1>1. \A p \in 0..Len(written \o batch \o buffer) : \A i \in 0..p : \A j \in 0..i :
        Log!Settle(j, i, p) => Log!LogNext
  BY Zenon DEF Log!LogNext
<1>2. Log!Settle(n, k, b)
  BY DEF Log!Settle, Settles
<1> QED
  BY <1>1, <1>2, Zenon

LEMMA PartSettled ==
  ASSUME PipeInv, NEW m \in 0..Len(batch) - 1, NEW n \in 0..Len(Encoded(m)), GivenUp(m, n),
         batch' = <<>>, UNCHANGED <<buffer, accepted>>
  PROVE  Log!LogNext
<1> DEFINE waiting == Lines \o buffer
           e == Encoded(m)
           k == Len(e)
           b == Len(Lines)
<1>1. /\ Lines \in Seq(Nat) /\ buffer \in Seq(Nat) /\ written \in Seq(Nat) /\ batch \in Seq(Nat)
      /\ b = Len(written) + Len(batch)
  BY LinesTyped DEF PipeInv
<1>2. m \in 0..Len(batch) /\ e \in Seq(Nat) /\ k = Len(written) + m /\ \A j \in 1..k : e[j] = Lines[j]
  BY EncodedFacts
<1>3. waiting \in Seq(Nat) /\ Len(waiting) = b + Len(buffer) /\ \A j \in 1..b : waiting[j] = Lines[j]
  BY <1>1, ConcatLength, ConcatFirst, Zenon
<1>4. SubSeq(waiting, b + 1, Len(waiting)) = buffer
  BY <1>1, ConcatRest
<1>5. waiting = written \o batch \o buffer
  BY Zenon DEF Lines
<1>6. /\ Len(written) \in Nat /\ Len(batch) \in Nat /\ Len(buffer) \in Nat /\ b \in Nat /\ k \in Nat
      /\ n \in 0..k
  BY <1>1, <1>2
<1>7. /\ file' = file \o SubSeq(e, 1, n)
      /\ lost' = lost \cup Entries(SubSeq(batch, m + 1, Len(batch)))
      /\ written' = SubSeq(e, n + 1, k)
  BY Zenon DEF GivenUp, AppendLines
<1> HIDE DEF waiting, e, k, b
<1>8. /\ m \in Nat /\ n \in Nat /\ k \in 0..b /\ k \in 0..Len(waiting) /\ b \in 0..Len(waiting)
      /\ n \in 0..Len(waiting) /\ 0 \in 0..n /\ b - k = Len(batch) - m
  <2>1. k = Len(written) + m /\ m \in 0..Len(batch)
    BY <1>2, Zenon
  <2>2. b = Len(written) + Len(batch) /\ Len(waiting) = b + Len(buffer)
    BY <1>1, <1>3, Zenon
  <2> QED
    BY <1>6, <2>1, <2>2
<1>9. ASSUME NEW j \in 1..k
      PROVE  e[j] = waiting[j]
  <2>1. j \in 1..b
    BY <1>6, <1>8
  <2> QED
    BY <1>2, <1>3, <2>1, Zenon
<1>10. k = Len(e)
  BY DEF k
<1>11. SubSeq(e, n + 1, k) = SubSeq(waiting, n + 1, k)
  <2>1. k \in 0..Len(e)
    BY <1>6, <1>10
  <2> QED
    BY <1>2, <1>3, <1>6, <1>8, <1>9, <2>1, SamePart, Zenon
<1>12. SubSeq(e, 1, n) = SubSeq(waiting, 1, n)
  <2>1. n \in 0..Len(e) /\ 0 + 1 = 1 /\ \A j \in 1..n : j \in 1..k
    BY <1>6, <1>10
  <2>2. SubSeq(e, 0 + 1, n) = SubSeq(waiting, 0 + 1, n)
    BY <1>2, <1>3, <1>8, <1>9, <2>1, SamePart, Zenon
  <2> QED
    BY <2>1, <2>2, Zenon
<1>13. Entries(SubSeq(batch, m + 1, Len(batch))) = Places(waiting, k + 1, b)
  <2> DEFINE u == SubSeq(batch, m + 1, Len(batch))
  <2>1. u \in Seq(Nat) /\ Len(u) = Len(batch) - m /\ \A j \in 1..Len(batch) - m : u[j] = batch[j + m]
    <3>1. Len(batch) \in 0..Len(batch) /\ m \in 0..Len(batch)
      BY <1>2, <1>6
    <3> QED
      BY <1>1, <3>1, PartAt, Zenon
  <2> HIDE DEF u
  <2>2. Len(u) = b - k
    BY <1>8, <2>1
  <2>3. ASSUME NEW j \in 1..Len(u)
        PROVE  u[j] = waiting[j + k]
    <3>0. k = Len(written) + m /\ b = Len(written) + Len(batch) /\ Len(u) = Len(batch) - m
      BY <1>1, <1>2, <2>1, Zenon
    <3>1. /\ j \in 1..Len(batch) - m /\ j + k \in Len(written) + 1..Len(written) + Len(batch)
          /\ (j + k) - Len(written) = j + m /\ j + k \in 1..b
      BY <1>6, <1>8, <3>0
    <3>2. Lines[j + k] = batch[(j + k) - Len(written)]
      BY <1>1, <3>1, ConcatSecond, Zenon DEF Lines
    <3>3. waiting[j + k] = Lines[j + k]
      BY <1>3, <3>1, Zenon
    <3>4. u[j] = batch[j + m]
      BY <2>1, <3>1, Zenon
    <3> QED
      BY <3>1, <3>2, <3>3, <3>4, Zenon
  <2>4. waiting \in Seq(Nat) /\ u \in Seq(Nat)
    BY <1>3, <2>1, Zenon
  <2>5. Entries(u) = Places(waiting, k + 1, b)
    BY <1>6, <2>2, <2>3, <2>4, EntriesShifted, Zenon
  <2> QED
    BY <2>5 DEF u
<1>14. /\ file' = file \o SubSeq(waiting, 1, n)
       /\ lost' = lost \cup {waiting[i] : i \in k + 1..b}
       /\ written' = SubSeq(waiting, n + 1, k)
  BY <1>7, <1>11, <1>12, <1>13, Zenon DEF Places
<1>15. (written \o batch \o buffer)' = SubSeq(waiting, n + 1, k) \o SubSeq(waiting, b + 1, Len(waiting))
  <2>1. written' \in Seq(Nat)
    BY <1>3, <1>6, <1>8, <1>14, PartAt
  <2>2. written' \o <<>> = written'
    BY <2>1, ConcatEmpty
  <2> QED
    BY <1>4, <1>14, <2>2
<1>16. Settles(waiting, n, k, b)
  BY <1>5, <1>14, <1>15, Zenon DEF Settles
<1> QED
  BY <1>5, <1>6, <1>8, <1>16, SettlesLog, Zenon

(* Every step of the pipeline is a step of the log, or leaves it alone. *)
LEMMA PipeStepLog == PipeInv /\ [Next]_vars => [Log!LogNext]_(Log!logVars)
<1> SUFFICES ASSUME PipeInv, [Next]_vars
             PROVE  Log!LogNext \/ UNCHANGED Log!logVars
  OBVIOUS
<1>t. /\ accepted \in Nat /\ buffer \in Seq(Nat) /\ batch \in Seq(Nat) /\ written \in Seq(Nat)
      /\ file \in Seq(Nat) /\ Lines \in Seq(Nat)
  BY LinesTyped DEF PipeInv
<1>u. ASSUME UNCHANGED <<accepted, buffer, batch, written, file, lost>>
      PROVE  UNCHANGED Log!logVars
  BY <1>u DEF Log!logVars
<1>1. ASSUME NEW w \in Writers, writeEntry(w)
      PROVE  Log!LogNext
  <2>0. /\ batch' = batch /\ written' = written /\ buffer' = Append(buffer, accepted + 1)
        /\ accepted + 1 \in Nat
    BY <1>t, <1>1 DEF writeEntry, storageVars
  <2>1. (written \o batch \o buffer)' = Append(written \o batch \o buffer, accepted + 1)
    <3>1. Lines \o Append(buffer, accepted + 1) = Append(Lines \o buffer, accepted + 1)
      BY <1>t, <2>0, ConcatAppend
    <3> QED
      BY <2>0, <3>1, Zenon DEF Lines
  <2> QED
    BY <1>1, <2>1 DEF writeEntry, storageVars, Log!LogNext, Log!Accept
<1>2. ASSUME NEW w \in Writers, Notify(w)
      PROVE  UNCHANGED Log!logVars
  BY <1>u, <1>2 DEF Notify, storageVars
<1>3. CASE Tick \/ Notified \/ Closed \/ GracefulStop \/ Close \/ UNCHANGED vars
  BY <1>u, <1>3 DEF Tick, Notified, Closed, GracefulStop, Close, vars, storageVars
<1>4. CASE Swap
  <2>1. batch = <<>> /\ written' = written
    BY <1>4 DEF PipeInv, BatchTaken, Swap, storageVars
  <2>2. buffer' = <<>> /\ (batch' = buffer \/ (buffer = <<>> /\ batch' = batch))
    BY <1>4 DEF Swap
  <2>3. (written \o batch \o buffer)' = written \o batch \o buffer
    <3>1. written \o <<>> = written
      BY <1>t, ConcatEmpty
    <3>2. PICK s \in Seq(Nat) : s = written \o buffer
      BY <1>t, ConcatLength
    <3>3. s \o <<>> = s
      BY ConcatEmpty
    <3> QED
      BY <2>1, <2>2, <3>1, <3>2, <3>3
  <2> QED
    BY <1>4, <2>3 DEF Swap, storageVars, Log!logVars
<1>5. CASE WriteBatch \/ WriteBatchFails \/ StorageClose
  <2>1. PICK n \in 0..Len(Lines) : LinesWritten(n)
    BY <1>5, WritesLines
  <2>2. batch' = <<>> /\ written' = <<>> /\ UNCHANGED <<accepted, buffer>>
    BY <1>5, WritesLines
  <2>3. file' = file \o SubSeq(Lines, 1, n) /\ lost' = lost \cup Entries(SubSeq(Lines, n + 1, Len(Lines)))
    BY <2>1, Zenon DEF LinesWritten, BreakOff, AppendLines
  <2> QED
    BY <2>2, <2>3, LinesSettled, Zenon
<1>6. CASE MarshalFails
  <2>1. PICK m \in 0..Len(batch) - 1 : \E n \in 0..Len(Encoded(m)) : GivenUp(m, n)
    BY <1>6, GivesUp
  <2>2. PICK n \in 0..Len(Encoded(m)) : GivenUp(m, n)
    BY <2>1
  <2>3. batch' = <<>> /\ UNCHANGED <<buffer, accepted>>
    BY <1>6, GivesUp
  <2> QED
    BY <2>2, <2>3, PartSettled
<1>7. CASE Crash
  <2>1. PICK n \in 0..Len(Lines) : /\ BreakOff(Lines, n)
                                  /\ lost' = lost \cup Entries(SubSeq(Lines, n + 1, Len(Lines)) \o buffer)
    BY <1>7 DEF Crash, Lines
  <2>2. file' = file \o SubSeq(Lines, 1, n)
    BY <2>1, Zenon DEF BreakOff, AppendLines
  <2>3. batch' = <<>> /\ written' = <<>> /\ buffer' = <<>> /\ UNCHANGED accepted
    BY <1>7 DEF Crash
  <2> QED
    BY <2>1, <2>2, <2>3, AllSettled, Zenon
<1> QED
  BY <1>1, <1>2, <1>3, <1>4, <1>5, <1>6, <1>7 DEF Next
-----------------------------------------------------------------------------
(* The audit service implements the append-only log: whatever the writers, *)
(* the flush worker, disk errors, crashes and restarts do, its entries are *)
(* settled, each once, in the file in the order of acceptance or as lost,  *)
(* and the file is only appended to.                                       *)
THEOREM PipelineImplementsLog == Spec => ImplementsLog
<1>1. Init => Log!LogInit
  BY DEF Init, Log!LogInit
<1> QED
  BY <1>1, PipeInitInv, PipeStepInv, PipeStepLog, PTL DEF Spec, ImplementsLog, Log!LogSpec
-----------------------------------------------------------------------------
(* What the flush worker and the handlers know of each other.  A shutdown  *)
(* takes three steps, and each must see the ones before it: the channel is *)
(* closed when no handler is left, the last flush starts after that, the   *)
(* buffer that it has taken stays empty, and the storage is closed last.   *)
FlushInv ==
  /\ flushChan \in BOOLEAN /\ closing \in BOOLEAN
  /\ writer \in [Writers -> {"idle", "notify"}]
  /\ phase \in {"closing", "closed"} => \A w \in Writers : writer[w] = "idle"
  /\ closing => phase \in {"closing", "closed"}
  /\ phase = "closed" => worker = "done" /\ written = <<>>
  /\ worker = "done" => closing
  /\ closing /\ worker \in {"write", "done"} => buffer = <<>>
  /\ NoLostWakeup

(* Every entry accepted is somewhere. *)
AllAccounted == Entries(file) \cup lost \cup Entries(written) \cup Entries(batch) \cup Entries(buffer) = Entry

LEMMA EmptyEntries == Entries(<<>>) = {}
  BY DEF Entries

LEMMA EntriesAppend ==
  ASSUME NEW s \in Seq(Nat), NEW x \in Nat
  PROVE  Entries(Append(s, x)) = Entries(s) \cup {x}
<1> DEFINE t == Append(s, x)
<1>1. /\ Len(t) = Len(s) + 1 /\ Len(s) \in Nat
      /\ \A j \in 1..Len(s) : t[j] = s[j]
      /\ t[Len(s) + 1] = x
  OBVIOUS
<1> HIDE DEF t
<1>2. 1..Len(t) = 1..Len(s) \cup {Len(s) + 1}
  BY <1>1
<1> QED
  BY <1>1, <1>2 DEF Entries, t

LEMMA EntriesConcat ==
  ASSUME NEW s \in Seq(Nat), NEW t \in Seq(Nat)
  PROVE  Entries(s \o t) = Entries(s) \cup Entries(t)
<1> DEFINE u == s \o t
<1>1. Len(u) = Len(s) + Len(t) /\ Len(s) \in Nat /\ Len(t) \in Nat
  BY ConcatLength
<1>2. \A j \in 1..Len(s) : j \in 1..Len(u) /\ u[j] = s[j]
  BY <1>1, ConcatFirst
<1>3. \A j \in Len(s) + 1..Len(s) + Len(t) : u[j] = t[j - Len(s)]
  BY ConcatSecond
<1> HIDE DEF u
<1>4. ASSUME NEW x \in Entries(u)
      PROVE  x \in Entries(s) \cup Entries(t)
  <2>1. PICK j \in 1..Len(u) : x = u[j]
    BY <1>4 DEF Entries
  <2>2. CASE j <= Len(s)
    <3>1. j \in 1..Len(s)
      BY <1>1, <2>2
    <3> QED
      BY <1>2, <2>1, <3>1 DEF Entries
  <2>3. CASE ~(j <= Len(s))
    <3>1. j - Len(s) \in 1..Len(t)
      BY <1>1, <2>3
    <3>2. j \in Len(s) + 1..Len(s) + Len(t)
      BY <1>1, <2>3
    <3>3. x = t[j - Len(s)]
      BY <1>3, <2>1, <3>2
    <3> QED
      BY <3>1, <3>3 DEF Entries
  <2> QED
    BY <2>2, <2>3
<1>5. ASSUME NEW j \in 1..Len(t)
      PROVE  t[j] \in Entries(u)
  <2>1. /\ j + Len(s) \in 1..Len(u) /\ j + Len(s) \in Len(s) + 1..Len(s) + Len(t)
        /\ (j + Len(s)) - Len(s) = j
    BY <1>1
  <2>2. u[j + Len(s)] = t[j]
    BY <1>3, <2>1
  <2> QED
    BY <2>1, <2>2 DEF Entries
<1>6. Entries(s) \subseteq Entries(u)
  BY <1>2 DEF Entries
<1>7. Entries(t) \subseteq Entries(u)
  BY <1>5 DEF Entries
<1>8. Entries(u) \subseteq Entries(s) \cup Entries(t)
  BY <1>4
<1> QED
  BY <1>6, <1>7, <1>8 DEF u

(* A sequence is its first n elements and the rest. *)
LEMMA EntriesSplit ==
  ASSUME NEW s \in Seq(Nat), NEW n \in 0..Len(s)
  PROVE  Entries(SubSeq(s, 1, n)) \cup Entries(SubSeq(s, n + 1, Len(s))) = Entries(s)
<1> DEFINE p == SubSeq(s, 1, n)
           r == SubSeq(s, n + 1, Len(s))
<1>1. p \in Seq(Nat) /\ Len(p) = n /\ r \in Seq(Nat) /\ Len(r) = Len(s) - n /\ n \in Nat /\ Len(s) \in Nat
  OBVIOUS
<1>2. \A j \in 1..n : p[j] = s[j]
  OBVIOUS
<1>3. \A j \in 1..Len(s) - n : r[j] = s[j + n]
  BY RestAt
<1>8. \A j \in 1..Len(r) : r[j] = s[j + n]
  BY <1>1, <1>3
<1> HIDE DEF p, r
<1>4. Entries(r) = Places(s, n + 1, Len(s))
  BY <1>1, <1>8, EntriesShifted, Zenon
<1>5. Entries(p) = Places(s, 1, n)
  BY <1>1, <1>2, Zenon DEF Entries, Places
<1>6. 1..Len(s) = (1..n) \cup (n + 1..Len(s))
  BY <1>1
<1>7. Places(s, 1, n) \cup Places(s, n + 1, Len(s)) = Entries(s)
  BY <1>6 DEF Places, Entries
<1> QED
  BY <1>4, <1>5, <1>7 DEF p, r

(* The wakeups and the order of a shutdown, step by step. *)
LEMMA FlushInitInv == Init => FlushInv
<1> SUFFICES ASSUME Init
             PROVE  FlushInv
  OBVIOUS
<1>1. ~(Len(buffer) >= BufferSize)
  BY AuditAssumption DEF Init
<1>2. /\ flushChan = FALSE /\ closing = FALSE /\ phase = "serving" /\ worker = "select"
      /\ writer = [w \in Writers |-> "idle"]
  BY DEF Init
<1>3. writer \in [Writers -> {"idle", "notify"}]
  BY <1>2
<1> QED
  BY <1>1, <1>2, <1>3, Zenon DEF FlushInv, NoLostWakeup

LEMMA FlushStepInv == PipeInv /\ FlushInv /\ [Next]_vars => FlushInv'
<1> SUFFICES ASSUME PipeInv, FlushInv, [Next]_vars
             PROVE  FlushInv'
  OBVIOUS
<1>b. BufferSize \in Nat \ {0} /\ Len(<<>>) = 0 /\ buffer \in Seq(Nat)
  BY AuditAssumption DEF PipeInv
<1>1. ASSUME NEW w \in Writers, writeEntry(w)
      PROVE  FlushInv'
  <2>1. /\ phase' = phase /\ phase = "serving" /\ closing' = closing /\ worker' = worker /\ flushChan' = flushChan
        /\ writer' = [writer EXCEPT ![w] = IF Len(buffer') >= BufferSize THEN "notify" ELSE "idle"]
    BY <1>1 DEF writeEntry
  <2>2. ~closing /\ worker # "done" /\ phase' # "closed"
    BY <2>1 DEF FlushInv
  <2>3. writer' \in [Writers -> {"idle", "notify"}] /\ (Len(buffer') >= BufferSize => writer'[w] = "notify")
    BY <2>1 DEF FlushInv
  <2> QED
    BY <2>1, <2>2, <2>3 DEF FlushInv, NoLostWakeup
<1>2. ASSUME NEW w \in Writers, Notify(w)
      PROVE  FlushInv'
  BY <1>2 DEF Notify, FlushInv, NoLostWakeup, storageVars
<1>3. CASE Tick
  BY <1>3 DEF Tick, FlushInv, NoLostWakeup, storageVars
<1>n. CASE Notified
  <2>1. /\ flushChan' = FALSE /\ worker' = "swap" /\ worker = "select" /\ buffer' = buffer
        /\ writer' = writer /\ closing' = closing /\ phase' = phase
    BY <1>n DEF Notified
  <2>2. flushChan' \in BOOLEAN
    BY <2>1, Zenon
  <2> QED
    BY <2>1, <2>2 DEF FlushInv, NoLostWakeup
<1>c. CASE Closed
  <2>1. /\ closing' = TRUE /\ worker' = "swap" /\ phase = "closing" /\ buffer' = buffer
        /\ writer' = writer /\ flushChan' = flushChan /\ phase' = phase
    BY <1>c DEF Closed
  <2>2. closing' \in BOOLEAN
    BY <2>1
  <2> QED
    BY <2>1, <2>2 DEF FlushInv, NoLostWakeup
<1>4. CASE Swap
  BY <1>b, <1>4 DEF Swap, Flushed, FlushInv, NoLostWakeup
<1>5. CASE WriteBatch \/ MarshalFails \/ WriteBatchFails
  <2>1. /\ worker = "write" /\ worker' = IF closing THEN "done" ELSE "select"
        /\ UNCHANGED <<buffer, flushChan, writer, closing, phase>>
    BY <1>5 DEF WriteBatch, MarshalFails, WriteBatchFails, Flushed
  <2> QED
    BY <2>1 DEF FlushInv, NoLostWakeup
<1>6. CASE GracefulStop \/ Close
  BY <1>6 DEF GracefulStop, Close, FlushInv, NoLostWakeup, storageVars
<1>s. CASE StorageClose
  <2>1. /\ phase = "closing" /\ phase' = "closed" /\ worker = "done" /\ written' = <<>>
        /\ UNCHANGED <<worker, buffer, flushChan, writer, closing>>
    BY <1>s DEF StorageClose
  <2> QED
    BY <2>1 DEF FlushInv, NoLostWakeup
<1>7. CASE Crash
  <2>1. /\ buffer' = <<>> /\ flushChan' = FALSE /\ closing' = FALSE /\ phase' = "serving"
        /\ writer' = [w \in Writers |-> "idle"] /\ worker' = "select"
    BY <1>7 DEF Crash
  <2>2. ~(Len(buffer') >= BufferSize)
    BY <1>b, <2>1
  <2>3. writer' \in [Writers -> {"idle", "notify"}]
    BY <2>1
  <2> QED
    BY <2>1, <2>2, <2>3, Zenon DEF FlushInv, NoLostWakeup
<1>8. CASE UNCHANGED vars
  BY <1>8 DEF vars, FlushInv, NoLostWakeup, storageVars
<1> QED
  BY <1>1, <1>2, <1>3, <1>n, <1>c, <1>4, <1>5, <1>6, <1>s, <1>7, <1>8 DEF Next
-----------------------------------------------------------------------------
(* The first n of the lines are in the file, the others are the rest.      *)
LEMMA SettledAccounted ==
  ASSUME file \in Seq(Nat), NEW lines \in Seq(Nat), NEW n \in 0..Len(lines),
         file' = file \o SubSeq(lines, 1, n)
  PROVE  Entries(file') \cup Entries(SubSeq(lines, n + 1, Len(lines))) = Entries(file) \cup Entries(lines)
<1>1. SubSeq(lines, 1, n) \in Seq(Nat)
  OBVIOUS
<1>2. Entries(file') = Entries(file) \cup Entries(SubSeq(lines, 1, n))
  BY <1>1, EntriesConcat, Zenon
<1>3. Entries(SubSeq(lines, 1, n)) \cup Entries(SubSeq(lines, n + 1, Len(lines))) = Entries(lines)
  BY EntriesSplit
<1> QED
  BY <1>2, <1>3

LEMMA AccountedStep == PipeInv /\ AllAccounted /\ [Next]_vars => AllAccounted'
<1> SUFFICES ASSUME PipeInv, AllAccounted, [Next]_vars
             PROVE  AllAccounted'
  OBVIOUS
<1>t. /\ accepted \in Nat /\ buffer \in Seq(Nat) /\ batch \in Seq(Nat) /\ written \in Seq(Nat)
      /\ file \in Seq(Nat) /\ Lines \in Seq(Nat)
  BY LinesTyped DEF PipeInv
<1>l. Entries(Lines) = Entries(written) \cup Entries(batch)
  BY <1>t, EntriesConcat DEF Lines
<1>u. ASSUME UNCHANGED <<accepted, buffer, batch, written, file, lost>>
      PROVE  AllAccounted'
  BY <1>u DEF AllAccounted, Entry, Entries
<1>1. ASSUME NEW w \in Writers, writeEntry(w)
      PROVE  AllAccounted'
  <2>1. /\ accepted' = accepted + 1 /\ buffer' = Append(buffer, accepted + 1)
        /\ batch' = batch /\ written' = written /\ file' = file /\ lost' = lost
    BY <1>1 DEF writeEntry, storageVars
  <2>2. Entries(buffer') = Entries(buffer) \cup {accepted + 1}
    BY <1>t, <2>1, EntriesAppend
  <2>3. Entry' = Entry \cup {accepted + 1}
    BY <1>t, <2>1 DEF Entry
  <2>4. Entries(batch') = Entries(batch) /\ Entries(written') = Entries(written) /\ Entries(file') = Entries(file)
    BY <2>1
  <2> QED
    BY <2>1, <2>2, <2>3, <2>4 DEF AllAccounted
<1>2. ASSUME NEW w \in Writers, Notify(w)
      PROVE  AllAccounted'
  BY <1>u, <1>2 DEF Notify, storageVars
<1>3. CASE Tick \/ Notified \/ Closed \/ GracefulStop \/ Close \/ UNCHANGED vars
  BY <1>u, <1>3 DEF Tick, Notified, Closed, GracefulStop, Close, vars, storageVars
<1>4. CASE Swap
  <2>1. batch = <<>>
    BY <1>4 DEF PipeInv, BatchTaken, Swap
  <2>2. /\ Entries(batch') = Entries(buffer) /\ Entries(buffer') = {} /\ Entries(batch) = {}
    BY <1>4, <2>1, EmptyEntries DEF Swap
  <2>3. /\ Entry' = Entry /\ Entries(file') = Entries(file) /\ Entries(written') = Entries(written)
        /\ lost' = lost
    BY <1>4 DEF Swap, storageVars, Entry
  <2> QED
    BY <2>2, <2>3 DEF AllAccounted
<1>5. CASE WriteBatch \/ WriteBatchFails \/ StorageClose
  <2>0. PICK n \in 0..Len(Lines) : LinesWritten(n)
    BY <1>5, WritesLines
  <2>1. file' = file \o SubSeq(Lines, 1, n) /\ lost' = lost \cup Entries(SubSeq(Lines, n + 1, Len(Lines)))
    BY <2>0, Zenon DEF LinesWritten, BreakOff, AppendLines
  <2>2. Entries(file') \cup Entries(SubSeq(Lines, n + 1, Len(Lines))) = Entries(file) \cup Entries(Lines)
    BY <1>t, <2>1, SettledAccounted, Zenon
  <2>3. batch' = <<>> /\ written' = <<>> /\ UNCHANGED <<accepted, buffer>>
    BY <1>5, WritesLines
  <2>4. Entry' = Entry /\ Entries(buffer') = Entries(buffer) /\ Entries(batch') = {} /\ Entries(written') = {}
    BY <2>3, EmptyEntries DEF Entry
  <2> QED
    BY <1>l, <2>1, <2>2, <2>4 DEF AllAccounted
<1>6. CASE MarshalFails
  <2>1. PICK m \in 0..Len(batch) - 1 : \E n \in 0..Len(Encoded(m)) : GivenUp(m, n)
    BY <1>6, GivesUp
  <2>2. PICK n \in 0..Len(Encoded(m)) : GivenUp(m, n)
    BY <2>1
  <2>3. m \in 0..Len(batch) /\ SubSeq(batch, 1, m) \in Seq(Nat) /\ Encoded(m) \in Seq(Nat)
    BY <2>1, EncodedFacts, Zenon
  <2>4. Entries(Encoded(m)) = Entries(written) \cup Entries(SubSeq(batch, 1, m))
    BY <1>t, <2>3, EntriesConcat, Zenon DEF Encoded
  <2>5. Entries(SubSeq(batch, 1, m)) \cup Entries(SubSeq(batch, m + 1, Len(batch))) = Entries(batch)
    BY <1>t, <2>3, EntriesSplit
  <2>6. /\ file' = file \o SubSeq(Encoded(m), 1, n)
        /\ Entries(written') = Entries(SubSeq(Encoded(m), n + 1, Len(Encoded(m))))
        /\ lost' = lost \cup Entries(SubSeq(batch, m + 1, Len(batch)))
    BY <2>2, Zenon DEF GivenUp, AppendLines
  <2>7. Entries(file') \cup Entries(written') = Entries(file) \cup Entries(Encoded(m))
    BY <1>t, <2>3, <2>6, SettledAccounted, Zenon
  <2>8. batch' = <<>> /\ UNCHANGED <<accepted, buffer>>
    BY <1>6, GivesUp
  <2>9. Entry' = Entry /\ Entries(buffer') = Entries(buffer) /\ Entries(batch') = {}
    BY <2>8, EmptyEntries DEF Entry
  <2> QED
    BY <2>4, <2>5, <2>6, <2>7, <2>9 DEF AllAccounted
<1>8. CASE Crash
  <2>1. PICK n \in 0..Len(Lines) : /\ AppendLines(Lines, n)
                                  /\ lost' = lost \cup Entries(SubSeq(Lines, n + 1, Len(Lines)) \o buffer)
    BY <1>8 DEF Crash, BreakOff, Lines
  <2>2. file' = file \o SubSeq(Lines, 1, n)
    BY <2>1 DEF AppendLines
  <2>3. Entries(file') \cup Entries(SubSeq(Lines, n + 1, Len(Lines))) = Entries(file) \cup Entries(Lines)
    BY <1>t, <2>2, SettledAccounted, Zenon
  <2>4. SubSeq(Lines, n + 1, Len(Lines)) \in Seq(Nat)
    BY <1>t
  <2>5. Entries(SubSeq(Lines, n + 1, Len(Lines)) \o buffer) = Entries(SubSeq(Lines, n + 1, Len(Lines))) \cup Entries(buffer)
    BY <1>t, <2>4, EntriesConcat, Zenon
  <2>6. Entry' = Entry /\ Entries(buffer') = {} /\ Entries(batch') = {} /\ Entries(written') = {}
    BY <1>8, EmptyEntries DEF Crash, Entry
  <2> QED
    BY <1>l, <2>1, <2>3, <2>5, <2>6 DEF AllAccounted
<1> QED
  BY <1>1, <1>2, <1>3, <1>4, <1>5, <1>6, <1>8 DEF Next
-----------------------------------------------------------------------------
(* The end of a sequence, from place i on. *)
LEMMA SuffixProperties ==
  ASSUME NEW s \in Seq(Nat), NEW i \in 1..Len(s) + 1
  PROVE  LET u == SubSeq(s, i, Len(s)) IN
         /\ u \in Seq(Nat) /\ Len(u) = Len(s) + 1 - i
         /\ \A j \in 1..Len(s) + 1 - i : u[j] = s[i - 1 + j]
<1>1. i \in Nat /\ Len(s) \in Nat /\ i - 1 \in 0..Len(s) /\ (i - 1) + 1 = i /\ Len(s) - (i - 1) = Len(s) + 1 - i
  OBVIOUS
<1>2. SubSeq(s, i, Len(s)) \in Seq(Nat) /\ Len(SubSeq(s, i, Len(s))) = Len(s) + 1 - i
  BY <1>1
<1>3. ASSUME NEW j \in 1..Len(s) + 1 - i
      PROVE  SubSeq(s, i, Len(s))[j] = s[i - 1 + j]
  <2>1. SubSeq(s, (i - 1) + 1, Len(s))[j] = s[j + (i - 1)]
    BY <1>1, RestAt, SMTT(30)
  <2>2. j + (i - 1) = i - 1 + j
    BY <1>1
  <2> QED
    BY <1>1, <2>1, <2>2
<1> QED
  BY <1>2, <1>3

(* What is appended to a sequence is appended to its end. *)
LEMMA SuffixConcat ==
  ASSUME NEW s \in Seq(Nat), NEW t \in Seq(Nat), NEW i \in 1..Len(s) + 1
  PROVE  /\ SubSeq(s, i, Len(s)) \o t = SubSeq(s \o t, i, Len(s \o t))
         /\ i \in 1..Len(s \o t) + 1
<1> DEFINE u == SubSeq(s, i, Len(s))
           w == s \o t
           v == SubSeq(w, i, Len(w))
           x == u \o t
<1>1. i \in Nat /\ Len(s) \in Nat /\ Len(t) \in Nat /\ 1 <= i /\ i <= Len(s) + 1
  OBVIOUS
<1>2. /\ u \in Seq(Nat) /\ Len(u) = Len(s) + 1 - i
      /\ \A j \in 1..Len(s) + 1 - i : u[j] = s[i - 1 + j]
  BY SuffixProperties
<1>3. w \in Seq(Nat) /\ Len(w) = Len(s) + Len(t)
  BY ConcatLength
<1>4. i \in 1..Len(w) + 1
  BY <1>1, <1>3
<1> HIDE DEF w, u
<1>5. /\ v \in Seq(Nat) /\ Len(v) = Len(w) + 1 - i
      /\ \A j \in 1..Len(w) + 1 - i : v[j] = w[i - 1 + j]
  BY <1>3, <1>4, SuffixProperties, SMTT(30)
<1>6. x \in Seq(Nat) /\ Len(x) = Len(u) + Len(t)
  BY <1>2, ConcatLength, Zenon
<1> HIDE DEF v, x
<1>7. Len(x) = Len(v)
  BY <1>1, <1>2, <1>3, <1>5, <1>6
<1>8. ASSUME NEW j \in 1..Len(x)
      PROVE  x[j] = v[j]
  <2>1. v[j] = w[i - 1 + j]
    BY <1>5, <1>7
  <2>2. CASE j <= Len(u)
    <3>1. j \in 1..Len(u) /\ j \in 1..Len(s) + 1 - i /\ i - 1 + j \in 1..Len(s)
      BY <1>1, <1>2, <2>2
    <3>2. x[j] = u[j]
      BY <1>2, <3>1, ConcatFirst DEF x
    <3>3. w[i - 1 + j] = s[i - 1 + j]
      BY <3>1, ConcatFirst DEF w
    <3> QED
      BY <1>2, <2>1, <3>1, <3>2, <3>3, Zenon
  <2>3. CASE ~(j <= Len(u))
    <3>1. /\ j \in Len(u) + 1..Len(u) + Len(t) /\ i - 1 + j \in Len(s) + 1..Len(s) + Len(t)
          /\ j - Len(u) = (i - 1 + j) - Len(s)
      BY <1>1, <1>2, <1>6, <2>3
    <3>2. x[j] = t[j - Len(u)]
      BY <1>2, <3>1, ConcatSecond, SMTT(30) DEF x
    <3>3. w[i - 1 + j] = t[(i - 1 + j) - Len(s)]
      BY <3>1, ConcatSecond DEF w
    <3> QED
      BY <2>1, <3>1, <3>2, <3>3, Zenon
  <2> QED
    BY <2>2, <2>3
<1>9. x = v
  BY <1>5, <1>6, <1>7, <1>8, SameSequence
<1> QED
  BY <1>4, <1>9 DEF x, v, u, w

(* The end of an end. *)
LEMMA SuffixTwice ==
  ASSUME NEW s \in Seq(Nat), NEW i \in 1..Len(s) + 1, NEW u, u = SubSeq(s, i, Len(s)), NEW k \in 1..Len(u) + 1
  PROVE  /\ SubSeq(u, k, Len(u)) = SubSeq(s, i + k - 1, Len(s))
         /\ i + k - 1 \in 1..Len(s) + 1
<1> DEFINE v == SubSeq(u, k, Len(u))
           w == SubSeq(s, i + k - 1, Len(s))
<1>1. i \in Nat /\ Len(s) \in Nat /\ 1 <= i /\ i <= Len(s) + 1
  OBVIOUS
<1>2. /\ u \in Seq(Nat) /\ Len(u) = Len(s) + 1 - i
      /\ \A j \in 1..Len(s) + 1 - i : u[j] = s[i - 1 + j]
  BY SuffixProperties
<1>3. k \in Nat /\ 1 <= k /\ k <= Len(u) + 1 /\ i + k - 1 \in 1..Len(s) + 1
  BY <1>1, <1>2
<1>4. /\ v \in Seq(Nat) /\ Len(v) = Len(u) + 1 - k
      /\ \A j \in 1..Len(u) + 1 - k : v[j] = u[k - 1 + j]
  BY <1>2, SuffixProperties, Zenon
<1>5. /\ w \in Seq(Nat) /\ Len(w) = Len(s) + 1 - (i + k - 1)
      /\ \A j \in 1..Len(s) + 1 - (i + k - 1) : w[j] = s[(i + k - 1) - 1 + j]
  BY <1>3, SuffixProperties, Zenon
<1> HIDE DEF v, w
<1>6. Len(v) = Len(w)
  BY <1>1, <1>2, <1>3, <1>4, <1>5
<1>7. ASSUME NEW j \in 1..Len(v)
      PROVE  v[j] = w[j]
  <2>1. /\ j \in 1..Len(u) + 1 - k /\ k - 1 + j \in 1..Len(s) + 1 - i /\ j \in 1..Len(s) + 1 - (i + k - 1)
        /\ i - 1 + (k - 1 + j) = (i + k - 1) - 1 + j
    BY <1>1, <1>2, <1>3, <1>4
  <2>2. v[j] = u[k - 1 + j]
    BY <1>4, <2>1
  <2>3. u[k - 1 + j] = s[i - 1 + (k - 1 + j)]
    BY <1>2, <2>1
  <2>4. w[j] = s[(i + k - 1) - 1 + j]
    BY <1>5, <2>1
  <2> QED
    BY <2>1, <2>2, <2>3, <2>4, Zenon
<1> QED
  BY <1>3, <1>4, <1>5, <1>6, <1>7, SameSequence, Zenon DEF v, w

(* s is the end of t. *)
TailOf(s, t) == \E i \in 1..Len(t) + 1 : s = SubSeq(t, i, Len(t))

(* When the index is not longer than it may be. *)
IndexFits == written = <<>> /\ phase # "closed" => Len(index) <= maxSize

LEMMA IndexByTail == IndexIsLogTail <=> (~bufErr => TailOf(index, file \o written) /\ IndexFits)
  BY Zenon DEF IndexIsLogTail, TailOf, IndexFits

(* Trimming an end leaves an end. *)
LEMMA TrimmedTail ==
  ASSUME NEW t \in Seq(Nat), NEW i \in 1..Len(t) + 1, NEW s, s = SubSeq(t, i, Len(t))
  PROVE  TailOf(Trim(s), t) /\ Len(Trim(s)) <= maxSize
<1>1. /\ s \in Seq(Nat) /\ Len(s) = Len(t) + 1 - i /\ Len(t) \in Nat /\ Len(s) \in Nat /\ maxSize \in Nat
  BY SuffixProperties, AuditAssumption
<1>2. CASE ~(Len(s) > maxSize)
  BY <1>1, <1>2 DEF Trim, TailOf
<1>3. CASE Len(s) > maxSize
  <2> DEFINE k == Len(s) - maxSize + 1
  <2>1. k \in 1..Len(s) + 1 /\ Len(s) + 1 - k = maxSize
    BY <1>1, <1>3
  <2>2. Trim(s) = SubSeq(s, k, Len(s))
    BY <1>3, Zenon DEF Trim
  <2> HIDE DEF k
  <2>3. SubSeq(s, k, Len(s)) = SubSeq(t, i + k - 1, Len(t)) /\ i + k - 1 \in 1..Len(t) + 1
    BY <2>1, SuffixTwice
  <2>4. Len(SubSeq(s, k, Len(s))) = maxSize
    BY <1>1, <2>1, SuffixProperties
  <2>5. Trim(s) = SubSeq(t, i + k - 1, Len(t))
    BY <2>2, <2>3
  <2>6. Len(Trim(s)) <= maxSize
    <3>1. Len(Trim(s)) = maxSize
      BY <2>2, <2>4
    <3> QED
      BY <1>1, <3>1
  <2> QED
    BY <2>3, <2>5, <2>6, Zenon DEF TailOf
<1> QED
  BY <1>2, <1>3

(* Nothing is an end. *)
LEMMA EmptyTail ==
  ASSUME NEW t \in Seq(Nat)
  PROVE  TailOf(<<>>, t) /\ Len(<<>>) <= maxSize
<1>1. Len(t) \in Nat /\ Len(t) + 1 \in 1..Len(t) + 1
  OBVIOUS
<1>2. <<>> = SubSeq(t, Len(t) + 1, Len(t))
  BY <1>1
<1>3. Len(<<>>) <= maxSize
  BY AuditAssumption
<1> QED
  BY <1>1, <1>2, <1>3 DEF TailOf

LEMMA IndexInitInv == Init => IndexIsLogTail
<1> SUFFICES ASSUME Init
             PROVE  TailOf(index, file \o written) /\ IndexFits
  BY IndexByTail
<1>1. index = <<>> /\ file = <<>> /\ written = <<>> /\ <<>> \in Seq(Nat)
  BY DEF Init
<1>2. file \o written = <<>>
  BY <1>1, ConcatEmpty
<1> QED
  BY <1>1, <1>2, EmptyTail, Zenon DEF IndexFits

(* Three sequences in a row, the second in two parts. *)
LEMMA ConcatThree ==
  ASSUME NEW s \in Seq(Nat), NEW t \in Seq(Nat), NEW u \in Seq(Nat)
  PROVE  (s \o t) \o u = s \o (t \o u)
  OBVIOUS

LEMMA ConcatParts ==
  ASSUME NEW s \in Seq(Nat), NEW t \in Seq(Nat), NEW n \in 0..Len(t)
  PROVE  (s \o SubSeq(t, 1, n)) \o SubSeq(t, n + 1, Len(t)) = s \o t
<1> DEFINE p == SubSeq(t, 1, n)
           q == SubSeq(t, n + 1, Len(t))
<1>0. n \in Nat /\ Len(t) \in Nat /\ 0 \in 0..n /\ 0 + 1 = 1 /\ n - 0 = n /\ Len(t) \in 0..Len(t)
  OBVIOUS
<1>3. p \in Seq(Nat) /\ Len(p) = n /\ \A j \in 1..n : p[j] = t[j]
  BY <1>0
<1>4. q \in Seq(Nat) /\ Len(q) = Len(t) - n /\ \A j \in 1..Len(t) - n : q[j] = t[j + n]
  BY <1>0, PartAt, Zenon
<1> HIDE DEF p, q
<1>5. p \o q \in Seq(Nat) /\ Len(p \o q) = Len(p) + Len(q)
  BY <1>3, <1>4, ConcatLength, Zenon
<1>6. ASSUME NEW j \in 1..Len(p \o q)
      PROVE  (p \o q)[j] = t[j]
  <2>1. CASE j \in 1..Len(p)
    BY <1>3, <1>4, <2>1, ConcatFirst, Zenon
  <2>2. CASE j \notin 1..Len(p)
    <3>1. j \in Len(p) + 1..Len(p) + Len(q) /\ j - Len(p) \in 1..Len(t) - n /\ (j - Len(p)) + n = j
      BY <1>0, <1>3, <1>4, <1>5, <2>2
    <3>2. (p \o q)[j] = q[j - Len(p)]
      BY <1>3, <1>4, <3>1, ConcatSecond, Zenon
    <3> QED
      BY <1>4, <3>1, <3>2, Zenon
  <2> QED
    BY <2>1, <2>2
<1>7. Len(p \o q) = Len(t)
  BY <1>0, <1>3, <1>4, <1>5
<1>1. p \in Seq(Nat) /\ q \in Seq(Nat) /\ p \o q = t
  BY <1>3, <1>4, <1>5, <1>6, <1>7, SameSequence, Zenon
<1>2. (s \o p) \o q = s \o (p \o q)
  BY <1>1, ConcatThree
<1> QED
  BY <1>1, <1>2 DEF p, q

LEMMA IndexStepInv == PipeInv /\ IndexIsLogTail /\ [Next]_vars => IndexIsLogTail'
<1> SUFFICES ASSUME PipeInv, IndexIsLogTail, [Next]_vars
             PROVE  IndexIsLogTail'
  OBVIOUS
<1>t. /\ batch \in Seq(Nat) /\ file \in Seq(Nat) /\ written \in Seq(Nat) /\ Lines \in Seq(Nat)
      /\ file \o written \in Seq(Nat)
  BY LinesTyped, ConcatLength DEF PipeInv
<1>c. ASSUME NEW p \in Seq(Nat)
      PROVE  (file \o written) \o p = file \o (written \o p)
  BY <1>t, ConcatThree
<1>p. (~bufErr' => TailOf(index', (file \o written)') /\ IndexFits') => IndexIsLogTail'
  BY Zenon DEF IndexIsLogTail, TailOf, IndexFits
<1>u. ASSUME UNCHANGED <<index, file, written, bufErr>>, phase' = phase \/ phase # "closed"
      PROVE  IndexIsLogTail'
  <2>1. ASSUME ~bufErr
        PROVE  TailOf(index, file \o written) /\ IndexFits
    BY <2>1, IndexByTail
  <2>2. IndexFits => IndexFits'
    BY <1>u DEF IndexFits
  <2> QED
    BY <1>p, <1>u, <2>1, <2>2
<1>1. ASSUME \/ \E w \in Writers : writeEntry(w) \/ Notify(w)
             \/ Tick \/ Notified \/ Closed \/ Swap \/ GracefulStop \/ Close \/ UNCHANGED vars
      PROVE  IndexIsLogTail'
  <2>1. UNCHANGED <<index, file, written, bufErr>> /\ (phase' = phase \/ phase # "closed")
    BY <1>1 DEF writeEntry, Notify, Tick, Notified, Closed, Swap, GracefulStop, Close, vars, storageVars
  <2> QED
    BY <1>u, <2>1
<1>2. CASE WriteBatch
  <2>1. /\ ~bufErr /\ AppendLines(Lines, Len(Lines)) /\ index' = Trim(index \o batch) /\ written' = <<>>
    BY <1>2 DEF WriteBatch, BreakOff, Lines
  <2>2. file' = file \o Lines
    <3>1. SubSeq(Lines, 1, Len(Lines)) = Lines
      BY <1>t
    <3> QED
      BY <2>1, <3>1 DEF AppendLines
  <2>3. PICK t \in Seq(Nat) : t = (file \o written) \o batch
    BY <1>t, ConcatLength
  <2>4. (file \o written)' = t
    <3>1. file' = t
      BY <1>t, <1>c, <2>2, <2>3, Zenon DEF Lines
    <3> QED
      BY <2>1, <2>3, <3>1, ConcatEmpty
  <2>5. PICK i \in 1..Len(file \o written) + 1 : index = SubSeq(file \o written, i, Len(file \o written))
    BY <2>1 DEF IndexIsLogTail
  <2>6. index \o batch = SubSeq(t, i, Len(t)) /\ i \in 1..Len(t) + 1
    BY <1>t, <2>3, <2>5, SuffixConcat, Zenon
  <2>7. TailOf(Trim(index \o batch), t) /\ Len(Trim(index \o batch)) <= maxSize
    BY <2>6, TrimmedTail, Zenon
  <2>8. IndexFits'
    BY <2>1, <2>7 DEF IndexFits
  <2> QED
    BY <1>p, <2>1, <2>4, <2>7, <2>8
<1>3. CASE WriteBatchFails
  BY <1>3 DEF WriteBatchFails, IndexIsLogTail
<1>4. CASE MarshalFails
  <2>1. PICK m \in 0..Len(batch) - 1 : \E n \in 0..Len(Encoded(m)) : GivenUp(m, n)
    BY <1>4, GivesUp
  <2>2. PICK n \in 0..Len(Encoded(m)) : GivenUp(m, n)
    BY <2>1
  <2>3. ~bufErr /\ bufErr' = bufErr /\ phase' = phase
    BY <1>4, GivesUp
  <2>4. m \in Nat /\ SubSeq(batch, 1, m) \in Seq(Nat) /\ Encoded(m) \in Seq(Nat)
    BY <2>1, EncodedFacts, Zenon
  <2>5. PICK t \in Seq(Nat) : t = (file \o written) \o SubSeq(batch, 1, m)
    BY <1>t, <2>4, ConcatLength
  <2>6. (file \o written)' = t
    <3>1. (file \o written)' = (file \o SubSeq(Encoded(m), 1, n)) \o SubSeq(Encoded(m), n + 1, Len(Encoded(m)))
      BY <2>2, Zenon DEF GivenUp, AppendLines
    <3>2. (file \o written)' = file \o Encoded(m)
      BY <1>t, <2>2, <2>4, <3>1, ConcatParts
    <3> QED
      BY <1>c, <2>4, <2>5, <3>2, Zenon DEF Encoded
  <2>7. PICK i \in 1..Len(file \o written) + 1 : index = SubSeq(file \o written, i, Len(file \o written))
    BY <2>3 DEF IndexIsLogTail
  <2>8. index' = index \o SubSeq(batch, 1, m)
    BY <2>2 DEF GivenUp
  <2>9. index' = SubSeq(t, i, Len(t)) /\ i \in 1..Len(t) + 1
    BY <1>t, <2>4, <2>5, <2>7, <2>8, SuffixConcat, Zenon
  <2>10. IndexFits'
    <3>1. CASE m = 0
      <4>1. n = 0 /\ SubSeq(batch, 1, 0) = <<>> /\ written \o <<>> = written /\ index \in Seq(Nat)
        <5>1. index \in Seq(Nat)
          BY <1>t, <2>7, SuffixProperties
        <5> QED
          BY <1>t, <2>2, <3>1, <5>1, ConcatEmpty DEF GivenUp
      <4>2. Encoded(m) = written
        BY <3>1, <4>1 DEF Encoded
      <4>3. written' = written
        <5>1. SubSeq(written, 0 + 1, Len(written)) = written
          BY <1>t
        <5> QED
          BY <2>2, <4>1, <4>2, <5>1 DEF GivenUp
      <4>4. index' = index
        BY <2>8, <3>1, <4>1, ConcatEmpty
      <4> QED
        BY <2>3, <4>3, <4>4, IndexByTail DEF IndexFits
    <3>2. CASE m # 0
      <4>1. n < Len(Encoded(m)) /\ written' = SubSeq(Encoded(m), n + 1, Len(Encoded(m))) /\ n \in Nat
        BY <2>2, <3>2 DEF GivenUp
      <4>2. Len(written') = Len(Encoded(m)) - n /\ Len(Encoded(m)) \in Nat
        BY <2>2, <2>4, <4>1
      <4>3. written' # <<>>
        <5>1. Len(written') # 0
          BY <4>1, <4>2
        <5>2. Len(<<>>) = 0
          OBVIOUS
        <5> QED
          BY <5>1, <5>2, Zenon
      <4> QED
        BY <4>3 DEF IndexFits
    <3> QED
      BY <3>1, <3>2
  <2> QED
    BY <1>p, <2>6, <2>9, <2>10 DEF TailOf
<1>5. CASE StorageClose
  <2>1. PICK n \in 0..Len(written) : AppendLines(written, n) /\ bufErr' = (bufErr \/ n < Len(written))
    BY <1>5 DEF StorageClose, BreakOff
  <2>2. index' = index /\ written' = <<>> /\ phase' = "closed"
    BY <1>5 DEF StorageClose
  <2>3. ASSUME ~bufErr'
        PROVE  TailOf(index', (file \o written)') /\ IndexFits'
    <3>0. ~bufErr /\ ~(n < Len(written))
      BY <2>1, <2>3, Zenon
    <3>1. n = Len(written) /\ ~bufErr
      BY <1>t, <2>1, <3>0
    <3>2. file' = file \o written
      <4>1. SubSeq(written, 1, Len(written)) = written
        BY <1>t
      <4> QED
        BY <2>1, <3>1, <4>1 DEF AppendLines
    <3>3. (file \o written)' = file \o written
      <4>1. (file \o written) \o <<>> = file \o written
        BY <1>t, ConcatEmpty
      <4> QED
        BY <2>2, <3>2, <4>1
    <3>4. TailOf(index, file \o written)
      BY <3>1, IndexByTail
    <3> QED
      BY <2>2, <3>3, <3>4 DEF IndexFits
  <2> QED
    BY <1>p, <2>3
<1>6. CASE Crash
  <2>1. index' = <<>>
    BY <1>6 DEF Crash
  <2>2. file' \in Seq(Nat) /\ written' \in Seq(Nat)
    BY PipeStepInv DEF PipeInv
  <2>3. TailOf(<<>>, (file \o written)') /\ Len(<<>>) <= maxSize
    BY <2>2, ConcatLength, EmptyTail
  <2> QED
    BY <1>p, <2>1, <2>3 DEF IndexFits
<1> QED
  BY <1>1, <1>2, <1>3, <1>4, <1>5, <1>6 DEF Next
-----------------------------------------------------------------------------
(* The lines spoilt so far, and the one that will be when the file ends in *)
(* an incomplete line and can still be written: each needs a crash of its  *)
(* own.                                                                    *)
GluedInv ==
  /\ crashes \in Nat /\ torn \in BOOLEAN /\ bufErr \in BOOLEAN
  /\ IsFiniteSet(glued) /\ Cardinality(glued) \in Nat
  /\ Cardinality(glued) + (IF torn /\ ~bufErr THEN 1 ELSE 0) <= crashes

(* At most one more line is spoilt, and the file then ends in that line    *)
(* unless the write was broken off again.                                  *)
LEMMA GluedGrows ==
  ASSUME GluedInv, NEW lines, NEW n \in Nat, AppendLines(lines, n)
  PROVE  /\ IsFiniteSet(glued') /\ Cardinality(glued') \in Nat
         /\ ~(torn /\ n > 0) => glued' = glued
         /\ Cardinality(glued') <= Cardinality(glued) + 1
<1>2. CASE ~(torn /\ n > 0)
  <2>1. glued' = glued
    BY <1>2 DEF AppendLines
  <2> QED
    BY <2>1 DEF GluedInv
<1>3. CASE torn /\ n > 0
  <2>1. glued' = glued \cup {lines[1]}
    BY <1>3 DEF AppendLines
  <2>2. IsFiniteSet(glued) /\ Cardinality(glued) \in Nat
    BY DEF GluedInv
  <2>3. /\ IsFiniteSet(glued \cup {lines[1]})
        /\ Cardinality(glued \cup {lines[1]}) =
             IF lines[1] \in glued THEN Cardinality(glued) ELSE Cardinality(glued) + 1
    BY <2>2, FS_AddElement
  <2> QED
    BY <1>3, <2>1, <2>2, <2>3
<1> QED
  BY <1>2, <1>3

LEMMA GluedInitInv == Init => GluedInv
<1> SUFFICES ASSUME Init
             PROVE  GluedInv
  OBVIOUS
<1>1. glued = {} /\ torn = FALSE /\ bufErr = FALSE /\ crashes = 0
  BY DEF Init
<1>2. IsFiniteSet({}) /\ Cardinality({}) = 0
  BY FS_EmptySet
<1>3. torn \in BOOLEAN /\ bufErr \in BOOLEAN /\ ~torn
  BY <1>1, Zenon
<1>4. Cardinality(glued) + (IF torn /\ ~bufErr THEN 1 ELSE 0) <= crashes
  BY <1>1, <1>2, <1>3
<1> QED
  BY <1>1, <1>2, <1>3, <1>4 DEF GluedInv

LEMMA GluedStepInv == PipeInv /\ GluedInv /\ [Next]_vars => GluedInv'
<1> SUFFICES ASSUME PipeInv, GluedInv, [Next]_vars
             PROVE  GluedInv'
  OBVIOUS
<1>t. Lines \in Seq(Nat) /\ Len(Lines) \in Nat
  BY LinesTyped
<1>u. ASSUME UNCHANGED <<torn, glued, bufErr, crashes>>
      PROVE  GluedInv'
  BY <1>u DEF GluedInv
<1>1. CASE \/ \E w \in Writers : writeEntry(w) \/ Notify(w)
           \/ Tick \/ Notified \/ Closed \/ Swap \/ GracefulStop \/ Close \/ UNCHANGED vars
  BY <1>u, <1>1 DEF writeEntry, Notify, Tick, Notified, Closed, Swap, GracefulStop, Close, vars, storageVars
<1>2. ASSUME NEW lines, NEW n \in Nat, AppendLines(lines, n), ~bufErr, torn' = (torn /\ n = 0),
             bufErr' \in BOOLEAN, crashes' = crashes
      PROVE  GluedInv'
  <2>1. /\ IsFiniteSet(glued') /\ Cardinality(glued') \in Nat
        /\ ~(torn /\ n > 0) => glued' = glued
        /\ Cardinality(glued') <= Cardinality(glued) + 1
    BY <1>2, GluedGrows
  <2>2. torn' \in BOOLEAN /\ (torn' => torn /\ n = 0)
    BY <1>2, Zenon
  <2>3. Cardinality(glued') + (IF torn' /\ ~bufErr' THEN 1 ELSE 0) <= crashes
    <3>1. CASE torn /\ n > 0
      BY <1>2, <2>1, <2>2, <3>1 DEF GluedInv
    <3>2. CASE ~(torn /\ n > 0)
      <4>1. glued' = glued /\ (torn' => torn)
        BY <2>1, <2>2, <3>2
      <4> QED
        BY <1>2, <4>1 DEF GluedInv
    <3> QED
      BY <3>1, <3>2
  <2> QED
    BY <1>2, <2>1, <2>2, <2>3 DEF GluedInv
<1>3. CASE WriteBatch \/ WriteBatchFails \/ StorageClose
  <2>1. PICK n \in 0..Len(Lines) : LinesWritten(n)
    BY <1>3, WritesLines
  <2>2. /\ AppendLines(Lines, n) /\ (bufErr => n = 0) /\ bufErr' \in BOOLEAN /\ (bufErr' \/ n = Len(Lines))
        /\ torn' \in {torn /\ n = 0} \cup (IF n < Len(Lines) /\ ~bufErr THEN {TRUE} ELSE {})
        /\ crashes' = crashes
    BY <1>3, <2>1, WritesLines, Zenon DEF LinesWritten, BreakOff
  <2>3. n \in Nat /\ (n > 0 => ~bufErr)
    BY <1>t, <2>1, <2>2
  <2>4. /\ IsFiniteSet(glued') /\ Cardinality(glued') \in Nat
        /\ ~(torn /\ n > 0) => glued' = glued
        /\ Cardinality(glued') <= Cardinality(glued) + 1
    BY <2>2, <2>3, GluedGrows
  <2>5. torn' \in BOOLEAN
    BY <2>2, Zenon DEF GluedInv
  <2>6. CASE bufErr'
    <3>1. Cardinality(glued') <= crashes
      BY <2>3, <2>4 DEF GluedInv
    <3>2. Cardinality(glued') + (IF torn' /\ ~bufErr' THEN 1 ELSE 0) <= crashes
      BY <2>4, <2>6, <3>1 DEF GluedInv
    <3> QED
      BY <2>2, <2>4, <2>5, <3>2 DEF GluedInv
  <2>7. CASE ~bufErr' /\ ~bufErr
    <3>1. ~(n < Len(Lines))
      BY <1>t, <2>2, <2>7
    <3>2. torn' = (torn /\ n = 0)
      BY <2>2, <3>1, Zenon
    <3> QED
      BY <1>2, <2>2, <2>3, <2>7, <3>2, Zenon
  <2>8. CASE ~bufErr' /\ bufErr
    BY <1>3, <2>8 DEF WriteBatch, WriteBatchFails, StorageClose
  <2> QED
    BY <2>6, <2>7, <2>8
<1>5. CASE MarshalFails
  <2>1. PICK m \in 0..Len(batch) - 1 : \E n \in 0..Len(Encoded(m)) : GivenUp(m, n)
    BY <1>5, GivesUp
  <2>2. PICK n \in 0..Len(Encoded(m)) : GivenUp(m, n)
    BY <2>1
  <2>3. n \in Nat
    BY <2>2
  <2>4. AppendLines(Encoded(m), n) /\ torn' = (torn /\ n = 0)
    BY <2>2, Zenon DEF GivenUp
  <2>5. ~bufErr /\ bufErr' \in BOOLEAN /\ crashes' = crashes
    BY <1>5, GivesUp DEF GluedInv
  <2> QED
    BY <1>2, <2>3, <2>4, <2>5, Zenon
<1>4. CASE Crash
  <2>1. PICK n \in 0..Len(Lines) : (bufErr => n = 0) /\ BreakOff(Lines, n)
    BY <1>4 DEF Crash, Lines
  <2>2. /\ AppendLines(Lines, n)
        /\ torn' \in {torn /\ n = 0} \cup (IF n < Len(Lines) /\ ~bufErr THEN {TRUE} ELSE {})
    BY <2>1, Zenon DEF BreakOff
  <2>3. n \in Nat /\ (n > 0 => ~bufErr)
    BY <1>t, <2>1
  <2>4. /\ IsFiniteSet(glued') /\ Cardinality(glued') \in Nat
        /\ ~(torn /\ n > 0) => glued' = glued
        /\ Cardinality(glued') <= Cardinality(glued) + 1
    BY <2>2, <2>3, GluedGrows
  <2>5. torn' \in BOOLEAN
    BY <2>2, Zenon DEF GluedInv
  <2>6. bufErr' = FALSE /\ crashes' = crashes + 1 /\ bufErr' \in BOOLEAN /\ crashes \in Nat
    BY <1>4, Zenon DEF Crash, GluedInv
  <2>7. Cardinality(glued') <= crashes
    BY <2>3, <2>4 DEF GluedInv
  <2>8. Cardinality(glued') + (IF torn' /\ ~bufErr' THEN 1 ELSE 0) <= crashes'
    BY <2>4, <2>5, <2>6, <2>7
  <2> QED
    BY <2>4, <2>5, <2>6, <2>8 DEF GluedInv
<1> QED
  BY <1>1, <1>3, <1>4, <1>5 DEF Next
-----------------------------------------------------------------------------
LEMMA AccountedInit == Init => AllAccounted
  BY EmptyEntries DEF Init, AllAccounted, Entry

LEMMA ShutdownComplete == PipeInv /\ FlushInv /\ AllAccounted => ShutdownFlushes
<1> SUFFICES ASSUME PipeInv, FlushInv, AllAccounted, phase = "closed"
             PROVE  /\ Entries(file) \cup lost = Entry
                    /\ buffer = <<>> /\ \A w \in Writers : writer[w] = "idle"
  BY DEF ShutdownFlushes
<1>1. buffer = <<>> /\ batch = <<>> /\ written = <<>> /\ \A w \in Writers : writer[w] = "idle"
  BY DEF PipeInv, BatchTaken, FlushInv
<1>2. Entries(file) \cup lost = Entry
  BY <1>1, EmptyEntries DEF AllAccounted
<1> QED
  BY <1>1, <1>2

(* A full buffer never goes unnoticed: the handler that filled it, the     *)
(* token in the channel or the worker on its way take care of it, for any  *)
(* number of handlers and any buffer size.                                 *)
THEOREM WakeupsKept == Spec => []NoLostWakeup
<1>1. FlushInv => NoLostWakeup
  BY DEF FlushInv
<1> QED
  BY <1>1, PipeInitInv, PipeStepInv, FlushInitInv, FlushStepInv, PTL DEF Spec

(* GracefulStop, the worker's last flush and Close leave no accepted entry *)
(* behind, whatever the handlers and the worker were doing when the signal *)
(* came.                                                                   *)
THEOREM ShutdownLosesNothing == Spec => []ShutdownFlushes
  BY PipeInitInv, PipeStepInv, FlushInitInv, FlushStepInv, AccountedInit, AccountedStep,
     ShutdownComplete, PTL DEF Spec

(* FileStorage's index is the end of what it has written, in the file and  *)
(* in the bufio.Writer, as long as no disk write failed: WriteBatch        *)
(* appends to both, also when it gives up half-way, and Trim drops from    *)
(* the front.                                                              *)
THEOREM IndexFollowsFile == Spec => []IndexIsLogTail
  BY PipeInitInv, PipeStepInv, IndexInitInv, IndexStepInv, PTL DEF Spec

(* A crash in the middle of a line costs one entry of a later process at   *)
(* most: the error that bufio keeps stops the process that broke a line    *)
(* off from writing behind it.                                             *)
THEOREM CrashSpoilsOneLine == Spec => []OneGluedPerCrash
<1>1. GluedInv => OneGluedPerCrash
  BY DEF GluedInv, OneGluedPerCrash
<1> QED
  BY <1>1, PipeInitInv, PipeStepInv, GluedInitInv, GluedStepInv, PTL DEF Spec
-----------------------------------------------------------------------------
(* A nonempty set of natural numbers has a least element.                  *)
LEMMA LeastExists ==
  ASSUME NEW T, T \subseteq Nat, T # {}
  PROVE  \E n \in T : \A m \in T : n <= m
<1>1. PICK n \in T : \A m \in T : ~(<<m, n>> \in OpToRel(<, Nat))
  BY NatLessThanWellFounded, WFMin
<1>2. ASSUME NEW m \in T PROVE n <= m
  <2>1. <<m, n>> \in Nat \X Nat /\ <<m, n>>[1] = m /\ <<m, n>>[2] = n
    OBVIOUS
  <2>2. ~(m < n)
    BY <1>1, <2>1 DEF OpToRel
  <2> QED BY <2>2
<1> QED
  BY <1>2

(* Induction up to n, for a set.                                           *)
LEMMA Induction ==
  ASSUME NEW T, NEW n \in Nat, 0 \in T,
         \A i \in 0..n-1 : i \in T => i + 1 \in T
  PROVE  \A i \in 0..n : i \in T
<1> DEFINE Bad == {i \in 0..n : i \notin T}
<1> SUFFICES ASSUME Bad # {} PROVE FALSE
  OBVIOUS
<1>1. PICK i \in Bad : \A j \in Bad : i <= j
  <2>1. Bad \subseteq Nat
    OBVIOUS
  <2> HIDE DEF Bad
  <2> QED BY <2>1, LeastExists
<1>2. i \in 1..n /\ i - 1 \in 0..n-1 /\ i - 1 \notin Bad
  BY <1>1
<1> QED
  BY <1>1, <1>2

(* f has the states of a loop before and after each of n rounds, G[i] being *)
(* what round i does.                                                      *)
IsLoop(f, n, V, start, G) == f \in [0..n -> V] /\ f[0] = start /\ \A i \in 1..n : f[i] = G[i][f[i - 1]]

(* Every loop whose rounds take values of V to values of V has a run: what *)
(* is defined by recursion over the rounds can be unfolded.                *)
LEMMA LoopRuns ==
  ASSUME NEW n \in Nat, NEW V, NEW start \in V, NEW G \in [1..n -> [V -> V]]
  PROVE  \E f : IsLoop(f, n, V, start, G)
<1> DEFINE T == {k \in 0..n : \E f : IsLoop(f, k, V, start, G)}
<1>1. 0 \in T
  <2>1. IsLoop([i \in 0..0 |-> start], 0, V, start, G)
    BY DEF IsLoop
  <2> QED BY <2>1
<1>2. ASSUME NEW k \in 0..(n - 1), k \in T PROVE k + 1 \in T
  <2>1. PICK f : IsLoop(f, k, V, start, G)
    BY <1>2
  <2> DEFINE g == [i \in 0..(k + 1) |-> IF i = k + 1 THEN G[k + 1][f[k]] ELSE f[i]]
  <2>2. IsLoop(g, k + 1, V, start, G)
    BY <2>1 DEF IsLoop
  <2> HIDE DEF g
  <2> QED BY <2>2
<1>3. \A k \in 0..n : k \in T
  <2> HIDE DEF T
  <2> QED BY <1>1, <1>2, Induction
<1> QED
  BY <1>3

(* How the ranks of hits among 1..n grow.                                  *)
RanksGrow(hits, n) ==
  /\ Rank(hits, 1) = 0 /\ Rank(hits, n + 1) = Cardinality(hits)
  /\ \A i \in 1..(n + 1) : Rank(hits, i) \in 0..n
  /\ \A i \in 1..n : Rank(hits, i + 1) = IF i \in hits THEN Rank(hits, i) + 1 ELSE Rank(hits, i)
  /\ \A i, k \in 1..(n + 1) : i <= k => Rank(hits, i) <= Rank(hits, k)

(* From one place to the next the rank grows by one exactly over a hit, from *)
(* none to the number of hits.                                             *)
LEMMA RankSteps ==
  ASSUME NEW n \in Nat, NEW hits, hits \subseteq 1..n
  PROVE  RanksGrow(hits, n)
<1> DEFINE Before(i) == {j \in hits : j < i}
<1>1. IsFiniteSet(1..n) /\ Cardinality(1..n) = n
  BY FS_Interval
<1>2. \A S : S \subseteq 1..n => IsFiniteSet(S) /\ Cardinality(S) \in 0..n
  <2> SUFFICES ASSUME NEW S, S \subseteq 1..n PROVE IsFiniteSet(S) /\ Cardinality(S) \in 0..n
    OBVIOUS
  <2>1. IsFiniteSet(S) /\ Cardinality(S) <= n
    BY <1>1, FS_Subset
  <2>2. Cardinality(S) \in Nat
    BY <2>1, FS_CardinalityType
  <2> QED
    BY <2>1, <2>2
<1>3. \A i : Before(i) \subseteq 1..n /\ Rank(hits, i) = Cardinality(Before(i))
  BY DEF Rank
<1>4. Rank(hits, 1) = 0
  <2>1. Before(1) = {}
    <3>1. \A j \in 1..n : ~(j < 1)
      OBVIOUS
    <3> QED
      BY <3>1, Zenon
  <2> QED
    BY <1>3, <2>1, FS_EmptySet
<1>5. Rank(hits, n + 1) = Cardinality(hits)
  <2>1. Before(n + 1) = hits
    <3>1. \A j \in 1..n : j < n + 1
      OBVIOUS
    <3> QED
      BY <3>1, Zenon
  <2> QED
    BY <1>3, <2>1
<1>6. ASSUME NEW i \in 1..n PROVE Rank(hits, i + 1) = IF i \in hits THEN Rank(hits, i) + 1 ELSE Rank(hits, i)
  <2>1. CASE i \in hits
    <3>1. Before(i + 1) = Before(i) \cup {i} /\ i \notin Before(i)
      <4>1. (\A j \in 1..n : j < i + 1 <=> j < i \/ j = i) /\ ~(i < i)
        OBVIOUS
      <4> QED
        BY <2>1, <4>1, Zenon
    <3>2. IsFiniteSet(Before(i))
      BY <1>2, <1>3
    <3> HIDE DEF Before
    <3> QED
      BY <1>3, <2>1, <3>1, <3>2, FS_AddElement
  <2>2. CASE i \notin hits
    <3>1. Before(i + 1) = Before(i)
      <4>1. \A j \in 1..n : j < i + 1 <=> j < i \/ j = i
        OBVIOUS
      <4> QED
        BY <2>2, <4>1, Zenon
    <3> QED
      BY <1>3, <2>2, <3>1
  <2> QED
    BY <2>1, <2>2
<1>7. ASSUME NEW i \in 1..(n + 1), NEW k \in 1..(n + 1), i <= k PROVE Rank(hits, i) <= Rank(hits, k)
  <2>1. Before(i) \subseteq Before(k) /\ IsFiniteSet(Before(k))
    BY <1>2, <1>3, <1>7
  <2> HIDE DEF Before
  <2> QED
    BY <1>3, <2>1, FS_Subset
<1> HIDE DEF Before
<1>8. \A i \in 1..(n + 1) : Rank(hits, i) \in 0..n
  BY <1>2, <1>3
<1> QED
  BY <1>4, <1>5, <1>6, <1>7, <1>8 DEF RanksGrow

-----------------------------------------------------------------------------
(* The variables of the loop of Query, before the first round.             *)
NothingRead == [skipped |-> 0, results |-> <<>>, full |-> FALSE]

Reading(S) == [skipped : Nat, results : Seq(S), full : BOOLEAN]

(* What the loop makes of its state s in round i.                          *)
Visited(s, i, listed, hits, offset, limit) ==
  IF s.full \/ i \notin hits THEN s
  ELSE IF s.skipped < offset THEN [skipped |-> s.skipped + 1, results |-> s.results, full |-> FALSE]
  ELSE [skipped |-> s.skipped, results |-> Append(s.results, listed[i]),
        full |-> limit > 0 /\ Len(s.results) + 1 >= limit]

(* h satisfies the recursion by which Scan is defined.                     *)
IsScan(h, listed, hits, offset, limit) ==
  h = [i \in 0..Len(listed) |-> IF i = 0 THEN NothingRead ELSE Visited(h[i - 1], i, listed, hits, offset, limit)]

(* h has the states of a scan, from the first to the one it ends in.        *)
ScanStates(h, S, listed, hits, offset, limit) ==
  /\ h \in [0..Len(listed) -> Reading(S)]
  /\ Scan(listed, hits, offset, limit) = h[Len(listed)].results
  /\ h[0] = NothingRead
  /\ \A i \in 1..Len(listed) : h[i] = Visited(h[i - 1], i, listed, hits, offset, limit)

(* Every query ends, and its rounds are those of the loop.                 *)
LEMMA ScanRuns ==
  ASSUME NEW S, NEW listed \in Seq(S), NEW hits, NEW offset \in Nat, NEW limit \in Nat
  PROVE  \E h : ScanStates(h, S, listed, hits, offset, limit)
<1> DEFINE V == Reading(S)
           l == Len(listed)
           Round(s, i) == Visited(s, i, listed, hits, offset, limit)
           G == [i \in 1..l |-> [s \in V |-> Round(s, i)]]
<1>1. l \in Nat /\ \A i \in 1..l : listed[i] \in S
  OBVIOUS
<1>2. \A i \in 1..l, s \in V : Round(s, i) \in V
  BY <1>1 DEF Visited, Reading
<1>3. NothingRead \in V
  BY DEF NothingRead, Reading
<1> HIDE DEF V, Round
<1>4. PICK f : IsLoop(f, l, V, NothingRead, G)
  <2>1. G \in [1..l -> [V -> V]]
    BY <1>2
  <2> HIDE DEF l, G
  <2> QED BY <1>1, <1>3, <2>1, LoopRuns
<1>5. \A i \in 1..l : f[i] = Round(f[i - 1], i)
  <2> SUFFICES ASSUME NEW i \in 1..l PROVE f[i] = Round(f[i - 1], i)
    OBVIOUS
  <2>1. i - 1 \in 0..l
    BY <1>1
  <2>2. f[i - 1] \in V /\ f[i] = G[i][f[i - 1]]
    BY <2>1, <1>4 DEF IsLoop
  <2> QED
    BY <2>2
<1>6. IsScan(f, listed, hits, offset, limit)
  BY <1>1, <1>4, <1>5 DEF IsScan, IsLoop, Round
<1> DEFINE h == CHOOSE x : IsScan(x, listed, hits, offset, limit)
<1>7. IsScan(h, listed, hits, offset, limit)
  BY <1>6
<1>8. Scan(listed, hits, offset, limit) = h[l].results
  BY DEF Scan, IsScan, Visited, NothingRead
<1> HIDE DEF h
<1>9. h = [i \in 0..l |-> IF i = 0 THEN NothingRead ELSE Round(h[i - 1], i)]
  BY <1>7 DEF IsScan, Round
<1>10. h[0] = NothingRead /\ \A i \in 1..l : h[i] = Round(h[i - 1], i)
  BY <1>1, <1>9
<1> DEFINE T == {i \in 0..l : h[i] \in V}
<1>11. 0 \in T
  BY <1>1, <1>3, <1>10
<1>12. ASSUME NEW i \in 0..(l - 1), i \in T PROVE i + 1 \in T
  <2>1. h[i + 1] = Round(h[i], i + 1) /\ h[i] \in V /\ i + 1 \in 1..l
    BY <1>1, <1>10, <1>12
  <2>2. h[i + 1] \in V
    BY <2>1, <1>2
  <2> QED
    BY <1>1, <2>2
<1>13. \A i \in 0..l : i \in T
  <2> HIDE DEF T, l
  <2> QED BY <1>1, <1>11, <1>12, Induction
<1>14. h \in [0..l -> V]
  BY <1>9, <1>13
<1> QED
  BY <1>8, <1>10, <1>14 DEF V, Round, ScanStates

-----------------------------------------------------------------------------
(* What the loop has after k rounds: of the hits so far, offset skipped and *)
(* the next limit collected.                                               *)
ReadSoFar(s, k, listed, hits, offset, limit) ==
  LET m == Rank(hits, k + 1)
  IN  /\ s.skipped = IF m < offset THEN m ELSE offset
      /\ Len(s.results) = IF m <= offset THEN 0 ELSE IF m - offset < limit THEN m - offset ELSE limit
      /\ s.full <=> m >= offset + limit
      /\ \A i \in hits : i <= k /\ offset <= Rank(hits, i) /\ Rank(hits, i) < offset + limit =>
           s.results[Rank(hits, i) - offset + 1] = listed[i]

(* A round keeps it so: a hit is passed over, skipped or collected.        *)
LEMMA VisitedReads ==
  ASSUME NEW S, NEW listed \in Seq(S), NEW hits, hits \subseteq 1..Len(listed),
         NEW offset \in Nat, NEW limit \in Nat \ {0},
         NEW s \in Reading(S), NEW k \in 0..(Len(listed) - 1), ReadSoFar(s, k, listed, hits, offset, limit)
  PROVE  ReadSoFar(Visited(s, k + 1, listed, hits, offset, limit), k + 1, listed, hits, offset, limit)
<1>1. PICK l, m, r : l = Len(listed) /\ m = Rank(hits, k + 1) /\ r = Rank(hits, k + 2)
  OBVIOUS
<1>2. /\ l \in Nat /\ k + 1 \in 1..l /\ k + 2 \in 1..(l + 1) /\ hits \subseteq 1..l
      /\ listed[k + 1] \in S
  BY <1>1
<1>3. /\ m \in Nat /\ r = IF k + 1 \in hits THEN m + 1 ELSE m
      /\ \A i \in hits : Rank(hits, i) \in Nat
      /\ \A i \in hits : i <= k => Rank(hits, i) < m
  <2>1. /\ \A i \in 1..(l + 1) : Rank(hits, i) \in 0..l
        /\ \A i \in 1..l : Rank(hits, i + 1) = IF i \in hits THEN Rank(hits, i) + 1 ELSE Rank(hits, i)
        /\ \A i, j \in 1..(l + 1) : i <= j => Rank(hits, i) <= Rank(hits, j)
    <3>1. RanksGrow(hits, l)
      BY <1>2, RankSteps
    <3> QED
      BY ONLY <3>1 DEF RanksGrow
  <2>2. m \in Nat /\ r = IF k + 1 \in hits THEN m + 1 ELSE m
    <3>1. (k + 1) + 1 = k + 2
      OBVIOUS
    <3> QED
      BY <1>1, <1>2, <2>1, <3>1
  <2>3. ASSUME NEW i \in hits PROVE Rank(hits, i) \in Nat /\ (i <= k => Rank(hits, i) < m)
    <3>1. i \in 1..l /\ i \in 1..(l + 1) /\ i + 1 \in 1..(l + 1)
      BY <1>2
    <3>2. Rank(hits, i + 1) = Rank(hits, i) + 1 /\ Rank(hits, i) \in 0..l
      BY <2>1, <3>1
    <3>3. ASSUME i <= k PROVE Rank(hits, i + 1) <= m
      <4>1. i + 1 <= k + 1 /\ k + 1 \in 1..(l + 1)
        BY <1>2, <3>1, <3>3
      <4> QED
        BY <1>1, <2>1, <3>1, <4>1
    <3> QED
      BY <1>2, <2>2, <3>2, <3>3
  <2> QED
    BY <2>2, <2>3
<1>4. /\ s.skipped = IF m < offset THEN m ELSE offset
      /\ Len(s.results) = IF m <= offset THEN 0 ELSE IF m - offset < limit THEN m - offset ELSE limit
      /\ s.full <=> m >= offset + limit
      /\ \A i \in hits : i <= k /\ offset <= Rank(hits, i) /\ Rank(hits, i) < offset + limit =>
           s.results[Rank(hits, i) - offset + 1] = listed[i]
  BY <1>1 DEF ReadSoFar
<1>5. s.skipped \in Nat /\ s.results \in Seq(S) /\ s.full \in BOOLEAN
  BY DEF Reading
<1>6. PICK t : t = Visited(s, k + 1, listed, hits, offset, limit)
  OBVIOUS
<1> DEFINE Kept == \A i \in hits : i <= k + 1 /\ offset <= Rank(hits, i) /\ Rank(hits, i) < offset + limit =>
                     t.results[Rank(hits, i) - offset + 1] = listed[i]
<1>7. SUFFICES /\ t.skipped = IF r < offset THEN r ELSE offset
               /\ Len(t.results) = IF r <= offset THEN 0 ELSE IF r - offset < limit THEN r - offset ELSE limit
               /\ t.full <=> r >= offset + limit
               /\ Kept
  <2>1. (k + 1) + 1 = k + 2
    OBVIOUS
  <2> QED
    BY <1>1, <1>6, <2>1 DEF ReadSoFar
<1>8. CASE k + 1 \notin hits
  <2>1. t = s /\ r = m
    BY <1>3, <1>6, <1>8 DEF Visited
  <2>2. \A i \in hits : i <= k + 1 => i <= k
    BY <1>2, <1>8
  <2> QED
    BY <1>4, <2>1, <2>2
<1>9. CASE k + 1 \in hits /\ s.full
  <2>1. t = s /\ r = m + 1 /\ m >= offset + limit
    BY <1>3, <1>4, <1>6, <1>9 DEF Visited
  <2>2. Rank(hits, k + 1) = m
    BY <1>1
  <2>3. \A i \in hits : i <= k + 1 => i <= k \/ i = k + 1
    BY <1>2
  <2>4. Kept
    BY <1>3, <1>4, <2>1, <2>2, <2>3
  <2>5. /\ t.skipped = IF r < offset THEN r ELSE offset
        /\ Len(t.results) = IF r <= offset THEN 0 ELSE IF r - offset < limit THEN r - offset ELSE limit
        /\ t.full <=> r >= offset + limit
    BY ONLY <1>3, <1>4, <1>9, <2>1, offset \in Nat, limit \in Nat \ {0}
  <2> QED
    BY <2>4, <2>5
<1>10. CASE k + 1 \in hits /\ ~s.full /\ s.skipped < offset
  <2>1. /\ t.skipped = s.skipped + 1 /\ t.results = s.results /\ t.full = FALSE
        /\ r = m + 1
    BY <1>3, <1>6, <1>10 DEF Visited
  <2>2. m < offset /\ s.skipped = m
    BY <1>3, <1>4, <1>10
  <2>3. Rank(hits, k + 1) = m
    BY <1>1
  <2>4. \A i \in hits : i <= k + 1 => i <= k \/ i = k + 1
    BY <1>2
  <2>5. Kept
    BY <1>3, <1>4, <2>1, <2>2, <2>3, <2>4
  <2>6. /\ t.skipped = IF r < offset THEN r ELSE offset
        /\ Len(t.results) = IF r <= offset THEN 0 ELSE IF r - offset < limit THEN r - offset ELSE limit
        /\ t.full <=> r >= offset + limit
    <3>1. r <= offset /\ m <= offset /\ ~(r >= offset + limit)
      BY <1>3, <2>1, <2>2
    <3>2. t.skipped = r
      BY <2>1, <2>2
    <3>3. Len(t.results) = 0
      BY <1>4, <2>1, <3>1
    <3> QED
      BY <1>3, <2>1, <3>1, <3>2, <3>3
  <2> QED
    BY <2>5, <2>6
<1>11. CASE k + 1 \in hits /\ ~s.full /\ ~(s.skipped < offset)
  <2>1. /\ t.skipped = s.skipped /\ t.results = Append(s.results, listed[k + 1])
        /\ t.full <=> Len(s.results) + 1 >= limit
        /\ r = m + 1
    <3>1. t = [skipped |-> s.skipped, results |-> Append(s.results, listed[k + 1]),
               full |-> limit > 0 /\ Len(s.results) + 1 >= limit]
      BY <1>6, <1>11 DEF Visited
    <3>2. limit > 0
      OBVIOUS
    <3> QED
      BY <1>3, <1>11, <3>1, <3>2
  <2>2. offset <= m /\ s.skipped = offset /\ m < offset + limit /\ Len(s.results) = m - offset
    BY ONLY <1>3, <1>4, <1>5, <1>11, offset \in Nat, limit \in Nat \ {0}
  <2>3. /\ Len(t.results) = Len(s.results) + 1
        /\ t.results[Len(s.results) + 1] = listed[k + 1]
        /\ \A q \in 1..Len(s.results) : t.results[q] = s.results[q]
    BY ONLY <1>2, <1>5, <2>1
  <2>4. ASSUME NEW i \in hits, i <= k + 1, offset <= Rank(hits, i), Rank(hits, i) < offset + limit
        PROVE  t.results[Rank(hits, i) - offset + 1] = listed[i]
    <3>1. i <= k \/ i = k + 1
      BY <1>2, <2>4
    <3>2. CASE i = k + 1
      <4>1. Rank(hits, i) - offset + 1 = Len(s.results) + 1
        BY <1>1, <1>3, <2>2, <3>2
      <4> QED
        BY <2>3, <3>2, <4>1
    <3>3. CASE i <= k
      <4>1. PICK q : q = Rank(hits, i) - offset + 1
        OBVIOUS
      <4>2. q \in 1..Len(s.results)
        BY ONLY <1>3, <2>2, <2>4, <3>3, <4>1, i \in hits, offset \in Nat
      <4>3. s.results[q] = listed[i]
        BY <1>4, <2>4, <3>3, <4>1
      <4> QED
        BY <2>3, <4>1, <4>2, <4>3
    <3> QED
      BY <3>1, <3>2, <3>3
  <2>5. /\ t.skipped = IF r < offset THEN r ELSE offset
        /\ Len(t.results) = IF r <= offset THEN 0 ELSE IF r - offset < limit THEN r - offset ELSE limit
        /\ t.full <=> r >= offset + limit
    BY ONLY <1>3, <2>1, <2>2, <2>3, offset \in Nat, limit \in Nat \ {0}
  <2> QED
    BY <2>4, <2>5
<1> QED
  BY <1>8, <1>9, <1>10, <1>11

(* r has the hits from rank offset on, limit of them or what there is.      *)
IsPage(r, listed, hits, m, offset, limit) ==
  /\ Len(r) = IF m <= offset THEN 0 ELSE IF m - offset < limit THEN m - offset ELSE limit
  /\ \A i \in hits : offset <= Rank(hits, i) /\ Rank(hits, i) < offset + limit =>
       r[Rank(hits, i) - offset + 1] = listed[i]

(* What Query returns: skipping counts hits, and so does the limit.        *)
LEMMA ScanReads ==
  ASSUME NEW S, NEW listed \in Seq(S), NEW hits, hits \subseteq 1..Len(listed),
         NEW offset \in Nat, NEW limit \in Nat \ {0}
  PROVE  IsPage(Scan(listed, hits, offset, limit), listed, hits, Cardinality(hits), offset, limit)
<1> DEFINE l == Len(listed)
           V == Reading(S)
           Good(s, k) == ReadSoFar(s, k, listed, hits, offset, limit)
<1>1. l \in Nat
  OBVIOUS
<1>2. PICK h :
        /\ h \in [0..l -> V]
        /\ Scan(listed, hits, offset, limit) = h[l].results
        /\ h[0] = NothingRead
        /\ \A i \in 1..l : h[i] = Visited(h[i - 1], i, listed, hits, offset, limit)
  <2>1. PICK h : ScanStates(h, S, listed, hits, offset, limit)
    BY ScanRuns
  <2> QED
    BY <2>1 DEF ScanStates
<1> DEFINE T == {k \in 0..l : Good(h[k], k)}
<1>3. Rank(hits, 1) = 0 /\ Rank(hits, l + 1) = Cardinality(hits)
  BY <1>1, RankSteps DEF RanksGrow
<1>4. 0 \in T
  <2>1. \A i \in hits : ~(i <= 0)
    BY <1>1
  <2>2. Rank(hits, 0 + 1) = 0
    BY <1>3
  <2>3. Good(NothingRead, 0)
    BY <2>1, <2>2 DEF ReadSoFar, NothingRead
  <2> QED
    BY <1>1, <1>2, <2>3
<1>5. ASSUME NEW k \in 0..(l - 1), k \in T PROVE k + 1 \in T
  <2>1. h[k] \in V /\ Good(h[k], k) /\ k + 1 \in 1..l
    BY <1>1, <1>2, <1>5
  <2>2. h[k + 1] = Visited(h[k], k + 1, listed, hits, offset, limit)
    <3>1. (k + 1) - 1 = k
      OBVIOUS
    <3> QED
      BY <1>2, <2>1, <3>1
  <2>3. PICK s : s = h[k]
    OBVIOUS
  <2>4. Good(Visited(s, k + 1, listed, hits, offset, limit), k + 1)
    BY <2>1, <2>3, VisitedReads
  <2>5. Good(h[k + 1], k + 1)
    BY <2>2, <2>3, <2>4
  <2> QED
    BY <2>1, <2>5
<1>6. \A k \in 0..l : k \in T
  <2> HIDE DEF T, l
  <2> QED BY <1>1, <1>4, <1>5, Induction
<1>7. Good(h[l], l)
  BY <1>1, <1>6
<1>8. \A i \in hits : i <= l
  BY <1>1
<1> QED
  BY <1>2, <1>3, <1>7, <1>8 DEF ReadSoFar, IsPage

(* The division that finds the page of a rank, and the place on it.        *)
LEMMA PageAndPlace ==
  ASSUME NEW n \in Nat, NEW limit \in Nat \ {0}
  PROVE  /\ n \div limit \in 0..n
         /\ (n \div limit) * limit <= n /\ n < (n \div limit) * limit + limit
         /\ n % limit = n - (n \div limit) * limit
<1>1. PICK q, r : q = n \div limit /\ r = n % limit
  OBVIOUS
<1>2. q \in Int /\ r \in 0..(limit - 1) /\ n = limit * q + r
  BY <1>1
<1>3. q >= 0
  BY <1>2
<1>4. q <= n
  BY <1>2, <1>3
<1> QED
  BY <1>1, <1>2, <1>3, <1>4

(* The pages of one scan after the other are the hits.                     *)
LEMMA ScansInPages ==
  ASSUME NEW S, NEW listed \in Seq(S), NEW hits, hits \subseteq 1..Len(listed), NEW limit \in Nat \ {0}
  PROVE  InPages(listed, hits, [p \in 0..Len(listed) |-> Scan(listed, hits, p * limit, limit)],
                 Cardinality(hits), limit)
<1> DEFINE l == Len(listed)
           pages == [p \in 0..l |-> Scan(listed, hits, p * limit, limit)]
           m == Cardinality(hits)
<1>1. /\ l \in Nat /\ m \in 0..l
      /\ \A i \in hits : Rank(hits, i) \in 0..l
  <2>1. l \in Nat /\ hits \subseteq 1..l
    OBVIOUS
  <2>2. \A i \in 1..(l + 1) : Rank(hits, i) \in 0..l
    BY <2>1, RankSteps DEF RanksGrow
  <2>3. m = Rank(hits, l + 1)
    BY <2>1, RankSteps DEF RanksGrow
  <2> QED
    BY <2>1, <2>2, <2>3
<1>2. ASSUME NEW p \in 0..l
      PROVE  /\ p * limit \in Nat
             /\ Len(pages[p]) = IF m <= p * limit THEN 0 ELSE IF m - p * limit < limit THEN m - p * limit ELSE limit
             /\ \A i \in hits : p * limit <= Rank(hits, i) /\ Rank(hits, i) < p * limit + limit =>
                  pages[p][Rank(hits, i) - p * limit + 1] = listed[i]
  <2>1. PICK offset \in Nat : offset = p * limit
    BY <1>1
  <2>2. PICK r : r = Scan(listed, hits, offset, limit)
    OBVIOUS
  <2>3. /\ Len(r) = IF m <= offset THEN 0 ELSE IF m - offset < limit THEN m - offset ELSE limit
        /\ \A i \in hits : offset <= Rank(hits, i) /\ Rank(hits, i) < offset + limit =>
             r[Rank(hits, i) - offset + 1] = listed[i]
    BY <2>1, <2>2, ScanReads DEF IsPage
  <2>4. pages[p] = r
    BY <2>1, <2>2
  <2> HIDE DEF pages, m
  <2> QED
    BY <2>1, <2>3, <2>4
<1>3. DOMAIN pages = 0..l
  OBVIOUS
<1> HIDE DEF pages, m
<1>4. ASSUME NEW i \in hits PROVE pages[Rank(hits, i) \div limit][(Rank(hits, i) % limit) + 1] = listed[i]
  <2>1. PICK n, p : n = Rank(hits, i) /\ p = n \div limit
    OBVIOUS
  <2>2. n \in 0..l /\ p \in 0..n /\ p * limit <= n /\ n < p * limit + limit /\ n % limit = n - p * limit
    <3>1. n \in 0..l /\ n \in Nat
      BY <1>1, <2>1
    <3>2. /\ n \div limit \in 0..n
          /\ (n \div limit) * limit <= n /\ n < (n \div limit) * limit + limit
          /\ n % limit = n - (n \div limit) * limit
      BY ONLY <3>1, limit \in Nat \ {0}, PageAndPlace
    <3> QED
      BY ONLY <2>1, <3>1, <3>2
  <2>3. p \in 0..l
    BY <1>1, <2>2
  <2>4. pages[p][n - p * limit + 1] = listed[i]
    BY <1>2, <2>1, <2>2, <2>3
  <2> QED
    BY <2>1, <2>2, <2>4
<1>5. ASSUME NEW p \in DOMAIN pages
      PROVE  Len(pages[p]) = IF m - p * limit <= 0 THEN 0 ELSE IF m - p * limit < limit THEN m - p * limit ELSE limit
  <2>1. PICK offset \in Nat : offset = p * limit
    BY <1>2, <1>3
  <2>2. Len(pages[p]) = IF m <= offset THEN 0 ELSE IF m - offset < limit THEN m - offset ELSE limit
    BY <1>2, <1>3, <2>1
  <2>3. m \in Nat
    BY <1>1
  <2> QED
    BY <2>1, <2>2, <2>3
<1> QED
  BY <1>4, <1>5 DEF InPages, pages, m

(* Counting from the one end or the other makes no difference.             *)
LEMMA HitsNewestFirst ==
  ASSUME NEW S, NEW entries \in Seq(S), NEW opts
  PROVE  Cardinality(HitsMemory(NewestFirst(entries), opts)) = CountMemory(entries, opts)
<1> DEFINE l == Len(entries)
           A == HitsMemory(NewestFirst(entries), opts)
           B == HitsMemory(entries, opts)
           f == [i \in A |-> l + 1 - i]
<1>1. l \in Nat /\ DOMAIN entries = 1..l
  OBVIOUS
<1>2. DOMAIN NewestFirst(entries) = 1..l /\ \A i \in 1..l : NewestFirst(entries)[i] = entries[l + 1 - i]
  BY DEF NewestFirst
<1>3. A \subseteq 1..l /\ B \subseteq 1..l
  BY <1>1, <1>2 DEF HitsMemory
<1>4. \A i \in 1..l : i \in A <=> l + 1 - i \in B
  BY <1>1, <1>2 DEF HitsMemory
<1> HIDE DEF A, B, l
<1>5. f \in [A -> B]
  BY <1>3, <1>4
<1>6. \A i, j \in A : f[i] = f[j] => i = j
  BY <1>1, <1>3
<1>7. \A j \in B : \E i \in A : f[i] = j
  <2> SUFFICES ASSUME NEW j \in B PROVE \E i \in A : f[i] = j
    OBVIOUS
  <2>1. j \in 1..l /\ l + 1 - j \in 1..l /\ l + 1 - (l + 1 - j) = j
    BY <1>1, <1>3
  <2>2. l + 1 - j \in A
    BY <1>4, <2>1
  <2> QED
    BY <2>1, <2>2
<1> HIDE DEF f
<1>8. f \in Bijection(A, B)
  BY <1>5, <1>6, <1>7 DEF Bijection, Injection, IsInjective, Surjection
<1>9. IsFiniteSet(A)
  <2>1. IsFiniteSet(1..l)
    BY <1>1, FS_Interval
  <2> QED
    BY <1>3, <2>1, FS_Subset
<1>10. ExistsBijection(A, B)
  BY <1>8 DEF ExistsBijection
<1>11. Cardinality(B) = Cardinality(A)
  BY <1>9, <1>10, FS_Bijection
<1> QED
  BY <1>11 DEF A, B, CountMemory

(* Both storages, whatever is in the index.                                *)
LEMMA IndexPages == Len(index) \in Nat => PagesComplete
<1> SUFFICES ASSUME Len(index) \in Nat PROVE PagesComplete
  OBVIOUS
<1> DEFINE l == Len(index)
           entries == [i \in 1..l |-> Attributes[index[i]]]
           newest == NewestFirst(entries)
           S == {entries[i] : i \in 1..l}
<1>1. entries \in Seq(S) /\ Len(entries) = l /\ DOMAIN entries = 1..l
  OBVIOUS
<1>2. newest \in Seq(S) /\ Len(newest) = l /\ DOMAIN newest = 1..l
  <2>1. newest = [i \in 1..l |-> entries[l + 1 - i]]
    BY <1>1 DEF NewestFirst
  <2>2. \A i \in 1..l : l + 1 - i \in 1..l
    OBVIOUS
  <2>3. \A i \in 1..l : entries[l + 1 - i] \in S
    BY <2>2
  <2> HIDE DEF entries, newest, S
  <2> QED BY <2>1, <2>3
<1> HIDE DEF entries, newest, S
<1>3. ASSUME NEW opts, NEW limit \in Nat \ {0}
      PROVE  InPages(entries, Hits(entries, opts), [p \in 0..l |-> Query(entries, opts, p * limit, limit)],
                     Count(entries, opts), limit)
  <2>1. PICK hits : hits = Hits(entries, opts) /\ hits \subseteq 1..Len(entries)
    BY <1>1 DEF Hits
  <2>2. InPages(entries, hits, [p \in 0..l |-> Scan(entries, hits, p * limit, limit)], Cardinality(hits), limit)
    BY <1>1, <2>1, ScansInPages
  <2> QED
    BY <2>1, <2>2 DEF Query, Count
<1>4. ASSUME NEW opts, NEW limit \in Nat \ {0}
      PROVE  InPages(newest, HitsMemory(newest, opts), [p \in 0..l |-> QueryMemory(entries, opts, p * limit, limit)],
                     CountMemory(entries, opts), limit)
  <2>1. PICK hits : hits = HitsMemory(newest, opts) /\ hits \subseteq 1..Len(newest)
    BY <1>2 DEF HitsMemory
  <2>2. InPages(newest, hits, [p \in 0..l |-> Scan(newest, hits, p * limit, limit)], Cardinality(hits), limit)
    BY <1>2, <2>1, ScansInPages
  <2>3. Cardinality(hits) = CountMemory(entries, opts)
    BY <1>1, <2>1, HitsNewestFirst DEF newest
  <2> QED
    BY <2>1, <2>2, <2>3 DEF QueryMemory, newest
<1> QED
  BY <1>3, <1>4, QueryAssumption DEF PagesComplete, entries, newest

IndexTyped == index \in Seq(Nat)

(* The index is a sequence of entries, also after a write that failed.     *)
LEMMA IndexStepTyped == PipeInv /\ IndexTyped /\ [Next]_vars => IndexTyped'
<1> SUFFICES ASSUME PipeInv, index \in Seq(Nat), [Next]_vars
             PROVE  index' \in Seq(Nat)
  BY DEF IndexTyped
<1>0. batch \in Seq(Nat)
  BY DEF PipeInv
<1>1. CASE \/ \E w \in Writers : writeEntry(w) \/ Notify(w)
           \/ Tick \/ Notified \/ Closed \/ Swap \/ GracefulStop \/ Close \/ UNCHANGED vars
  BY <1>1 DEF writeEntry, Notify, Tick, Notified, Closed, Swap, GracefulStop, Close, vars, storageVars
<1>2. CASE WriteBatch
  <2>1. PICK s : s = index \o batch /\ s \in Seq(Nat)
    BY <1>0, ConcatLength
  <2>2. Trim(s) \in Seq(Nat)
    <3>1. Len(s) > maxSize => Len(s) - maxSize + 1 \in 1..Len(s) + 1
      BY <2>1, AuditAssumption
    <3> QED
      BY <2>1, <3>1 DEF Trim
  <2> QED
    BY <1>2, <2>1, <2>2 DEF WriteBatch
<1>3. CASE WriteBatchFails \/ MarshalFails
  <2>0. Len(batch) \in Nat /\ \A m \in 0..Len(batch) - 1 : m \in 0..Len(batch)
    BY <1>0
  <2>1. PICK m \in 0..Len(batch) : index' = index \o SubSeq(batch, 1, m)
    BY <1>3, <2>0 DEF WriteBatchFails, MarshalFails
  <2>2. SubSeq(batch, 1, m) \in Seq(Nat)
    BY <1>0
  <2> QED
    BY <2>1, <2>2, ConcatLength
<1>4. CASE Crash
  BY <1>4 DEF Crash
<1>5. CASE StorageClose
  BY <1>5 DEF StorageClose
<1> QED
  BY <1>1, <1>2, <1>3, <1>4, <1>5 DEF Next

(* The pages of a query, asked with growing offsets, hold each entry that  *)
(* matches once, in order and where its rank puts it, and Count says how   *)
(* many there are: for every filter and limit, any number of entries, both *)
(* storages, after trims, failed writes and crashes.                       *)
THEOREM QueriesInPages == Spec => []PagesComplete
<1>1. Init => IndexTyped
  BY DEF Init, IndexTyped
<1>2. IndexTyped => PagesComplete
  BY IndexPages DEF IndexTyped
<1> QED
  BY <1>1, <1>2, PipeInitInv, PipeStepInv, IndexStepTyped, PTL DEF Spec
==============================================================================
