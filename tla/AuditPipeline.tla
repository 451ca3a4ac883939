---------------------------- MODULE AuditPipeline ----------------------------
(***************************************************************************)
(* services/audit: entries go from the request handlers into a buffer,     *)
(* from there in batches, by one flush worker, into the log file and an    *)
(* index in memory; shutdown, disk errors and crashes included.            *)
(*                                                                         *)
(* Entries are numbered in the order in which writeEntry appends them.     *)
(* The log file is the sequence of its complete lines and, after a write   *)
(* that was broken off, the beginning of another: torn.  The first line    *)
(* appended behind it becomes part of the same line of text: glued.  The   *)
(* file's bufio.Writer keeps an error for ever: bufErr; and it keeps the   *)
(* lines of a batch that was given up because an entry cannot be encoded:  *)
(* written.  They stay there until the next Flush.                         *)
(***************************************************************************)
EXTENDS Naturals, Sequences, FiniteSets

CONSTANTS
  Writers,      \* handlers in progress: LogRequest, LogResponse, LogError
  BufferSize,   \* config.Buffer.Size
  maxSize,      \* FileStorage.maxSize
  MaxEntries,   \* bound: entries accepted in one behaviour
  MaxCrashes    \* bound: crashes

ASSUME AuditAssumption ==
  /\ BufferSize \in Nat \ {0} /\ maxSize \in Nat \ {0}
  /\ MaxEntries \in Nat /\ MaxCrashes \in Nat

VARIABLES
  accepted,     \* how many entries have been appended to the buffer
  buffer,
  flushChan,    \* the channel of capacity 1 holds a token
  writer,       \* writer[w]: "idle", or about to "notify" the worker
  worker,       \* the flush worker: at its "select", about to "swap" the
                \* buffer, about to "write" its batch, or "done"
  closing,      \* its flush is the one after closeChan was closed
  batch,
  written,      \* lines in the bufio.Writer between two batches
  file, index, bufErr, torn, glued,
  phase,        \* "serving", "stopping" (GracefulStop), "closing" (Close)
                \* or "closed" (storage.Close)
  lost,         \* entries that will never be in the file
  crashes

storageVars == <<written, file, index, bufErr, torn, glued, lost>>
vars == <<accepted, buffer, flushChan, writer, worker, closing, batch, storageVars, phase, crashes>>

Entries(s) == {s[i] : i \in 1..Len(s)}

Entry == 1..accepted

AuditTypeOK ==
  /\ accepted \in Nat
  /\ buffer \in Seq(Entry) /\ batch \in Seq(Entry) /\ written \in Seq(Entry)
  /\ file \in Seq(Entry) /\ index \in Seq(Entry)
  /\ flushChan \in BOOLEAN /\ closing \in BOOLEAN /\ bufErr \in BOOLEAN
  /\ writer \in [Writers -> {"idle", "notify"}]
  /\ worker \in {"select", "swap", "write", "done"}
  /\ phase \in {"serving", "stopping", "closing", "closed"}
  /\ lost \subseteq Entry /\ torn \in BOOLEAN /\ glued \subseteq Entry
  /\ crashes \in Nat

Init ==
  /\ accepted = 0
  /\ buffer = <<>> /\ batch = <<>> /\ written = <<>>
  /\ flushChan = FALSE /\ closing = FALSE
  /\ writer = [w \in Writers |-> "idle"]
  /\ worker = "select"
  /\ file = <<>> /\ index = <<>> /\ bufErr = FALSE
  /\ torn = FALSE /\ glued = {}
  /\ phase = "serving"
  /\ lost = {}
  /\ crashes = 0
-----------------------------------------------------------------------------
(* Faulty: the worker is notified one entry too late. *)
writeEntryOffByOne(w) ==
  /\ phase = "serving" /\ writer[w] = "idle"
  /\ accepted < MaxEntries
  /\ accepted' = accepted + 1
  /\ buffer' = Append(buffer, accepted + 1)
  /\ writer' = [writer EXCEPT ![w] = IF Len(buffer') > BufferSize THEN "notify" ELSE "idle"]
  /\ UNCHANGED <<flushChan, worker, closing, batch, storageVars, phase, crashes>>

(* writeEntry: the append, under bufferMu, and the decision to notify.     *)
writeEntry(w) ==
  /\ phase = "serving" /\ writer[w] = "idle"
  /\ accepted < MaxEntries
  /\ accepted' = accepted + 1
  /\ buffer' = Append(buffer, accepted + 1)
  /\ writer' = [writer EXCEPT ![w] = IF Len(buffer') >= BufferSize THEN "notify" ELSE "idle"]
  /\ UNCHANGED <<flushChan, worker, closing, batch, storageVars, phase, crashes>>

(* The send to flushChan that does not wait. *)
Notify(w) ==
  /\ writer[w] = "notify"
  /\ flushChan' = TRUE
  /\ writer' = [writer EXCEPT ![w] = "idle"]
  /\ UNCHANGED <<accepted, buffer, worker, closing, batch, storageVars, phase, crashes>>

(* flushWorker's select: the ticker, the token, or the closed channel.     *)
Tick ==
  /\ worker = "select"
  /\ worker' = "swap"
  /\ UNCHANGED <<accepted, buffer, flushChan, writer, closing, batch, storageVars, phase, crashes>>

Notified ==
  /\ worker = "select" /\ flushChan
  /\ flushChan' = FALSE
  /\ worker' = "swap"
  /\ UNCHANGED <<accepted, buffer, writer, closing, batch, storageVars, phase, crashes>>

(* Faulty: the worker returns without the last flush. *)
ClosedNoFlush ==
  /\ worker = "select" /\ phase = "closing"
  /\ closing' = TRUE
  /\ worker' = "done"
  /\ UNCHANGED <<accepted, buffer, flushChan, writer, batch, storageVars, phase, crashes>>

Closed ==
  /\ worker = "select" /\ phase = "closing"
  /\ closing' = TRUE
  /\ worker' = "swap"
  /\ UNCHANGED <<accepted, buffer, flushChan, writer, batch, storageVars, phase, crashes>>

(* Faulty: the worker never leaves its loop. *)
FlushedLoops == worker' = "select"

(* Where the worker goes after a flush. *)
Flushed == worker' = IF closing THEN "done" ELSE "select"

(* Faulty: the buffer is taken and also kept. *)
SwapKeepsBuffer ==
  /\ worker = "swap"
  /\ \/ buffer = <<>> /\ Flushed /\ UNCHANGED batch
     \/ buffer # <<>> /\ worker' = "write" /\ batch' = buffer
  /\ UNCHANGED <<accepted, buffer, flushChan, writer, closing, storageVars, phase, crashes>>

(* Faulty: only a full buffer is taken. *)
SwapFullOnly ==
  /\ worker = "swap"
  /\ IF Len(buffer) < BufferSize
       THEN Flushed /\ UNCHANGED <<batch, buffer>>
       ELSE worker' = "write" /\ batch' = buffer /\ buffer' = <<>>
  /\ UNCHANGED <<accepted, flushChan, writer, closing, storageVars, phase, crashes>>

(* flush, under bufferMu: take the buffer, if there is anything in it.     *)
Swap ==
  /\ worker = "swap"
  /\ \/ buffer = <<>> /\ Flushed /\ UNCHANGED batch
     \/ buffer # <<>> /\ worker' = "write" /\ batch' = buffer
  /\ buffer' = <<>>
  /\ UNCHANGED <<accepted, flushChan, writer, closing, storageVars, phase, crashes>>

(* Faulty: keeps the first maxSize. *)
TrimFirst(s) == IF Len(s) > maxSize THEN SubSeq(s, 1, maxSize) ELSE s

(* Keep the last maxSize. *)
Trim(s) == IF Len(s) > maxSize THEN SubSeq(s, Len(s) - maxSize + 1, Len(s)) ELSE s

(* Faulty: behind an incomplete line, no line is ended.                    *)
AppendLinesUnended(lines, n) ==
  /\ file' = file \o SubSeq(lines, 1, n)
  /\ glued' = IF torn THEN glued \cup Entries(SubSeq(lines, 1, n)) ELSE glued

(* The first n lines reach the file. *)
AppendLines(lines, n) ==
  /\ file' = file \o SubSeq(lines, 1, n)
  /\ glued' = IF torn /\ n > 0 THEN glued \cup {lines[1]} ELSE glued

(* ... and, where the write is broken off there, perhaps a part of the next. *)
BreakOff(lines, n) ==
  /\ AppendLines(lines, n)
  /\ torn' \in {torn /\ n = 0} \cup (IF n < Len(lines) /\ ~bufErr THEN {TRUE} ELSE {})

(* FileStorage.WriteBatch, then flush returns.  The Flush writes what was  *)
(* left in the bufio.Writer, too.                                          *)
WriteBatch ==
  /\ worker = "write" /\ ~bufErr
  /\ BreakOff(written \o batch, Len(written \o batch))
  /\ index' = Trim(index \o batch)
  /\ batch' = <<>> /\ written' = <<>>
  /\ Flushed
  /\ UNCHANGED <<accepted, buffer, flushChan, writer, closing, bufErr, lost, phase, crashes>>

(* It fails at json.Marshal of entry m + 1: the lines before are in the    *)
(* index, untrimmed, and in the bufio.Writer, which may have been full and *)
(* have passed n of them on, but never the end of the last one.  flush     *)
(* logs the error and drops the rest of the batch.                         *)
MarshalFails ==
  /\ worker = "write" /\ ~bufErr
  /\ \E m \in 0..Len(batch) - 1 :
       LET lines == written \o SubSeq(batch, 1, m) IN
       /\ \E n \in 0..Len(lines) :
            /\ IF m = 0 THEN n = 0 ELSE n < Len(lines)
            /\ AppendLines(lines, n)
            /\ torn' = (torn /\ n = 0)
            /\ written' = SubSeq(lines, n + 1, Len(lines))
       /\ index' = index \o SubSeq(batch, 1, m)
       /\ lost' = lost \cup Entries(SubSeq(batch, m + 1, Len(batch)))
  /\ batch' = <<>>
  /\ Flushed
  /\ UNCHANGED <<accepted, buffer, flushChan, writer, closing, bufErr, phase, crashes>>

(* It fails at the disk: n lines reached the file, m entries were appended *)
(* to the index before the error (all of them when it is the last Flush    *)
(* that fails), nothing is trimmed.  The rest is dropped, and after a      *)
(* first error every write fails at once.                                  *)
WriteBatchFails ==
  /\ worker = "write"
  /\ \E m \in 0..Len(batch) : \E n \in 0..Len(written) + m :
       /\ bufErr => m = 0 /\ n = 0
       /\ BreakOff(written \o batch, n)
       /\ index' = index \o SubSeq(batch, 1, m)
       /\ lost' = lost \cup Entries(SubSeq(written \o batch, n + 1, Len(written \o batch)))
  /\ bufErr' = TRUE
  /\ batch' = <<>> /\ written' = <<>>
  /\ Flushed
  /\ UNCHANGED <<accepted, buffer, flushChan, writer, closing, phase, crashes>>

(* A signal: GracefulStop lets no handler in and waits for those inside;   *)
(* then Close closes closeChan, waits for the worker and closes the        *)
(* storage, which flushes the bufio.Writer or fails to.                    *)
GracefulStop ==
  /\ phase = "serving"
  /\ phase' = "stopping"
  /\ UNCHANGED <<accepted, buffer, flushChan, writer, worker, closing, batch, storageVars, crashes>>

Close ==
  /\ phase = "stopping"
  /\ \A w \in Writers : writer[w] = "idle"
  /\ phase' = "closing"
  /\ UNCHANGED <<accepted, buffer, flushChan, writer, worker, closing, batch, storageVars, crashes>>

StorageClose ==
  /\ phase = "closing" /\ worker = "done"
  /\ phase' = "closed"
  /\ \E n \in 0..Len(written) :
       /\ bufErr => n = 0
       /\ BreakOff(written, n)
       /\ lost' = lost \cup Entries(SubSeq(written, n + 1, Len(written)))
       /\ bufErr' = (bufErr \/ n < Len(written))
  /\ written' = <<>>
  /\ UNCHANGED <<accepted, buffer, flushChan, writer, worker, closing, batch, index, crashes>>

(* The process dies, perhaps in the middle of a write, and is started      *)
(* again: the file is opened for append, all else is new.                  *)
Crash ==
  /\ crashes < MaxCrashes
  /\ crashes' = crashes + 1
  /\ \E n \in 0..Len(written \o batch) :
       /\ bufErr \/ worker # "write" => n = 0
       /\ BreakOff(written \o batch, n)
       /\ lost' = lost \cup Entries(SubSeq(written \o batch, n + 1, Len(written \o batch)) \o buffer)
  /\ buffer' = <<>> /\ batch' = <<>> /\ written' = <<>>
  /\ flushChan' = FALSE /\ closing' = FALSE
  /\ writer' = [w \in Writers |-> "idle"]
  /\ worker' = "select"
  /\ index' = <<>> /\ bufErr' = FALSE
  /\ phase' = "serving"
  /\ UNCHANGED accepted

Next ==
  \/ \E w \in Writers : writeEntry(w) \/ Notify(w)
  \/ Tick \/ Notified \/ Closed \/ Swap \/ WriteBatch \/ MarshalFails \/ WriteBatchFails
  \/ GracefulStop \/ Close \/ StorageClose
  \/ Crash

Spec == Init /\ [][Next]_vars

(* The scheduler runs the worker and the handlers, the ticker ticks, and   *)
(* of the ready cases of the select each is chosen sooner or later.  No    *)
(* client holds a stream (a health watch, reflection) open for ever, so    *)
(* that GracefulStop returns.                                              *)
FairSpec ==
  /\ Spec
  /\ \A w \in Writers : WF_vars(Notify(w))
  /\ WF_vars(Tick) /\ SF_vars(Closed)
  /\ WF_vars(Swap) /\ WF_vars(WriteBatch \/ MarshalFails \/ WriteBatchFails)
  /\ WF_vars(Close) /\ WF_vars(StorageClose)
-----------------------------------------------------------------------------
(* No lost wakeup: a full buffer is always on its way to the file, with a  *)
(* token in the channel, a writer about to put one, or the worker about to *)
(* take the buffer.  The send that does not wait may be skipped, and the   *)
(* token may be one for an earlier batch.                                  *)
NoLostWakeup ==
  Len(buffer) >= BufferSize =>
    flushChan \/ worker = "swap" \/ \E w \in Writers : writer[w] = "notify"

(* The buffer, the batch, the bufio.Writer and the file implement the      *)
(* append-only log of AuditLog: an accepted entry is in one place, is      *)
(* never overtaken nor written twice, and the file is only appended to,    *)
(* across entries that cannot be encoded, disk errors, crashes and         *)
(* restarts.                                                               *)
Log == INSTANCE AuditLog WITH waiting <- written \o batch \o buffer, log <- file, gone <- lost, next <- accepted + 1

ImplementsLog == Log!LogSpec

(* A crash in the middle of a line spoils at most one entry of the next    *)
(* process, the one glued to it: the lines after that stand for themselves *)
(* again, and an error in the same process is not followed by more lines.  *)
OneGluedPerCrash == Cardinality(glued) <= crashes

(* A shutdown leaves nothing behind: once the storage is closed, what was  *)
(* accepted is in the file unless a crash or an error took it, the lines   *)
(* an earlier batch had left in the bufio.Writer included, and no handler  *)
(* can add to the buffer that nobody empties any more.                     *)
ShutdownFlushes ==
  phase = "closed" =>
    /\ Entries(file) \cup lost = Entry
    /\ buffer = <<>> /\ \A w \in Writers : writer[w] = "idle"

(* What a query sees is the end of the log, of the lines in the file and   *)
(* of those still in the bufio.Writer, as long as no disk write failed,    *)
(* also when batches were given up half-way; and not more than maxSize     *)
(* entries, unless such a batch left lines behind it.                      *)
IndexIsLogTail ==
  ~bufErr => \E i \in 1..Len(file \o written) + 1 :
    /\ index = SubSeq(file \o written, i, Len(file \o written))
    /\ written = <<>> /\ phase # "closed" => Len(index) <= maxSize

(* Every accepted entry reaches the file, or is lost to an error or crash, *)
(* or is in the bufio.Writer behind a batch that was given up, where it    *)
(* may stay until the next batch or the shutdown.                          *)
EventuallyStored ==
  \A e \in 1..MaxEntries : e <= accepted ~> e \in Entries(file \o written) \cup lost

(* A shutdown comes to an end, unless the process dies before.             *)
ShutdownEnds == phase = "stopping" ~> phase \in {"closed", "serving"}
==============================================================================
