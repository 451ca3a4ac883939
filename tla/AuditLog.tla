------------------------------ MODULE AuditLog ------------------------------
(* What the audit service promises of the entries it accepts: each is       *)
(* settled once, by being put at the end of the log, in the order of        *)
(* acceptance, or by being lost; the log is never rewritten.  How they wait *)
(* (buffer, batch, bufio.Writer), and what makes one get lost (an entry     *)
(* that cannot be encoded, a disk error, a crash), is the business of       *)
(* AuditPipeline, which implements this.                                    *)
EXTENDS Naturals, Sequences

VARIABLES
  waiting,   \* accepted entries that are not settled, in order
  log,       \* the log
  gone,      \* lost entries
  next       \* the number of the next entry

logVars == <<waiting, log, gone, next>>

LogInit == waiting = <<>> /\ log = <<>> /\ gone = {} /\ next = 1

Accept ==
  /\ waiting' = Append(waiting, next)
  /\ next' = next + 1
  /\ UNCHANGED <<log, gone>>

(* The first n entries go to the log; those behind k, up to m, are lost,    *)
(* while the ones between go on waiting.                                    *)
Settle(n, k, m) ==
  /\ log' = log \o SubSeq(waiting, 1, n)
  /\ gone' = gone \cup {waiting[i] : i \in k + 1..m}
  /\ waiting' = SubSeq(waiting, n + 1, k) \o SubSeq(waiting, m + 1, Len(waiting))
  /\ UNCHANGED next

LogNext ==
  \/ Accept
  \/ \E m \in 0..Len(waiting) : \E k \in 0..m : \E n \in 0..k : Settle(n, k, m)

LogSpec == LogInit /\ [][LogNext]_logVars
==============================================================================
