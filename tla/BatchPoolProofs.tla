--------------------------- MODULE BatchPoolProofs ---------------------------
(***************************************************************************)
(* A batch is answered with one filled result for each of its items, for   *)
(* any number of handlers and workers and batches of any length.           *)
(*                                                                         *)
(* The argument counts.  A task is out while it is in the queue or with a  *)
(* worker, in one of these places only, and the counter of the WaitGroup   *)
(* is the number of the call's tasks that are out.  The results of a call  *)
(* are filled exactly for the items submitted and not out, so that a       *)
(* counter of zero, once all items are submitted, means a complete answer. *)
(***************************************************************************)
EXTENDS BatchPool, FiniteSetTheorems, SequenceTheorems, TLAPS

CallRecord ==
  [phase : Phases, kind : Kinds \cup {"none"}, n : 0..MaxItems, next : 1..(MaxItems + 1), version : 0..MaxVersions]

Result == [ref : Task \cup {NoTask}, version : 0..MaxVersions, ok : BOOLEAN]

PoolTypes ==
  /\ server \in {"serving", "stopping", "exited"}
  /\ latest \in 1..MaxVersions
  /\ call \in [Callers -> CallRecord]
  /\ results \in [Callers -> [1..MaxItems -> Result]]
  /\ queue \in Seq(Task)
  /\ worker \in [Workers -> Task \cup {NoTask}]

Queued(s, t) == \E q \in 1..Len(s) : s[q] = t

(* The items of call c that are out. *)
Out(s, k, c) ==
  {i \in 1..MaxItems : Queued(s, Reference(c, i)) \/ \E w \in Workers : k[w] = Reference(c, i)}

(* No task is in two places. *)
OnePlace(s, k) ==
  /\ \A p, q \in 1..Len(s) : s[p] = s[q] => p = q
  /\ \A v, w \in Workers : k[v] = k[w] /\ k[v] # NoTask => v = w
  /\ \A w \in Workers : k[w] # NoTask => ~Queued(s, k[w])

(* The workers l are those of k, but for w, which has task t. *)
Handed(k, l, w, t) ==
  /\ l \in [Workers -> Task \cup {NoTask}]
  /\ l[w] = t
  /\ \A v \in Workers \ {w} : l[v] = k[v]

(* The result of item i of call c, a call as in r. *)
Filled(c, i, r, result) ==
  /\ result.ref = Reference(c, i)
  /\ result.ok /\ r.kind # "DecryptBatch" => result.version = r.version

Answered(c, r, res) ==
  /\ \A i \in 1..MaxItems : res[i].ref = IF i <= r.n THEN Reference(c, i) ELSE NoTask
  /\ \A i \in 1..r.n : res[i].ok /\ r.kind # "DecryptBatch" => res[i].version = r.version

(* Call c is as in r, has the results res and the items in out are out. *)
CallInv(c, r, res, out) ==
  /\ r.next <= r.n + 1
  /\ out \subseteq 1..(r.next - 1)
  /\ r.phase \notin {"submit", "wait"} => out = {}
  /\ r.phase = "wait" => r.next = r.n + 1
  /\ r.phase = "key" => r.next = 1 /\ res = Zeros
  /\ r.phase \in {"submit", "wait"} =>
       \A i \in 1..MaxItems :
         /\ i < r.next /\ i \notin out => Filled(c, i, r, res[i])
         /\ i >= r.next => res[i].ref = NoTask
  /\ r.phase = "answered" => Answered(c, r, res)

PoolInv ==
  /\ PoolTypes
  /\ OnePlace(queue, worker)
  /\ \A c \in Callers : wg[c] = Cardinality(Out(queue, worker, c))
  /\ wg \in [Callers -> Nat]
  /\ \A c \in Callers : CallInv(c, call[c], results[c], Out(queue, worker, c))
  /\ server = "exited" => \A c \in Callers : call[c].phase = "idle"
-----------------------------------------------------------------------------
LEMMA NoTaskIsNone == NoTask \notin Task
  BY BatchAssumption DEF NoTask, Task

LEMMA ReferenceTask ==
  ASSUME NEW c \in Callers, NEW i \in 1..MaxItems
  PROVE  /\ Reference(c, i) \in Task /\ Reference(c, i) # NoTask
         /\ \A d \in Callers, j \in 1..MaxItems : Reference(c, i) = Reference(d, j) => c = d /\ i = j
<1>1. Reference(c, i) \in Task
  BY DEF Reference, Task
<1>2. \A d \in Callers, j \in 1..MaxItems : Reference(c, i) = Reference(d, j) => c = d /\ i = j
  BY DEF Reference
<1> QED
  BY <1>1, <1>2, NoTaskIsNone

LEMMA TaskReference ==
  ASSUME NEW t \in Task
  PROVE  t.caller \in Callers /\ t.item \in 1..MaxItems /\ t = Reference(t.caller, t.item)
  BY DEF Task, Reference

LEMMA OutFinite ==
  ASSUME NEW s, NEW k, NEW c
  PROVE  IsFiniteSet(Out(s, k, c)) /\ Cardinality(Out(s, k, c)) \in Nat
<1>1. IsFiniteSet(1..MaxItems)
  BY BatchAssumption, FS_Interval
<1>2. Out(s, k, c) \in SUBSET (1..MaxItems)
  BY DEF Out
<1> QED
  BY <1>1, <1>2, FS_Subset, FS_CardinalityType, Zenon

(* What is queued after one more was appended, and after the first left. *)
LEMMA QueuedAppend ==
  ASSUME NEW s \in Seq(Task), NEW t \in Task
  PROVE  /\ Append(s, t) \in Seq(Task)
         /\ \A u : Queued(Append(s, t), u) <=> Queued(s, u) \/ u = t
         /\ (\A p, q \in 1..Len(s) : s[p] = s[q] => p = q) /\ ~Queued(s, t) =>
              \A p, q \in 1..Len(Append(s, t)) : Append(s, t)[p] = Append(s, t)[q] => p = q
<1> DEFINE a == Append(s, t)
<1>1. /\ a \in Seq(Task) /\ Len(a) = Len(s) + 1 /\ Len(s) \in Nat
      /\ \A j \in 1..Len(s) : a[j] = s[j]
      /\ a[Len(s) + 1] = t
  OBVIOUS
<1> HIDE DEF a
<1>2. \A j \in 1..Len(a) : j \in 1..Len(s) \/ j = Len(s) + 1
  BY <1>1
<1>3. \A j \in 1..Len(s) : j \in 1..Len(a)
  BY <1>1
<1>4. Len(s) + 1 \in 1..Len(a)
  BY <1>1
<1>5. ASSUME NEW u PROVE Queued(a, u) <=> Queued(s, u) \/ u = t
  BY <1>1, <1>2, <1>3, <1>4 DEF Queued
<1>6. ASSUME \A p, q \in 1..Len(s) : s[p] = s[q] => p = q, ~Queued(s, t),
             NEW p \in 1..Len(a), NEW q \in 1..Len(a), a[p] = a[q]
      PROVE  p = q
  BY <1>1, <1>2, <1>6 DEF Queued
<1> QED
  BY <1>1, <1>5, <1>6 DEF a

LEMMA QueuedTail ==
  ASSUME NEW s \in Seq(Task), s # <<>>
  PROVE  /\ Tail(s) \in Seq(Task) /\ Head(s) \in Task
         /\ \A u : Queued(s, u) <=> Queued(Tail(s), u) \/ u = Head(s)
         /\ (\A p, q \in 1..Len(s) : s[p] = s[q] => p = q) =>
              /\ \A p, q \in 1..Len(Tail(s)) : Tail(s)[p] = Tail(s)[q] => p = q
              /\ ~Queued(Tail(s), Head(s))
<1> DEFINE a == Tail(s)
<1>1. /\ a \in Seq(Task) /\ Len(a) = Len(s) - 1 /\ Len(s) \in Nat /\ Len(s) > 0 /\ Len(a) \in Nat
      /\ Head(s) = s[1] /\ Head(s) \in Task
  OBVIOUS
<1>2. \A j \in 1..Len(a) : a[j] = s[j + 1]
  BY HeadTailProperties
<1> HIDE DEF a
<1>3. \A j \in 1..Len(a) : j + 1 \in 1..Len(s) /\ j + 1 # 1
  BY <1>1
<1>4. ASSUME NEW j \in 1..Len(s), j # 1 PROVE \E i \in 1..Len(a) : a[i] = s[j]
  <2>1. j - 1 \in 1..Len(a) /\ (j - 1) + 1 = j
    BY <1>1, <1>4
  <2> QED
    BY <1>2, <2>1, Zenon
<1>5. 1 \in 1..Len(s)
  BY <1>1
<1>6. ASSUME NEW u PROVE Queued(s, u) <=> Queued(a, u) \/ u = Head(s)
  <2>1. Queued(s, u) => Queued(a, u) \/ u = Head(s)
    BY <1>1, <1>4, SMTT(30) DEF Queued
  <2>2. Queued(a, u) => Queued(s, u)
    BY <1>2, <1>3 DEF Queued
  <2>3. Queued(s, Head(s))
    BY <1>1, <1>5 DEF Queued
  <2> QED
    BY <2>1, <2>2, <2>3
<1>7. ASSUME \A p, q \in 1..Len(s) : s[p] = s[q] => p = q
      PROVE  /\ \A p, q \in 1..Len(a) : a[p] = a[q] => p = q
             /\ ~Queued(a, Head(s))
  <2>1. ASSUME NEW p \in 1..Len(a), NEW q \in 1..Len(a), a[p] = a[q] PROVE p = q
    <3>1. p + 1 = q + 1
      BY <1>2, <1>3, <1>7, <2>1
    <3> QED
      BY <3>1
  <2>2. ~Queued(a, Head(s))
    BY <1>1, <1>2, <1>3, <1>5, <1>7 DEF Queued
  <2> QED
    BY <2>1, <2>2
<1> QED
  BY <1>1, <1>6, <1>7 DEF a
-----------------------------------------------------------------------------
(* A submitted task is one more of its call's that is out. *)
LEMMA SubmitOut ==
  ASSUME NEW s \in Seq(Task), NEW k \in [Workers -> Task \cup {NoTask}],
         NEW c \in Callers, NEW i \in 1..MaxItems, i \notin Out(s, k, c), OnePlace(s, k)
  PROVE  LET a == Append(s, Reference(c, i)) IN
         /\ a \in Seq(Task)
         /\ OnePlace(a, k)
         /\ Out(a, k, c) = Out(s, k, c) \cup {i}
         /\ Cardinality(Out(a, k, c)) = Cardinality(Out(s, k, c)) + 1
         /\ \A d \in Callers \ {c} : Out(a, k, d) = Out(s, k, d)
<1> DEFINE t == Reference(c, i)
           a == Append(s, t)
<1>1. t \in Task /\ t # NoTask
  BY ReferenceTask
<1>2. \A d \in Callers, j \in 1..MaxItems : t = Reference(d, j) => c = d /\ i = j
  BY ReferenceTask
<1>3. ~Queued(s, t) /\ \A w \in Workers : k[w] # t
  BY DEF Out
<1> HIDE DEF t
<1>4. /\ a \in Seq(Task)
      /\ \A u : Queued(a, u) <=> Queued(s, u) \/ u = t
      /\ \A p, q \in 1..Len(a) : a[p] = a[q] => p = q
  BY <1>1, <1>3, QueuedAppend DEF OnePlace
<1> HIDE DEF a
<1>5. OnePlace(a, k)
  BY <1>3, <1>4 DEF OnePlace
<1>6. Out(a, k, c) = Out(s, k, c) \cup {i}
  BY <1>2, <1>4 DEF Out, t
<1>7. ASSUME NEW d \in Callers \ {c} PROVE Out(a, k, d) = Out(s, k, d)
  BY <1>2, <1>4 DEF Out
<1>8. Cardinality(Out(a, k, c)) = Cardinality(Out(s, k, c)) + 1
  BY <1>6, OutFinite, FS_AddElement, Zenon
<1> QED
  BY <1>4, <1>5, <1>6, <1>7, <1>8 DEF a, t

(* A task that goes from the queue to a worker is still out. *)
LEMMA DispatchOut ==
  ASSUME NEW s \in Seq(Task), NEW k \in [Workers -> Task \cup {NoTask}], OnePlace(s, k),
         NEW w \in Workers, k[w] = NoTask, s # <<>>,
         NEW l, Handed(k, l, w, Head(s))
  PROVE  /\ OnePlace(Tail(s), l)
         /\ \A c \in Callers : Out(Tail(s), l, c) = Out(s, k, c)
<1> DEFINE h == Head(s)
           a == Tail(s)
<1>1. /\ a \in Seq(Task) /\ h \in Task
      /\ \A u : Queued(s, u) <=> Queued(a, u) \/ u = h
      /\ \A p, q \in 1..Len(a) : a[p] = a[q] => p = q
      /\ ~Queued(a, h)
  BY QueuedTail DEF OnePlace
<1> HIDE DEF h, a
<1>2. l[w] = h /\ \A v \in Workers \ {w} : l[v] = k[v]
  BY DEF h, Handed
<1>3. Queued(s, h)
  BY <1>1
<1>4. \A v \in Workers : k[v] # h
  BY <1>1, <1>3, NoTaskIsNone DEF OnePlace
<1>5. \A u, v \in Workers : l[u] = l[v] /\ l[u] # NoTask => u = v
  BY <1>2, <1>4 DEF OnePlace
<1>6. \A v \in Workers : l[v] # NoTask => ~Queued(a, l[v])
  BY <1>1, <1>2 DEF OnePlace
<1>7. OnePlace(a, l)
  BY <1>1, <1>5, <1>6 DEF OnePlace
<1>8. ASSUME NEW c \in Callers PROVE Out(a, l, c) = Out(s, k, c)
  <2>1. ASSUME NEW i \in 1..MaxItems
        PROVE  (Queued(a, Reference(c, i)) \/ \E v \in Workers : l[v] = Reference(c, i)) <=>
               (Queued(s, Reference(c, i)) \/ \E v \in Workers : k[v] = Reference(c, i))
    <3>1. PICK r : r = Reference(c, i)
      OBVIOUS
    <3>2. r # NoTask
      BY <3>1, ReferenceTask
    <3>3. (\E v \in Workers : l[v] = r) <=> (\E v \in Workers : k[v] = r) \/ r = h
      BY <1>2, <3>2
    <3> QED
      BY <1>1, <3>1, <3>3
  <2> QED
    BY <2>1 DEF Out
<1> QED
  BY <1>7, <1>8 DEF a

(* A finished task is no longer out. *)
LEMMA DoneOut ==
  ASSUME NEW s \in Seq(Task), NEW k \in [Workers -> Task \cup {NoTask}], OnePlace(s, k),
         NEW w \in Workers, NEW c \in Callers, NEW i \in 1..MaxItems, k[w] = Reference(c, i),
         NEW l, Handed(k, l, w, NoTask)
  PROVE  /\ OnePlace(s, l)
         /\ i \in Out(s, k, c)
         /\ Out(s, l, c) = Out(s, k, c) \ {i}
         /\ Cardinality(Out(s, l, c)) = Cardinality(Out(s, k, c)) - 1
         /\ \A d \in Callers \ {c} : Out(s, l, d) = Out(s, k, d)
<1> DEFINE t == Reference(c, i)
<1>1. t \in Task /\ t # NoTask
  BY ReferenceTask
<1>2. \A d \in Callers, j \in 1..MaxItems : t = Reference(d, j) => c = d /\ i = j
  BY ReferenceTask
<1>r. \A d \in Callers, j \in 1..MaxItems : Reference(d, j) # NoTask
  BY ReferenceTask
<1>3. l[w] = NoTask /\ \A v \in Workers \ {w} : l[v] = k[v]
  BY DEF Handed
<1>4. OnePlace(s, l)
  BY <1>3 DEF OnePlace
<1>5. i \in Out(s, k, c)
  BY DEF Out
<1>6. k[w] = t
  OBVIOUS
<1>7. ~Queued(s, t) /\ \A v \in Workers : l[v] # t
  BY <1>1, <1>3, <1>6 DEF OnePlace
<1>8. i \notin Out(s, l, c)
  BY <1>7 DEF Out, t
<1> HIDE DEF t
<1>9. ASSUME NEW d \in Callers, NEW j \in 1..MaxItems, Reference(d, j) # t
      PROVE  j \in Out(s, l, d) <=> j \in Out(s, k, d)
  BY <1>3, <1>6, <1>9, <1>r DEF Out
<1>10. \A d \in Callers : Out(s, k, d) \subseteq 1..MaxItems /\ Out(s, l, d) \subseteq 1..MaxItems
  BY DEF Out
<1>11. ASSUME NEW d \in Callers \ {c} PROVE Out(s, l, d) = Out(s, k, d)
  BY <1>2, <1>9, <1>10, Zenon
<1>12. Out(s, l, c) = Out(s, k, c) \ {i}
  BY <1>2, <1>8, <1>9, <1>10
<1>13. Cardinality(Out(s, l, c)) = Cardinality(Out(s, k, c)) - 1
  <2>1. IsFiniteSet(Out(s, k, c))
    BY OutFinite
  <2>2. Cardinality(Out(s, k, c) \ {i}) = Cardinality(Out(s, k, c)) - 1
    BY ONLY <1>5, <2>1, FS_RemoveElement, Zenon
  <2> QED
    BY <1>12, <2>2
<1> QED
  BY <1>4, <1>5, <1>11, <1>12, <1>13
-----------------------------------------------------------------------------
LEMMA PoolInitInv == Init => PoolInv
<1> SUFFICES ASSUME Init PROVE PoolInv
  OBVIOUS
<1> USE BatchAssumption
<1>1. Idle \in CallRecord
  BY DEF Idle, CallRecord, Phases
<1>2. Zeros \in [1..MaxItems -> Result]
  BY DEF Zeros, Zero, Result
<1>3. PoolTypes
  BY <1>1, <1>2 DEF Init, PoolTypes
<1>4. ~ \E q \in 1..Len(queue) : TRUE
  BY DEF Init
<1>5. OnePlace(queue, worker)
  BY <1>4 DEF Init, OnePlace
<1>6. ASSUME NEW c \in Callers PROVE Out(queue, worker, c) = {}
  BY <1>4, ReferenceTask DEF Init, Out, Queued
<1>7. \A c \in Callers : wg[c] = Cardinality(Out(queue, worker, c))
  BY <1>6, FS_EmptySet, Zenon DEF Init
<1>8. wg \in [Callers -> Nat]
  BY DEF Init
<1>9. ASSUME NEW c \in Callers PROVE CallInv(c, call[c], results[c], Out(queue, worker, c))
  BY <1>6 DEF Init, CallInv, Idle
<1>10. server = "exited" => \A c \in Callers : call[c].phase = "idle"
  BY DEF Init
<1> QED
  BY <1>3, <1>5, <1>7, <1>8, <1>9, <1>10 DEF PoolInv

(* A step that leaves the tasks alone keeps the invariant when it keeps    *)
(* that of the one call it changes.                                        *)
LEMMA OneCallChanges ==
  ASSUME PoolInv, NEW c \in Callers, NEW r \in CallRecord, NEW res \in [1..MaxItems -> Result],
         call' = [call EXCEPT ![c] = r], results' = [results EXCEPT ![c] = res],
         server # "exited", UNCHANGED <<server, latest, wg, queue, worker>>,
         CallInv(c, r, res, Out(queue, worker, c))
  PROVE  PoolInv'
<1>1. /\ call' \in [Callers -> CallRecord] /\ call'[c] = r
      /\ \A d \in Callers \ {c} : call'[d] = call[d]
  BY DEF PoolInv, PoolTypes
<1>2. /\ results' \in [Callers -> [1..MaxItems -> Result]] /\ results'[c] = res
      /\ \A d \in Callers \ {c} : results'[d] = results[d]
  BY DEF PoolInv, PoolTypes
<1>3. PoolTypes'
  BY <1>1, <1>2 DEF PoolInv, PoolTypes
<1>4. ASSUME NEW d \in Callers PROVE CallInv(d, call'[d], results'[d], Out(queue, worker, d))
  BY <1>1, <1>2 DEF PoolInv
<1> QED
  BY <1>3, <1>4 DEF PoolInv

LEMMA AcceptKeepsInv ==
  ASSUME PoolInv, NEW c \in Callers, NEW n \in 1..MaxItems, NEW kind, NEW phase \in {"key", "submit"},
         Accept(c, kind, n, phase)
  PROVE  PoolInv'
<1> USE BatchAssumption
<1> DEFINE r == [Idle EXCEPT !.phase = phase, !.kind = kind, !.n = n]
<1>1. r \in CallRecord
  <2>1. Idle \in CallRecord
    BY DEF Idle, CallRecord, Phases
  <2>2. phase \in Phases /\ kind \in Kinds \cup {"none"} /\ n \in 0..MaxItems
    BY DEF Accept, Phases
  <2> QED
    BY <2>1, <2>2, Zenon DEF CallRecord
<1>2. r.phase = phase /\ r.n = n /\ r.next = 1
  BY DEF Idle
<1>3. Zeros \in [1..MaxItems -> Result] /\ \A i \in 1..MaxItems : Zeros[i].ref = NoTask
  BY DEF Zeros, Zero, Result
<1>4. Out(queue, worker, c) = {}
  BY DEF PoolInv, CallInv, Accept, Idle
<1>5. call' = [call EXCEPT ![c] = r]
  BY DEF Accept
<1> HIDE DEF r
<1>6. CallInv(c, r, Zeros, Out(queue, worker, c))
  BY <1>2, <1>3, <1>4 DEF CallInv
<1> QED
  BY <1>1, <1>3, <1>5, <1>6, OneCallChanges, Zenon DEF Accept

LEMMA KeyArrivesKeepsInv ==
  ASSUME PoolInv, NEW c \in Callers, NEW v \in 0..latest, KeyArrives(c, v)
  PROVE  PoolInv'
<1> USE BatchAssumption
<1> DEFINE r == [call[c] EXCEPT !.phase = "submit", !.version = v]
<1>0. /\ call \in [Callers -> CallRecord] /\ call[c] \in CallRecord /\ call[c].phase = "key"
      /\ latest \in 1..MaxVersions
      /\ CallInv(c, call[c], results[c], Out(queue, worker, c))
      /\ results \in [Callers -> [1..MaxItems -> Result]] /\ results[c] \in [1..MaxItems -> Result]
      /\ server # "exited"
  BY DEF PoolInv, PoolTypes, KeyArrives
<1>1. r \in CallRecord
  <2>1. "submit" \in Phases /\ v \in 0..MaxVersions
    BY <1>0 DEF Phases
  <2> QED
    BY <1>0, <2>1, Zenon DEF CallRecord
<1>2. r.phase = "submit" /\ r.n = call[c].n /\ r.next = call[c].next
  BY <1>0 DEF CallRecord
<1>3. call' = [call EXCEPT ![c] = r]
  BY <1>0, Zenon DEF KeyArrives, CallRecord
<1>4. results' = [results EXCEPT ![c] = results[c]]
  BY <1>0 DEF KeyArrives
<1>5. \A i \in 1..MaxItems : Zeros[i].ref = NoTask
  BY DEF Zeros, Zero
<1> HIDE DEF r
<1>6. CallInv(c, r, results[c], Out(queue, worker, c))
  BY <1>0, <1>2, <1>5 DEF CallInv, CallRecord
<1>7. UNCHANGED <<server, latest, wg, queue, worker>>
  BY DEF KeyArrives
<1> QED
  BY <1>0, <1>1, <1>3, <1>4, <1>6, <1>7, OneCallChanges, Zenon

LEMMA KeyFailsKeepsInv ==
  ASSUME PoolInv, NEW c \in Callers, KeyFails(c)
  PROVE  PoolInv'
<1> USE BatchAssumption
<1> DEFINE r == [call[c] EXCEPT !.phase = "answered"]
           Refused(i) == [ref |-> Reference(c, i), version |-> 0, ok |-> FALSE]
           res == [i \in 1..MaxItems |-> IF i <= call[c].n THEN Refused(i) ELSE Zero]
<1>0. /\ call \in [Callers -> CallRecord] /\ call[c] \in CallRecord /\ call[c].phase = "key"
      /\ CallInv(c, call[c], results[c], Out(queue, worker, c))
      /\ server # "exited"
  BY DEF PoolInv, PoolTypes, KeyFails
<1>1. r \in CallRecord /\ r.phase = "answered" /\ r.n = call[c].n /\ r.next = call[c].next
  BY <1>0 DEF CallRecord, Phases
<1>2. call' = [call EXCEPT ![c] = r]
  BY <1>0 DEF KeyFails, CallRecord
<1>3. results' = [results EXCEPT ![c] = res]
  BY DEF KeyFails
<1>4. \A i \in 1..MaxItems : Refused(i) \in Result /\ Refused(i).ref = Reference(c, i) /\ Refused(i).ok = FALSE
  BY ReferenceTask DEF Result
<1>5. Zero \in Result /\ Zero.ref = NoTask
  BY DEF Result, Zero
<1> HIDE DEF r, Refused
<1>6. res \in [1..MaxItems -> Result]
  BY <1>4, <1>5
<1>7. call[c].n \in 0..MaxItems
  BY <1>0 DEF CallRecord
<1>8. Answered(c, r, res)
  BY <1>1, <1>4, <1>5, <1>7 DEF Answered
<1> HIDE DEF res
<1>9. CallInv(c, r, res, Out(queue, worker, c))
  BY <1>0, <1>1, <1>8 DEF CallInv
<1>10. UNCHANGED <<server, latest, wg, queue, worker>>
  BY DEF KeyFails
<1> QED
  BY <1>0, <1>1, <1>2, <1>3, <1>6, <1>9, <1>10, OneCallChanges, Zenon

LEMMA SubmitKeepsInv ==
  ASSUME PoolInv, NEW c \in Callers, Submit(c)
  PROVE  PoolInv'
<1> USE BatchAssumption
<1>0. /\ call \in [Callers -> CallRecord] /\ call[c] \in CallRecord /\ call[c].phase = "submit"
      /\ CallInv(c, call[c], results[c], Out(queue, worker, c))
      /\ queue \in Seq(Task) /\ worker \in [Workers -> Task \cup {NoTask}] /\ OnePlace(queue, worker)
      /\ server # "exited"
  BY DEF PoolInv, PoolTypes, Submit
<1>i. PICK i \in 1..MaxItems : i = call[c].next
  BY <1>0 DEF Submit, CallRecord
<1>1. i \notin Out(queue, worker, c) /\ Out(queue, worker, c) \subseteq 1..(i - 1) /\ i <= call[c].n
  BY <1>0, <1>i DEF CallInv, Submit
<1>2. queue' = Append(queue, Reference(c, i))
  BY <1>i DEF Submit
<1>3. /\ queue' \in Seq(Task)
      /\ OnePlace(queue', worker)
      /\ Out(queue', worker, c) = Out(queue, worker, c) \cup {i}
      /\ Cardinality(Out(queue', worker, c)) = Cardinality(Out(queue, worker, c)) + 1
      /\ \A d \in Callers \ {c} : Out(queue', worker, d) = Out(queue, worker, d)
  BY <1>0, <1>1, <1>2, SubmitOut
<1>4. i + 1 \in 1..(MaxItems + 1)
  OBVIOUS
<1>5. /\ call' \in [Callers -> CallRecord]
      /\ call'[c] = [call[c] EXCEPT !.next = i + 1]
      /\ \A d \in Callers \ {c} : call'[d] = call[d]
  BY <1>0, <1>4, <1>i, Zenon DEF Submit, CallRecord
<1>6. /\ call'[c].phase = "submit" /\ call'[c].next = i + 1 /\ call'[c].n = call[c].n
      /\ call'[c].kind = call[c].kind /\ call'[c].version = call[c].version
  BY <1>0, <1>5 DEF CallRecord
<1>7. /\ wg' \in [Callers -> Nat] /\ wg'[c] = wg[c] + 1
      /\ \A d \in Callers \ {c} : wg'[d] = wg[d]
  BY DEF PoolInv, Submit
<1>8. ASSUME NEW d \in Callers PROVE wg'[d] = Cardinality(Out(queue', worker, d))
  BY <1>3, <1>7, Zenon DEF PoolInv
<1>9. UNCHANGED <<server, latest, results, worker>>
  BY DEF Submit
<1>10. CallInv(c, call'[c], results[c], Out(queue', worker, c))
  <2>1. Out(queue', worker, c) \subseteq 1..((i + 1) - 1)
    BY <1>1, <1>3
  <2>2. ASSUME NEW j \in 1..MaxItems, j < i + 1, j \notin Out(queue', worker, c)
        PROVE  Filled(c, j, call'[c], results[c][j])
    BY <1>0, <1>3, <1>6, <1>i, <2>2 DEF CallInv, Filled
  <2>3. ASSUME NEW j \in 1..MaxItems, j >= i + 1 PROVE results[c][j].ref = NoTask
    BY <1>0, <1>i, <2>3 DEF CallInv
  <2>4. i + 1 <= call'[c].n + 1
    BY <1>0, <1>1, <1>6 DEF CallRecord
  <2> QED
    BY <1>6, <2>1, <2>2, <2>3, <2>4 DEF CallInv
<1>11. ASSUME NEW d \in Callers PROVE CallInv(d, call'[d], results[d], Out(queue', worker, d))
  BY <1>3, <1>5, <1>10, Zenon DEF PoolInv
<1>12. PoolTypes'
  BY <1>3, <1>5, <1>9 DEF PoolInv, PoolTypes
<1> QED
  BY <1>0, <1>3, <1>7, <1>8, <1>9, <1>11, <1>12 DEF PoolInv

LEMMA SubmittedKeepsInv ==
  ASSUME PoolInv, NEW c \in Callers, Submitted(c)
  PROVE  PoolInv'
<1> USE BatchAssumption
<1> DEFINE r == [call[c] EXCEPT !.phase = "wait"]
<1>0. /\ call \in [Callers -> CallRecord] /\ call[c] \in CallRecord /\ call[c].phase = "submit"
      /\ CallInv(c, call[c], results[c], Out(queue, worker, c))
      /\ results \in [Callers -> [1..MaxItems -> Result]] /\ results[c] \in [1..MaxItems -> Result]
      /\ server # "exited"
  BY DEF PoolInv, PoolTypes, Submitted
<1>1. /\ r \in CallRecord /\ r.phase = "wait" /\ r.n = call[c].n /\ r.next = call[c].next
      /\ r.kind = call[c].kind /\ r.version = call[c].version
  BY <1>0, Zenon DEF CallRecord, Phases
<1>2. call' = [call EXCEPT ![c] = r]
  BY <1>0 DEF Submitted, CallRecord
<1>3. results' = [results EXCEPT ![c] = results[c]]
  BY <1>0 DEF Submitted
<1>4. call[c].next = call[c].n + 1
  BY <1>0 DEF CallInv, Submitted, CallRecord
<1> HIDE DEF r
<1>5. CallInv(c, r, results[c], Out(queue, worker, c))
  BY <1>0, <1>1, <1>4 DEF CallInv, Filled
<1>6. UNCHANGED <<server, latest, wg, queue, worker>>
  BY DEF Submitted
<1> QED
  BY <1>0, <1>1, <1>2, <1>3, <1>5, <1>6, OneCallChanges, Zenon

(* wg.Wait returns when none of the call's tasks is out: all are filled. *)
LEMMA WaitKeepsInv ==
  ASSUME PoolInv, NEW c \in Callers, Wait(c)
  PROVE  PoolInv'
<1> USE BatchAssumption
<1> DEFINE r == [call[c] EXCEPT !.phase = "answered"]
<1>0. /\ call \in [Callers -> CallRecord] /\ call[c] \in CallRecord /\ call[c].phase = "wait"
      /\ CallInv(c, call[c], results[c], Out(queue, worker, c))
      /\ results \in [Callers -> [1..MaxItems -> Result]] /\ results[c] \in [1..MaxItems -> Result]
      /\ server # "exited"
  BY DEF PoolInv, PoolTypes, Wait
<1>1. /\ r \in CallRecord /\ r.phase = "answered" /\ r.n = call[c].n /\ r.next = call[c].next
      /\ r.kind = call[c].kind /\ r.version = call[c].version
  BY <1>0, Zenon DEF CallRecord, Phases
<1>2. call' = [call EXCEPT ![c] = r]
  BY <1>0 DEF Wait, CallRecord
<1>3. results' = [results EXCEPT ![c] = results[c]]
  BY <1>0 DEF Wait
<1>4. Cardinality(Out(queue, worker, c)) = 0
  BY DEF PoolInv, Wait
<1>5. Out(queue, worker, c) = {}
  BY <1>4, OutFinite, FS_EmptySet
<1>6. call[c].next = call[c].n + 1 /\ call[c].n \in 0..MaxItems
  BY <1>0 DEF CallInv, CallRecord
<1> HIDE DEF r
<1>7. ASSUME NEW i \in 1..MaxItems
      PROVE  /\ i <= call[c].n => Filled(c, i, call[c], results[c][i])
             /\ ~(i <= call[c].n) => results[c][i].ref = NoTask
  BY <1>0, <1>5, <1>6 DEF CallInv
<1>8. Answered(c, r, results[c])
  BY <1>1, <1>6, <1>7 DEF Answered, Filled
<1>9. CallInv(c, r, results[c], Out(queue, worker, c))
  BY <1>0, <1>1, <1>5, <1>8 DEF CallInv
<1>10. UNCHANGED <<server, latest, wg, queue, worker>>
  BY DEF Wait
<1> QED
  BY <1>0, <1>1, <1>2, <1>3, <1>9, <1>10, OneCallChanges, Zenon

LEMMA RespondKeepsInv ==
  ASSUME PoolInv, NEW c \in Callers, Respond(c)
  PROVE  PoolInv'
<1> USE BatchAssumption
<1>0. /\ call[c].phase = "answered" /\ server # "exited"
      /\ CallInv(c, call[c], results[c], Out(queue, worker, c))
  BY DEF PoolInv, Respond
<1>1. Idle \in CallRecord /\ Idle.phase = "idle" /\ Idle.next = 1 /\ Idle.n = 0
  BY DEF Idle, CallRecord, Phases
<1>2. Zeros \in [1..MaxItems -> Result]
  BY DEF Zeros, Zero, Result
<1>3. CallInv(c, Idle, Zeros, Out(queue, worker, c))
  BY <1>0, <1>1 DEF CallInv
<1> QED
  BY <1>0, <1>1, <1>2, <1>3, OneCallChanges, Zenon DEF Respond

LEMMA DispatchKeepsInv ==
  ASSUME PoolInv, NEW w \in Workers, Dispatch(w)
  PROVE  PoolInv'
<1>0. /\ queue \in Seq(Task) /\ worker \in [Workers -> Task \cup {NoTask}] /\ OnePlace(queue, worker)
      /\ worker[w] = NoTask /\ queue # <<>>
  BY DEF PoolInv, PoolTypes, Dispatch
<1>d. worker' = [worker EXCEPT ![w] = Head(queue)] /\ queue' = Tail(queue)
  BY DEF Dispatch
<1>1. /\ queue' \in Seq(Task)
      /\ worker' \in [Workers -> Task \cup {NoTask}]
      /\ OnePlace(queue', worker')
      /\ \A c \in Callers : Out(queue', worker', c) = Out(queue, worker, c)
  <2>1. queue' \in Seq(Task) /\ Head(queue) \in Task
    BY <1>0, <1>d, QueuedTail
  <2>2. Handed(worker, worker', w, Head(queue))
    BY <1>0, <1>d, <2>1 DEF Handed
  <2>3. /\ OnePlace(Tail(queue), worker')
        /\ \A c \in Callers : Out(Tail(queue), worker', c) = Out(queue, worker, c)
    BY <1>0, <2>2, DispatchOut, Zenon
  <2> QED
    BY <1>d, <2>1, <2>2, <2>3, Zenon DEF Handed
<1>2. UNCHANGED <<server, latest, call, wg, results>>
  BY DEF Dispatch
<1>3. PoolTypes'
  BY <1>1, <1>2 DEF PoolInv, PoolTypes
<1> QED
  BY <1>1, <1>2, <1>3 DEF PoolInv

(* The result of a task is stored at its item, and only there. *)
LEMMA DoneKeepsInv ==
  ASSUME PoolInv, NEW w \in Workers, worker[w] # NoTask, NEW v \in 0..MaxVersions, NEW ok \in BOOLEAN,
         Done(w, v, ok),
         ok /\ call[worker[w].caller].kind # "DecryptBatch" => v = call[worker[w].caller].version
  PROVE  PoolInv'
<1> USE BatchAssumption
<1>0. /\ worker \in [Workers -> Task \cup {NoTask}] /\ queue \in Seq(Task) /\ OnePlace(queue, worker)
      /\ call \in [Callers -> CallRecord]
      /\ results \in [Callers -> [1..MaxItems -> Result]]
  BY DEF PoolInv, PoolTypes
<1>t. PICK t \in Task : t = worker[w]
  BY <1>0
<1>c. PICK c \in Callers, i \in 1..MaxItems : c = t.caller /\ i = t.item /\ t = Reference(c, i)
  BY TaskReference
<1>1. worker[w] = Reference(c, i)
  BY <1>t, <1>c
<1>2. /\ worker' \in [Workers -> Task \cup {NoTask}]
      /\ OnePlace(queue, worker')
      /\ i \in Out(queue, worker, c)
      /\ Out(queue, worker', c) = Out(queue, worker, c) \ {i}
      /\ Cardinality(Out(queue, worker', c)) = Cardinality(Out(queue, worker, c)) - 1
      /\ \A d \in Callers \ {c} : Out(queue, worker', d) = Out(queue, worker, d)
  <2>1. Handed(worker, worker', w, NoTask)
    BY <1>0 DEF Handed, Done
  <2>2. worker' \in [Workers -> Task \cup {NoTask}]
    BY <2>1 DEF Handed
  <2> QED
    BY <1>0, <1>1, <2>1, <2>2, DoneOut
<1> DEFINE x == [ref |-> t, version |-> v, ok |-> ok]
<1>3. x \in Result /\ x.ref = Reference(c, i) /\ x.version = v /\ x.ok = ok
  BY <1>c DEF Result
<1>4. results' = [results EXCEPT ![c][i] = x]
  BY <1>t, <1>c DEF Done
<1> HIDE DEF x
<1>5. /\ results' \in [Callers -> [1..MaxItems -> Result]]
      /\ \A d \in Callers \ {c} : results'[d] = results[d]
      /\ results'[c][i] = x
      /\ \A j \in 1..MaxItems : j # i => results'[c][j] = results[c][j]
  BY <1>0, <1>3, <1>4
<1>6. UNCHANGED <<server, latest, call, queue>>
  BY DEF Done
<1>7. /\ wg' = [wg EXCEPT ![c] = wg[c] - 1] /\ wg \in [Callers -> Nat]
      /\ wg[c] = Cardinality(Out(queue, worker, c))
  BY <1>t, <1>c DEF Done, PoolInv
<1>8. Cardinality(Out(queue, worker', c)) \in Nat
  BY OutFinite
<1>9. /\ wg' \in [Callers -> Nat]
      /\ \A d \in Callers : wg'[d] = Cardinality(Out(queue, worker', d))
  BY <1>2, <1>7, <1>8, Zenon DEF PoolInv
<1>10. CallInv(c, call[c], results'[c], Out(queue, worker', c))
  <2>0. /\ CallInv(c, call[c], results[c], Out(queue, worker, c)) /\ call[c] \in CallRecord
        /\ ok /\ call[c].kind # "DecryptBatch" => v = call[c].version
    BY <1>0, <1>t, <1>c DEF PoolInv
  <2>1. call[c].phase \in {"submit", "wait"} /\ i \in 1..(call[c].next - 1)
    BY <1>2, <2>0 DEF CallInv
  <2>2. Filled(c, i, call[c], results'[c][i])
    BY <1>3, <1>5, <2>0 DEF Filled
  <2>3. ASSUME NEW j \in 1..MaxItems, j < call[c].next, j \notin Out(queue, worker', c)
        PROVE  Filled(c, j, call[c], results'[c][j])
    <3>1. CASE j = i
      BY <2>2, <3>1
    <3>2. CASE j # i
      <4>1. Filled(c, j, call[c], results[c][j])
        BY <1>2, <2>0, <2>1, <2>3, <3>2 DEF CallInv
      <4> QED
        BY <1>5, <3>2, <4>1
    <3> QED
      BY <3>1, <3>2
  <2>4. ASSUME NEW j \in 1..MaxItems, j >= call[c].next PROVE results'[c][j].ref = NoTask
    <3>1. j # i
      BY <2>0, <2>1, <2>4 DEF CallRecord
    <3> QED
      BY <1>5, <2>0, <2>1, <2>4, <3>1 DEF CallInv
  <2> QED
    BY <1>2, <2>0, <2>1, <2>3, <2>4 DEF CallInv
<1>11. ASSUME NEW d \in Callers PROVE CallInv(d, call[d], results'[d], Out(queue, worker', d))
  BY <1>2, <1>5, <1>10, Zenon DEF PoolInv
<1>12. PoolTypes'
  BY <1>2, <1>5, <1>6 DEF PoolInv, PoolTypes
<1> QED
  BY <1>2, <1>6, <1>9, <1>11, <1>12 DEF PoolInv

LEMMA WorkKeepsInv ==
  ASSUME PoolInv, NEW w \in Workers, Work(w)
  PROVE  PoolInv'
<1> USE BatchAssumption
<1>1. ASSUME NEW ok \in BOOLEAN, EncryptItem(w, ok) \/ FPEItem(w, ok) PROVE PoolInv'
  <2>1. worker[w] # NoTask /\ Done(w, call[worker[w].caller].version, ok)
    BY <1>1 DEF EncryptItem, FPEItem, Runs
  <2>2. call[worker[w].caller].version \in 0..MaxVersions
    <3>1. worker[w] \in Task
      BY <2>1 DEF PoolInv, PoolTypes
    <3>2. worker[w].caller \in Callers
      BY <3>1, TaskReference
    <3> QED
      BY <3>2 DEF PoolInv, PoolTypes, CallRecord
  <2> QED
    BY <2>1, <2>2, DoneKeepsInv
<1>2. ASSUME NEW ok \in BOOLEAN, NEW v \in 1..latest, DecryptItem(w, v, ok) PROVE PoolInv'
  <2>1. PICK u \in 0..MaxVersions : u = IF ok THEN v ELSE 0
    BY DEF PoolInv, PoolTypes
  <2>2. worker[w] # NoTask /\ call[worker[w].caller].kind = "DecryptBatch" /\ Done(w, u, ok)
    BY <1>2, <2>1 DEF DecryptItem, Runs
  <2> QED
    BY <2>2, DoneKeepsInv
<1> QED
  BY <1>1, <1>2 DEF Work

(* Start empties the queue and the workers: nothing was out. *)
LEMMA StartKeepsInv ==
  ASSUME PoolInv, Start
  PROVE  PoolInv'
<1>1. ASSUME NEW c \in Callers PROVE Out(queue, worker, c) = {} /\ call[c].phase = "idle"
  BY DEF PoolInv, CallInv, Start
<1>2. ~ \E q \in 1..Len(queue') : TRUE
  BY DEF Start
<1>3. \A w \in Workers : worker'[w] = NoTask
  BY DEF Start
<1>4. queue' \in Seq(Task) /\ worker' \in [Workers -> Task \cup {NoTask}]
  BY DEF Start
<1>5. OnePlace(queue', worker')
  BY <1>2, <1>3 DEF OnePlace
<1>6. ASSUME NEW c \in Callers PROVE Out(queue', worker', c) = {}
  BY <1>2, <1>3, ReferenceTask DEF Out, Queued
<1>7. UNCHANGED <<latest, call, wg, results>> /\ server' = "serving"
  BY DEF Start
<1>8. PoolTypes'
  BY <1>4, <1>7 DEF PoolInv, PoolTypes
<1>9. \A c \in Callers : Out(queue', worker', c) = Out(queue, worker, c)
  BY <1>1, <1>6
<1> QED
  BY <1>5, <1>7, <1>8, <1>9 DEF PoolInv

LEMMA PoolStepInv == PoolInv /\ [Next]_vars => PoolInv'
<1> SUFFICES ASSUME PoolInv, [Next]_vars PROVE PoolInv'
  OBVIOUS
<1>1. ASSUME NEW c \in Callers, NEW n \in 1..MaxItems, EncryptBatch(c, n) \/ DecryptBatch(c, n) \/ FPEBatch(c, n)
      PROVE  PoolInv'
  BY <1>1, AcceptKeepsInv DEF EncryptBatch, DecryptBatch, FPEBatch
<1>2. ASSUME NEW c \in Callers, Proceed(c) PROVE PoolInv'
  BY <1>2, KeyArrivesKeepsInv, KeyFailsKeepsInv, SubmitKeepsInv, SubmittedKeepsInv, WaitKeepsInv, RespondKeepsInv
     DEF Proceed
<1>3. ASSUME NEW w \in Workers, Dispatch(w) \/ Work(w) PROVE PoolInv'
  BY <1>3, DispatchKeepsInv, WorkKeepsInv
<1>4. CASE RotateKey
  <2>1. UNCHANGED <<server, call, wg, results, queue, worker>> /\ latest' \in 1..MaxVersions
    BY <1>4, BatchAssumption DEF RotateKey, PoolInv, PoolTypes
  <2> QED
    BY <2>1 DEF PoolInv, PoolTypes
<1>5. CASE GracefulStop
  BY <1>5 DEF GracefulStop, PoolInv, PoolTypes
<1>6. CASE Exit
  <2>1. \A c \in Callers : call[c].phase = "idle"
    BY <1>6 DEF Exit, Idle
  <2> QED
    BY <1>6, <2>1 DEF Exit, PoolInv, PoolTypes
<1>7. CASE Start
  BY <1>7, StartKeepsInv
<1>8. CASE UNCHANGED vars
  BY <1>8 DEF vars, PoolInv, PoolTypes
<1> QED
  BY <1>1, <1>2, <1>3, <1>4, <1>5, <1>6, <1>7, <1>8 DEF Next

LEMMA PoolInvAnswers == PoolInv => AnswersComplete
  BY DEF PoolInv, CallInv, Answered, AnswersComplete

(* Every answer of EncryptBatch, DecryptBatch and the FPE batches holds    *)
(* the result of each of its items at the item's place, and the items that *)
(* succeed with a key fetched once used that version, for any number of    *)
(* calls sharing a pool of any size and across restarts.                   *)
THEOREM BatchesComplete == Spec => []AnswersComplete
  BY PoolInitInv, PoolStepInv, PoolInvAnswers, PTL DEF Spec
==============================================================================
