------------------------------ MODULE BatchPool ------------------------------
(***************************************************************************)
(* The batch operations of the crypto and the tokenize service: a handler  *)
(* submits one task per item to the service's worker pool, which all calls *)
(* share, waits on a WaitGroup of its own and answers with the results in  *)
(* the order of the items.  Each service has one pool; "Kinds" says which  *)
(* service this is.                                                        *)
(*                                                                         *)
(* An item is its position in the batch, and its reference the pair of the *)
(* call and that position.  Key versions come from the Lock service, whose *)
(* latest version other clients rotate meanwhile; a cached version may be  *)
(* an older one.                                                           *)
(***************************************************************************)
EXTENDS Naturals, Sequences

CONSTANTS
  Kinds,         \* {"EncryptBatch", "DecryptBatch"} or {"FPEBatch"}
  Callers,       \* concurrent gRPC handlers
  Workers,       \* the goroutines of the pool
  MaxItems,      \* bound: items of one batch
  MaxVersions    \* bound: versions of the key

ASSUME BatchAssumption == MaxItems \in Nat /\ MaxVersions \in Nat \ {0}

VARIABLES
  server,   \* "serving", "stopping" or "exited"
  latest,   \* the Lock service's latest version of the key
  call,     \* call[c]: where handler c is
  wg,       \* wg[c]: the counter of its WaitGroup
  results,  \* results[c]: its slice of results
  queue,    \* the pool's task queue
  worker    \* worker[w]: the task w runs, or NoTask

vars == <<server, latest, call, wg, results, queue, worker>>

Phases == {"idle", "key", "submit", "wait", "answered"}

Idle == [phase |-> "idle", kind |-> "none", n |-> 0, next |-> 1, version |-> 0]

Task == [caller : Callers, item : 1..MaxItems]

NoTask == [caller |-> "none", item |-> 0]

(* The zero value of a result: no reference, no version and no error. *)
Zero == [ref |-> NoTask, version |-> 0, ok |-> TRUE]

Zeros == [i \in 1..MaxItems |-> Zero]

PoolTypeOK ==
  /\ server \in {"serving", "stopping", "exited"}
  /\ latest \in 1..MaxVersions
  /\ call \in [Callers -> [phase : Phases, kind : Kinds \cup {"none"}, n : 0..MaxItems,
                           next : 1..(MaxItems + 1), version : 0..MaxVersions]]
  /\ wg \in [Callers -> 0..MaxItems]
  /\ results \in [Callers -> [1..MaxItems ->
       [ref : Task \cup {NoTask}, version : 0..MaxVersions, ok : BOOLEAN]]]
  /\ queue \in Seq(Task)
  /\ worker \in [Workers -> Task \cup {NoTask}]

Init ==
  /\ server = "serving"
  /\ latest = 1
  /\ call = [c \in Callers |-> Idle]
  /\ wg = [c \in Callers |-> 0]
  /\ results = [c \in Callers |-> Zeros]
  /\ queue = <<>>
  /\ worker = [w \in Workers |-> NoTask]
-----------------------------------------------------------------------------
(* A handler accepts a batch of n items (an empty one is refused). *)
Accept(c, kind, n, phase) ==
  /\ server = "serving"
  /\ kind \in Kinds
  /\ call[c] = Idle
  /\ call' = [call EXCEPT ![c] = [Idle EXCEPT !.phase = phase, !.kind = kind, !.n = n]]
  /\ results' = [results EXCEPT ![c] = Zeros]
  /\ UNCHANGED <<server, latest, wg, queue, worker>>

(* EncryptBatch fetches the key once, before the first item. *)
EncryptBatch(c, n) == Accept(c, "EncryptBatch", n, "key")

(* DecryptBatch leaves the key to each item, whose ciphertext names it. *)
DecryptBatch(c, n) == Accept(c, "DecryptBatch", n, "submit")

(* FPEEncryptBatch and FPEDecryptBatch differ in the direction only. *)
FPEBatch(c, n) == Accept(c, "FPEBatch", n, "key")

Reference(c, i) == [caller |-> c, item |-> i]

(* getKey delivered version v.  0 stands for a key and an alphabet that    *)
(* newCipher refuses, in every task of the call: no result carries their   *)
(* version.                                                                *)
KeyArrives(c, v) ==
  /\ call[c].phase = "key"
  /\ call' = [call EXCEPT ![c].phase = "submit", ![c].version = v]
  /\ UNCHANGED <<server, latest, wg, results, queue, worker>>

(* getKey, or the lookup of the alphabet, failed: every item gets the      *)
(* error and no task is submitted.                                         *)
KeyFails(c) ==
  /\ call[c].phase = "key"
  /\ call' = [call EXCEPT ![c].phase = "answered"]
  /\ results' = [results EXCEPT ![c] = [i \in 1..MaxItems |->
       IF i <= call[c].n THEN [ref |-> Reference(c, i), version |-> 0, ok |-> FALSE] ELSE Zero]]
  /\ UNCHANGED <<server, latest, wg, queue, worker>>

(* wg.Add and Submit for the next item; Submit never blocks. *)
Submit(c) ==
  /\ call[c].phase = "submit"
  /\ call[c].next <= call[c].n
  /\ wg' = [wg EXCEPT ![c] = @ + 1]
  /\ queue' = Append(queue, Reference(c, call[c].next))
  /\ call' = [call EXCEPT ![c].next = @ + 1]
  /\ UNCHANGED <<server, latest, results, worker>>

Submitted(c) ==
  /\ call[c].phase = "submit"
  /\ call[c].next > call[c].n
  /\ call' = [call EXCEPT ![c].phase = "wait"]
  /\ UNCHANGED <<server, latest, wg, results, queue, worker>>

(* The pool hands the oldest task to an idle worker. *)
Dispatch(w) ==
  /\ worker[w] = NoTask
  /\ queue # <<>>
  /\ worker' = [worker EXCEPT ![w] = Head(queue)]
  /\ queue' = Tail(queue)
  /\ UNCHANGED <<server, latest, call, wg, results>>

(* The end of a task: its result is stored and wg.Done called, whether the *)
(* item succeeded or not.                                                  *)
Done(w, version, ok) ==
  LET t == worker[w] IN
  /\ results' = [results EXCEPT ![t.caller][t.item] =
       [ref |-> t, version |-> version, ok |-> ok]]
  /\ wg' = [wg EXCEPT ![t.caller] = @ - 1]
  /\ worker' = [worker EXCEPT ![w] = NoTask]
  /\ UNCHANGED <<server, latest, call, queue>>

Runs(w, kind) == worker[w] # NoTask /\ call[worker[w].caller].kind = kind

(* newCipher accepts the key of the handler's call. *)
NewCipher(w) == call[worker[w].caller].version # 0

(* The result carries the version of the key, also when Encrypt fails, but *)
(* not when newCipher does.                                                *)
EncryptItem(w, ok) ==
  /\ Runs(w, "EncryptBatch")
  /\ ok => NewCipher(w)
  /\ Done(w, call[worker[w].caller].version, ok)

(* The item's own Decrypt: it fetches the version its ciphertext names,    *)
(* any version the key has, and fails, without a version, when that or the *)
(* decryption fails.                                                       *)
DecryptItem(w, v, ok) ==
  /\ Runs(w, "DecryptBatch")
  /\ Done(w, IF ok THEN v ELSE 0, ok)

(* Faulty: an item that fails is submitted again. *)
FPEItemRetries(w, ok) ==
  /\ Runs(w, "FPEBatch")
  /\ ok => NewCipher(w)
  /\ \/ ok /\ Done(w, call[worker[w].caller].version, ok)
     \/ /\ ~ok
        /\ queue' = Append(queue, worker[w])
        /\ worker' = [worker EXCEPT ![w] = NoTask]
        /\ UNCHANGED <<server, latest, call, wg, results>>

FPEItem(w, ok) ==
  /\ Runs(w, "FPEBatch")
  /\ ok => NewCipher(w)
  /\ Done(w, call[worker[w].caller].version, ok)

(* Faulty: the handler goes on while one task is still out. *)
WaitOffByOne(c) ==
  /\ call[c].phase = "wait"
  /\ wg[c] <= 1
  /\ call' = [call EXCEPT ![c].phase = "answered"]
  /\ UNCHANGED <<server, latest, wg, results, queue, worker>>

(* wg.Wait returns. *)
Wait(c) ==
  /\ call[c].phase = "wait"
  /\ wg[c] = 0
  /\ call' = [call EXCEPT ![c].phase = "answered"]
  /\ UNCHANGED <<server, latest, wg, results, queue, worker>>

(* The handler returns the converted results and forgets them. *)
Respond(c) ==
  /\ call[c].phase = "answered"
  /\ call' = [call EXCEPT ![c] = Idle]
  /\ results' = [results EXCEPT ![c] = Zeros]
  /\ UNCHANGED <<server, latest, wg, queue, worker>>

RotateKey ==
  /\ latest < MaxVersions
  /\ latest' = latest + 1
  /\ UNCHANGED <<server, call, wg, results, queue, worker>>

(* On a signal the server takes no more calls ... *)
GracefulStop ==
  /\ server = "serving"
  /\ server' = "stopping"
  /\ UNCHANGED <<latest, call, wg, results, queue, worker>>

(* ... and main ends when the handlers have returned.  The pool itself is  *)
(* not stopped: main never calls Close.                                    *)
Exit ==
  /\ server = "stopping"
  /\ \A c \in Callers : call[c] = Idle
  /\ server' = "exited"
  /\ UNCHANGED <<latest, call, wg, results, queue, worker>>

(* The process is started again. *)
Start ==
  /\ server = "exited"
  /\ server' = "serving"
  /\ queue' = <<>>
  /\ worker' = [w \in Workers |-> NoTask]
  /\ UNCHANGED <<latest, call, wg, results>>

Work(w) ==
  \E ok \in BOOLEAN :
    \/ EncryptItem(w, ok)
    \/ FPEItem(w, ok)
    \/ \E v \in 1..latest : DecryptItem(w, v, ok)

Proceed(c) ==
  \/ KeyFails(c)
  \/ \E v \in 0..latest : KeyArrives(c, v)
  \/ Submit(c)
  \/ Submitted(c)
  \/ Wait(c)
  \/ Respond(c)

Next ==
  \/ \E c \in Callers, n \in 1..MaxItems :
       EncryptBatch(c, n) \/ DecryptBatch(c, n) \/ FPEBatch(c, n)
  \/ \E c \in Callers : Proceed(c)
  \/ \E w \in Workers : Dispatch(w) \/ Work(w)
  \/ RotateKey
  \/ GracefulStop
  \/ Exit
  \/ Start

Spec == Init /\ [][Next]_vars

(* The scheduler runs every handler and worker that can go on, and every   *)
(* request to the Lock service is answered sooner or later.  GracefulStop  *)
(* also waits for streams of the health and the reflection service: that   *)
(* no client holds one open for ever is assumed.                           *)
FairSpec ==
  /\ Spec
  /\ \A c \in Callers : WF_vars(Proceed(c))
  /\ \A w \in Workers : WF_vars(Dispatch(w)) /\ WF_vars(Work(w))
  /\ WF_vars(Exit)
-----------------------------------------------------------------------------
(* An answer holds one filled result for each item, at the item's place:   *)
(* wg.Wait returns after the last task has stored its result, and no task  *)
(* of this or another call writes elsewhere.  An unfilled result would     *)
(* read as a success with an empty text, as its zero Error is nil.  The    *)
(* items of an encrypting (or format-preserving) batch that succeed all    *)
(* used the key fetched at its start, also when the key is rotated while   *)
(* they wait in the queue ("3. Get key (once)", docs/03).                  *)
AnswersComplete ==
  \A c \in Callers :
    call[c].phase = "answered" =>
      /\ \A i \in 1..MaxItems :
           results[c][i].ref = IF i <= call[c].n THEN Reference(c, i) ELSE NoTask
      /\ \A i \in 1..call[c].n :
           results[c][i].ok /\ call[c].kind # "DecryptBatch" =>
             results[c][i].version = call[c].version

(* Every batch is answered, with a pool smaller than the batch and other   *)
(* calls feeding it all the time: tasks wait for no other task, and every  *)
(* way out of a task calls wg.Done.                                        *)
BatchesAnswered ==
  \A c \in Callers : call[c].phase = "submit" ~> call[c].phase = "idle"

(* A graceful stop comes to its end. *)
StopEnds == server = "stopping" ~> server = "exited"
==============================================================================
