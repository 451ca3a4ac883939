------------------------- MODULE CryptoServiceProofs -------------------------
(***************************************************************************)
(* Proofs about the crypto service over the vault.                         *)
(*                                                                         *)
(* Every key the service has anywhere (in a ciphertext, in the cache, in a *)
(* request, in a call under way) is a copy of the key table M as it was    *)
(* when the keyring was last open.  M is not part of the state: the        *)
(* inductive invariant says that there is one.                             *)
(***************************************************************************)
EXTENDS CryptoService, HandlerProofs

(* "name:version" says which key and version are meant.  It does when no   *)
(* name contains the ":" itself.                                           *)
CacheKeysTell ==
  \A n1, n2 \in Names, v1, v2 \in Nat :
    cacheKey(n1, v1) = cacheKey(n2, v2) => n1 = n2 /\ v1 = v2

Entry == [k : {cacheKey(n, v) : n \in Names, v \in Nat}, info : Info]

(* What a request's fields, and the call it has in the vault, say. *)
JobShape(j, x) ==
  /\ j.op = "enc" => j.version = 0
  /\ \A c \in j.ct : c.name = j.name /\ c.version = j.version
  /\ j.at = "reply" /\ x.at = "marshal" =>
       x.name = j.name /\ (j.version > 0 => x.version = j.version)

(* The key it got is the one it asked for ... *)
JobCopy(M, s, j) ==
  j.at \in {"add", "done"} =>
    /\ Copy(M, s, j.name, j.info.version, j.info.key)
    /\ j.version > 0 => j.info.version = j.version

(* ... and, when it had to fetch it, no older than the latest at its start. *)
JobCurrent(s, latest, j, x) ==
  j.op = "enc" =>
    /\ j.at = "fetch" /\ ~s => j.floor <= latest
    /\ j.at = "reply" /\ x.at = "marshal" => j.floor <= x.version
    /\ j.at = "add" => j.floor <= j.info.version

EntryCopy(M, s, e) ==
  \A n \in Names, v \in Nat : e.k = cacheKey(n, v) =>
    /\ Copy(M, s, n, e.info.version, e.info.key)
    /\ v > 0 => e.info.version = v

CiphertextCopy(M, s, c) == Copy(M, s, c.name, c.version, c.key)

StoreCopies(M) ==
  /\ \A c \in ciphertexts : CiphertextCopy(M, krSealed, c)
  /\ \A i \in 1..Len(cache) : EntryCopy(M, krSealed, cache[i])

JobCopies(M) == \A w \in Workers : JobCopy(M, krSealed, job[w])

(* Everything the service has is a copy of M. *)
CryptoCopies(M) == TableKept(M) /\ CallCopies(Workers, M) /\ StoreCopies(M) /\ JobCopies(M)

StoreTypes ==
  /\ cache \in Seq(Entry) /\ Len(cache) <= CacheSize /\ CacheDistinct(cache)
  /\ ciphertexts \subseteq Ciphertext
  /\ lives \in 0..MaxLives

JobsInv ==
  /\ job \in [Workers -> Job]
  /\ \A w \in Workers : JobShape(job[w], call[w])
  /\ lives = 0 => \A w \in Workers : JobCurrent(krSealed, LatestVersion(job[w].name), job[w], call[w])

CryptoInv ==
  /\ HandlerInv /\ ClientCalls(Workers) /\ AllVersionsUsable
  /\ StoreTypes /\ JobsInv
  /\ lives = 0 => \E M : CryptoCopies(M)
-----------------------------------------------------------------------------
(* Names without ":" are sequences of one component. *)
LEMMA PlainNamesTell ==
  ASSUME NEW S, \A n \in Names : \E s \in S : n = <<s>>
  PROVE  CacheKeysTell
<1> SUFFICES ASSUME NEW n1 \in Names, NEW n2 \in Names, NEW v1 \in Nat, NEW v2 \in Nat,
                    cacheKey(n1, v1) = cacheKey(n2, v2)
             PROVE  n1 = n2 /\ v1 = v2
  BY DEF CacheKeysTell
<1> DEFINE T == S \cup Nat
           a1 == Append(n1, v1)
           a2 == Append(n2, v2)
<1>1. n1 \in Seq(T) /\ n2 \in Seq(T) /\ v1 \in T /\ v2 \in T
  <2>1. PICK s1 \in S, s2 \in S : n1 = <<s1>> /\ n2 = <<s2>>
    OBVIOUS
  <2>2. s1 \in T /\ s2 \in T /\ v1 \in T /\ v2 \in T
    OBVIOUS
  <2> HIDE DEF T
  <2> QED
    BY <2>1, <2>2
<1>2. /\ Len(a1) = Len(n1) + 1 /\ (\A i \in 1..Len(n1) : a1[i] = n1[i]) /\ a1[Len(n1) + 1] = v1
      /\ Len(a2) = Len(n2) + 1 /\ (\A i \in 1..Len(n2) : a2[i] = n2[i]) /\ a2[Len(n2) + 1] = v2
  <2> HIDE DEF T
  <2> QED
    BY ONLY <1>1, AppendProperties
<1>3. (IF v1 > 0 THEN a1 ELSE n1) = (IF v2 > 0 THEN a2 ELSE n2)
  BY DEF cacheKey
<1> HIDE DEF a1, a2
<1>4. Len(n1) = 1 /\ Len(n2) = 1 /\ n1 = <<n1[1]>> /\ n2 = <<n2[1]>>
  OBVIOUS
<1>5. n1[1] = n2[1] /\ v1 = v2
  BY <1>2, <1>3, <1>4
<1> QED
  BY <1>4, <1>5

LEMMA NoJobFacts ==
  /\ NoJob \in Job /\ NoJob.at = "idle" /\ NoJob.version = 0 /\ NoJob.ct = {} /\ NoJob.op = "enc"
  /\ \A x : JobShape(NoJob, x)
  /\ \A M, s : JobCopy(M, s, NoJob)
  /\ \A s, l, x : JobCurrent(s, l, NoJob, x)
<1>1. NoJob \in Job
  BY CryptoAssumption DEF NoJob, Job, NoInfo, Info
<1> QED
  BY <1>1 DEF NoJob, JobShape, JobCopy, JobCurrent

LEMMA EntryFields == \A e \in Entry : e = [k |-> e.k, info |-> e.info] /\ e.info \in Info
  BY DEF Entry

LEMMA JobFields ==
  ASSUME NEW j \in Job
  PROVE  /\ j.name \in Names /\ j.version \in Nat /\ j.floor \in Nat /\ j.ct \subseteq Ciphertext
         /\ j.info \in Info /\ j.info.version \in Nat /\ j.info.key \in Nat /\ j.op \in {"enc", "dec"}
  BY DEF Job, Info

(* A request that moves on, and one that gets its key. *)
Moved(j, a) == [j EXCEPT !.at = a]

Given(j, a, info) == [j EXCEPT !.at = a, !.info = info]

LEMMA JobMoved ==
  ASSUME NEW j \in Job, NEW a \in {"idle", "fetch", "reply", "add", "done"}, NEW f, f = Moved(j, a)
  PROVE  /\ f \in Job /\ f.at = a /\ f.op = j.op /\ f.name = j.name /\ f.version = j.version
         /\ f.floor = j.floor /\ f.ct = j.ct /\ f.info = j.info
  BY DEF Job, Moved

LEMMA JobGiven ==
  ASSUME NEW j \in Job, NEW a \in {"add", "done"}, NEW info \in Info,
         NEW f, f = Given(j, a, info)
  PROVE  /\ f \in Job /\ f.at = a /\ f.op = j.op /\ f.name = j.name /\ f.version = j.version
         /\ f.floor = j.floor /\ f.ct = j.ct /\ f.info = info
  BY Zenon DEF Job, Given
-----------------------------------------------------------------------------
(* What an invariant state says of one request. *)
LEMMA JobFacts ==
  ASSUME CryptoInv, NEW w \in Workers
  PROVE  /\ job \in [Workers -> Job] /\ job[w] \in Job /\ JobShape(job[w], call[w])
         /\ lives = 0 => JobCurrent(krSealed, LatestVersion(job[w].name), job[w], call[w])
  BY DEF CryptoInv, JobsInv

(* What was a copy before a step of the requests or of the vault is one    *)
(* after it.                                                               *)
Carried(N) ==
  /\ TableKept(N)' /\ CallCopies(Workers, N)'
  /\ \A w \in Workers : call[w].at = "marshal" =>
       Copy(N, krSealed', call[w].name, call[w].version, call[w].key)
  /\ \A c \in ciphertexts : CiphertextCopy(N, krSealed', c)
  /\ \A i \in 1..Len(cache) : EntryCopy(N, krSealed', cache[i])
  /\ \A w \in Workers : JobCopy(N, krSealed', job[w])

LEMMA CopiesCarried ==
  ASSUME CryptoInv, lives = 0, ClientStep(Workers)
  PROVE  \E N : Carried(N)
<1>1. PICK M : CryptoCopies(M)
  BY DEF CryptoInv
<1>2. Workers \in SUBSET Callers
  BY CryptoAssumption
<1>3. PICK N :
        /\ TableKept(N)' /\ CallCopies(Workers, N)'
        /\ \A n \in Names : \A v, k : Copy(M, krSealed, n, v, k) => Copy(N, krSealed', n, v, k)
  BY <1>1, <1>2, ClientStepKeepsCopies DEF CryptoInv, CryptoCopies
<1>4. ASSUME NEW w \in Workers, call[w].at = "marshal"
      PROVE  Copy(N, krSealed', call[w].name, call[w].version, call[w].key)
  <2>1. call[w].name \in Names
    BY <1>2, <1>4, CallFields DEF CryptoInv, HandlerInv, CallsInv
  <2> QED
    BY <1>1, <1>3, <1>4, <2>1 DEF CryptoCopies, CallCopies
<1>5. \A c \in ciphertexts : CiphertextCopy(N, krSealed', c)
  BY <1>1, <1>3 DEF CryptoInv, CryptoCopies, StoreCopies, StoreTypes, CiphertextCopy, Ciphertext
<1>6. \A i \in 1..Len(cache) : EntryCopy(N, krSealed', cache[i])
  BY <1>1, <1>3 DEF CryptoCopies, StoreCopies, EntryCopy
<1>7. ASSUME NEW w \in Workers PROVE JobCopy(N, krSealed', job[w])
  <2>1. job[w].name \in Names
    BY JobFacts, JobFields
  <2> QED
    BY <1>1, <1>3, <2>1 DEF CryptoCopies, JobCopies, JobCopy
<1> QED
  BY <1>3, <1>4, <1>5, <1>6, <1>7 DEF Carried

(* What is left to show of a step in one life of the vault. *)
LEMMA StepKeepsCryptoInv ==
  ASSUME CryptoInv, ClientStep(Workers), UNCHANGED lives, StoreTypes', JobsInv',
         \A N : Carried(N) => StoreCopies(N)' /\ JobCopies(N)'
  PROVE  CryptoInv'
<1>1. HandlerInv' /\ ClientCalls(Workers)' /\ AllVersionsUsable'
  BY CryptoAssumption, ClientStepInv, ClientCallsKept, ClientStepKeepsUsable DEF CryptoInv
<1>2. ASSUME lives' = 0 PROVE \E N : CryptoCopies(N)'
  <2>1. PICK N : Carried(N)
    BY <1>2, CopiesCarried
  <2>2. TableKept(N)' /\ CallCopies(Workers, N)'
    BY <2>1 DEF Carried
  <2>3. CryptoCopies(N)'
    BY <2>1, <2>2 DEF CryptoCopies
  <2> QED
    BY <2>3
<1> QED
  BY <1>1, <1>2 DEF CryptoInv

(* A step that leaves the cache and the ciphertexts. *)
LEMMA StoreKept ==
  ASSUME CryptoInv, UNCHANGED <<cache, ciphertexts, lives>>
  PROVE  StoreTypes' /\ \A N : Carried(N) => StoreCopies(N)'
<1>1. StoreTypes'
  BY DEF CryptoInv, StoreTypes, CacheDistinct
<1> QED
  BY <1>1 DEF Carried, StoreCopies
-----------------------------------------------------------------------------
(* One request of the service moves on to j, the rest of it stays. *)
LEMMA OneJobMoves ==
  ASSUME CryptoInv, UNCHANGED <<lives, krSealed, policies>>,
         NEW w \in Workers, NEW j \in Job, job' = [job EXCEPT ![w] = j],
         \A d \in Workers \ {w} : call'[d] = call[d],
         JobShape(j, call'[w]),
         lives = 0 => JobCurrent(krSealed, LatestVersion(j.name), j, call'[w])
  PROVE  /\ JobsInv'
         /\ \A N : Carried(N) /\ JobCopy(N, krSealed', j) => JobCopies(N)'
<1>1. job \in [Workers -> Job]
  BY JobFacts
<1>2. job' \in [Workers -> Job] /\ job'[w] = j /\ \A d \in Workers \ {w} : job'[d] = job[d]
  BY <1>1
<1>3. ASSUME NEW d \in Workers PROVE JobShape(job'[d], call'[d])
  <2>1. JobShape(job[d], call[d])
    BY JobFacts
  <2> QED
    BY <1>2, <2>1
<1>4. ASSUME lives = 0, NEW d \in Workers
      PROVE  JobCurrent(krSealed', LatestVersion(job[d].name)', job'[d], call'[d])
  <2>1. CASE d = w
    BY <1>2, <1>4, <2>1 DEF LatestVersion
  <2>2. CASE d # w
    <3>1. JobCurrent(krSealed, LatestVersion(job[d].name), job[d], call[d])
      BY <1>4, JobFacts
    <3> QED
      BY <1>2, <2>2, <3>1 DEF LatestVersion
  <2> QED
    BY <2>1, <2>2
<1>5. ASSUME NEW N, Carried(N), JobCopy(N, krSealed', j), NEW d \in Workers PROVE JobCopy(N, krSealed', job'[d])
  BY <1>2, <1>5 DEF Carried
<1>6. JobsInv'
  BY <1>2, <1>3, <1>4 DEF JobsInv
<1> QED
  BY <1>5, <1>6 DEF JobCopies

(* The request and its ciphertext, if it makes one, are copies when the    *)
(* key it is finished with is one.                                         *)
FinishedWith(N, j, info) ==
  Copy(N, krSealed', j.name, info.version, info.key) /\ (j.version > 0 => info.version = j.version)

LEMMA FinishCopies ==
  ASSUME CryptoInv, UNCHANGED <<vars, lives>>,
         NEW w \in Workers, NEW j \in Job, NEW info \in Info, Finish(w, j, info), JobShape(j, call[w])
  PROVE  /\ JobsInv' /\ ciphertexts' \subseteq Ciphertext
         /\ \A N : Carried(N) /\ FinishedWith(N, j, info) =>
              JobCopies(N)' /\ \A c \in ciphertexts' : CiphertextCopy(N, krSealed', c)
<1>1. PICK f : f = Given(j, "done", info)
  OBVIOUS
<1>2. PICK made : made = [name |-> j.name, version |-> info.version, key |-> info.key]
  BY Zenon
<1>3. /\ f \in Job /\ f.at = "done" /\ f.op = j.op /\ f.name = j.name /\ f.version = j.version
      /\ f.ct = j.ct /\ f.info = info
  BY <1>1, JobGiven
<1>4. job' = [job EXCEPT ![w] = f] /\ ciphertexts' \in {ciphertexts, ciphertexts \cup {made}}
  BY <1>1, <1>2 DEF Finish, Given
<1>5. UNCHANGED <<krSealed, policies, lives, call>>
  BY DEF vars, lockVars, keyringVars, handlerVars
<1>6. JobShape(f, call'[w]) /\ JobCurrent(krSealed, LatestVersion(f.name), f, call'[w])
  BY <1>3, <1>5 DEF JobShape, JobCurrent
<1>7. made \in Ciphertext
  BY <1>2, JobFields DEF Ciphertext, Info
<1>8. ASSUME NEW N, FinishedWith(N, j, info)
      PROVE  JobCopy(N, krSealed', f) /\ CiphertextCopy(N, krSealed', made)
  BY <1>2, <1>3, <1>8 DEF JobCopy, CiphertextCopy, FinishedWith
<1>9. JobsInv' /\ \A N : Carried(N) /\ JobCopy(N, krSealed', f) => JobCopies(N)'
  BY <1>3, <1>4, <1>5, <1>6, OneJobMoves, Zenon
<1>10. ciphertexts' \subseteq Ciphertext
  BY <1>4, <1>7 DEF CryptoInv, StoreTypes
<1>11. ASSUME NEW N, Carried(N), CiphertextCopy(N, krSealed', made), NEW c \in ciphertexts'
       PROVE  CiphertextCopy(N, krSealed', c)
  BY <1>4, <1>11 DEF Carried
<1> QED
  BY <1>8, <1>9, <1>10, <1>11

(* getKey, first part: what a hit answers was stored under the name and    *)
(* version that are asked for.                                             *)
LEMMA LookupKeepsInv ==
  ASSUME CryptoInv, NEW w \in Workers, NEW j \in Job, j.at = "fetch",
         JobShape(j, call[w]), j.op = "enc" => j.floor <= LatestVersion(j.name),
         Lookup(w, j), UNCHANGED <<vars, lives>>
  PROVE  CryptoInv'
<1> DEFINE k == cacheKey(j.name, j.version)
<1>1. ClientStep(Workers)
  BY DEF ClientStep
<1>2. UNCHANGED <<krSealed, policies, lives, call>>
  BY DEF vars, lockVars, keyringVars, handlerVars
<1>3. cache \in Seq(Entry) /\ Len(cache) <= CacheSize /\ CacheDistinct(cache) /\ lives \in 0..MaxLives
  BY DEF CryptoInv, StoreTypes
<1>4. j.name \in Names /\ j.version \in Nat
  BY JobFields
<1>5. CASE CacheHas(cache, k) /\ cache' = CacheTouch(cache, k) /\ Finish(w, j, CacheInfo(cache, k))
  <2>1. PICK p : p = CachePlace(cache, k)
    OBVIOUS
  <2>2. PICK info : info = CacheInfo(cache, k)
    OBVIOUS
  <2>3. p \in 1..Len(cache) /\ cache[p].k = k /\ info = cache[p].info
    BY <1>3, <1>5, <2>1, <2>2, CacheHit
  <2>4. info \in Info
    BY <1>3, <2>3, EntryFields
  <2>5. ASSUME NEW N, Carried(N) PROVE FinishedWith(N, j, info)
    <3>1. EntryCopy(N, krSealed', cache[p])
      BY <2>3, <2>5 DEF Carried
    <3> QED
      BY <1>4, <2>3, <3>1 DEF EntryCopy, FinishedWith
  <2>6. PICK after : after = CacheTouch(cache, k)
    OBVIOUS
  <2>7. /\ after \in Seq(Entry) /\ Len(after) = Len(cache) /\ CacheDistinct(after)
        /\ \A i \in 1..Len(after) : \E m \in 1..Len(cache) : after[i] = cache[m]
    BY <1>3, <1>5, <2>6, EntryFields, CacheTouchEntries
  <2>8. cache' = after /\ Finish(w, j, info)
    BY <1>5, <2>2, <2>6
  <2>9. /\ JobsInv' /\ ciphertexts' \subseteq Ciphertext
        /\ \A N : Carried(N) /\ FinishedWith(N, j, info) =>
             JobCopies(N)' /\ \A c \in ciphertexts' : CiphertextCopy(N, krSealed', c)
    BY <2>4, <2>8, FinishCopies
  <2>10. ASSUME NEW N, Carried(N) PROVE StoreCopies(N)' /\ JobCopies(N)'
    <3>1. \A i \in 1..Len(cache') : EntryCopy(N, krSealed', cache'[i])
      BY <2>7, <2>8, <2>10 DEF Carried
    <3> QED
      BY <2>5, <2>9, <2>10, <3>1 DEF StoreCopies
  <2>11. StoreTypes'
    BY <1>2, <1>3, <2>7, <2>8, <2>9 DEF StoreTypes, CacheDistinct
  <2> QED
    BY <1>1, <1>2, <2>9, <2>10, <2>11, StepKeepsCryptoInv
<1>6. CASE job' = [job EXCEPT ![w] = j] /\ UNCHANGED <<cache, ciphertexts>>
  <2>1. JobShape(j, call'[w]) /\ JobCurrent(krSealed, LatestVersion(j.name), j, call'[w])
    BY <1>2 DEF JobCurrent
  <2>2. JobsInv' /\ \A N : Carried(N) /\ JobCopy(N, krSealed', j) => JobCopies(N)'
    BY <1>2, <1>6, <2>1, OneJobMoves, Zenon
  <2>3. \A N : JobCopy(N, krSealed', j)
    BY DEF JobCopy
  <2> QED
    BY <1>1, <1>2, <1>6, <2>2, <2>3, StoreKept, StepKeepsCryptoInv
<1> QED
  BY <1>5, <1>6 DEF Lookup

LEMMA EncryptKeepsInv ==
  ASSUME CryptoInv, NEW w \in Workers, NEW n \in Names, Encrypt(w, n)
  PROVE  CryptoInv'
<1>1. LatestVersion(n) \in Nat
  BY PolicyKeys DEF CryptoInv, HandlerInv, KeyringInv, KeyringTypeOK, LatestVersion
<1>2. PICK j : j = [NoJob EXCEPT !.at = "fetch", !.name = n, !.floor = LatestVersion(n)]
  OBVIOUS
<1>3. /\ j \in Job /\ j.at = "fetch" /\ j.op = "enc" /\ j.name = n /\ j.version = 0
      /\ j.floor = LatestVersion(n) /\ j.ct = {}
  BY <1>1, <1>2, NoJobFacts, Zenon DEF Job
<1>4. JobShape(j, call[w]) /\ j.floor <= LatestVersion(j.name)
  BY <1>1, <1>3 DEF JobShape
<1> QED
  BY <1>2, <1>3, <1>4, LookupKeepsInv, Zenon DEF Encrypt

LEMMA DecryptKeepsInv ==
  ASSUME CryptoInv, NEW w \in Workers, NEW c \in ciphertexts, Decrypt(w, c)
  PROVE  CryptoInv'
<1>1. c \in Ciphertext /\ c.name \in Names /\ c.version \in Nat
  BY DEF CryptoInv, StoreTypes, Ciphertext
<1>2. PICK j : j = [NoJob EXCEPT !.at = "fetch", !.op = "dec", !.name = c.name,
                                 !.version = c.version, !.ct = {c}]
  OBVIOUS
<1>3. /\ j \in Job /\ j.at = "fetch" /\ j.op = "dec" /\ j.name = c.name /\ j.version = c.version
      /\ j.ct = {c}
  BY <1>1, <1>2, NoJobFacts, Zenon DEF Job
<1>4. JobShape(j, call[w])
  BY <1>3 DEF JobShape
<1> QED
  BY <1>2, <1>3, <1>4, LookupKeepsInv, Zenon DEF Decrypt

(* The vault is asked for the request's name and version. *)
LEMMA FetchKeepsInv ==
  ASSUME CryptoInv, NEW w \in Workers, Fetch(w)
  PROVE  CryptoInv'
<1>1. PICK j \in Job : j = job[w] /\ job \in [Workers -> Job]
  BY JobFacts
<1>2. PICK f : f = Moved(j, "reply")
  OBVIOUS
<1>3. /\ f \in Job /\ f.at = "reply" /\ f.op = j.op /\ f.name = j.name /\ f.version = j.version
      /\ f.floor = j.floor /\ f.ct = j.ct
  BY <1>2, JobMoved
<1>4. j.at = "fetch" /\ j.name \in Names /\ j.version \in Nat /\ job' = [job EXCEPT ![w] = f]
  BY <1>1, <1>2, JobFields DEF Fetch, Moved
<1>5. PICK u \in Nat \ {0}, k \in Nat :
        /\ call' = [call EXCEPT ![w] = [at |-> "marshal", name |-> j.name, version |-> u, key |-> k]]
        /\ j.version > 0 => u = j.version
        /\ j.version = 0 => u = LatestVersion(j.name)
  <2>1. PICK n \in Names, v \in Nat : n = j.name /\ v = j.version
    BY <1>4
  <2>2. PICK M : TableKept(M)
    <3>1. TableKept([m \in Names |-> policies[m].keys])
      BY PolicyKeys DEF CryptoInv, HandlerInv, KeyringInv, KeyringTypeOK, TableKept
    <3> QED
      BY <3>1
  <2>3. GetEncryptionKeyCall(w, n, v)
    BY <1>1, <2>1 DEF Fetch
  <2>4. KeyringInv
    BY DEF CryptoInv, HandlerInv
  <2>5. \E u \in Nat \ {0}, k \in Nat :
          /\ call' = [call EXCEPT ![w] = [at |-> "marshal", name |-> n, version |-> u, key |-> k]]
          /\ Copy(M, krSealed, n, u, k)
          /\ v > 0 => u = v
          /\ v = 0 => u = LatestVersion(n)
    BY ONLY <2>2, <2>3, <2>4, FetchedCopy, n \in Names, v \in Nat
  <2> QED
    BY <2>1, <2>5, Zenon
<1>6. ClientStep(Workers)
  BY <1>4, <1>1 DEF Fetch, ClientStep
<1>7. UNCHANGED <<lives, krSealed, policies, cache, ciphertexts>> /\ ~krSealed
  BY <1>1, <1>4 DEF Fetch, GetEncryptionKeyCall, CanGetEncryptionKey, HasKeyVersion, lockVars, keyringVars
<1>8. w \in Callers /\ call \in [Callers -> Call]
  BY CryptoAssumption DEF CryptoInv, HandlerInv, CallsInv
<1>9. /\ call'[w].name = j.name /\ call'[w].version = u
      /\ \A d \in Workers \ {w} : call'[d] = call[d]
  BY <1>5, <1>8, CryptoAssumption
<1>10. JobShape(j, call[w]) /\ (lives = 0 => JobCurrent(krSealed, LatestVersion(j.name), j, call[w]))
  BY <1>1, JobFacts
<1>11. j.op = "enc" /\ lives = 0 => j.floor <= u
  BY <1>4, <1>5, <1>7, <1>10 DEF JobShape, JobCurrent
<1>12. JobShape(f, call'[w])
  BY <1>3, <1>5, <1>9, <1>10 DEF JobShape
<1>13. lives = 0 => JobCurrent(krSealed, LatestVersion(f.name), f, call'[w])
  BY <1>3, <1>9, <1>11 DEF JobCurrent
<1>14. JobsInv' /\ \A N : Carried(N) /\ JobCopy(N, krSealed', f) => JobCopies(N)'
  BY <1>3, <1>4, <1>7, <1>9, <1>12, <1>13, OneJobMoves, Zenon
<1>15. \A N : JobCopy(N, krSealed', f)
  BY <1>3 DEF JobCopy
<1> QED
  BY <1>6, <1>7, <1>14, <1>15, StoreKept, StepKeepsCryptoInv

LEMMA FetchFailsKeepsInv ==
  ASSUME CryptoInv, NEW w \in Workers, FetchFails(w)
  PROVE  CryptoInv'
<1>1. ClientStep(Workers)
  BY DEF FetchFails, ClientStep
<1>2. UNCHANGED <<lives, krSealed, policies, call, cache, ciphertexts>> /\ job' = [job EXCEPT ![w] = NoJob]
  BY DEF FetchFails, vars, lockVars, keyringVars, handlerVars
<1>3. JobsInv' /\ \A N : Carried(N) /\ JobCopy(N, krSealed', NoJob) => JobCopies(N)'
  BY <1>2, NoJobFacts, OneJobMoves, Zenon
<1> QED
  BY <1>1, <1>2, <1>3, NoJobFacts, StoreKept, StepKeepsCryptoInv

(* What the vault's answer carries becomes the request's key. *)
LEMMA DeliverKeepsInv ==
  ASSUME CryptoInv, NEW w \in Workers, Deliver(w)
  PROVE  CryptoInv'
<1>1. PICK j \in Job : j = job[w] /\ job \in [Workers -> Job]
  BY JobFacts
<1>2. w \in Callers /\ call \in [Callers -> Call]
  BY CryptoAssumption DEF CryptoInv, HandlerInv, CallsInv
<1>3. PICK x \in Call : x = call[w]
  BY <1>2
<1>4. PICK info : info = [version |-> x.version, key |-> x.key]
  BY Zenon
<1>5. PICK f : f = Given(j, "add", info)
  OBVIOUS
<1>6. j.at = "reply" /\ x.at = "marshal"
  BY <1>1, <1>3 DEF Deliver, GetEncryptionKeyMarshal
<1>7. info \in Info /\ info.version = x.version /\ info.key = x.key
  BY <1>4, <1>6, CallFields DEF Info
<1>8. job' = [job EXCEPT ![w] = f]
  BY <1>1, <1>3, <1>4, <1>5, Zenon DEF Deliver, Given
<1>9. JobShape(j, x) /\ (lives = 0 => JobCurrent(krSealed, LatestVersion(j.name), j, x))
  BY <1>1, <1>3, JobFacts
<1>10. ClientStep(Workers)
  BY DEF Deliver, ClientStep
<1>11. UNCHANGED <<lives, krSealed, policies, cache, ciphertexts>>
  BY DEF Deliver, GetEncryptionKeyMarshal, lockVars, keyringVars
<1>12. call' = [call EXCEPT ![w] = Idle]
  BY DEF Deliver, GetEncryptionKeyMarshal, Answer
<1>13. /\ f \in Job /\ f.at = "add" /\ f.op = j.op /\ f.name = j.name /\ f.version = j.version
       /\ f.floor = j.floor /\ f.ct = j.ct /\ f.info = info
  BY <1>5, <1>7, JobGiven
<1>14. JobShape(f, call'[w])
  BY <1>9, <1>13 DEF JobShape
<1>15. lives = 0 => JobCurrent(krSealed, LatestVersion(f.name), f, call'[w])
  BY <1>6, <1>7, <1>9, <1>13 DEF JobCurrent
<1>16. \A d \in Workers \ {w} : call'[d] = call[d]
  BY <1>2, <1>12, CryptoAssumption
<1>17. JobsInv' /\ \A N : Carried(N) /\ JobCopy(N, krSealed', f) => JobCopies(N)'
  BY <1>8, <1>11, <1>13, <1>14, <1>15, <1>16, OneJobMoves, Zenon
<1>18. ASSUME NEW N, Carried(N) PROVE JobCopy(N, krSealed', f)
  <2>1. x.name = j.name /\ (j.version > 0 => x.version = j.version)
    BY <1>6, <1>9 DEF JobShape
  <2>2. Copy(N, krSealed', x.name, x.version, x.key)
    BY <1>3, <1>6, <1>18 DEF Carried
  <2> QED
    BY <1>7, <1>13, <2>1, <2>2 DEF JobCopy
<1> QED
  BY <1>10, <1>11, <1>17, <1>18, StoreKept, StepKeepsCryptoInv

(* getKey, last part: the key is stored under the name and version it was  *)
(* fetched for, which no other name and version share.                     *)
LEMMA StoreKeepsInv ==
  ASSUME CryptoInv, CacheKeysTell, NEW w \in Workers, Store(w)
  PROVE  CryptoInv'
<1>1. PICK j \in Job : j = job[w]
  BY JobFacts
<1>2. PICK info : info = j.info
  OBVIOUS
<1>3. PICK k : k = cacheKey(j.name, j.version)
  OBVIOUS
<1>4. PICK e : e = [k |-> k, info |-> info]
  BY Zenon
<1>5. PICK after : after = CacheAdd(cache, k, info, CacheSize)
  OBVIOUS
<1>6. j.at = "add" /\ j.name \in Names /\ j.version \in Nat /\ info \in Info
  <2>1. j.at = "add"
    BY <1>1 DEF Store
  <2> QED
    BY ONLY <1>2, <2>1, j \in Job, JobFields
<1>7. ClientStep(Workers) /\ UNCHANGED <<vars, lives, krSealed>>
  BY DEF Store, ClientStep, vars, lockVars, keyringVars
<1>8. cache \in Seq(Entry) /\ Len(cache) <= CacheSize /\ CacheDistinct(cache) /\ lives \in 0..MaxLives
  BY DEF CryptoInv, StoreTypes
<1>9. e \in Entry /\ e.k = k /\ e.info = info
  BY <1>3, <1>4, <1>6 DEF Entry
<1>10. /\ after \in Seq(Entry) /\ Len(after) <= CacheSize /\ CacheDistinct(after)
       /\ \A i \in 1..Len(after) : after[i] = e \/ \E m \in 1..Len(cache) : after[i] = cache[m]
  <2>1. CacheSize \in Nat \ {0}
    BY CryptoAssumption
  <2> QED
    BY ONLY <1>4, <1>5, <1>8, <1>9, <2>1, CacheAdded
<1>11. cache' = after /\ Finish(w, j, info)
  BY ONLY <1>1, <1>2, <1>3, <1>5, Store(w) DEF Store
<1>12. ASSUME NEW N, Carried(N) PROVE FinishedWith(N, j, info)
  BY <1>1, <1>2, <1>6, <1>12 DEF Carried, JobCopy, FinishedWith
<1>13. ASSUME NEW N, Carried(N) PROVE EntryCopy(N, krSealed', e)
  <2> SUFFICES ASSUME NEW n \in Names, NEW v \in Nat, e.k = cacheKey(n, v)
               PROVE  /\ Copy(N, krSealed', n, e.info.version, e.info.key)
                      /\ v > 0 => e.info.version = v
    BY DEF EntryCopy
  <2>1. cacheKey(n, v) = cacheKey(j.name, j.version)
    BY <1>3, <1>9
  <2>2. n = j.name /\ v = j.version
    BY <1>6, <2>1 DEF CacheKeysTell
  <2> QED
    BY <1>9, <1>12, <1>13, <2>2 DEF FinishedWith
<1>14. ASSUME NEW N, Carried(N), NEW i \in 1..Len(cache') PROVE EntryCopy(N, krSealed', cache'[i])
  <2>1. CASE after[i] = e
    BY <1>11, <1>13, <1>14, <2>1
  <2>2. ASSUME NEW m \in 1..Len(cache), after[i] = cache[m] PROVE EntryCopy(N, krSealed', after[i])
    BY <1>14, <2>2 DEF Carried
  <2> QED
    BY <1>10, <1>11, <1>14, <2>1, <2>2
<1>15. /\ JobsInv' /\ ciphertexts' \subseteq Ciphertext
       /\ \A N : Carried(N) /\ FinishedWith(N, j, info) =>
            JobCopies(N)' /\ \A c \in ciphertexts' : CiphertextCopy(N, krSealed', c)
  <2>1. JobShape(j, call[w])
    BY <1>1, JobFacts
  <2> QED
    BY <1>6, <1>7, <1>11, <2>1, FinishCopies
<1>16. \A N : Carried(N) => StoreCopies(N)' /\ JobCopies(N)'
  BY <1>12, <1>14, <1>15 DEF StoreCopies
<1>17. StoreTypes'
  BY <1>7, <1>8, <1>10, <1>11, <1>15 DEF StoreTypes, CacheDistinct
<1> QED
  BY <1>7, <1>15, <1>16, <1>17, StepKeepsCryptoInv

(* A restart of the service leaves the ciphertexts. *)
LEMMA CryptoCrashKeepsInv ==
  ASSUME CryptoInv, CryptoCrash
  PROVE  CryptoInv'
<1>1. ClientStep(Workers)
  BY DEF CryptoCrash, ClientStep
<1>2. UNCHANGED <<lives, ciphertexts>> /\ cache' = <<>> /\ job' = [w \in Workers |-> NoJob]
  BY DEF CryptoCrash
<1>3. Len(cache') = 0 /\ cache' \in Seq(Entry) /\ CacheDistinct(cache)'
  BY <1>2 DEF CacheDistinct
<1>4. StoreTypes'
  BY <1>2, <1>3, CryptoAssumption DEF CryptoInv, StoreTypes
<1>5. job' \in [Workers -> Job] /\ \A w \in Workers : job'[w] = NoJob
  BY <1>2, NoJobFacts
<1>6. ASSUME NEW w \in Workers
      PROVE  /\ JobShape(job'[w], call'[w]) /\ \A N : JobCopy(N, krSealed', job'[w])
             /\ JobCurrent(krSealed', LatestVersion(job[w].name)', job'[w], call'[w])
  BY <1>5, NoJobFacts
<1>7. JobsInv' /\ \A N : JobCopies(N)'
  BY <1>5, <1>6 DEF JobsInv, JobCopies
<1>8. \A N : Carried(N) => StoreCopies(N)'
  BY <1>2, <1>3 DEF Carried, StoreCopies
<1> QED
  BY <1>1, <1>2, <1>4, <1>7, <1>8, StepKeepsCryptoInv

(* Rotations, seals and new keys while requests are under way. *)
LEMMA VaultStepKeepsInv ==
  ASSUME CryptoInv, VaultStep
  PROVE  CryptoInv'
<1>1. ClientStep(Workers) /\ UNCHANGED <<lives, cache, ciphertexts, job>>
  BY DEF VaultStep, ClientStep, cryptoVars
<1>2. ASSUME NEW w \in Workers, call'[w].at = "marshal"
      PROVE  call[w].at = "marshal" /\ call'[w].name = call[w].name /\ call'[w].version = call[w].version
  <2>1. HandlerInv /\ Operation(Callers \ Workers) /\ Workers \in SUBSET Callers
    BY CryptoAssumption DEF CryptoInv, VaultStep
  <2> QED
    BY ONLY <1>2, <2>1, w \in Workers, OperationKeepsClientCalls
<1>3. ASSUME NEW w \in Workers PROVE JobShape(job[w], call'[w])
  <2>1. JobShape(job[w], call[w])
    BY JobFacts
  <2> QED
    BY <1>2, <2>1 DEF JobShape
<1>4. ASSUME lives = 0, NEW w \in Workers
      PROVE  JobCurrent(krSealed', LatestVersion(job[w].name)', job[w], call'[w])
  <2>1. PICK j \in Job : j = job[w]
    BY JobFacts
  <2>2. j.name \in Names /\ j.floor \in Nat
    BY JobFields
  <2>3. ~krSealed' => ~krSealed /\ LatestVersion(j.name) \in Nat /\ LatestVersion(j.name)' \in Nat
                      /\ LatestVersion(j.name) <= LatestVersion(j.name)'
    BY <1>1, <2>2, ClientStepKeepsLatest DEF CryptoInv
  <2>4. JobCurrent(krSealed, LatestVersion(j.name), j, call[w])
    BY <1>4, <2>1, JobFacts
  <2>5. JobCurrent(krSealed', LatestVersion(j.name)', j, call'[w])
    BY <1>2, <2>2, <2>3, <2>4 DEF JobCurrent
  <2> QED
    BY <1>1, <2>1, <2>5 DEF LatestVersion
<1>5. job \in [Workers -> Job]
  BY DEF CryptoInv, JobsInv
<1>6. JobsInv'
  BY <1>1, <1>3, <1>4, <1>5 DEF JobsInv
<1>7. \A N : Carried(N) => JobCopies(N)'
  BY <1>1 DEF Carried, JobCopies
<1> QED
  BY <1>1, <1>6, <1>7, StoreKept, StepKeepsCryptoInv

(* A restart of the vault ends its life, and with it what is promised of   *)
(* the copies made in it.                                                  *)
LEMMA VaultCrashKeepsInv ==
  ASSUME CryptoInv, VaultCrash
  PROVE  CryptoInv'
<1>1. ProcessCrash /\ UNCHANGED <<cache, ciphertexts, job>> /\ lives' = lives + 1 /\ lives < MaxLives
  BY DEF VaultCrash, cryptoVars
<1>2. HandlerInv'
  BY <1>1, CrashKeepsHandlerInv DEF CryptoInv
<1>3. call' = [c \in Callers |-> Idle] /\ policies' = NoPolicies
  BY <1>1 DEF ProcessCrash, Crash
<1>4. ClientCalls(Workers)' /\ AllVersionsUsable'
  BY <1>3 DEF ClientCalls, Idle, AllVersionsUsable, NoPolicies, NoPolicy
<1>5. StoreTypes' /\ lives' # 0
  BY <1>1, CryptoAssumption DEF CryptoInv, StoreTypes, CacheDistinct
<1>6. ASSUME NEW w \in Workers PROVE JobShape(job[w], call'[w])
  <2>1. call'[w].at # "marshal"
    BY <1>3, CryptoAssumption DEF Idle
  <2>2. JobShape(job[w], call[w])
    BY JobFacts
  <2> QED
    BY <2>1, <2>2 DEF JobShape
<1>7. job \in [Workers -> Job]
  BY DEF CryptoInv, JobsInv
<1>8. JobsInv'
  BY <1>1, <1>5, <1>6, <1>7 DEF JobsInv
<1> QED
  BY <1>2, <1>4, <1>5, <1>8 DEF CryptoInv

LEMMA CryptoInitInv == CryptoInit => CryptoInv
<1> SUFFICES ASSUME CryptoInit PROVE CryptoInv
  OBVIOUS
<1>1. HandlerInv /\ lives = 0 /\ cache = <<>> /\ ciphertexts = {} /\ job = [w \in Workers |-> NoJob]
  BY HandlerInitInv DEF CryptoInit
<1>2. call = [c \in Callers |-> Idle] /\ policies = NoPolicies
  BY DEF CryptoInit, Init, LockInit, KeyringInit
<1>3. ClientCalls(Workers) /\ AllVersionsUsable
  BY <1>2 DEF ClientCalls, Idle, AllVersionsUsable, NoPolicies, NoPolicy
<1>4. StoreTypes
  BY <1>1, CryptoAssumption DEF StoreTypes, CacheDistinct
<1>5. JobsInv /\ \A M : JobCopies(M)
  BY <1>1, NoJobFacts DEF JobsInv, JobCopies
<1>6. PICK M : TableKept(M)
  <2>1. TableKept([m \in Names |-> policies[m].keys])
    BY <1>1, PolicyKeys DEF HandlerInv, KeyringInv, KeyringTypeOK, TableKept
  <2> QED
    BY <2>1
<1>7. CallCopies(Workers, M)
  BY <1>2, CryptoAssumption DEF CallCopies, Idle
<1>8. CryptoCopies(M)
  BY <1>1, <1>5, <1>6, <1>7 DEF CryptoCopies, StoreCopies
<1> QED
  BY <1>1, <1>3, <1>4, <1>5, <1>8 DEF CryptoInv

LEMMA CryptoStepInv ==
  ASSUME CacheKeysTell
  PROVE  CryptoInv /\ [CryptoNext]_allVars => CryptoInv'
<1> SUFFICES ASSUME CryptoInv, [CryptoNext]_allVars PROVE CryptoInv'
  OBVIOUS
<1>1. CASE UNCHANGED allVars
  <2>1. ClientStep(Workers) /\ UNCHANGED <<lives, cache, ciphertexts, job, call, krSealed, policies>>
    BY <1>1 DEF ClientStep, allVars, vars, cryptoVars, lockVars, keyringVars, handlerVars
  <2>2. JobsInv'
    <3>1. JobsInv
      BY ONLY CryptoInv DEF CryptoInv
    <3> QED
      BY <2>1, <3>1 DEF JobsInv, LatestVersion
  <2>3. \A N : Carried(N) => JobCopies(N)'
    BY <2>1, Zenon DEF Carried, JobCopies
  <2> QED
    BY <2>1, <2>2, <2>3, StoreKept, StepKeepsCryptoInv
<1>2. ASSUME NEW w \in Workers, NEW n \in Names, Encrypt(w, n) PROVE CryptoInv'
  BY <1>2, EncryptKeepsInv
<1>3. ASSUME NEW w \in Workers, NEW c \in ciphertexts, Decrypt(w, c) PROVE CryptoInv'
  BY <1>3, DecryptKeepsInv
<1>4. ASSUME NEW w \in Workers, Fetch(w) \/ FetchFails(w) \/ Deliver(w) \/ Store(w) PROVE CryptoInv'
  BY <1>4, FetchKeepsInv, FetchFailsKeepsInv, DeliverKeepsInv, StoreKeepsInv
<1> QED
  BY <1>1, <1>2, <1>3, <1>4, CryptoCrashKeepsInv, VaultCrashKeepsInv, VaultStepKeepsInv DEF CryptoNext

(* Two intact copies of a version of a key are the same key. *)
LEMMA CopiesAgree ==
  ASSUME NEW M, NEW s, NEW n, NEW v, NEW k, NEW l, Copy(M, s, n, v, k), Copy(M, s, n, v, l),
         Intact(k), Intact(l)
  PROVE  k = l
  BY DEF Copy, Intact

(* A request that decrypts gets the key its ciphertext was made with ... *)
LEMMA InvDecryptOpens == CryptoInv => DecryptOpens
<1> SUFFICES ASSUME CryptoInv, NEW w \in Workers, NEW c \in ciphertexts,
                    job[w].at = "done", job[w].ct = {c}, lives = 0,
                    Intact(c.key), Intact(job[w].info.key)
             PROVE  job[w].info.key = c.key
  BY DEF DecryptOpens
<1>1. PICK M : CryptoCopies(M)
  BY DEF CryptoInv
<1>2. Copy(M, krSealed, c.name, c.version, c.key) /\ JobCopy(M, krSealed, job[w])
  BY ONLY <1>1, w \in Workers, c \in ciphertexts DEF CryptoCopies, StoreCopies, JobCopies, CiphertextCopy
<1>3. c.name = job[w].name /\ c.version = job[w].version
  BY JobFacts DEF JobShape
<1>4. c.version > 0
  BY <1>2 DEF Copy, CryptoInv, StoreTypes, Ciphertext
<1>5. Copy(M, krSealed, c.name, c.version, job[w].info.key)
  BY <1>2, <1>3, <1>4 DEF JobCopy
<1> QED
  BY <1>2, <1>5, CopiesAgree

(* ... the vault keeps that key, and a fetched key is current. *)
LEMMA InvCiphertextsDecryptable == CryptoInv => CiphertextsDecryptable
<1> SUFFICES ASSUME CryptoInv, NEW c \in ciphertexts, lives = 0, ~krSealed
             PROVE  HasKeyVersion(c.name, c.version) /\ GetKeyVersion(c.name, c.version).key = c.key
  BY DEF CiphertextsDecryptable
<1>1. PICK M : CryptoCopies(M)
  BY DEF CryptoInv
<1>2. c.name \in Names /\ c.version \in Nat
  BY DEF CryptoInv, StoreTypes, Ciphertext
<1>3. c.version \in 1..Len(policies[c.name].keys) /\ c.key = policies[c.name].keys[c.version]
  BY <1>1, <1>2 DEF CryptoCopies, StoreCopies, CiphertextCopy, Copy, TableKept
<1>4. policies[c.name].keys \in Seq(Nat) /\ policies[c.name].minDec = 1
  BY <1>2, PolicyKeys DEF CryptoInv, HandlerInv, KeyringInv, KeyringTypeOK, AllVersionsUsable
<1>5. ResolveVersion(c.name, c.version) = c.version
  BY <1>3, <1>4 DEF ResolveVersion
<1> QED
  BY <1>3, <1>4, <1>5 DEF HasKeyVersion, HasPolicy, LatestVersion, GetKeyVersion

LEMMA InvFetchedIsCurrent == CryptoInv => FetchedIsCurrent
<1> SUFFICES ASSUME CryptoInv, NEW w \in Workers, job[w].at = "add", job[w].op = "enc", lives = 0
             PROVE  job[w].info.version >= job[w].floor
  BY DEF FetchedIsCurrent
<1>1. job[w].info.version \in Nat /\ job[w].floor \in Nat
  BY JobFacts, JobFields
<1> QED
  BY <1>1, JobFacts DEF JobCurrent

LEMMA InvCryptoTypeOK == CryptoInv => CryptoTypeOK
<1>1. HandlerInv => HandlerTypeOK
  BY InvHandlerTypeOK
<1>2. CryptoInv => \A i \in 1..Len(cache) : cache[i].info \in Info
  BY EntryFields DEF CryptoInv, StoreTypes
<1> QED
  BY <1>1, <1>2 DEF CryptoInv, StoreTypes, JobsInv, CryptoTypeOK, CacheDistinct

(* In one life of the vault, for any number of requests, keys and versions *)
(* and any size of the cache: a Decrypt that obtained a key got the one    *)
(* its ciphertext was made with, through rotations, evictions, restarts of *)
(* the service and seals; the keys of ciphertexts stay in the vault; and   *)
(* a key that had to be fetched is no older than the latest when the       *)
(* request started.  Cache keys must tell names and versions apart.        *)
THEOREM CryptoCorrect ==
  ASSUME CacheKeysTell
  PROVE  CryptoSpec => [](CryptoTypeOK /\ DecryptOpens /\ CiphertextsDecryptable /\ FetchedIsCurrent)
<1>1. CryptoInv => CryptoTypeOK /\ DecryptOpens /\ CiphertextsDecryptable /\ FetchedIsCurrent
  BY InvCryptoTypeOK, InvDecryptOpens, InvCiphertextsDecryptable, InvFetchedIsCurrent
<1> QED
  BY <1>1, CryptoInitInv, CryptoStepInv, PTL DEF CryptoSpec
==============================================================================
