------------------------ MODULE TokenizeServiceProofs ------------------------
(***************************************************************************)
(* Proofs about the tokenize service over the vault.  As for the crypto    *)
(* service, every key in a token, in the cache, in a request or in a call  *)
(* under way is a copy of a key table, here of one table F[l] for each     *)
(* life l of the vault; the tables of past lives do not change any more.   *)
(* FF1 is run on copies, so equal versions of the same life mean equal     *)
(* keys.  Masking needs nothing of that: its theorem follows from what     *)
(* Mask computes for one value.                                            *)
(***************************************************************************)
EXTENDS Masking, HandlerProofs

Entry == [k : Names, info : Info]

(* What the fields of a request, and of the call it has in the vault, say: *)
(* the key it fetches is that of its token, and FF1 gives the plaintext    *)
(* back when the keys are the same and the alphabet cannot have changed.   *)
JobShape(toks, j, x) ==
  /\ j.token \subseteq toks
  /\ \A k \in j.token : k.name = j.name /\ k.trans = j.trans
  /\ j.at = "reply" /\ x.at = "marshal" => x.name = j.name
  /\ /\ j.at = "done" /\ j.token # {}
     /\ \A k \in j.token : k.trans \in BuiltIn /\ k.key = j.info.key
     => j.opened

(* The lives of the vault so far, and those in which a Seal may have       *)
(* caught a key that was handed out.                                       *)
Lapsed == <<0..lives, {l \in 0..lives : l < lives \/ krSealed}>>

LifeCopy(F, s, n, v, k, l) == l \in s[1] /\ Copy(F[l], l \in s[2], n, v, k)

JobCopy(F, s, j) ==
  j.at \in {"add", "alphabet", "done"} =>
    LifeCopy(F, s, j.name, j.info.version, j.info.key, j.info.life)

EntryCopy(F, s, e) == LifeCopy(F, s, e.k, e.info.version, e.info.key, e.info.life)

TokenCopy(F, s, k) == LifeCopy(F, s, k.name, k.version, k.key, k.life)

StoreCopies(F) ==
  /\ \A k \in tokens : TokenCopy(F, Lapsed, k)
  /\ \A i \in 1..Len(keyCache) : EntryCopy(F, Lapsed, keyCache[i])

JobCopies(F) == \A w \in Workers : JobCopy(F, Lapsed, job[w])

(* Everything the service has is a copy of one of the tables F. *)
TokenizeCopies(F) ==
  TableKept(F[lives]) /\ CallCopies(Workers, F[lives]) /\ StoreCopies(F) /\ JobCopies(F)

StoreInv ==
  /\ keyCache \in Seq(Entry) /\ Len(keyCache) <= CacheSize /\ CacheDistinct(keyCache)
  /\ customTransformations \in [Custom -> SUBSET Alphabets]
  /\ tokens \subseteq Token
  /\ \A k \in tokens : k.trans \in BuiltIn => k.alphabet = k.trans
  /\ lives \in 0..MaxLives

JobsInv ==
  /\ job \in [Workers -> Job]
  /\ \A w \in Workers : JobShape(tokens, job[w], call[w])

TokenizeInv ==
  /\ HandlerInv /\ ClientCalls(Workers)
  /\ StoreInv /\ JobsInv
  /\ \E F : TokenizeCopies(F)
-----------------------------------------------------------------------------
LEMMA NoJobFacts ==
  /\ NoJob \in Job /\ NoJob.at = "idle" /\ NoJob.token = {}
  /\ \A toks, x : JobShape(toks, NoJob, x)
  /\ \A M, s : JobCopy(M, s, NoJob)
<1>1. (CHOOSE n \in Names : TRUE) \in Names /\ (CHOOSE t \in Transformations : TRUE) \in Transformations
  BY TokenizeAssumption DEF Transformations
<1>2. NoJob \in Job
  BY <1>1 DEF NoJob, Job, NoInfo, Info
<1> QED
  BY <1>2 DEF NoJob, JobShape, JobCopy

LEMMA EntryFields ==
  \A e \in Entry : e = [k |-> e.k, info |-> e.info] /\ e.k \in Names /\ e.info \in Info
  BY DEF Entry

LEMMA JobFields ==
  ASSUME NEW j \in Job
  PROVE  /\ j.name \in Names /\ j.trans \in Transformations /\ j.token \subseteq Token
         /\ j.info \in Info /\ j.info.version \in Nat /\ j.info.key \in Nat /\ j.info.life \in Nat
  BY DEF Job, Info

(* A request that moves on, one that gets its key, and one that opened its *)
(* token or did not.                                                       *)
Moved(j, a) == [j EXCEPT !.at = a]

Given(j, a, info) == [j EXCEPT !.at = a, !.info = info]

Opened(j, b) == [j EXCEPT !.at = "done", !.opened = b]

LEMMA JobMoved ==
  ASSUME NEW j \in Job, NEW a \in {"reply", "alphabet", "done"}, NEW f, f = Moved(j, a)
  PROVE  /\ f \in Job /\ f.at = a /\ f.name = j.name /\ f.trans = j.trans
         /\ f.token = j.token /\ f.info = j.info /\ f.opened = j.opened
  BY DEF Job, Moved

LEMMA JobGiven ==
  ASSUME NEW j \in Job, NEW a \in {"add", "alphabet"}, NEW info \in Info, NEW f, f = Given(j, a, info)
  PROVE  /\ f \in Job /\ f.at = a /\ f.name = j.name /\ f.trans = j.trans
         /\ f.token = j.token /\ f.info = info /\ f.opened = j.opened
  BY Zenon DEF Job, Given

LEMMA JobOpened ==
  ASSUME NEW j \in Job, NEW b \in BOOLEAN, NEW f, f = Opened(j, b)
  PROVE  /\ f \in Job /\ f.at = "done" /\ f.name = j.name /\ f.trans = j.trans
         /\ f.token = j.token /\ f.info = j.info /\ f.opened = b
  BY Zenon DEF Job, Opened

(* What an invariant state says of one request. *)
LEMMA JobFacts ==
  ASSUME TokenizeInv, NEW w \in Workers
  PROVE  job \in [Workers -> Job] /\ job[w] \in Job /\ JobShape(tokens, job[w], call[w])
  BY DEF TokenizeInv, JobsInv
-----------------------------------------------------------------------------
(* What was a copy before a step of the requests or of the vault is one    *)
(* after it.                                                               *)
Carried(F) ==
  /\ TableKept(F[lives])' /\ CallCopies(Workers, F[lives])'
  /\ \A w \in Workers : call[w].at = "marshal" =>
       LifeCopy(F, Lapsed', call[w].name, call[w].version, call[w].key, lives)
  /\ \A k \in tokens : TokenCopy(F, Lapsed', k)
  /\ \A i \in 1..Len(keyCache) : EntryCopy(F, Lapsed', keyCache[i])
  /\ \A w \in Workers : JobCopy(F, Lapsed', job[w])

LEMMA CopiesCarried ==
  ASSUME TokenizeInv, UNCHANGED lives, ClientStep(Workers)
  PROVE  \E N : Carried(N)
<1>1. PICK F : TokenizeCopies(F)
  BY DEF TokenizeInv
<1>2. Workers \in SUBSET Callers /\ lives \in 0..MaxLives /\ MaxLives \in Nat
  BY TokenizeAssumption DEF TokenizeInv, StoreInv
<1>m. PICK M : M = F[lives]
  OBVIOUS
<1>3. PICK N :
        /\ TableKept(N)' /\ CallCopies(Workers, N)'
        /\ \A n \in Names : \A v, k : Copy(M, krSealed, n, v, k) => Copy(N, krSealed', n, v, k)
  <2>1. TableKept(M) /\ CallCopies(Workers, M)
    BY <1>1, <1>m DEF TokenizeCopies
  <2> QED
    BY <1>2, <2>1, ClientStepKeepsCopies DEF TokenizeInv
<1>g. PICK G : G = [l \in 0..MaxLives |-> IF l = lives THEN N ELSE F[l]]
  OBVIOUS
<1>h. G[lives] = N /\ \A l \in 0..MaxLives : l # lives => G[l] = F[l]
  BY <1>2, <1>g
<1>c. ASSUME NEW n \in Names, NEW v, NEW k, NEW l, LifeCopy(F, Lapsed, n, v, k, l)
      PROVE  LifeCopy(G, Lapsed', n, v, k, l)
  <2>1. /\ l \in 0..lives /\ Copy(F[l], l < lives \/ krSealed, n, v, k)
        /\ l \in (Lapsed')[1] /\ (l \in (Lapsed')[2] <=> l < lives \/ krSealed')
    BY <1>c DEF LifeCopy, Lapsed, Copy
  <2>2. CASE l = lives
    <3>1. Copy(M, krSealed, n, v, k)
      BY <1>2, <1>m, <2>1, <2>2 DEF Copy
    <3>2. Copy(N, krSealed', n, v, k)
      BY <1>3, <3>1
    <3> QED
      BY <1>h, <2>1, <2>2, <3>2 DEF LifeCopy, Copy
  <2>3. CASE l # lives
    <3>1. l \in (Lapsed')[2] /\ G[l] = F[l]
      BY <1>2, <1>h, <2>1, <2>3
    <3> QED
      BY <2>1, <3>1 DEF LifeCopy, Copy
  <2> QED
    BY <2>2, <2>3
<1>4. ASSUME NEW w \in Workers, call[w].at = "marshal"
      PROVE  LifeCopy(G, Lapsed', call[w].name, call[w].version, call[w].key, lives)
  <2>1. call[w].name \in Names
    BY <1>2, <1>4, CallFields DEF TokenizeInv, HandlerInv, CallsInv
  <2>2. Copy(F[lives], krSealed, call[w].name, call[w].version, call[w].key)
    BY <1>1, <1>4 DEF TokenizeCopies, CallCopies
  <2>3. lives \in Lapsed[1] /\ (lives \in Lapsed[2] <=> krSealed)
    BY <1>2 DEF Lapsed
  <2>4. LifeCopy(F, Lapsed, call[w].name, call[w].version, call[w].key, lives)
    BY <2>2, <2>3 DEF LifeCopy, Copy
  <2> QED
    BY <1>c, <2>1, <2>4
<1>5. ASSUME NEW k \in tokens PROVE TokenCopy(G, Lapsed', k)
  <2>1. k.name \in Names /\ TokenCopy(F, Lapsed, k)
    BY <1>1 DEF TokenizeInv, TokenizeCopies, StoreCopies, StoreInv, Token
  <2> QED
    BY <1>c, <2>1 DEF TokenCopy
<1>6. ASSUME NEW i \in 1..Len(keyCache) PROVE EntryCopy(G, Lapsed', keyCache[i])
  <2>1. keyCache[i].k \in Names
    BY EntryFields DEF TokenizeInv, StoreInv
  <2>2. EntryCopy(F, Lapsed, keyCache[i])
    BY <1>1 DEF TokenizeCopies, StoreCopies
  <2> QED
    BY <1>c, <2>1, <2>2 DEF EntryCopy
<1>7. ASSUME NEW w \in Workers PROVE JobCopy(G, Lapsed', job[w])
  <2>1. job[w].name \in Names
    BY JobFacts, JobFields
  <2>2. JobCopy(F, Lapsed, job[w])
    BY <1>1 DEF TokenizeCopies, JobCopies
  <2> QED
    BY <1>c, <2>1, <2>2 DEF JobCopy
<1>8. TableKept(G[lives])' /\ CallCopies(Workers, G[lives])'
  BY <1>3, <1>h
<1> QED
  BY <1>4, <1>5, <1>6, <1>7, <1>8 DEF Carried

(* What is left to show of a step in one life of the vault. *)
LEMMA StepKeepsTokenizeInv ==
  ASSUME TokenizeInv, ClientStep(Workers), UNCHANGED lives, StoreInv', JobsInv',
         \A N : Carried(N) => StoreCopies(N)' /\ JobCopies(N)'
  PROVE  TokenizeInv'
<1>1. HandlerInv' /\ ClientCalls(Workers)'
  BY TokenizeAssumption, ClientStepInv, ClientCallsKept DEF TokenizeInv
<1>2. PICK N : Carried(N)
  BY CopiesCarried
<1>3. TableKept(N[lives])' /\ CallCopies(Workers, N[lives])'
  BY <1>2 DEF Carried
<1>4. TokenizeCopies(N)'
  BY <1>2, <1>3 DEF TokenizeCopies
<1> QED
  BY <1>1, <1>4 DEF TokenizeInv

(* A step that leaves the tokens, and one that leaves the cache as well. *)
LEMMA TokensKept ==
  ASSUME TokenizeInv, UNCHANGED <<tokens, customTransformations, lives>>,
         keyCache' \in Seq(Entry), Len(keyCache') <= CacheSize, CacheDistinct(keyCache'),
         \A N : Carried(N) => \A i \in 1..Len(keyCache') : EntryCopy(N, Lapsed', keyCache'[i])
  PROVE  StoreInv' /\ \A N : Carried(N) => StoreCopies(N)'
<1>1. StoreInv'
  BY DEF TokenizeInv, StoreInv, CacheDistinct
<1> QED
  BY <1>1 DEF Carried, StoreCopies

LEMMA StoreKept ==
  ASSUME TokenizeInv, UNCHANGED <<tokens, customTransformations, keyCache, lives>>
  PROVE  StoreInv' /\ \A N : Carried(N) => StoreCopies(N)'
<1>1. keyCache' \in Seq(Entry) /\ Len(keyCache') <= CacheSize /\ CacheDistinct(keyCache')
  BY DEF TokenizeInv, StoreInv
<1>2. \A N : Carried(N) => \A i \in 1..Len(keyCache') : EntryCopy(N, Lapsed', keyCache'[i])
  BY DEF Carried
<1> QED
  BY <1>1, <1>2, TokensKept

(* One request moves on to j while the tokens grow. *)
LEMMA OneJobMoves ==
  ASSUME TokenizeInv, NEW w \in Workers, NEW j \in Job, job' = [job EXCEPT ![w] = j],
         tokens \subseteq tokens', \A d \in Workers \ {w} : call'[d] = call[d],
         JobShape(tokens', j, call'[w])
  PROVE  /\ JobsInv'
         /\ \A N : Carried(N) /\ JobCopy(N, Lapsed', j) => JobCopies(N)'
<1>1. job \in [Workers -> Job]
  BY JobFacts
<1>2. job' \in [Workers -> Job] /\ job'[w] = j /\ \A d \in Workers \ {w} : job'[d] = job[d]
  BY <1>1
<1>3. ASSUME NEW d \in Workers PROVE JobShape(tokens', job'[d], call'[d])
  <2>1. CASE d = w
    BY <1>2, <2>1
  <2>2. CASE d # w
    <3>1. JobShape(tokens, job[d], call[d])
      BY JobFacts
    <3> QED
      BY <1>2, <2>2, <3>1 DEF JobShape
  <2> QED
    BY <2>1, <2>2
<1>4. ASSUME NEW N, Carried(N), JobCopy(N, Lapsed', j), NEW d \in Workers PROVE JobCopy(N, Lapsed', job'[d])
  BY <1>2, <1>4 DEF Carried
<1>5. JobsInv'
  BY <1>2, <1>3 DEF JobsInv
<1> QED
  BY <1>4, <1>5 DEF JobCopies

(* The steps of a request that leave cache and tokens alone. *)
LEMMA QuietRequestKeepsInv ==
  ASSUME TokenizeInv, ClientStep(Workers), UNCHANGED <<customTransformations, tokens, keyCache, lives>>,
         NEW w \in Workers, NEW j \in Job, job' = [job EXCEPT ![w] = j],
         \A d \in Workers \ {w} : call'[d] = call[d], JobShape(tokens, j, call'[w]),
         \A N : Carried(N) => JobCopy(N, Lapsed', j)
  PROVE  TokenizeInv'
<1>1. StoreInv' /\ \A N : Carried(N) => StoreCopies(N)'
  BY StoreKept
<1>2. JobsInv' /\ \A N : Carried(N) /\ JobCopy(N, Lapsed', j) => JobCopies(N)'
  BY OneJobMoves, Zenon
<1> QED
  BY <1>1, <1>2, StepKeepsTokenizeInv

(* getKey, first part. *)
LEMMA LookupKeepsInv ==
  ASSUME TokenizeInv, NEW w \in Workers, NEW j \in Job, j.at = "fetch", JobShape(tokens, j, call[w]),
         Lookup(w, j), UNCHANGED <<customTransformations, tokens, vars, lives>>
  PROVE  TokenizeInv'
<1>1. ClientStep(Workers) /\ UNCHANGED <<call, krSealed, lives>>
  BY DEF ClientStep, vars, lockVars, keyringVars, handlerVars
<1>2. keyCache \in Seq(Entry) /\ Len(keyCache) <= CacheSize /\ CacheDistinct(keyCache)
  BY DEF TokenizeInv, StoreInv
<1>3. CASE /\ CacheHas(keyCache, j.name) /\ keyCache' = CacheTouch(keyCache, j.name)
           /\ job' = [job EXCEPT ![w] = [j EXCEPT !.at = "alphabet", !.info = CacheInfo(keyCache, j.name)]]
  <2>1. PICK p : p = CachePlace(keyCache, j.name)
    OBVIOUS
  <2>2. PICK info : info = CacheInfo(keyCache, j.name)
    OBVIOUS
  <2>3. PICK after : after = CacheTouch(keyCache, j.name)
    OBVIOUS
  <2>4. PICK f : f = Given(j, "alphabet", info)
    OBVIOUS
  <2>5. p \in 1..Len(keyCache) /\ keyCache[p].k = j.name /\ info = keyCache[p].info
    BY <1>2, <1>3, <2>1, <2>2, CacheHit
  <2>6. info \in Info
    BY <1>2, <2>5, EntryFields
  <2>7. /\ after \in Seq(Entry) /\ Len(after) = Len(keyCache) /\ CacheDistinct(after)
        /\ \A i \in 1..Len(after) : \E m \in 1..Len(keyCache) : after[i] = keyCache[m]
    BY <1>2, <1>3, <2>3, EntryFields, CacheTouchEntries
  <2>8. job' = [job EXCEPT ![w] = f] /\ keyCache' = after
    BY <1>3, <2>2, <2>3, <2>4 DEF Given
  <2>9. /\ f \in Job /\ f.at = "alphabet" /\ f.name = j.name /\ f.trans = j.trans
        /\ f.token = j.token /\ f.info = info
    BY <2>4, <2>6, JobGiven
  <2>10. ASSUME NEW N, Carried(N) PROVE JobCopy(N, Lapsed', f)
    <3>1. EntryCopy(N, Lapsed', keyCache[p])
      BY <2>5, <2>10 DEF Carried
    <3> QED
      BY <2>5, <2>9, <3>1 DEF EntryCopy, JobCopy
  <2>11. JobShape(tokens', f, call'[w])
    BY <1>1, <2>9 DEF JobShape
  <2>12. \A N : Carried(N) => \A i \in 1..Len(keyCache') : EntryCopy(N, Lapsed', keyCache'[i])
    BY <2>7, <2>8 DEF Carried
  <2>13. StoreInv' /\ \A N : Carried(N) => StoreCopies(N)'
    BY <1>2, <2>7, <2>8, <2>12, TokensKept
  <2>14. JobsInv' /\ \A N : Carried(N) /\ JobCopy(N, Lapsed', f) => JobCopies(N)'
    BY <1>1, <2>8, <2>9, <2>11, OneJobMoves, Zenon
  <2> QED
    BY <1>1, <2>10, <2>13, <2>14, StepKeepsTokenizeInv
<1>4. CASE job' = [job EXCEPT ![w] = j] /\ UNCHANGED keyCache
  <2>1. \A N : JobCopy(N, Lapsed', j)
    BY DEF JobCopy
  <2> QED
    BY <1>1, <1>4, <2>1, QuietRequestKeepsInv, Zenon
<1> QED
  BY <1>3, <1>4 DEF Lookup

LEMMA FPEEncryptKeepsInv ==
  ASSUME TokenizeInv, NEW w \in Workers, NEW n \in Names, NEW t \in Transformations, FPEEncrypt(w, n, t)
  PROVE  TokenizeInv'
<1>1. PICK j : j = [NoJob EXCEPT !.at = "fetch", !.name = n, !.trans = t]
  OBVIOUS
<1>2. j \in Job /\ j.at = "fetch" /\ j.token = {}
  BY <1>1, NoJobFacts, Zenon DEF Job
<1>3. JobShape(tokens, j, call[w])
  BY <1>2 DEF JobShape
<1> QED
  BY <1>1, <1>2, <1>3, LookupKeepsInv, Zenon DEF FPEEncrypt

LEMMA FPEDecryptKeepsInv ==
  ASSUME TokenizeInv, NEW w \in Workers, NEW k \in tokens, FPEDecrypt(w, k)
  PROVE  TokenizeInv'
<1>1. k \in Token /\ k.name \in Names /\ k.trans \in Transformations
  BY DEF TokenizeInv, StoreInv, Token
<1>2. PICK j : j = [NoJob EXCEPT !.at = "fetch", !.name = k.name, !.trans = k.trans, !.token = {k}]
  OBVIOUS
<1>3. j \in Job /\ j.at = "fetch" /\ j.token = {k} /\ j.name = k.name /\ j.trans = k.trans
  BY <1>1, <1>2, NoJobFacts, Zenon DEF Job
<1>4. JobShape(tokens, j, call[w])
  BY <1>3 DEF JobShape
<1> QED
  BY <1>2, <1>3, <1>4, LookupKeepsInv, Zenon DEF FPEDecrypt

LEMMA FetchKeepsInv ==
  ASSUME TokenizeInv, NEW w \in Workers, Fetch(w)
  PROVE  TokenizeInv'
<1>1. PICK j \in Job : j = job[w] /\ job \in [Workers -> Job]
  BY JobFacts
<1>2. PICK f : f = Moved(j, "reply")
  OBVIOUS
<1>3. f \in Job /\ f.at = "reply" /\ f.name = j.name /\ f.trans = j.trans /\ f.token = j.token
  BY <1>2, JobMoved
<1>4. PICK u, k : call' = [call EXCEPT ![w] = [at |-> "marshal", name |-> j.name, version |-> u, key |-> k]]
  BY <1>1, Zenon DEF Fetch, GetEncryptionKeyCall, Enter
<1>5. ClientStep(Workers) /\ UNCHANGED <<customTransformations, tokens, keyCache, lives>>
  BY <1>1, JobFields DEF Fetch, ClientStep
<1>6. j.at = "fetch" /\ job' = [job EXCEPT ![w] = f]
  BY <1>1, <1>2 DEF Fetch, Moved
<1>7. w \in Callers /\ call \in [Callers -> Call] /\ Workers \subseteq Callers
  BY TokenizeAssumption DEF TokenizeInv, HandlerInv, CallsInv
<1>8. call'[w].name = j.name /\ \A d \in Workers \ {w} : call'[d] = call[d]
  BY <1>4, <1>7
<1>9. JobShape(tokens, j, call[w])
  BY <1>1, JobFacts
<1>10. JobShape(tokens, f, call'[w])
  BY <1>3, <1>8, <1>9 DEF JobShape
<1>11. \A N : JobCopy(N, Lapsed', f)
  BY <1>3 DEF JobCopy
<1> QED
  BY <1>3, <1>5, <1>6, <1>8, <1>10, <1>11, QuietRequestKeepsInv, Zenon

LEMMA FetchFailsKeepsInv ==
  ASSUME TokenizeInv, NEW w \in Workers, FetchFails(w)
  PROVE  TokenizeInv'
<1>1. ClientStep(Workers) /\ UNCHANGED <<customTransformations, tokens, keyCache, call, lives>>
  BY DEF FetchFails, ClientStep, vars, handlerVars
<1>2. job' = [job EXCEPT ![w] = NoJob]
  BY DEF FetchFails
<1> QED
  BY <1>1, <1>2, NoJobFacts, QuietRequestKeepsInv, Zenon

(* What the vault's answer carries becomes the request's key. *)
LEMMA DeliverKeepsInv ==
  ASSUME TokenizeInv, NEW w \in Workers, Deliver(w)
  PROVE  TokenizeInv'
<1>1. PICK j \in Job : j = job[w] /\ job \in [Workers -> Job]
  BY JobFacts
<1>2. w \in Callers /\ call \in [Callers -> Call] /\ Workers \subseteq Callers
  BY TokenizeAssumption DEF TokenizeInv, HandlerInv, CallsInv
<1>3. PICK x \in Call : x = call[w]
  BY <1>2
<1>4. PICK info : info = [version |-> x.version, key |-> x.key, life |-> lives]
  BY Zenon
<1>5. PICK f : f = Given(j, "add", info)
  OBVIOUS
<1>6. j.at = "reply" /\ x.at = "marshal"
  BY <1>1, <1>3 DEF Deliver, GetEncryptionKeyMarshal
<1>7. info \in Info /\ info.version = x.version /\ info.key = x.key /\ info.life = lives
  <2>1. lives \in Nat
    BY TokenizeAssumption DEF TokenizeInv, StoreInv
  <2> QED
    BY <1>4, <1>6, <2>1, CallFields DEF Info
<1>8. job' = [job EXCEPT ![w] = f]
  BY <1>1, <1>3, <1>4, <1>5, Zenon DEF Deliver, Given
<1>9. JobShape(tokens, j, x)
  BY <1>1, <1>3, JobFacts
<1>10. ClientStep(Workers) /\ UNCHANGED <<customTransformations, tokens, keyCache, lives>>
  BY DEF Deliver, ClientStep
<1>11. call' = [call EXCEPT ![w] = Idle]
  BY DEF Deliver, GetEncryptionKeyMarshal, Answer
<1>12. f \in Job /\ f.at = "add" /\ f.name = j.name /\ f.trans = j.trans /\ f.token = j.token /\ f.info = info
  BY <1>5, <1>7, JobGiven
<1>13. JobShape(tokens, f, call'[w])
  BY <1>9, <1>12 DEF JobShape
<1>14. \A d \in Workers \ {w} : call'[d] = call[d]
  BY <1>2, <1>11
<1>15. ASSUME NEW N, Carried(N) PROVE JobCopy(N, Lapsed', f)
  <2>1. x.name = j.name
    BY <1>6, <1>9 DEF JobShape
  <2>2. LifeCopy(N, Lapsed', x.name, x.version, x.key, lives)
    BY <1>3, <1>6, <1>15 DEF Carried
  <2> QED
    BY <1>7, <1>12, <2>1, <2>2 DEF JobCopy
<1> QED
  BY <1>8, <1>10, <1>12, <1>13, <1>14, <1>15, QuietRequestKeepsInv, Zenon

(* getKey, last part: stored under the name it was fetched for. *)
LEMMA StoreKeepsInv ==
  ASSUME TokenizeInv, NEW w \in Workers, Store(w)
  PROVE  TokenizeInv'
<1>1. PICK j \in Job : j = job[w] /\ job \in [Workers -> Job]
  BY JobFacts
<1>2. PICK k, info : k = j.name /\ info = j.info
  OBVIOUS
<1>3. PICK e : e = [k |-> k, info |-> info]
  BY Zenon
<1>4. PICK after : after = CacheAdd(keyCache, k, info, CacheSize)
  OBVIOUS
<1>5. PICK f : f = Moved(j, "alphabet")
  OBVIOUS
<1>6. k \in Names /\ info \in Info /\ JobShape(tokens, j, call[w])
  BY <1>1, <1>2, JobFacts, JobFields
<1>7. ClientStep(Workers) /\ UNCHANGED <<customTransformations, tokens, call, krSealed, lives>>
  BY DEF Store, ClientStep, vars, lockVars, keyringVars, handlerVars
<1>8. keyCache \in Seq(Entry) /\ Len(keyCache) <= CacheSize /\ CacheDistinct(keyCache)
  BY DEF TokenizeInv, StoreInv
<1>9. e \in Entry /\ e.k = k /\ e.info = info
  BY <1>3, <1>6 DEF Entry
<1>10. j.at = "add" /\ keyCache' = after /\ job' = [job EXCEPT ![w] = f]
  BY <1>1, <1>2, <1>4, <1>5 DEF Store, Moved
<1>11. f \in Job /\ f.at = "alphabet" /\ f.name = k /\ f.trans = j.trans /\ f.token = j.token /\ f.info = info
  BY <1>2, <1>5, JobMoved
<1>12. JobShape(tokens', f, call'[w])
  BY <1>2, <1>6, <1>7, <1>11 DEF JobShape
<1>13. /\ after \in Seq(Entry) /\ Len(after) <= CacheSize /\ CacheDistinct(after)
       /\ \A i \in 1..Len(after) : after[i] = e \/ \E m \in 1..Len(keyCache) : after[i] = keyCache[m]
  <2>1. CacheSize \in Nat \ {0}
    BY TokenizeAssumption
  <2> QED
    BY ONLY <1>3, <1>4, <1>8, <1>9, <2>1, CacheAdded
<1>14. ASSUME NEW N, Carried(N) PROVE EntryCopy(N, Lapsed', e) /\ JobCopy(N, Lapsed', f)
  <2>1. JobCopy(N, Lapsed', j)
    BY <1>1, <1>14 DEF Carried
  <2> QED
    BY <1>2, <1>9, <1>10, <1>11, <2>1 DEF EntryCopy, JobCopy
<1>15. ASSUME NEW N, Carried(N), NEW i \in 1..Len(keyCache') PROVE EntryCopy(N, Lapsed', keyCache'[i])
  <2>1. CASE after[i] = e
    BY <1>10, <1>14, <1>15, <2>1
  <2>2. ASSUME NEW m \in 1..Len(keyCache), after[i] = keyCache[m] PROVE EntryCopy(N, Lapsed', after[i])
    BY <1>15, <2>2 DEF Carried
  <2> QED
    BY <1>10, <1>13, <1>15, <2>1, <2>2
<1>16. StoreInv' /\ \A N : Carried(N) => StoreCopies(N)'
  BY <1>7, <1>10, <1>13, <1>15, TokensKept
<1>17. JobsInv' /\ \A N : Carried(N) /\ JobCopy(N, Lapsed', f) => JobCopies(N)'
  BY <1>7, <1>10, <1>11, <1>12, OneJobMoves, Zenon
<1> QED
  BY <1>7, <1>14, <1>16, <1>17, StepKeepsTokenizeInv

(* FF1 made a token: one of a built-in transformation has its alphabet. *)
LEMMA EncryptedKeepsInv ==
  ASSUME TokenizeInv, NEW w \in Workers, NEW j \in Job, j = job[w], NEW a \in getAlphabet(j.trans),
         j.at = "alphabet", j.token = {}, NEW t,
         NEW l \in BOOLEAN,
         t = [name |-> j.name, trans |-> j.trans, alphabet |-> a, version |-> j.info.version,
              key |-> j.info.key, life |-> j.info.life, legible |-> l],
         tokens' = tokens \cup {t}, job' = [job EXCEPT ![w].at = "done"],
         UNCHANGED <<keyCache, customTransformations, call, krSealed, lives>>, ClientStep(Workers)
  PROVE  TokenizeInv'
<1>1. PICK f : f = Moved(j, "done")
  OBVIOUS
<1>2. f \in Job /\ f.at = "done" /\ f.name = j.name /\ f.token = {} /\ f.info = j.info
  BY <1>1, JobMoved
<1>3. job' = [job EXCEPT ![w] = f]
  BY <1>1, JobFacts DEF Moved
<1>4. customTransformations \in [Custom -> SUBSET Alphabets] /\ tokens \subseteq Token
  BY DEF TokenizeInv, StoreInv
<1>5. /\ j.name \in Names /\ j.trans \in Transformations
      /\ j.info.version \in Nat /\ j.info.key \in Nat /\ j.info.life \in Nat
  BY JobFields
<1>6. a \in BuiltIn \cup Alphabets /\ (j.trans \in BuiltIn => a = j.trans)
  BY <1>4, <1>5 DEF getAlphabet, Transformations
<1>7. t \in Token /\ t.trans = j.trans /\ t.alphabet = a
  BY <1>5, <1>6 DEF Token
<1>8. StoreInv'
  BY <1>6, <1>7 DEF TokenizeInv, StoreInv, CacheDistinct
<1>9. ASSUME NEW N, Carried(N) PROVE StoreCopies(N)' /\ JobCopy(N, Lapsed', f)
  <2>1. LifeCopy(N, Lapsed', j.name, j.info.version, j.info.key, j.info.life)
    BY <1>9 DEF Carried, JobCopy
  <2>2. TokenCopy(N, Lapsed', t) /\ JobCopy(N, Lapsed', f)
    BY <1>2, <2>1 DEF TokenCopy, JobCopy
  <2> QED
    BY <1>9, <2>2 DEF Carried, StoreCopies
<1>10. JobShape(tokens', f, call'[w])
  BY <1>2 DEF JobShape
<1>11. JobsInv' /\ \A N : Carried(N) /\ JobCopy(N, Lapsed', f) => JobCopies(N)'
  BY <1>2, <1>3, <1>10, OneJobMoves, Zenon
<1> QED
  BY <1>8, <1>9, <1>11, StepKeepsTokenizeInv

(* FF1 was run on a token: over a built-in alphabet it opens when it was   *)
(* made with the same key and alphabet.                                    *)
Opens(j, a) == \A k \in j.token : k.key = j.info.key /\ k.alphabet = a

LEMMA DecryptedKeepsInv ==
  ASSUME TokenizeInv, NEW w \in Workers, NEW j \in Job, j = job[w], NEW a \in getAlphabet(j.trans),
         j.at = "alphabet", NEW b \in BOOLEAN, a \in BuiltIn /\ Opens(j, a) => b,
         job' = [job EXCEPT ![w].at = "done", ![w].opened = b],
         UNCHANGED <<keyCache, customTransformations, tokens, call, krSealed, lives>>, ClientStep(Workers)
  PROVE  TokenizeInv'
<1>1. PICK f : f = Opened(j, b)
  OBVIOUS
<1>2. /\ f \in Job /\ f.at = "done" /\ f.name = j.name /\ f.trans = j.trans
      /\ f.token = j.token /\ f.info = j.info /\ f.opened = b
  BY ONLY <1>1, j \in Job, b \in BOOLEAN, JobOpened
<1>3. job' = [job EXCEPT ![w] = f]
  <2>1. job \in [Workers -> Job]
    BY JobFacts
  <2> QED
    BY ONLY <1>1, <2>1, w \in Workers, j = job[w],
            job' = [job EXCEPT ![w].at = "done", ![w].opened = b], Zenon
    DEF Opened
<1>4. JobShape(tokens, j, call[w])
  BY JobFacts
<1>5. ASSUME j.token # {}, \A k \in j.token : k.trans \in BuiltIn /\ k.key = j.info.key PROVE b
  <2>1. ASSUME NEW k \in j.token PROVE k.key = j.info.key /\ k.alphabet = a /\ a \in BuiltIn
    <3>1. k \in tokens /\ k.trans = j.trans /\ k.trans \in BuiltIn /\ k.key = j.info.key
      BY <1>4, <1>5 DEF JobShape
    <3>2. k.alphabet = k.trans
      BY <3>1 DEF TokenizeInv, StoreInv
    <3>3. a = j.trans
      BY <3>1 DEF getAlphabet
    <3> QED
      BY <3>1, <3>2, <3>3
  <2>2. a \in BuiltIn /\ Opens(j, a)
    BY <1>5, <2>1 DEF Opens
  <2> QED
    BY <2>2
<1>6. JobShape(tokens, f, call'[w])
  BY <1>2, <1>4, <1>5 DEF JobShape
<1>7. ASSUME NEW N, Carried(N) PROVE JobCopy(N, Lapsed', f)
  <2>1. JobCopy(N, Lapsed', j)
    BY <1>7 DEF Carried
  <2> QED
    BY <1>2, <2>1 DEF JobCopy
<1> QED
  BY <1>2, <1>3, <1>6, <1>7, QuietRequestKeepsInv, Zenon

(* The alphabet and FF1. *)
LEMMA TransformKeepsInv ==
  ASSUME TokenizeInv, NEW w \in Workers, Transform(w)
  PROVE  TokenizeInv'
<1>1. PICK j \in Job : j = job[w]
  BY JobFacts
<1>2. /\ ClientStep(Workers) /\ j.at = "alphabet"
      /\ UNCHANGED <<keyCache, customTransformations, call, krSealed, lives>>
  BY <1>1 DEF Transform, ClientStep, vars, lockVars, keyringVars, handlerVars
<1>3. CASE job' = [job EXCEPT ![w] = NoJob] /\ UNCHANGED tokens
  BY <1>2, <1>3, NoJobFacts, QuietRequestKeepsInv, Zenon
<1>4. ASSUME NEW a \in getAlphabet(j.trans), j.token = {}, NEW l \in Legible(a),
             tokens' = tokens \cup {[name |-> j.name, trans |-> j.trans, alphabet |-> a,
                                     version |-> j.info.version, key |-> j.info.key, life |-> j.info.life, legible |-> l]},
             job' = [job EXCEPT ![w].at = "done"]
      PROVE  TokenizeInv'
  <2>1. l \in BOOLEAN
    BY <1>4, Zenon DEF Legible
  <2> QED
    BY <1>1, <1>2, <1>4, <2>1, EncryptedKeepsInv, Zenon
<1>5. ASSUME NEW a \in getAlphabet(j.trans), NEW k \in j.token, UNCHANGED tokens,
             NEW b \in IF a \in BuiltIn THEN {k.key = j.info.key /\ k.alphabet = a}
                       ELSE {k.key = j.info.key /\ k.alphabet = a, FALSE},
             job' = [job EXCEPT ![w].at = "done", ![w].opened = b]
      PROVE  TokenizeInv'
  <2>1. b \in BOOLEAN /\ (a \in BuiltIn /\ Opens(j, a) => b)
    BY <1>5, Zenon DEF Opens
  <2> QED
    BY ONLY <1>1, <1>2, <1>5, <2>1, w \in Workers, j \in Job, TokenizeInv, DecryptedKeepsInv
<1>6. ASSUME NEW a \in getAlphabet(j.trans), Encrypted(w, a)
      PROVE  TokenizeInv'
  BY <1>1, <1>3, <1>4, <1>6 DEF Encrypted
<1>7. ASSUME NEW a \in getAlphabet(j.trans), Decrypted(w, a)
      PROVE  TokenizeInv'
  BY <1>1, <1>3, <1>5, <1>7, Zenon DEF Decrypted
<1> QED
  BY <1>1, <1>3, <1>6, <1>7 DEF Transform, NotFound

(* Transformations come and go; tokens and requests stay as they are. *)
LEMMA TransformationsKeepInv ==
  ASSUME TokenizeInv, UNCHANGED <<keyCache, tokens, job, vars, lives>>,
         customTransformations' \in [Custom -> SUBSET Alphabets]
  PROVE  TokenizeInv'
<1>1. ClientStep(Workers) /\ UNCHANGED <<call, krSealed>>
  BY DEF ClientStep, vars, lockVars, keyringVars, handlerVars
<1>2. StoreInv'
  BY DEF TokenizeInv, StoreInv, CacheDistinct
<1>3. JobsInv'
  BY <1>1 DEF TokenizeInv, JobsInv
<1>4. \A N : Carried(N) => StoreCopies(N)' /\ JobCopies(N)'
  BY <1>1 DEF Carried, StoreCopies, JobCopies
<1> QED
  BY <1>1, <1>2, <1>3, <1>4, StepKeepsTokenizeInv

LEMMA TokenizeCrashKeepsInv ==
  ASSUME TokenizeInv, TokenizeCrash
  PROVE  TokenizeInv'
<1>1. ClientStep(Workers)
  BY DEF TokenizeCrash, ClientStep
<1>2. /\ UNCHANGED <<tokens, lives>> /\ keyCache' = <<>> /\ job' = [w \in Workers |-> NoJob]
      /\ customTransformations' \in [Custom -> SUBSET Alphabets]
  BY DEF TokenizeCrash, TokenizeInv, StoreInv
<1>3. Len(keyCache') = 0 /\ keyCache' \in Seq(Entry) /\ CacheDistinct(keyCache)'
  BY <1>2 DEF CacheDistinct
<1>4. StoreInv'
  BY <1>2, <1>3, TokenizeAssumption DEF TokenizeInv, StoreInv
<1>5. job' \in [Workers -> Job] /\ \A w \in Workers : job'[w] = NoJob
  BY <1>2, NoJobFacts
<1>6. JobsInv' /\ \A N : JobCopies(N)'
  BY <1>5, NoJobFacts DEF JobsInv, JobCopies
<1>7. \A N : Carried(N) => StoreCopies(N)'
  BY <1>2, <1>3 DEF Carried, StoreCopies
<1> QED
  BY <1>1, <1>2, <1>4, <1>6, <1>7, StepKeepsTokenizeInv

(* Rotations, seals and new keys while requests are under way. *)
LEMMA VaultStepKeepsInv ==
  ASSUME TokenizeInv, VaultStep
  PROVE  TokenizeInv'
<1>1. ClientStep(Workers) /\ UNCHANGED <<keyCache, customTransformations, tokens, job, lives>>
  BY DEF VaultStep, ClientStep, tokenizeVars
<1>2. ASSUME NEW w \in Workers, call'[w].at = "marshal"
      PROVE  call[w].at = "marshal" /\ call'[w].name = call[w].name
  <2>1. HandlerInv /\ Operation(Callers \ Workers) /\ Workers \in SUBSET Callers
    BY TokenizeAssumption DEF TokenizeInv, VaultStep
  <2> QED
    BY ONLY <1>2, <2>1, w \in Workers, OperationKeepsClientCalls
<1>3. ASSUME NEW w \in Workers PROVE JobShape(tokens, job[w], call'[w])
  <2>1. JobShape(tokens, job[w], call[w])
    BY JobFacts
  <2> QED
    BY <1>2, <2>1 DEF JobShape
<1>4. job \in [Workers -> Job]
  BY DEF TokenizeInv, JobsInv
<1>5. JobsInv'
  BY <1>1, <1>3, <1>4 DEF JobsInv
<1>6. \A N : Carried(N) => JobCopies(N)'
  BY <1>1 DEF Carried, JobCopies
<1> QED
  BY <1>1, <1>5, <1>6, StoreKept, StepKeepsTokenizeInv

(* A restart of the vault ends its life: the table of that life stays as   *)
(* it is, and an empty one is begun.                                       *)
LEMMA VaultCrashKeepsInv ==
  ASSUME TokenizeInv, VaultCrash
  PROVE  TokenizeInv'
<1>1. /\ ProcessCrash /\ UNCHANGED <<keyCache, customTransformations, tokens, job>>
      /\ lives' = lives + 1 /\ lives < MaxLives
  BY DEF VaultCrash, tokenizeVars
<1>2. HandlerInv'
  BY <1>1, CrashKeepsHandlerInv DEF TokenizeInv
<1>3. call' = [c \in Callers |-> Idle]
  BY <1>1 DEF ProcessCrash
<1>4. ClientCalls(Workers)'
  BY <1>3 DEF ClientCalls, Idle
<1>5. StoreInv' /\ lives \in 0..MaxLives /\ MaxLives \in Nat
  BY <1>1, TokenizeAssumption DEF TokenizeInv, StoreInv, CacheDistinct
<1>6. ASSUME NEW w \in Workers PROVE JobShape(tokens, job[w], call'[w])
  <2>1. call'[w].at # "marshal"
    BY <1>3, TokenizeAssumption DEF Idle
  <2>2. JobShape(tokens, job[w], call[w])
    BY JobFacts
  <2> QED
    BY <2>1, <2>2 DEF JobShape
<1>7. job \in [Workers -> Job]
  BY DEF TokenizeInv, JobsInv
<1>8. JobsInv'
  BY <1>1, <1>6, <1>7 DEF JobsInv
<1>9. PICK F : TokenizeCopies(F)
  BY DEF TokenizeInv
<1>10. PICK M : TableKept(M)'
  <2>1. TableKept([m \in Names |-> policies[m].keys])'
    BY <1>2, PolicyKeys DEF HandlerInv, KeyringInv, KeyringTypeOK, TableKept
  <2> QED
    BY <2>1
<1>g. PICK G : G = [l \in 0..MaxLives |-> IF l = lives + 1 THEN M ELSE F[l]]
  OBVIOUS
<1>h. G[lives + 1] = M /\ \A l \in 0..lives : G[l] = F[l]
  BY <1>1, <1>5, <1>g
<1>c. ASSUME NEW n, NEW v, NEW k, NEW l, LifeCopy(F, Lapsed, n, v, k, l)
      PROVE  LifeCopy(G, Lapsed', n, v, k, l)
  <2>1. l \in 0..lives /\ Copy(F[l], l < lives \/ krSealed, n, v, k)
    BY <1>c DEF LifeCopy, Lapsed, Copy
  <2>2. l \in (Lapsed')[1] /\ l \in (Lapsed')[2]
    BY <1>1, <1>5, <2>1 DEF Lapsed
  <2> QED
    BY <1>h, <2>1, <2>2 DEF LifeCopy, Copy
<1>11. StoreCopies(G)'
  BY <1>1, <1>9, <1>c DEF TokenizeCopies, StoreCopies, TokenCopy, EntryCopy
<1>12. JobCopies(G)'
  BY <1>1, <1>9, <1>c DEF TokenizeCopies, JobCopies, JobCopy
<1>13. TableKept(G[lives])' /\ CallCopies(Workers, G[lives])'
  <2>1. \A w \in Workers : call'[w].at # "marshal"
    BY <1>3, TokenizeAssumption DEF Idle
  <2> QED
    BY <1>1, <1>10, <1>h, <2>1 DEF CallCopies
<1>14. TokenizeCopies(G)'
  BY <1>11, <1>12, <1>13 DEF TokenizeCopies
<1> QED
  BY <1>2, <1>4, <1>5, <1>8, <1>14 DEF TokenizeInv

LEMMA TokenizeInitInv == TokenizeInit => TokenizeInv
<1> SUFFICES ASSUME TokenizeInit PROVE TokenizeInv
  OBVIOUS
<1>1. /\ HandlerInv /\ keyCache = <<>> /\ tokens = {} /\ lives = 0 /\ job = [w \in Workers |-> NoJob]
      /\ customTransformations = [t \in Custom |-> {}]
  BY HandlerInitInv DEF TokenizeInit
<1>2. call = [c \in Callers |-> Idle]
  BY DEF TokenizeInit, Init
<1>3. ClientCalls(Workers)
  BY <1>2 DEF ClientCalls, Idle
<1>4. StoreInv
  BY <1>1, TokenizeAssumption DEF StoreInv, CacheDistinct
<1>5. JobsInv /\ \A M : JobCopies(M)
  BY <1>1, NoJobFacts DEF JobsInv, JobCopies
<1>6. PICK M : TableKept(M)
  <2>1. TableKept([m \in Names |-> policies[m].keys])
    BY <1>1, PolicyKeys DEF HandlerInv, KeyringInv, KeyringTypeOK, TableKept
  <2> QED
    BY <2>1
<1>7. CallCopies(Workers, M)
  BY <1>2, TokenizeAssumption DEF CallCopies, Idle
<1>f. PICK F : F = [l \in 0..MaxLives |-> M]
  OBVIOUS
<1>g. F[lives] = M
  BY <1>1, <1>f, TokenizeAssumption
<1>8. TokenizeCopies(F)
  BY <1>1, <1>5, <1>6, <1>7, <1>g DEF TokenizeCopies, StoreCopies
<1> QED
  BY <1>1, <1>3, <1>4, <1>5, <1>8 DEF TokenizeInv

LEMMA TokenizeStepInv == TokenizeInv /\ [TokenizeNext]_allVars => TokenizeInv'
<1> SUFFICES ASSUME TokenizeInv, [TokenizeNext]_allVars PROVE TokenizeInv'
  OBVIOUS
<1> customTransformations \in [Custom -> SUBSET Alphabets]
  BY DEF TokenizeInv, StoreInv
<1>1. CASE UNCHANGED allVars
  BY <1>1, TransformationsKeepInv DEF allVars, tokenizeVars
<1>2. ASSUME NEW w \in Workers, NEW n \in Names, NEW t \in Transformations, FPEEncrypt(w, n, t)
      PROVE  TokenizeInv'
  BY <1>2, FPEEncryptKeepsInv
<1>3. ASSUME NEW w \in Workers, NEW k \in tokens, FPEDecrypt(w, k) PROVE TokenizeInv'
  BY <1>3, FPEDecryptKeepsInv
<1>4. ASSUME NEW w \in Workers, Fetch(w) \/ FetchFails(w) \/ Deliver(w) \/ Store(w) \/ Transform(w)
      PROVE  TokenizeInv'
  BY <1>4, FetchKeepsInv, FetchFailsKeepsInv, DeliverKeepsInv, StoreKeepsInv, TransformKeepsInv
<1>5. ASSUME NEW t \in Custom, DeleteTransformation(t) \/ \E a \in Alphabets : CreateTransformation(t, a)
      PROVE  TokenizeInv'
  BY <1>5, TransformationsKeepInv DEF DeleteTransformation, CreateTransformation
<1> QED
  BY <1>1, <1>2, <1>3, <1>4, <1>5, TokenizeCrashKeepsInv, VaultCrashKeepsInv, VaultStepKeepsInv
     DEF TokenizeNext

LEMMA InvSameVersionOpens == TokenizeInv => SameVersionOpens
<1> SUFFICES ASSUME TokenizeInv, NEW w \in Workers, NEW k \in tokens,
                    job[w].at = "done", job[w].token = {k}, k.trans \in BuiltIn,
                    job[w].info.version = k.version, job[w].info.life = k.life,
                    {k.key, job[w].info.key} \cap {Zeroed, Torn} = {}
             PROVE  job[w].opened
  BY DEF SameVersionOpens
<1>1. PICK F : TokenizeCopies(F)
  BY DEF TokenizeInv
<1>2. JobShape(tokens, job[w], call[w])
  BY JobFacts
<1>3. k.name = job[w].name
  BY <1>2 DEF JobShape
<1>4. /\ Copy(F[k.life], k.life \in Lapsed[2], k.name, k.version, k.key)
      /\ Copy(F[k.life], k.life \in Lapsed[2], k.name, k.version, job[w].info.key)
  BY <1>1, <1>3 DEF TokenizeCopies, StoreCopies, JobCopies, TokenCopy, JobCopy, LifeCopy
<1>5. k.key = job[w].info.key
  BY <1>4, Zenon DEF Copy
<1> QED
  BY <1>2, <1>5 DEF JobShape

LEMMA InvTokenizeTypeOK == TokenizeInv => TokenizeTypeOK
<1>1. HandlerInv => HandlerTypeOK
  BY InvHandlerTypeOK
<1>2. TokenizeInv => \A i \in 1..Len(keyCache) : keyCache[i].k \in Names /\ keyCache[i].info \in Info
  BY EntryFields DEF TokenizeInv, StoreInv
<1> QED
  BY <1>1, <1>2 DEF TokenizeInv, StoreInv, JobsInv, TokenizeTypeOK, CacheDistinct

(* For any number of requests, keys, transformations and restarts of       *)
(* either service: an FPEDecrypt that answers with the key version that    *)
(* FPEEncrypt reported, from the same life of the vault, answers the       *)
(* plaintext, if the transformation is built in and no Seal caught the key *)
(* bytes, whatever was rotated, evicted or changed in between.  A token    *)
(* the library wrote in other letters than its alphabet's is refused.      *)
THEOREM TokenizeCorrect == TokenizeSpec => [](TokenizeTypeOK /\ SameVersionOpens)
<1>1. TokenizeInv => TokenizeTypeOK /\ SameVersionOpens
  BY InvTokenizeTypeOK, InvSameVersionOpens
<1> QED
  BY <1>1, TokenizeInitInv, TokenizeStepInv, PTL DEF TokenizeSpec
-----------------------------------------------------------------------------
(* The result m of masking v shows its first p and last q bytes only. *)
Shows(v, p, q, m) ==
  LET n == Len(v)
      Asked == {i \in 1..n : i <= p \/ i > n - q}
  IN /\ p >= 0 /\ q >= 0 => m = [i \in 1..n |-> IF i \in Asked THEN v[i] ELSE MaskChar]
     /\ \A i \in DOMAIN m : m[i] # MaskChar => \E j \in Asked : m[i] = v[j]

LEMMA WholeShown ==
  ASSUME NEW v \in Seq(Bytes), NEW p \in Int, NEW q \in Int, v = <<>> \/ p + q >= Len(v)
  PROVE  Shows(v, p, q, v)
<1>1. Len(v) \in Nat /\ v = [i \in 1..Len(v) |-> v[i]] /\ DOMAIN v = 1..Len(v) /\ (v = <<>> => Len(v) = 0)
  OBVIOUS
<1>n. PICK n \in Nat : n = Len(v)
  BY <1>1
<1>2. \A i \in 1..n : i <= p \/ i > n - q
  BY <1>1, <1>n
<1> QED
  BY <1>1, <1>n, <1>2 DEF Shows

(* The lengths of the three parts of a masked value: P, k and Q. *)
Parts(v, p, q, n, P, k, Q) ==
  /\ v \in Seq(Bytes) /\ n = Len(v) /\ n \in Nat
  /\ p \in Int /\ q \in Int /\ p <= n /\ q <= n /\ p + q < n
  /\ P \in Nat /\ P = IF p > 0 THEN p ELSE 0
  /\ k \in Nat /\ k = n - (p + q)
  /\ Q \in Nat /\ Q = IF q > 0 THEN q ELSE 0

(* The masked value, byte by byte. *)
Joined(v, m, P, k, Q, n, q) ==
  /\ m \in Seq(Bytes \cup {MaskChar})
  /\ Len(m) = P + k + Q
  /\ \A i \in 1..(P + k + Q) :
       m[i] = IF i <= P THEN v[i] ELSE IF i <= P + k THEN MaskChar ELSE v[i - (P + k) + (n - q)]

LEMMA AttachBytes ==
  ASSUME NEW v, NEW p, NEW q, NEW n, NEW P, NEW k, NEW Q, Parts(v, p, q, n, P, k, Q)
  PROVE  Joined(v, Attach(v, p, q), P, k, Q, n, q)
<1> USE DEF Parts
<1> DEFINE S == Bytes \cup {MaskChar}
           a == IF p > 0 THEN SubSeq(v, 1, p) ELSE <<>>
           b == [i \in 1..k |-> MaskChar]
           c == IF q > 0 THEN SubSeq(v, n - q + 1, n) ELSE <<>>
<1>1. n \in Nat /\ k \in Nat /\ P \in Nat /\ Q \in Nat /\ p <= n /\ q <= n
  OBVIOUS
<1>2. \A i \in 1..n : v[i] \in S
  OBVIOUS
<1>3. a \in Seq(S) /\ Len(a) = P /\ \A i \in 1..P : a[i] = v[i]
  <2>1. CASE p > 0
    <3>1. \A i \in 1..p : v[i] \in S
      BY <1>2
    <3>2. /\ SubSeq(v, 1, p) \in Seq(S)
          /\ Len(SubSeq(v, 1, p)) = IF 1 <= p THEN p - 1 + 1 ELSE 0
          /\ \A i \in 1..(p - 1 + 1) : SubSeq(v, 1, p)[i] = v[1 + i - 1]
      BY <3>1, SubSeqProperties
    <3>3. P = p /\ a = SubSeq(v, 1, p) /\ p - 1 + 1 = p /\ \A i \in 1..p : 1 + i - 1 = i
      BY <2>1
    <3> HIDE DEF a, S
    <3> QED
      BY <2>1, <3>2, <3>3
  <2>2. CASE ~(p > 0)
    <3>1. a = <<>> /\ P = 0
      BY <2>2
    <3> QED
      BY <3>1
  <2> QED
    BY <2>1, <2>2
<1>4. b \in Seq(S) /\ Len(b) = k /\ \A i \in 1..k : b[i] = MaskChar
  BY <1>1
<1>5. c \in Seq(S) /\ Len(c) = Q /\ \A i \in 1..Q : c[i] = v[i + (n - q)]
  <2>1. CASE q > 0
    <3> DEFINE l == n - q + 1
    <3>0. l \in Int /\ l >= 1 /\ Q = q /\ l <= n
      BY <1>1, <2>1
    <3>1. \A i \in l..n : v[i] \in S
      BY <1>2, <3>0
    <3>2. /\ SubSeq(v, l, n) \in Seq(S)
          /\ Len(SubSeq(v, l, n)) = IF l <= n THEN n - l + 1 ELSE 0
          /\ \A i \in 1..(n - l + 1) : SubSeq(v, l, n)[i] = v[l + i - 1]
      BY <1>1, <3>0, <3>1, SubSeqProperties
    <3>3. n - l + 1 = Q /\ \A i \in 1..Q : l + i - 1 = i + (n - q)
      BY <1>1, <3>0
    <3>4. c = SubSeq(v, l, n)
      BY <2>1
    <3> HIDE DEF c, S, l
    <3> QED
      BY <3>0, <3>2, <3>3, <3>4, Zenon
  <2>2. CASE ~(q > 0)
    <3>1. c = <<>> /\ Q = 0
      BY <2>2
    <3> QED
      BY <3>1
  <2> QED
    BY <2>1, <2>2
<1>6. Attach(v, p, q) = (a \o b) \o c
  BY DEF Attach
<1> HIDE DEF a, b, c, S, Parts
<1>7. /\ a \o b \in Seq(S) /\ Len(a \o b) = P + k
      /\ \A i \in 1..(P + k) : (a \o b)[i] = IF i <= P THEN a[i] ELSE b[i - P]
  <2>1. /\ a \o b \in Seq(S) /\ Len(a \o b) = Len(a) + Len(b)
        /\ \A i \in 1..(Len(a) + Len(b)) : (a \o b)[i] = IF i <= Len(a) THEN a[i] ELSE b[i - Len(a)]
    BY <1>3, <1>4, ConcatProperties, Zenon
  <2> QED
    BY <1>3, <1>4, <2>1
<1>8. /\ (a \o b) \o c \in Seq(S) /\ Len((a \o b) \o c) = P + k + Q
      /\ \A i \in 1..(P + k + Q) : ((a \o b) \o c)[i] = IF i <= P + k THEN (a \o b)[i] ELSE c[i - (P + k)]
  <2> DEFINE d == a \o b
  <2> HIDE DEF d
  <2>1. d \in Seq(S) /\ Len(d) = P + k
    BY <1>7 DEF d
  <2>2. /\ d \o c \in Seq(S) /\ Len(d \o c) = Len(d) + Len(c)
        /\ \A i \in 1..(Len(d) + Len(c)) : (d \o c)[i] = IF i <= Len(d) THEN d[i] ELSE c[i - Len(d)]
    BY <1>5, <2>1, ConcatProperties, Zenon
  <2>3. /\ d \o c \in Seq(S) /\ Len(d \o c) = P + k + Q
        /\ \A i \in 1..(P + k + Q) : (d \o c)[i] = IF i <= P + k THEN d[i] ELSE c[i - (P + k)]
    BY <1>5, <2>1, <2>2, Zenon
  <2> QED
    BY <2>3, Zenon DEF d
<1>9. ASSUME NEW i \in 1..(P + k + Q)
      PROVE  ((a \o b) \o c)[i] =
               IF i <= P THEN v[i] ELSE IF i <= P + k THEN MaskChar ELSE v[i - (P + k) + (n - q)]
  <2>1. CASE i <= P
    <3>1. i \in 1..P /\ i \in 1..(P + k) /\ i <= P + k
      BY <1>1, <2>1
    <3> QED
      BY <1>3, <1>7, <1>8, <2>1, <3>1
  <2>2. CASE ~(i <= P) /\ i <= P + k
    <3>1. i - P \in 1..k /\ i \in 1..(P + k)
      BY <1>1, <2>2
    <3> QED
      BY <1>4, <1>7, <1>8, <2>2, <3>1
  <2>3. CASE ~(i <= P + k)
    <3>1. i - (P + k) \in 1..Q /\ ~(i <= P)
      BY <1>1, <2>3
    <3> QED
      BY <1>5, <1>8, <2>3, <3>1
  <2> QED
    BY <1>1, <2>1, <2>2, <2>3, Zenon
<1>10. Joined(v, (a \o b) \o c, P, k, Q, n, q)
  BY <1>8, <1>9 DEF S, Joined
<1> QED
  BY <1>6, <1>10

LEMMA AttachShows ==
  ASSUME NEW v \in Seq(Bytes), NEW p \in Int, NEW q \in Int,
         p + q < Len(v), p <= Len(v), q <= Len(v)
  PROVE  Shows(v, p, q, Attach(v, p, q))
<1>n. PICK n \in Nat : n = Len(v)
  OBVIOUS
<1>P. PICK P \in Nat : P = IF p > 0 THEN p ELSE 0
  OBVIOUS
<1>Q. PICK Q \in Nat : Q = IF q > 0 THEN q ELSE 0
  OBVIOUS
<1>k. PICK k \in Nat : k = n - (p + q)
  BY <1>n
<1>m. PICK m : m = Attach(v, p, q)
  OBVIOUS
<1>0. Parts(v, p, q, n, P, k, Q)
  BY <1>n, <1>P, <1>Q, <1>k DEF Parts
<1>1. /\ m \in Seq(Bytes \cup {MaskChar})
      /\ Len(m) = P + k + Q
      /\ \A i \in 1..(P + k + Q) :
           m[i] = IF i <= P THEN v[i] ELSE IF i <= P + k THEN MaskChar ELSE v[i - (P + k) + (n - q)]
  <2>1. Joined(v, m, P, k, Q, n, q)
    BY ONLY <1>0, <1>m, AttachBytes
  <2> QED
    BY <2>1 DEF Joined
<1>2. DOMAIN m = 1..(P + k + Q) /\ m = [i \in 1..(P + k + Q) |-> m[i]]
  BY <1>1
<1>3. p <= n /\ q <= n /\ p + q < n
  BY <1>n
<1> DEFINE Asked == {i \in 1..n : i <= p \/ i > n - q}
<1>4. ASSUME p >= 0, q >= 0
      PROVE  m = [i \in 1..n |-> IF i \in Asked THEN v[i] ELSE MaskChar]
  <2>1. P = p /\ Q = q /\ P + k + Q = n /\ P + k = n - q
    BY <1>P, <1>Q, <1>k, <1>4
  <2>2. ASSUME NEW i \in 1..n PROVE m[i] = IF i \in Asked THEN v[i] ELSE MaskChar
    <3>1. m[i] = IF i <= p THEN v[i] ELSE IF i <= n - q THEN MaskChar ELSE v[i - (n - q) + (n - q)]
      BY <1>1, <2>1, Zenon
    <3>2. i - (n - q) + (n - q) = i /\ (i \in Asked <=> i <= p \/ ~(i <= n - q))
      OBVIOUS
    <3> HIDE DEF Asked
    <3> QED
      BY <3>1, <3>2
  <2> HIDE DEF Asked
  <2>3. m = [i \in 1..n |-> m[i]]
    BY <1>2, <2>1
  <2> QED
    BY <2>2, <2>3
<1>5. ASSUME NEW i \in DOMAIN m, m[i] # MaskChar
      PROVE  \E j \in Asked : m[i] = v[j]
  <2>1. i \in 1..(P + k + Q)
    BY <1>2
  <2>2. CASE i <= P
    <3>1. i \in Asked
      BY <1>3, <1>P, <2>1, <2>2
    <3> QED
      BY <1>1, <2>1, <2>2, <3>1
  <2>3. CASE ~(i <= P)
    <3> DEFINE j == i - (P + k) + (n - q)
    <3>1. ~(i <= P + k)
      BY <1>1, <1>5, <2>1, <2>3
    <3>2. j \in Asked
      BY <1>3, <1>Q, <2>1, <3>1
    <3>3. m[i] = v[j]
      BY <1>1, <2>1, <2>3, <3>1
    <3> QED
      BY <3>2, <3>3
  <2> QED
    BY <2>2, <2>3
<1> QED
  BY <1>4, <1>5, <1>m, <1>n DEF Shows

LEMMA MaskShows ==
  ASSUME NEW v \in Seq(Bytes), NEW p \in Int, NEW q \in Int, NEW m \in Mask(v, p, q)
  PROVE  Shows(v, p, q, m)
<1>1. CASE v = <<>> \/ p + q >= Len(v)
  BY <1>1, WholeShown DEF Mask
<1>2. CASE ~(v = <<>> \/ p + q >= Len(v))
  <2>1. Len(v) \in Nat
    OBVIOUS
  <2>2. p <= Len(v) /\ q <= Len(v) /\ m = Attach(v, p, q) /\ p + q < Len(v)
    BY <1>2, <2>1 DEF Mask
  <2> QED
    BY <2>2, AttachShows
<1> QED
  BY <1>1, <1>2

(* Every result of the request being answered shows what was asked. *)
MaskedShows(r) ==
  \A i \in DOMAIN r.values : Shows(r.values[i], r.first, r.last, r.results[i])

MaskInv == MaskedShows(masked)

LEMMA MaskedShowsAsked == MaskInv => MaskShowsAsked
  BY DEF MaskInv, MaskedShows, MaskShowsAsked, Shows

LEMMA MaskBatchShows ==
  ASSUME NEW p \in Preserve, NEW q \in Preserve, NEW values,
         \A i \in DOMAIN values : values[i] \in Values, MaskBatch(p, q, values)
  PROVE  MaskedShows(masked')
<1>1. CASE masked' = NoMasked
  BY <1>1 DEF NoMasked, MaskedShows
<1>2. CASE /\ \A i \in DOMAIN values : Mask(values[i], p, q) # {}
           /\ masked' = [first |-> p, last |-> q, values |-> values,
                results |-> [i \in DOMAIN values |-> CHOOSE m \in Mask(values[i], p, q) : TRUE]]
  <2>1. ASSUME NEW i \in DOMAIN values
        PROVE  Shows(values[i], p, q, CHOOSE m \in Mask(values[i], p, q) : TRUE)
    <3>1. values[i] \in Seq(Bytes) /\ p \in Int /\ q \in Int
      BY MaskAssumption
    <3>2. (CHOOSE m \in Mask(values[i], p, q) : TRUE) \in Mask(values[i], p, q)
      BY <1>2
    <3> QED
      BY <3>1, <3>2, MaskShows
  <2> QED
    BY <1>2, <2>1 DEF MaskedShows
<1> QED
  BY <1>1, <1>2 DEF MaskBatch

LEMMA MaskStepShows ==
  MaskInv /\ [(TokenizeNext /\ UNCHANGED masked) \/ MaskNext]_<<allVars, masked>> => MaskInv'
<1> SUFFICES ASSUME MaskedShows(masked), [(TokenizeNext /\ UNCHANGED masked) \/ MaskNext]_<<allVars, masked>>
             PROVE  MaskedShows(masked')
  BY DEF MaskInv
<1>1. CASE masked' = masked
  BY <1>1
<1>2. CASE MaskAnswered
  BY <1>2 DEF MaskAnswered, NoMasked, MaskedShows
<1>3. ASSUME NEW p \in Preserve, NEW q \in Preserve, NEW v \in Values, NEW w \in Values,
             MaskBatch(p, q, <<v>>) \/ MaskBatch(p, q, <<v, w>>)
      PROVE  MaskedShows(masked')
  <2>1. /\ \A i \in DOMAIN <<v>> : <<v>>[i] \in Values
        /\ \A i \in DOMAIN <<v, w>> : <<v, w>>[i] \in Values
    OBVIOUS
  <2> QED
    BY <1>3, <2>1, MaskBatchShows
<1> QED
  BY <1>1, <1>2, <1>3, Zenon DEF MaskNext

(* Mask and MaskBatch keep the bytes the pattern asks for and mask all     *)
(* others, for values of any length and preserved lengths of any sign and  *)
(* size, whatever the other requests of the service do.                    *)
THEOREM MaskingCorrect == MaskSpec => []MaskShowsAsked
<1>1. MaskInit => MaskInv
  BY DEF MaskInit, NoMasked, MaskedShows, MaskInv
<1>2. MaskSpec => []MaskInv
  BY <1>1, MaskStepShows, PTL DEF MaskSpec
<1> QED
  BY <1>2, MaskedShowsAsked, PTL
==============================================================================
