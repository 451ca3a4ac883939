---------------------------- MODULE HandlerProofs ----------------------------
(***************************************************************************)
(* Proofs about what the vault's concurrent handlers answer, for any       *)
(* number of callers, keys and versions.  A handler enters the keyring,    *)
(* answers and is marshalled in separate steps, between which keys are     *)
(* rotated and the vault is sealed and unsealed.  At the end are the       *)
(* lemmas about calls of clients that the proofs about the crypto and the  *)
(* tokenize service share: every key in a call under way is a copy.        *)
(***************************************************************************)
EXTENDS VaultProofs

(* The LatestVersion that the policy held by call x shows now. *)
ShownLatest(x) == IF HasPolicy(x.name) THEN LatestVersion(x.name) ELSE x.latest

(* What is true of a call between its critical sections. *)
CallFacts(x) ==
  /\ x.at = "marshal" => HandedOut(x)
  /\ x.at = "unsealStatus" =>
       /\ initialized
       /\ IF x.unsealed THEN x.progress = threshold ELSE x.progress < threshold
  /\ x.at \in {"make", "loop"} => krSealed \/ HasPolicy(x.name)
  /\ x.at = "loop" => x.made <= ShownLatest(x)

(* What is true of an answer, now and until the process ends. *)
RespFacts(a) ==
  /\ a.op = "key" => HandedOut(a)
  /\ a.op = "unseal" => IF a.sealed THEN a.progress < a.threshold ELSE a.progress = a.threshold
  /\ a.op = "versions" => a.made = a.latest
  /\ a.op = "secret" =>
       /\ a.version <= secrets[a.path].version
       /\ secrets[a.path].version = a.version => secrets[a.path].data = a.data

CallsInv ==
  /\ secrets \in [Paths -> Secret]
  /\ call \in [Callers -> Call]
  /\ resp \in [Callers -> Resp]
  /\ \A c \in Callers : CallFacts(call[c]) /\ RespFacts(resp[c])

HandlerInv == SealInv /\ KeyringInv /\ CallsInv
-----------------------------------------------------------------------------
(* The fields of a call, by the place it is at. *)
LEMMA CallFields ==
  ASSUME NEW x \in Call
  PROVE  /\ x.at = "unsealStatus" => x.unsealed \in BOOLEAN /\ x.progress \in Int
         /\ x.at = "marshal" => x.name \in Names /\ x.version \in Nat /\ x.key \in Nat
         /\ x.at = "make" => x.name \in Names /\ x.latest \in Nat
         /\ x.at = "loop" => x.name \in Names /\ x.latest \in Nat /\ x.made \in Nat
  BY DEF Call, Idle

LEMMA RespFields ==
  ASSUME NEW a \in Resp
  PROVE  /\ a.op = "key" => a.name \in Names /\ a.version \in Nat /\ a.key \in Nat
         /\ a.op = "secret" => a.path \in Paths /\ a.version \in Nat /\ a.data \in Data
  BY DEF Resp, NoResp

LEMMA IdleFacts == Idle \in Call /\ CallFacts(Idle) /\ NoResp \in Resp /\ RespFacts(NoResp)
  BY DEF Idle, NoResp, Call, Resp, CallFacts, RespFacts

(* A step in which one call moves on, or ends, and which changes nothing   *)
(* that the facts about the others speak of.                               *)
LEMMA OneCallMoves ==
  ASSUME CallsInv, UNCHANGED <<initialized, threshold, secrets, policies, krSealed, draws>>,
         NEW c \in Callers, NEW x \in Call, NEW a \in Resp, CallFacts(x), RespFacts(a),
         call' = [call EXCEPT ![c] = x], resp' = [resp EXCEPT ![c] = a]
  PROVE  CallsInv'
<1>1. secrets' \in [Paths -> Secret] /\ call' \in [Callers -> Call] /\ resp' \in [Callers -> Resp]
  BY DEF CallsInv
<1>2. \A d \in Callers : call'[d] = (IF d = c THEN x ELSE call[d]) /\ resp'[d] = (IF d = c THEN a ELSE resp[d])
  BY DEF CallsInv
<1>3. ASSUME NEW d \in Callers PROVE CallFacts(call[d])'
  <2>1. \E y : y = call'[d] /\ CallFacts(y)
    BY <1>2 DEF CallsInv
  <2> QED
    BY <2>1 DEF CallFacts, HandedOut, ShownLatest, HasPolicy, LatestVersion, Torn
<1>4. ASSUME NEW d \in Callers PROVE RespFacts(resp[d])'
  <2>1. \E y : y = resp'[d] /\ RespFacts(y)
    BY <1>2 DEF CallsInv
  <2> QED
    BY <2>1 DEF RespFacts, HandedOut, LatestVersion, Torn
<1> QED
  BY <1>1, <1>3, <1>4 DEF CallsInv
-----------------------------------------------------------------------------
(* Handlers that leave what the facts speak of alone. *)
LEMMA UnsealUnsealedKeepsInv ==
  ASSUME SealInv, CallsInv, NEW c \in Callers, UnsealUnsealed(c)
  PROVE  CallsInv'
<1> DEFINE x == [at |-> "unsealStatus", unsealed |-> TRUE, progress |-> threshold]
<1>1. x \in Call
  BY DEF SealInv, SealTypeOK, Call
<1>2. CallFacts(x)
  BY DEF UnsealUnsealed, CallFacts
<1>3. call' = [call EXCEPT ![c] = x] /\ resp' = resp /\ UNCHANGED lockVars
  BY DEF UnsealUnsealed, Enter
<1> HIDE DEF x
<1>4. resp[c] \in Resp /\ RespFacts(resp[c]) /\ resp' = [resp EXCEPT ![c] = resp[c]]
  BY <1>3 DEF CallsInv
<1> QED
  BY <1>1, <1>2, <1>3, <1>4, OneCallMoves, Zenon DEF lockVars, sealVars, keyringVars

LEMMA UnsealRespondKeepsInv ==
  ASSUME SealInv, CallsInv, NEW c \in Callers, UnsealRespond(c)
  PROVE  CallsInv'
<1> DEFINE a == [op |-> "unseal", sealed |-> ~call[c].unsealed,
                 threshold |-> threshold, progress |-> call[c].progress]
<1>1. call[c] \in Call /\ CallFacts(call[c]) /\ call[c].at = "unsealStatus"
  BY DEF CallsInv, UnsealRespond
<1>2. call[c].unsealed \in BOOLEAN /\ call[c].progress \in Int
  BY <1>1, CallFields
<1>3. a \in Resp
  BY <1>2 DEF SealInv, SealTypeOK, Resp
<1>4. RespFacts(a)
  BY <1>1, <1>2, Zenon DEF RespFacts, CallFacts
<1>5. call' = [call EXCEPT ![c] = Idle] /\ resp' = [resp EXCEPT ![c] = a] /\ UNCHANGED lockVars
  BY DEF UnsealRespond, Answer
<1> HIDE DEF a
<1> QED
  BY <1>3, <1>4, <1>5, IdleFacts, OneCallMoves, Zenon DEF lockVars, sealVars, keyringVars

LEMMA SealRespondKeepsInv ==
  ASSUME SealInv, CallsInv, NEW c \in Callers, SealRespond(c)
  PROVE  CallsInv'
<1> DEFINE a == [op |-> "seal", sealed |-> sealed, progress |-> Len(unsealKeys)]
<1>1. a \in Resp
  BY DEF SealInv, SealTypeOK, Resp
<1>2. RespFacts(a)
  BY DEF RespFacts
<1>3. call' = [call EXCEPT ![c] = Idle] /\ resp' = [resp EXCEPT ![c] = a] /\ UNCHANGED lockVars
  BY DEF SealRespond, Answer
<1> HIDE DEF a
<1> QED
  BY <1>1, <1>2, <1>3, IdleFacts, OneCallMoves, Zenon DEF lockVars, sealVars, keyringVars

LEMMA GetSecretKeepsInv ==
  ASSUME CallsInv, NEW c \in Callers, NEW p \in Paths, GetSecret(c, p)
  PROVE  CallsInv'
<1> DEFINE a == [op |-> "secret", path |-> p, version |-> secrets[p].version, data |-> secrets[p].data]
<1>1. a \in Resp
  BY DEF CallsInv, Secret, Resp
<1>2. RespFacts(a)
  <2>1. a.op = "secret" /\ a.path = p /\ a.version = secrets[p].version /\ a.data = secrets[p].data
    OBVIOUS
  <2>2. secrets[p].version \in Nat
    BY DEF CallsInv, Secret
  <2> HIDE DEF a
  <2> QED
    BY <2>1, <2>2 DEF RespFacts
<1>3. call' = [call EXCEPT ![c] = Idle] /\ resp' = [resp EXCEPT ![c] = a] /\ UNCHANGED lockVars
  BY DEF GetSecret, Answer
<1> HIDE DEF a
<1> QED
  BY <1>1, <1>2, <1>3, IdleFacts, OneCallMoves, Zenon DEF lockVars, sealVars, keyringVars

(* The key a call was given is the material of its name and version. *)
LEMMA GetEncryptionKeyCallKeepsInv ==
  ASSUME KeyringInv, CallsInv, NEW c \in Callers, NEW n \in Names, NEW v \in Nat,
         GetEncryptionKeyCall(c, n, v)
  PROVE  CallsInv'
<1> DEFINE w == ResolveVersion(n, v)
           x == [at |-> "marshal", name |-> n, version |-> w, key |-> policies[n].keys[w]]
<1>1. ~krSealed /\ w \in 1..LatestVersion(n)
  BY DEF GetEncryptionKeyCall, CanGetEncryptionKey, HasKeyVersion
<1>2. w \in Nat /\ policies[n].keys[w] \in Nat
  BY <1>1, PolicyKeys DEF KeyringInv, KeyringTypeOK, LatestVersion
<1>3. call' = [call EXCEPT ![c] = x] /\ resp' = resp /\ UNCHANGED lockVars
  BY DEF GetEncryptionKeyCall, Enter, GetKeyVersion
<1> HIDE DEF w
<1>4. x \in Call
  BY <1>2 DEF Call
<1>5. CallFacts(x)
  BY <1>1 DEF CallFacts, HandedOut
<1> HIDE DEF x
<1>6. resp[c] \in Resp /\ RespFacts(resp[c]) /\ resp' = [resp EXCEPT ![c] = resp[c]]
  BY <1>3 DEF CallsInv
<1> QED
  BY <1>3, <1>4, <1>5, <1>6, OneCallMoves, Zenon DEF lockVars, sealVars, keyringVars

LEMMA GetEncryptionKeyMarshalKeepsInv ==
  ASSUME CallsInv, NEW c \in Callers, GetEncryptionKeyMarshal(c)
  PROVE  CallsInv'
<1> DEFINE a == [op |-> "key", name |-> call[c].name, version |-> call[c].version, key |-> call[c].key]
<1>1. call[c] \in Call /\ CallFacts(call[c]) /\ call[c].at = "marshal"
  BY DEF CallsInv, GetEncryptionKeyMarshal
<1>2. call[c].name \in Names /\ call[c].version \in Nat /\ call[c].key \in Nat
  BY <1>1, CallFields
<1>3. a \in Resp
  BY <1>2 DEF Resp
<1>4. RespFacts(a)
  BY <1>1 DEF RespFacts, CallFacts, HandedOut
<1>5. call' = [call EXCEPT ![c] = Idle] /\ resp' = [resp EXCEPT ![c] = a] /\ UNCHANGED lockVars
  BY DEF GetEncryptionKeyMarshal, Answer
<1> HIDE DEF a
<1> QED
  BY <1>3, <1>4, <1>5, IdleFacts, OneCallMoves, Zenon DEF lockVars, sealVars, keyringVars

LEMMA GetKeyVersionsCallKeepsInv ==
  ASSUME KeyringInv, CallsInv, NEW c \in Callers, NEW n \in Names, GetKeyVersionsCall(c, n)
  PROVE  CallsInv'
<1> DEFINE x == [at |-> "make", name |-> n, latest |-> LatestVersion(n)]
<1>1. LatestVersion(n) \in Nat
  BY PolicyKeys DEF KeyringInv, KeyringTypeOK, LatestVersion
<1>2. x \in Call
  BY <1>1 DEF Call
<1>3. CallFacts(x)
  BY DEF GetKeyVersionsCall, CanGetKey, CallFacts
<1>4. call' = [call EXCEPT ![c] = x] /\ resp' = resp /\ UNCHANGED lockVars
  BY DEF GetKeyVersionsCall, Enter
<1> HIDE DEF x
<1>5. resp[c] \in Resp /\ RespFacts(resp[c]) /\ resp' = [resp EXCEPT ![c] = resp[c]]
  BY <1>4 DEF CallsInv
<1> QED
  BY <1>2, <1>3, <1>4, <1>5, OneCallMoves, Zenon DEF lockVars, sealVars, keyringVars

(* A call at "make" or "loop" is shown a number. *)
LEMMA HeldLatestNat ==
  ASSUME KeyringInv, CallsInv, NEW c \in Callers, call[c].at \in {"make", "loop"}
  PROVE  call[c].name \in Names /\ HeldLatest(c) \in Nat /\ HeldLatest(c) = ShownLatest(call[c])
<1>1. call[c].name \in Names /\ call[c].latest \in Nat
  BY CallFields DEF CallsInv
<1>2. LatestVersion(call[c].name) \in Nat
  BY <1>1, PolicyKeys DEF KeyringInv, KeyringTypeOK, LatestVersion
<1> QED
  BY <1>1, <1>2 DEF HeldLatest, ShownLatest

LEMMA GetKeyVersionsMakeKeepsInv ==
  ASSUME KeyringInv, CallsInv, NEW c \in Callers, GetKeyVersionsMake(c)
  PROVE  CallsInv'
<1> DEFINE L == HeldLatest(c)
           x == [at |-> "loop", name |-> call[c].name, latest |-> L, made |-> L]
<1>1. call[c].at = "make" /\ CallFacts(call[c])
  BY DEF CallsInv, GetKeyVersionsMake
<1>2. call[c].name \in Names /\ L \in Nat /\ L = ShownLatest(call[c])
  BY <1>1, HeldLatestNat
<1>3. call' = [call EXCEPT ![c] = x] /\ resp' = resp /\ UNCHANGED lockVars
  BY DEF GetKeyVersionsMake, Enter
<1> HIDE DEF L
<1>4. x \in Call
  BY <1>2 DEF Call
<1>5. CallFacts(x)
  BY <1>1, <1>2 DEF CallFacts, ShownLatest
<1> HIDE DEF x
<1>6. resp[c] \in Resp /\ RespFacts(resp[c]) /\ resp' = [resp EXCEPT ![c] = resp[c]]
  BY <1>3 DEF CallsInv
<1> QED
  BY <1>3, <1>4, <1>5, <1>6, OneCallMoves, Zenon DEF lockVars, sealVars, keyringVars

LEMMA NoSecretsType == NoSecrets \in [Paths -> Secret]
  BY LockAssumption DEF NoSecrets, NoSecret, Secret

(* The process ends and takes every call and answer with it. *)
LEMMA CrashKeepsCallsInv ==
  ASSUME ProcessCrash
  PROVE  CallsInv'
<1>1. secrets' = NoSecrets /\ call' = [c \in Callers |-> Idle] /\ resp' = [c \in Callers |-> NoResp]
  BY DEF ProcessCrash, Crash, NoSecrets
<1>2. secrets' \in [Paths -> Secret] /\ call' \in [Callers -> Call] /\ resp' \in [Callers -> Resp]
  BY <1>1, IdleFacts, NoSecretsType
<1>3. ASSUME NEW c \in Callers PROVE CallFacts(call[c])' /\ RespFacts(resp[c])'
  BY <1>1 DEF CallFacts, RespFacts, Idle, NoResp
<1> QED
  BY <1>2, <1>3 DEF CallsInv

LEMMA GetKeyVersionsLoopKeepsInv ==
  ASSUME KeyringInv, CallsInv, NEW c \in Callers, GetKeyVersionsLoop(c)
  PROVE  CallsInv'
<1>1. call[c].at = "loop" /\ call[c] \in Call /\ CallFacts(call[c])
  BY DEF CallsInv, GetKeyVersionsLoop
<1>2. HeldLatest(c) \in Nat /\ HeldLatest(c) = ShownLatest(call[c]) /\ call[c].made \in Nat
  BY <1>1, HeldLatestNat, CallFields
<1>3. call[c].made <= HeldLatest(c)
  BY <1>1, <1>2 DEF CallFacts
<1>4. CASE ProcessCrash
  BY <1>4, CrashKeepsCallsInv
<1>5. CASE HeldLatest(c) <= call[c].made /\ UNCHANGED lockVars
           /\ Answer(c, [op |-> "versions", made |-> call[c].made, latest |-> HeldLatest(c)])
  <2> DEFINE a == [op |-> "versions", made |-> call[c].made, latest |-> HeldLatest(c)]
  <2>1. a \in Resp
    BY <1>2 DEF Resp
  <2>2. RespFacts(a)
    BY <1>2, <1>3, <1>5 DEF RespFacts
  <2>3. call' = [call EXCEPT ![c] = Idle] /\ resp' = [resp EXCEPT ![c] = a]
    BY <1>5 DEF Answer
  <2> HIDE DEF a
  <2> QED
    BY <1>5, <2>1, <2>2, <2>3, IdleFacts, OneCallMoves, Zenon DEF lockVars, sealVars, keyringVars
<1> QED
  BY <1>4, <1>5 DEF GetKeyVersionsLoop

(* Unseal takes the share and computes the progress in one critical        *)
(* section: fewer shares than the threshold, or all of them.               *)
LEMMA UnsealCallKeepsInv ==
  ASSUME SealInv, CallsInv, NEW c \in Callers, NEW share \in Share, UnsealCall(c, share)
  PROVE  CallsInv'
<1> DEFINE submitted == Append(unsealKeys, share)
<1>0. unsealKeys \in Seq(Share) /\ threshold \in Int /\ initialized /\ sealed
  BY DEF SealInv, SealTypeOK, UnsealCall, Unseal
<1>1. /\ submitted # <<>> /\ Len(submitted) \in Nat
      /\ threshold \in Int /\ initialized /\ sealed
  BY <1>0
<1>2. CASE /\ ~EnoughShares(submitted)
           /\ unsealKeys' = submitted
           /\ UNCHANGED <<initialized, sealed, shares, threshold, secrets, keyringVars>>
  <2> DEFINE x == [at |-> "unsealStatus", unsealed |-> FALSE, progress |-> Len(submitted)]
  <2>1. call' = [call EXCEPT ![c] = x] /\ resp' = resp
    BY <1>1, <1>2 DEF UnsealCall, Enter
  <2> HIDE DEF submitted
  <2>2. x \in Call
    BY <1>1 DEF Call
  <2>3. CallFacts(x)
    BY <1>1, <1>2 DEF CallFacts, EnoughShares
  <2> HIDE DEF x
  <2>4. resp[c] \in Resp /\ RespFacts(resp[c]) /\ resp' = [resp EXCEPT ![c] = resp[c]]
    BY <2>1 DEF CallsInv
  <2> QED
    BY <1>2, <2>1, <2>2, <2>3, <2>4, OneCallMoves, Zenon DEF keyringVars
<1>3. CASE /\ unsealKeys' = <<>>
           /\ UNCHANGED <<initialized, shares, threshold, secrets, keyringVars>>
  <2>1. CASE Enter(c, [at |-> "unsealStatus", unsealed |-> TRUE, progress |-> threshold])
    <3> DEFINE x == [at |-> "unsealStatus", unsealed |-> TRUE, progress |-> threshold]
    <3>1. x \in Call
      BY <1>1 DEF Call
    <3>2. CallFacts(x)
      BY <1>1 DEF CallFacts
    <3>3. call' = [call EXCEPT ![c] = x] /\ resp' = resp
      BY <2>1 DEF Enter
    <3> HIDE DEF x
    <3>4. resp[c] \in Resp /\ RespFacts(resp[c]) /\ resp' = [resp EXCEPT ![c] = resp[c]]
      BY <3>3 DEF CallsInv
    <3> QED
      BY <1>3, <3>1, <3>2, <3>3, <3>4, OneCallMoves, Zenon DEF keyringVars
  <2>2. CASE Answer(c, NoResp)
    BY <1>3, <2>2, IdleFacts, OneCallMoves, Zenon DEF Answer, keyringVars
  <2> QED
    BY <1>1, <1>3, <2>1, <2>2 DEF UnsealCall
<1>4. CASE Crash
  <2>1. ~initialized'
    BY <1>4 DEF Crash
  <2>2. ProcessCrash
    BY <1>4, <2>1 DEF UnsealCall, ProcessCrash
  <2> QED
    BY <2>2, CrashKeepsCallsInv
<1> QED
  BY <1>2, <1>3, <1>4, Zenon DEF UnsealCall, Unseal

(* Initialize sets the threshold: no call is between an Unseal and its     *)
(* second look at it.                                                      *)
LEMMA InitializeKeepsInv ==
  ASSUME CallsInv, NEW n \in ShareCounts, NEW t \in Thresholds, InitializeVault(n, t)
  PROVE  CallsInv'
<1>1. ~initialized /\ UNCHANGED <<secrets, policies, krSealed, draws, call, resp>>
  BY DEF InitializeVault, Initialize, keyringVars, handlerVars
<1>2. ASSUME NEW d \in Callers PROVE CallFacts(call[d])'
  <2>1. CallFacts(call[d]) /\ call[d].at # "unsealStatus"
    BY <1>1 DEF CallsInv, CallFacts
  <2> QED
    BY <1>1, <2>1 DEF CallFacts, HandedOut, ShownLatest, HasPolicy, LatestVersion
<1>3. ASSUME NEW d \in Callers PROVE RespFacts(resp[d])'
  BY <1>1 DEF CallsInv, RespFacts, HandedOut, LatestVersion
<1> QED
  BY <1>1, <1>2, <1>3 DEF CallsInv

(* PutSecret numbers the new contents with a version no answer has yet. *)
LEMMA PutSecretKeepsInv ==
  ASSUME CallsInv, NEW c \in Callers, NEW p \in Paths, NEW d \in Data, PutSecretCall(c, p, d)
  PROVE  CallsInv'
<1> DEFINE v == secrets[p].version + 1
           s == [version |-> v, data |-> d]
           a == [op |-> "secret", path |-> p, version |-> v, data |-> d]
<1>1. secrets \in [Paths -> Secret] /\ secrets[p].version \in Nat /\ v \in Nat
  BY DEF CallsInv, Secret
<1>2. /\ UNCHANGED <<initialized, threshold, policies, krSealed, draws>>
      /\ secrets' = [secrets EXCEPT ![p] = s]
  BY DEF PutSecretCall, PutSecret, sealVars, keyringVars
<1>3. secrets'[p] = s /\ s.version = v /\ s.data = d
  BY <1>1, <1>2
<1>4. call' = [call EXCEPT ![c] = Idle] /\ resp' = [resp EXCEPT ![c] = a]
  BY <1>3 DEF PutSecretCall, Answer
<1>5. s \in Secret /\ a \in Resp /\ a.op = "secret" /\ a.path = p /\ a.version = v /\ a.data = d
  BY <1>1 DEF Secret, Resp
<1> HIDE DEF s, a
<1>6. secrets' \in [Paths -> Secret] /\ call' \in [Callers -> Call] /\ resp' \in [Callers -> Resp]
  BY <1>1, <1>2, <1>4, <1>5, IdleFacts DEF CallsInv
<1>7. ASSUME NEW e \in Callers PROVE CallFacts(call[e])'
  <2>1. \E y : y = call'[e] /\ CallFacts(y)
    BY <1>4, IdleFacts DEF CallsInv
  <2> QED
    BY <1>2, <2>1 DEF CallFacts, HandedOut, ShownLatest, HasPolicy, LatestVersion
<1>8. ASSUME NEW e \in Callers PROVE RespFacts(resp[e])'
  <2>1. CASE e = c
    <3>1. resp'[e] = a
      BY <1>4, <2>1 DEF CallsInv
    <3> QED
      BY <1>1, <1>3, <1>5, <3>1 DEF RespFacts
  <2>2. CASE e # c
    <3>1. resp'[e] = resp[e] /\ RespFacts(resp[e]) /\ resp[e] \in Resp
      BY <1>4, <2>2 DEF CallsInv
    <3>2. resp[e].op = "secret" /\ resp[e].path = p => resp[e].version < secrets'[p].version
      BY <1>1, <1>3, <3>1, RespFields DEF RespFacts
    <3>3. resp[e].op = "secret" /\ resp[e].path # p => secrets'[resp[e].path] = secrets[resp[e].path]
      BY <1>1, <1>2, <3>1, RespFields
    <3>4. resp[e].op = "secret" => resp[e].version \in Nat
      BY <3>1, RespFields
    <3>5. resp[e].op = "secret" =>
            /\ resp[e].version <= secrets'[resp[e].path].version
            /\ secrets'[resp[e].path].version = resp[e].version => secrets'[resp[e].path].data = resp[e].data
      <4>1. CASE resp[e].path = p
        BY <1>1, <1>3, <3>2, <3>4, <4>1
      <4>2. CASE resp[e].path # p
        BY <3>1, <3>3, <4>2 DEF RespFacts
      <4> QED
        BY <4>1, <4>2
    <3>6. UNCHANGED <<policies, krSealed, draws>>
      BY <1>2
    <3>7. resp[e].op = "key" => HandedOut(resp[e])'
      BY <3>1, <3>6 DEF RespFacts, HandedOut, LatestVersion
    <3> QED
      BY <3>1, <3>5, <3>7 DEF RespFacts
  <2> QED
    BY <2>1, <2>2
<1> QED
  BY <1>6, <1>7, <1>8 DEF CallsInv

LEMMA DeleteSecretKeepsInv ==
  ASSUME CallsInv, NEW c \in Callers, NEW p \in Paths, DeleteSecretCall(c, p)
  PROVE  CallsInv'
<1>1. /\ UNCHANGED <<initialized, threshold, policies, krSealed, draws, call>>
      /\ secrets' = [secrets EXCEPT ![p] = NoSecret]
  BY DEF DeleteSecretCall, DeleteSecret, sealVars, keyringVars
<1>2. resp' = [d \in Callers |-> IF resp[d].op = "secret" /\ resp[d].path = p THEN NoResp ELSE resp[d]]
  BY DEF DeleteSecretCall
<1>3. secrets \in [Paths -> Secret] /\ NoSecret \in Secret
  BY LockAssumption DEF CallsInv, NoSecret, Secret
<1>4. secrets' \in [Paths -> Secret] /\ call' \in [Callers -> Call] /\ resp' \in [Callers -> Resp]
  BY <1>1, <1>2, <1>3, IdleFacts DEF CallsInv
<1>5. ASSUME NEW e \in Callers PROVE CallFacts(call[e])'
  BY <1>1 DEF CallsInv, CallFacts, HandedOut, ShownLatest, HasPolicy, LatestVersion
<1>6. ASSUME NEW e \in Callers PROVE RespFacts(resp[e])'
  <2>1. CASE resp[e].op = "secret" /\ resp[e].path = p
    <3>1. resp'[e] = NoResp
      BY <1>2, <2>1
    <3> QED
      BY <3>1 DEF NoResp, RespFacts
  <2>2. CASE ~(resp[e].op = "secret" /\ resp[e].path = p)
    <3>1. resp'[e] = resp[e] /\ RespFacts(resp[e]) /\ resp[e] \in Resp
      BY <1>2, <2>2 DEF CallsInv
    <3>2. resp[e].op = "secret" => secrets'[resp[e].path] = secrets[resp[e].path]
      BY <1>1, <1>3, <2>2, <3>1, RespFields
    <3> QED
      BY <1>1, <3>1, <3>2 DEF RespFacts, HandedOut, LatestVersion
  <2> QED
    BY <2>1, <2>2
<1> QED
  BY <1>4, <1>5, <1>6 DEF CallsInv

(* A rotation or a new key adds versions to the policies calls hold. *)
LEMMA GenerationKeepsCallsInv ==
  ASSUME KeyringInv, KeyringInv', CallsInv, TableGrown, ~krSealed,
         UNCHANGED <<initialized, threshold, secrets, krSealed, call, resp>>
  PROVE  CallsInv'
<1>1. \A m \in Names : policies[m].keys \in Seq(Nat) /\ policies'[m].keys \in Seq(Nat)
  BY PolicyKeys DEF KeyringInv, KeyringTypeOK
<1>2. \A m \in Names : /\ LatestVersion(m) \in Nat /\ LatestVersion(m)' \in Nat
                       /\ LatestVersion(m) <= LatestVersion(m)'
  BY <1>1 DEF LatestVersion, TableGrown
<1>3. \A m \in Names : HasPolicy(m) => HasPolicy(m)'
  BY <1>1 DEF HasPolicy, TableGrown
<1>4. ASSUME NEW k, k.name \in Names, HandedOut(k)
      PROVE  /\ k.version \in 1..LatestVersion(k.name)'
             /\ k.key = policies'[k.name].keys[k.version]
  <2>1. k.version \in 1..LatestVersion(k.name) /\ k.key = policies[k.name].keys[k.version]
    BY <1>4 DEF HandedOut
  <2>2. k.version \in 1..LatestVersion(k.name)'
    BY <1>2, <1>4, <2>1
  <2> QED
    BY <1>4, <2>1, <2>2 DEF TableGrown, LatestVersion
<1>5. ASSUME NEW d \in Callers PROVE CallFacts(call[d])'
  <2>1. PICK x \in Call : CallFacts(x) /\ call'[d] = x
    BY DEF CallsInv
  <2>2. CASE x.at = "marshal"
    <3>1. x.name \in Names /\ HandedOut(x)
      BY <2>1, <2>2, CallFields DEF CallFacts
    <3>2. HandedOut(call[d])'
      BY <1>4, <2>1, <3>1 DEF HandedOut, LatestVersion
    <3> QED
      BY <2>1, <2>2, <3>2 DEF CallFacts
  <2>3. CASE x.at \in {"make", "loop"}
    <3>1. x.name \in Names /\ x.latest \in Nat /\ (x.at = "loop" => x.made \in Nat)
      BY <2>1, <2>3, CallFields
    <3>2. HasPolicy(x.name) /\ HasPolicy(x.name)'
      BY <1>3, <2>1, <2>3, <3>1 DEF CallFacts, HasPolicy
    <3>3. x.at = "loop" => x.made <= LatestVersion(x.name) /\ x.made <= LatestVersion(x.name)'
      BY <1>2, <2>1, <3>1, <3>2 DEF CallFacts, ShownLatest, LatestVersion
    <3> QED
      BY <2>1, <2>3, <3>2, <3>3 DEF CallFacts, ShownLatest, HasPolicy, LatestVersion
  <2>4. CASE x.at \notin {"marshal", "make", "loop"}
    BY <2>1, <2>4 DEF CallFacts
  <2> QED
    BY <2>2, <2>3, <2>4
<1>6. ASSUME NEW d \in Callers PROVE RespFacts(resp[d])'
  <2>1. PICK a \in Resp : RespFacts(a) /\ resp'[d] = a
    BY DEF CallsInv
  <2>2. CASE a.op = "key"
    <3>1. a.name \in Names /\ HandedOut(a)
      BY <2>1, <2>2, RespFields DEF RespFacts
    <3>2. HandedOut(resp[d])'
      BY <1>4, <2>1, <3>1 DEF HandedOut, LatestVersion
    <3> QED
      BY <2>1, <2>2, <3>2 DEF RespFacts
  <2>3. CASE a.op # "key"
    BY <2>1, <2>3 DEF RespFacts
  <2> QED
    BY <2>2, <2>3
<1> QED
  BY <1>5, <1>6 DEF CallsInv

(* What Seal leaves in the hands of a call. *)
LEMMA AfterSealCall ==
  ASSUME KeyringInv, CallsInv, NEW c \in Callers, NEW torn
  PROVE  LET y == AfterSeal(c, torn) IN
         /\ y \in Call /\ y.at = call[c].at
         /\ y.at = "marshal" => y.key \in {Zeroed, Torn}
         /\ y.at = "unsealStatus" => y = call[c]
         /\ y.at = "loop" => y.made <= y.latest
<1> DEFINE x == call[c]
           y == AfterSeal(c, torn)
<1>1. x \in Call /\ CallFacts(x)
  BY DEF CallsInv
<1>2. CASE x.at = "marshal"
  <2> DEFINE k == IF x.key \in {Zeroed, Torn} THEN x.key ELSE IF c \in torn THEN Torn ELSE Zeroed
  <2>1. y = [x EXCEPT !.key = k]
    BY <1>2 DEF AfterSeal
  <2>2. k \in {Zeroed, Torn} /\ k \in Nat
    BY KeyringAssumption DEF Zeroed, Torn
  <2>3. x \in [at : {"marshal"}, name : Names, version : Nat, key : Nat]
    BY <1>1, <1>2 DEF Call, Idle
  <2> HIDE DEF k, x
  <2>4. y \in [at : {"marshal"}, name : Names, version : Nat, key : Nat] /\ y.key = k
    BY <2>1, <2>2, <2>3
  <2> QED
    BY <1>2, <2>2, <2>4 DEF Call, x
<1>3. CASE x.at \in {"make", "loop"} /\ HasPolicy(x.name)
  <2> DEFINE L == LatestVersion(x.name)
  <2>1. y = [x EXCEPT !.latest = L]
    BY <1>3 DEF AfterSeal
  <2>2. x.name \in Names
    BY <1>1, <1>3, CallFields
  <2>3. L \in Nat
    BY <2>2, PolicyKeys DEF KeyringInv, KeyringTypeOK, LatestVersion
  <2>4. x.at = "loop" => x.made <= L
    BY <1>1, <1>3 DEF CallFacts, ShownLatest
  <2>5. \/ x \in [at : {"make"}, name : Names, latest : Nat]
        \/ x \in [at : {"loop"}, name : Names, latest : Nat, made : Nat]
    BY <1>1, <1>3 DEF Call, Idle
  <2> HIDE DEF L, x
  <2>6. CASE x \in [at : {"make"}, name : Names, latest : Nat]
    <3>1. y \in [at : {"make"}, name : Names, latest : Nat]
      BY <2>1, <2>3, <2>6
    <3> QED
      BY <2>6, <3>1 DEF Call, x
  <2>7. CASE x \in [at : {"loop"}, name : Names, latest : Nat, made : Nat]
    <3>1. y \in [at : {"loop"}, name : Names, latest : Nat, made : Nat] /\ y.latest = L /\ y.made = x.made
      BY <2>1, <2>3, <2>7
    <3> QED
      BY <2>4, <2>7, <3>1 DEF Call, x
  <2> QED
    BY <2>5, <2>6, <2>7
<1>4. CASE x.at # "marshal" /\ ~(x.at \in {"make", "loop"} /\ HasPolicy(x.name))
  <2>1. y = x
    BY <1>4 DEF AfterSeal
  <2> QED
    BY <1>1, <1>4, <2>1 DEF CallFacts, ShownLatest
<1> QED
  BY <1>2, <1>3, <1>4

(* A Seal spoils the key bytes being marshalled; the keys that went out    *)
(* before it were drawn, and held policies keep the version they had.      *)
LEMMA SealCallKeepsInv ==
  ASSUME KeyringInv, CallsInv, NEW c \in Callers, SealCall(c)
  PROVE  CallsInv'
<1>1. /\ krSealed' = TRUE /\ policies' = NoPolicies
      /\ UNCHANGED <<initialized, threshold, secrets, draws, resp>>
  BY DEF SealCall, Seal, KrSeal
<1>2. PICK torn : call' = [d \in Callers |-> IF d = c THEN [at |-> "sealStatus"] ELSE AfterSeal(d, torn)]
  BY DEF SealCall
<1>3. [at |-> "sealStatus"] \in Call
  BY DEF Call
<1>4. draws \in Nat /\ MaxDraws \in Nat
  BY KeyringAssumption DEF KeyringInv, KeyringTypeOK
<1>5. ASSUME NEW d \in Callers PROVE call'[d] \in Call /\ CallFacts(call[d])'
  <2>1. CASE d = c
    BY <1>2, <1>3, <2>1 DEF CallFacts
  <2>2. CASE d # c
    <3>1. PICK y : y = AfterSeal(d, torn)
      OBVIOUS
    <3>2. call'[d] = y
      BY <1>2, <2>2, <3>1
    <3>3. /\ y \in Call /\ y.at = call[d].at
          /\ y.at = "marshal" => y.key \in {Zeroed, Torn}
          /\ y.at = "unsealStatus" => y = call[d]
          /\ y.at = "loop" => y.made <= y.latest
      BY <3>1, AfterSealCall
    <3>4. y.at = "marshal" => y.key \in 0..draws \cup {Torn}
      BY <1>4, <3>3 DEF Zeroed
    <3>5. y.at = "unsealStatus" =>
            initialized /\ IF y.unsealed THEN y.progress = threshold ELSE y.progress < threshold
      BY <3>3 DEF CallsInv, CallFacts
    <3>6. y.at \in {"make", "loop"} => policies'[y.name].keys = <<>>
      BY <1>1, <3>3, CallFields, NoPolicyFacts DEF NoPolicies
    <3> QED
      BY <1>1, <3>2, <3>3, <3>4, <3>5, <3>6 DEF CallFacts, HandedOut, ShownLatest, HasPolicy, Torn
  <2> QED
    BY <2>1, <2>2
<1>6. ASSUME NEW d \in Callers PROVE RespFacts(resp[d])'
  <2>1. PICK a \in Resp : RespFacts(a) /\ resp'[d] = a
    BY <1>1 DEF CallsInv
  <2>2. CASE a.op = "key"
    <3>1. a.name \in Names /\ HandedOut(a)
      BY <2>1, <2>2, RespFields DEF RespFacts
    <3>2. a.key \in 0..draws \cup {Torn}
      BY <1>4, <3>1 DEF HandedOut, KeyringInv, Drawn, LatestVersion
    <3> QED
      BY <1>1, <2>1, <2>2, <3>2 DEF RespFacts, HandedOut, Torn
  <2>3. CASE a.op # "key"
    BY <1>1, <2>1, <2>3 DEF RespFacts
  <2> QED
    BY <2>2, <2>3
<1>7. secrets' \in [Paths -> Secret] /\ resp' \in [Callers -> Resp]
  BY <1>1 DEF CallsInv
<1>8. call' \in [Callers -> Call]
  BY <1>2, <1>5
<1> QED
  BY <1>5, <1>6, <1>7, <1>8 DEF CallsInv
-----------------------------------------------------------------------------
LEMMA HandlerInitInv == Init => HandlerInv
<1> SUFFICES ASSUME Init PROVE HandlerInv
  OBVIOUS
<1>1. SealInv /\ KeyringInv
  BY SealInitInv, KeyringInitInv DEF Init, LockInit
<1>2. CallsInv
  BY NoSecretsType, IdleFacts DEF Init, LockInit, CallsInv
<1> QED
  BY <1>1, <1>2 DEF HandlerInv

(* One step of any handler keeps the invariant. *)
LEMMA HandlerStepInv == HandlerInv /\ [Next]_vars => HandlerInv'
<1> SUFFICES ASSUME HandlerInv, [Next]_vars PROVE HandlerInv'
  OBVIOUS
<1> USE DEF HandlerInv
<1>1. SealInv' /\ KeyringInv'
  BY HandlersStepService, SealNextInv, VaultKeepsKeyringInv
<1>2. ASSUME NEW n \in ShareCounts, NEW t \in Thresholds, InitializeVault(n, t)
      PROVE  CallsInv'
  BY <1>2, InitializeKeepsInv
<1>3. ASSUME NEW n \in Names, CreateKeyCall(n) \/ RotateKeyCall(n)
      PROVE  CallsInv'
  <2>1. \/ KrRotateKey(n)
        \/ KrCreateKey(n, 1, FALSE)
    BY <1>3, Zenon DEF CreateKeyCall, RotateKeyCall, CreateKey, RotateKey
  <2>2. TableGrown
    BY <2>1, GenerationKeepsInv, Zenon
  <2>3. ~krSealed /\ UNCHANGED <<initialized, threshold, secrets, krSealed, call, resp>>
    BY <1>3 DEF CreateKeyCall, RotateKeyCall, CreateKey, RotateKey, KrCreateKey, KrRotateKey,
                sealVars, handlerVars
  <2> QED
    BY <1>1, <2>2, <2>3, GenerationKeepsCallsInv
<1>4. ASSUME NEW c \in Callers, NEW share \in Share, UnsealCall(c, share)
      PROVE  CallsInv'
  BY <1>4, UnsealCallKeepsInv
<1>5. ASSUME NEW c \in Callers, UnsealUnsealed(c) \/ UnsealRespond(c) \/ SealCall(c) \/ SealRespond(c)
      PROVE  CallsInv'
  BY <1>5, UnsealUnsealedKeepsInv, UnsealRespondKeepsInv, SealCallKeepsInv, SealRespondKeepsInv
<1>6. ASSUME NEW c \in Callers, NEW p \in Paths, GetSecret(c, p) \/ DeleteSecretCall(c, p)
      PROVE  CallsInv'
  BY <1>6, GetSecretKeepsInv, DeleteSecretKeepsInv
<1>7. ASSUME NEW c \in Callers, NEW p \in Paths, NEW d \in Data, PutSecretCall(c, p, d)
      PROVE  CallsInv'
  BY <1>7, PutSecretKeepsInv
<1>8. ASSUME NEW c \in Callers, NEW n \in Names, NEW v \in 0..MaxDraws, GetEncryptionKeyCall(c, n, v)
      PROVE  CallsInv'
  BY <1>8, GetEncryptionKeyCallKeepsInv
<1>9. ASSUME NEW c \in Callers, NEW n \in Names, GetKeyVersionsCall(c, n)
      PROVE  CallsInv'
  BY <1>9, GetKeyVersionsCallKeepsInv
<1>10. ASSUME NEW c \in Callers,
              GetEncryptionKeyMarshal(c) \/ GetKeyVersionsMake(c) \/ GetKeyVersionsLoop(c)
       PROVE  CallsInv'
  BY <1>10, GetEncryptionKeyMarshalKeepsInv, GetKeyVersionsMakeKeepsInv, GetKeyVersionsLoopKeepsInv
<1>11. ProcessCrash => CallsInv'
  BY <1>1, CrashKeepsCallsInv
<1>12. CASE UNCHANGED vars
  <2>1. UNCHANGED <<initialized, threshold, secrets, policies, krSealed, draws, call, resp>>
    BY <1>12 DEF vars, lockVars, sealVars, keyringVars, handlerVars
  <2>2. ASSUME NEW d \in Callers PROVE CallFacts(call[d])'
    BY <2>1 DEF CallsInv, CallFacts, HandedOut, ShownLatest, HasPolicy, LatestVersion
  <2>3. ASSUME NEW d \in Callers PROVE RespFacts(resp[d])'
    BY <2>1 DEF CallsInv, RespFacts, HandedOut, LatestVersion
  <2> QED
    BY <1>1, <2>1, <2>2, <2>3 DEF CallsInv
<1> QED
  BY <1>1, <1>2, <1>3, <1>4, <1>5, <1>6, <1>7, <1>8, <1>9, <1>10, <1>11, <1>12
     DEF Next, InitializeVaultPanics

LEMMA InvHandlerTypeOK == HandlerInv => HandlerTypeOK
<1> SUFFICES ASSUME SealInv, KeyringInv, CallsInv PROVE HandlerTypeOK
  BY DEF HandlerInv
<1>1. LockTypeOK
  BY DEF SealInv, SealTypeOK, KeyringInv, CallsInv, LockTypeOK
<1> QED
  BY <1>1 DEF CallsInv, HandlerTypeOK

(* What the handlers deliver, for any number of concurrent calls: every    *)
(* key handed out is the material of its name and version unless a Seal    *)
(* came between, answers put together from two looks at the vault agree    *)
(* with themselves, and a version of a secret names one contents.          *)
THEOREM HandlersCorrect ==
  Spec => [](HandlerTypeOK /\ KeyDelivered /\ AnswersAgree /\ VersionNamesContents)
<1>1. HandlerInv => HandlerTypeOK
  BY InvHandlerTypeOK
<1>2. HandlerInv => KeyDelivered
  BY DEF HandlerInv, CallsInv, CallFacts, RespFacts, KeyDelivered
<1>3. HandlerInv => AnswersAgree
  BY DEF HandlerInv, CallsInv, RespFacts, AnswersAgree
<1>4. HandlerInv => VersionNamesContents
  BY DEF HandlerInv, CallsInv, RespFacts, VersionNamesContents
<1> QED
  BY <1>1, <1>2, <1>3, <1>4, HandlerInitInv, HandlerStepInv, PTL DEF Spec
-----------------------------------------------------------------------------
(* What a service that fetches keys, with its requests W as callers, and   *)
(* the operators of the vault do to the vault in one of its lives.         *)
ClientStep(W) ==
  \/ UNCHANGED vars
  \/ \E w \in W, n \in Names, v \in Nat : GetEncryptionKeyCall(w, n, v)
  \/ \E w \in W : GetEncryptionKeyMarshal(w)
  \/ UNCHANGED <<resp, lockVars>> /\ call' = [c \in Callers |-> IF c \in W THEN Idle ELSE call[c]]
  \/ Operation(Callers \ W)

(* The requests are nowhere else in the vault than in GetEncryptionKey. *)
ClientCalls(W) ==
  \A c \in Callers : call[c].at \in {"idle", IF c \in W THEN "marshal" ELSE "sealStatus"}

(* What they carry away are copies. *)
CallCopies(W, M) ==
  \A w \in W : call[w].at = "marshal" => Copy(M, krSealed, call[w].name, call[w].version, call[w].key)

LEMMA DroppedCallsKeepInv ==
  ASSUME CallsInv, NEW W, UNCHANGED <<resp, lockVars>>,
         call' = [c \in Callers |-> IF c \in W THEN Idle ELSE call[c]]
  PROVE  CallsInv'
<1>1. UNCHANGED <<initialized, threshold, secrets, policies, krSealed, draws, resp>>
  BY DEF lockVars, sealVars, keyringVars
<1>c. call \in [Callers -> Call] /\ \A d \in Callers : CallFacts(call[d])
  BY DEF CallsInv
<1>2. call' \in [Callers -> Call]
  BY <1>c, IdleFacts
<1>3. ASSUME NEW d \in Callers PROVE CallFacts(call[d])'
  <2>1. PICK y : y = call'[d]
    OBVIOUS
  <2>2. y = Idle \/ y = call[d]
    BY <2>1
  <2>3. CallFacts(y)
    BY ONLY <1>c, <2>2, d \in Callers, IdleFacts
  <2> QED
    BY ONLY <1>1, <2>1, <2>3 DEF CallFacts, HandedOut, ShownLatest, HasPolicy, LatestVersion, Torn
<1>4. ASSUME NEW d \in Callers PROVE RespFacts(resp[d])'
  BY <1>1, Zenon DEF CallsInv, RespFacts, HandedOut, LatestVersion, Torn
<1> QED
  BY <1>1, <1>2, <1>3, <1>4 DEF CallsInv

LEMMA ClientStepInv ==
  ASSUME HandlerInv, NEW W \in SUBSET Callers, ClientStep(W)
  PROVE  HandlerInv'
<1> SealInv /\ KeyringInv /\ CallsInv
  BY DEF HandlerInv
<1>1. [LockNext]_lockVars
  <2>1. CASE Operation(Callers \ W)
    BY <2>1, OperationStepsService
  <2> QED
    BY <2>1, Zenon DEF ClientStep, GetEncryptionKeyCall, GetEncryptionKeyMarshal, vars
<1>2. SealInv' /\ KeyringInv'
  BY <1>1, SealNextInv, VaultKeepsKeyringInv
<1>3. CASE UNCHANGED vars
  BY <1>3, HandlerStepInv
<1>4. ASSUME NEW w \in W, NEW n \in Names, NEW v \in Nat, GetEncryptionKeyCall(w, n, v) PROVE CallsInv'
  BY <1>4, GetEncryptionKeyCallKeepsInv
<1>5. ASSUME NEW w \in W, GetEncryptionKeyMarshal(w) PROVE CallsInv'
  BY <1>5, GetEncryptionKeyMarshalKeepsInv
<1>6. CASE Operation(Callers \ W)
  BY <1>6, HandlerStepInv DEF Operation, Next
<1>7. CallsInv' => HandlerInv'
  BY <1>2 DEF HandlerInv
<1> QED
  BY <1>3, <1>4, <1>5, <1>6, <1>7, DroppedCallsKeepInv DEF ClientStep

LEMMA CrashKeepsHandlerInv == HandlerInv /\ ProcessCrash => HandlerInv'
<1>1. ProcessCrash => Next
  BY DEF Next
<1> QED
  BY <1>1, HandlerStepInv

(* What an operation on the vault does to a call. *)
LEMMA OperationOnCall ==
  ASSUME CallsInv, NEW operators, Operation(operators), NEW c \in Callers
  PROVE  \/ call'[c] = call[c]
         \/ krSealed' /\ \E torn : call'[c] = AfterSeal(c, torn)
         \/ c \in operators /\ call'[c].at \in {"idle", "sealStatus"}
<1>1. ASSUME NEW o \in operators, SealCall(o), c # o PROVE krSealed' /\ \E torn : call'[c] = AfterSeal(c, torn)
  BY <1>1 DEF SealCall, Seal, KrSeal
<1>2. ASSUME NEW o \in operators, SealCall(o), c = o PROVE call'[c].at = "sealStatus"
  BY <1>2 DEF SealCall
<1>3. ASSUME NEW o \in operators, SealRespond(o) PROVE call'[c] = call[c] \/ (c = o /\ call'[c].at = "idle")
  <2>1. call \in [Callers -> Call] /\ call' = [call EXCEPT ![o] = Idle]
    BY <1>3 DEF CallsInv, SealRespond, Answer
  <2> QED
    BY ONLY <2>1, c \in Callers DEF Idle
<1>4. ASSUME NEW n \in Names, CreateKeyCall(n) \/ RotateKeyCall(n) PROVE call'[c] = call[c]
  BY <1>4 DEF CreateKeyCall, RotateKeyCall, handlerVars
<1>5. ASSUME NEW n \in ShareCounts, NEW t \in Thresholds, InitializeVault(n, t) PROVE call'[c] = call[c]
  BY <1>5 DEF InitializeVault, handlerVars
<1> QED
  BY <1>1, <1>2, <1>3, <1>4, <1>5 DEF Operation

(* A Seal leaves every call where it is. *)
LEMMA AfterSealKeepsPlace ==
  ASSUME KeyringInv, CallsInv, NEW c \in Callers, NEW torn
  PROVE  AfterSeal(c, torn).at = call[c].at
  BY AfterSealCall

(* What an operation leaves of the requests' calls: a Seal takes the key   *)
(* bytes, nothing else is touched.                                         *)
LEMMA OperationKeepsClientCalls ==
  ASSUME HandlerInv, NEW W \in SUBSET Callers, Operation(Callers \ W), NEW w \in W,
         call'[w].at = "marshal"
  PROVE  /\ call[w].at = "marshal" /\ call'[w].name = call[w].name /\ call'[w].version = call[w].version
         /\ call'[w].key = call[w].key \/ (krSealed' /\ call'[w].key \in {Zeroed, Torn})
<1>1. KeyringInv /\ CallsInv /\ call[w] \in Call
  BY DEF HandlerInv, CallsInv
<1>2. call'[w] = call[w] \/ (krSealed' /\ \E torn : call'[w] = AfterSeal(w, torn))
  BY <1>1, OperationOnCall
<1>3. ASSUME NEW torn, krSealed', call'[w] = AfterSeal(w, torn)
      PROVE  /\ call[w].at = "marshal" /\ call'[w].name = call[w].name /\ call'[w].version = call[w].version
             /\ call'[w].key \in {Zeroed, Torn}
  <2>1. call[w].at = "marshal"
    BY <1>1, <1>3, AfterSealKeepsPlace
  <2>2. call[w] \in [at : {"marshal"}, name : Names, version : Nat, key : Nat]
    BY <1>1, <2>1 DEF Call, Idle
  <2> QED
    BY <1>3, <2>1, <2>2, AfterSealMarshal
<1> QED
  BY <1>2, <1>3

LEMMA ClientCallsKept ==
  ASSUME HandlerInv, NEW W \in SUBSET Callers, ClientStep(W), ClientCalls(W)
  PROVE  ClientCalls(W)'
<1> SealInv /\ KeyringInv /\ CallsInv
  BY DEF HandlerInv
<1>c. call \in [Callers -> Call]
  BY DEF CallsInv
<1>1. CASE UNCHANGED call
  BY <1>1 DEF ClientCalls
<1>2. ASSUME NEW w \in W, NEW n \in Names, NEW v \in Nat, GetEncryptionKeyCall(w, n, v) PROVE ClientCalls(W)'
  <2>1. PICK u, k : call' = [call EXCEPT ![w] = [at |-> "marshal", name |-> n, version |-> u, key |-> k]]
    BY <1>2, Zenon DEF GetEncryptionKeyCall, Enter
  <2>2. call'[w].at = "marshal"
    BY <1>c, <2>1
  <2>3. ASSUME NEW c \in Callers, c # w PROVE call'[c] = call[c]
    BY <1>c, <2>1, <2>3
  <2> QED
    BY <2>2, <2>3 DEF ClientCalls
<1>3. ASSUME NEW w \in W, GetEncryptionKeyMarshal(w) PROVE ClientCalls(W)'
  <2>1. call' = [call EXCEPT ![w] = Idle]
    BY <1>3 DEF GetEncryptionKeyMarshal, Answer
  <2>2. call'[w].at = "idle"
    BY <1>c, <2>1 DEF Idle
  <2>3. ASSUME NEW c \in Callers, c # w PROVE call'[c] = call[c]
    BY <1>c, <2>1, <2>3
  <2> QED
    BY <2>2, <2>3 DEF ClientCalls
<1>4. CASE call' = [c \in Callers |-> IF c \in W THEN Idle ELSE call[c]]
  BY <1>4 DEF ClientCalls, Idle
<1>5. CASE Operation(Callers \ W)
  <2>1. ASSUME NEW c \in Callers
        PROVE  call'[c].at = call[c].at \/ (c \notin W /\ call'[c].at \in {"idle", "sealStatus"})
    BY <1>5, OperationOnCall, AfterSealKeepsPlace
  <2> QED
    BY <2>1 DEF ClientCalls
<1>6. CASE UNCHANGED vars
  BY <1>1, <1>6 DEF vars, handlerVars
<1> QED
  BY <1>2, <1>3, <1>4, <1>5, <1>6 DEF ClientStep

LEMMA ClientStepKeepsUsable ==
  ASSUME HandlerInv, NEW W, ClientStep(W), AllVersionsUsable
  PROVE  AllVersionsUsable'
<1>1. CASE UNCHANGED policies
  BY <1>1 DEF AllVersionsUsable
<1>2. CASE Operation(Callers \ W)
  BY <1>2, OperationKeepsUsable DEF HandlerInv
<1>3. CASE UNCHANGED lockVars
  BY <1>1, <1>3 DEF lockVars, keyringVars
<1> QED
  BY <1>2, <1>3, Zenon DEF ClientStep, GetEncryptionKeyCall, GetEncryptionKeyMarshal, vars

(* A marshalled key stays a copy when the calls change but its own does not. *)
LEMMA ClientStepKeepsCopies ==
  ASSUME HandlerInv, NEW W \in SUBSET Callers, ClientStep(W), ClientCalls(W),
         NEW M, TableKept(M), CallCopies(W, M)
  PROVE  \E N :
           /\ TableKept(N)' /\ CallCopies(W, N)'
           /\ \A n \in Names : \A v, k : Copy(M, krSealed, n, v, k) => Copy(N, krSealed', n, v, k)
<1> KeyringInv /\ CallsInv
  BY DEF HandlerInv
<1>c. call \in [Callers -> Call]
  BY DEF CallsInv
<1>1. ASSUME UNCHANGED <<policies, krSealed>>, CallCopies(W, M)'
      PROVE  \E N :
               /\ TableKept(N)' /\ CallCopies(W, N)'
               /\ \A n \in Names : \A v, k : Copy(M, krSealed, n, v, k) => Copy(N, krSealed', n, v, k)
  <2>1. TableKept(M)'
    BY <1>1 DEF TableKept
  <2> QED
    BY <1>1, <2>1
<1>2. CASE UNCHANGED vars
  <2>1. UNCHANGED <<policies, krSealed, call>>
    BY <1>2 DEF vars, lockVars, keyringVars, handlerVars
  <2>2. CallCopies(W, M)'
    BY <2>1 DEF CallCopies
  <2> QED
    BY <1>1, <2>1, <2>2, Zenon
<1>3. ASSUME NEW w \in W, NEW n \in Names, NEW v \in Nat, GetEncryptionKeyCall(w, n, v)
      PROVE  UNCHANGED <<policies, krSealed>> /\ CallCopies(W, M)'
  <2>1. PICK u \in Nat \ {0}, k \in Nat :
          /\ call' = [call EXCEPT ![w] = [at |-> "marshal", name |-> n, version |-> u, key |-> k]]
          /\ Copy(M, krSealed, n, u, k)
    BY <1>3, FetchedCopy, Zenon
  <2>2. UNCHANGED <<policies, krSealed>>
    BY <1>3 DEF GetEncryptionKeyCall, lockVars, keyringVars
  <2>3. CallCopies(W, M)'
    <3>1. call'[w].name = n /\ call'[w].version = u /\ call'[w].key = k
      BY <1>c, <2>1
    <3>2. ASSUME NEW c \in W, c # w PROVE call'[c] = call[c]
      BY <1>c, <2>1, <3>2
    <3> QED
      BY <2>1, <2>2, <3>1, <3>2 DEF CallCopies
  <2> QED
    BY <2>2, <2>3
<1>4. ASSUME NEW w \in W, GetEncryptionKeyMarshal(w)
      PROVE  UNCHANGED <<policies, krSealed>> /\ CallCopies(W, M)'
  <2>1. UNCHANGED <<policies, krSealed>> /\ call' = [call EXCEPT ![w] = Idle]
    BY <1>4 DEF GetEncryptionKeyMarshal, Answer, lockVars, keyringVars
  <2> QED
    BY <1>c, <2>1 DEF CallCopies, Idle
<1>5. CASE UNCHANGED <<resp, lockVars>> /\ call' = [c \in Callers |-> IF c \in W THEN Idle ELSE call[c]]
  <2>1. UNCHANGED <<policies, krSealed>> /\ CallCopies(W, M)'
    <3>1. UNCHANGED <<policies, krSealed>>
      BY <1>5 DEF lockVars, keyringVars
    <3>2. \A w \in W : call'[w].at = "idle"
      BY <1>5 DEF Idle
    <3> QED
      BY <3>1, <3>2 DEF CallCopies
  <2> QED
    BY <1>1, <2>1, Zenon
<1>6. CASE Operation(Callers \ W)
  <2>1. PICK N :
          /\ TableKept(N)'
          /\ \A n \in Names : \A v, k : Copy(M, krSealed, n, v, k) => Copy(N, krSealed', n, v, k)
    BY ONLY <1>6, KeyringInv, TableKept(M), OperationKeepsCopies
  <2>2. ASSUME NEW w \in W, call'[w].at = "marshal"
        PROVE  Copy(N, krSealed', call'[w].name, call'[w].version, call'[w].key)
    <3>1. /\ call[w].at = "marshal" /\ call'[w].name = call[w].name /\ call'[w].version = call[w].version
          /\ call'[w].key = call[w].key \/ (krSealed' /\ call'[w].key \in {Zeroed, Torn})
      BY <1>6, <2>2, OperationKeepsClientCalls
    <3>2. call[w].name \in Names
      BY <1>c, <3>1, CallFields
    <3>3. Copy(N, krSealed', call[w].name, call[w].version, call[w].key)
      BY <2>1, <3>1, <3>2, Zenon DEF CallCopies
    <3> QED
      BY ONLY <3>1, <3>3 DEF Copy
  <2> QED
    BY <2>1, <2>2, Zenon DEF CallCopies
<1> QED
  BY <1>1, <1>2, <1>3, <1>4, <1>5, <1>6 DEF ClientStep

(* Until it is sealed, the vault never takes a version back. *)
LEMMA ClientStepKeepsLatest ==
  ASSUME HandlerInv, NEW W, ClientStep(W), ~krSealed'
  PROVE  ~krSealed /\ \A n \in Names : LatestVersion(n) \in Nat /\ LatestVersion(n)' \in Nat /\ LatestVersion(n) <= LatestVersion(n)'
<1>0. \A n \in Names : LatestVersion(n) \in Nat
  BY PolicyKeys DEF HandlerInv, KeyringInv, KeyringTypeOK, LatestVersion
<1>1. CASE UNCHANGED <<policies, krSealed>>
  BY <1>0, <1>1 DEF LatestVersion
<1>2. CASE Operation(Callers \ W)
  <2>1. (TableGrown /\ ~krSealed) \/ UNCHANGED <<policies, krSealed>>
    BY <1>2, OperationOnKeys DEF HandlerInv
  <2>2. KeyringInv'
    BY <1>2, OperationStepsService, VaultKeepsKeyringInv DEF HandlerInv
  <2>3. \A n \in Names : LatestVersion(n)' \in Nat
    BY <2>2, PolicyKeys DEF KeyringInv, KeyringTypeOK, LatestVersion
  <2> QED
    BY <1>0, <1>1, <2>1, <2>3 DEF TableGrown, LatestVersion
<1>3. CASE UNCHANGED lockVars
  BY <1>1, <1>3 DEF lockVars, keyringVars
<1> QED
  BY <1>2, <1>3, Zenon DEF ClientStep, GetEncryptionKeyCall, GetEncryptionKeyMarshal, vars
==============================================================================
