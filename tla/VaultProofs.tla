----------------------------- MODULE VaultProofs -----------------------------
(***************************************************************************)
(* Proofs about the vault's keyring and about its methods, which the       *)
(* concurrent handlers implement, for any number of callers, keys,         *)
(* versions, secrets and shares and any threshold; and lemmas on the       *)
(* copies of its keys and on the key cache, for the services in front of   *)
(* the vault.                                                              *)
(***************************************************************************)
EXTENDS LockHandler, KeyCache, Naturals, Sequences, SequenceTheorems, TLAPS

-----------------------------------------------------------------------------
(***************************************************************************)
(* The keyring: the cipher cache agrees with the key table, and key        *)
(* material is unique, for every set of names and number of versions.      *)
(*                                                                         *)
(* Uniqueness is not inductive alone: a new version must be new, so all    *)
(* stored material must have been drawn (Drawn), and Unmarshal turns the   *)
(* image into the table, so both must be true of the image as well.        *)
(***************************************************************************)
Drawn(table) ==
  \A n \in Names : \A v \in 1..Len(table[n].keys) : table[n].keys[v] \in 1..draws

KeyringInv ==
  /\ KeyringTypeOK
  /\ Drawn(policies) /\ Drawn(image)
  /\ Distinct(policies) /\ Distinct(image)
  /\ CipherMatchesKey

(* A step keeps the material of every version there is. *)
TableGrown ==
  /\ \A m \in Names : Len(policies[m].keys) <= Len(policies'[m].keys)
  /\ \A m \in Names : \A v \in 1..Len(policies[m].keys) : policies'[m].keys[v] = policies[m].keys[v]
-----------------------------------------------------------------------------
(* A policy's key list is a sequence of numbers. *)
LEMMA PolicyKeys ==
  ASSUME NEW p \in Policy
  PROVE  p.keys \in Seq(Nat) /\ p.minDec \in Nat /\ p.deletable \in BOOLEAN
  BY DEF Policy

LEMMA EmptyPolicy ==
  ASSUME NEW minDec \in Nat, NEW deletable \in BOOLEAN
  PROVE  [keys |-> <<>>, minDec |-> minDec, deletable |-> deletable] \in Policy
  BY DEF Policy

(* The tables of NewKeyring and Seal are well-formed and have no version.  *)
LEMMA NoPolicyFacts ==
  /\ NoPolicy \in Policy
  /\ NoPolicy.keys = <<>>
  /\ NoPolicies \in [Names -> Policy]
  /\ \A n \in Names : Len(NoPolicies[n].keys) = 0
  <1>1. NoPolicy \in Policy /\ NoPolicy.keys = <<>>
    BY DEF NoPolicy, Policy
  <1>2. Len(<<>>) = 0
    OBVIOUS
  <1> QED
    BY <1>1, <1>2 DEF NoPolicies

(* generateKeyVersion adds the new draw behind the versions a policy has.  *)
LEMMA GeneratedPolicy ==
  ASSUME NEW p \in Policy, draws \in Nat
  PROVE  /\ generateKeyVersion(p) \in Policy
         /\ Len(generateKeyVersion(p).keys) = Len(p.keys) + 1
         /\ \A v \in 1..Len(p.keys) : generateKeyVersion(p).keys[v] = p.keys[v]
         /\ generateKeyVersion(p).keys[Len(p.keys) + 1] = draws + 1
  <1>1. generateKeyVersion(p) \in Policy /\ generateKeyVersion(p).keys = Append(p.keys, draws + 1)
    BY DEF generateKeyVersion, Policy
  <1>2. p.keys \in Seq(Nat)
    BY PolicyKeys
  <1>3. ASSUME NEW q \in Seq(Nat), NEW k \in Nat
        PROVE  /\ Len(Append(q, k)) = Len(q) + 1 /\ Append(q, k)[Len(q) + 1] = k
               /\ \A v \in 1..Len(q) : Append(q, k)[v] = q[v]
    OBVIOUS
  <1> QED
    BY <1>1, <1>2, <1>3

(* UpdateConfig changes the settings of a policy, not its versions.        *)
LEMMA ConfiguredPolicy ==
  ASSUME policies \in [Names -> Policy], NEW n \in Names, NEW minDec \in Nat,
         NEW deletable \in BOOLEAN, UpdateConfig(n, minDec, deletable)
  PROVE  /\ policies' \in [Names -> Policy]
         /\ \A m \in Names : policies'[m].keys = policies[m].keys
  <1>1. ASSUME NEW p \in Policy
        PROVE  /\ [p EXCEPT !.minDec = minDec, !.deletable = deletable] \in Policy
               /\ [p EXCEPT !.minDec = minDec, !.deletable = deletable].keys = p.keys
    BY Zenon DEF Policy
  <1>2. policies' = [policies EXCEPT ![n] = [policies[n] EXCEPT !.minDec = minDec, !.deletable = deletable]]
    BY Zenon DEF UpdateConfig
  <1> QED
    BY <1>1, <1>2, Zenon
-----------------------------------------------------------------------------
(* A table that gains one version, made of the next draw, keeps what it    *)
(* had, and its materials stay distinct: the step that CreateKey and       *)
(* RotateKey share.                                                        *)
LEMMA TableGrows ==
  ASSUME policies \in [Names -> Policy], NEW n \in Names, NEW p \in Policy,
         p.keys = policies[n].keys, draws \in Nat, Drawn(policies), Distinct(policies),
         policies' = [policies EXCEPT ![n] = generateKeyVersion(p)],
         draws' = draws + 1
  PROVE  /\ policies' \in [Names -> Policy]
         /\ TableGrown
         /\ \A m \in Names : \A v \in 1..Len(policies'[m].keys) : policies'[m].keys[v] \in 1..draws'
         /\ Distinct(policies)'
  <1> DEFINE g == generateKeyVersion(p)
             L == Len(p.keys)
  <1>1. /\ g \in Policy
        /\ Len(g.keys) = L + 1
        /\ \A v \in 1..L : g.keys[v] = p.keys[v]
        /\ g.keys[L + 1] = draws + 1
    BY GeneratedPolicy
  <1> HIDE DEF g
  <1>2. policies'[n] = g /\ \A m \in Names \ {n} : policies'[m] = policies[m]
    BY DEF g
  <1>3. policies' \in [Names -> Policy]
    BY <1>1 DEF g
  <1>4. L \in Nat /\ \A m \in Names : Len(policies[m].keys) \in Nat
    BY PolicyKeys
  <1>5. \A m \in Names : Len(policies[m].keys) <= Len(policies'[m].keys)
    BY <1>1, <1>2, <1>4
  <1>6. \A m \in Names : \A v \in 1..Len(policies[m].keys) : policies'[m].keys[v] = policies[m].keys[v]
    BY <1>1, <1>2, <1>4
  <1>7. \A m \in Names : \A v \in 1..Len(policies'[m].keys) :
          \/ v \in 1..Len(policies[m].keys) /\ policies'[m].keys[v] = policies[m].keys[v] /\ policies'[m].keys[v] \in 1..draws
          \/ m = n /\ v = L + 1 /\ policies'[m].keys[v] = draws + 1
    BY <1>1, <1>2, <1>4, SMTT(30) DEF Drawn
  <1>8. \A m \in Names : \A v \in 1..Len(policies'[m].keys) : policies'[m].keys[v] \in 1..draws'
    BY <1>7
  <1>9. Distinct(policies)'
    <2> SUFFICES ASSUME NEW n1 \in Names, NEW n2 \in Names,
                        NEW v1 \in 1..Len(policies'[n1].keys), NEW v2 \in 1..Len(policies'[n2].keys),
                        policies'[n1].keys[v1] = policies'[n2].keys[v2]
                 PROVE  n1 = n2 /\ v1 = v2
      BY DEF Distinct
    <2>1. draws \in Nat
      OBVIOUS
    <2>2. /\ \/ v1 \in 1..Len(policies[n1].keys) /\ policies'[n1].keys[v1] = policies[n1].keys[v1]
                 /\ policies'[n1].keys[v1] \in 1..draws
             \/ n1 = n /\ v1 = L + 1 /\ policies'[n1].keys[v1] = draws + 1
          /\ \/ v2 \in 1..Len(policies[n2].keys) /\ policies'[n2].keys[v2] = policies[n2].keys[v2]
                 /\ policies'[n2].keys[v2] \in 1..draws
             \/ n2 = n /\ v2 = L + 1 /\ policies'[n2].keys[v2] = draws + 1
      BY <1>7
    <2> QED
      BY <2>1, <2>2 DEF Distinct
  <1> QED
    BY <1>3, <1>5, <1>6, <1>8, <1>9 DEF TableGrown
-----------------------------------------------------------------------------
LEMMA KeyringInitInv == KeyringInit => KeyringInv
<1> SUFFICES ASSUME KeyringInit
             PROVE  KeyringInv
  OBVIOUS
<1>1. KeyringTypeOK
  BY NoPolicyFacts, Zenon DEF KeyringInit, KeyringTypeOK
<1>2. \A n \in Names : Len(policies[n].keys) = 0 /\ Len(image[n].keys) = 0
  BY NoPolicyFacts, Zenon DEF KeyringInit
<1>3. Drawn(policies) /\ Drawn(image) /\ Distinct(policies) /\ Distinct(image)
  BY <1>2 DEF Drawn, Distinct
<1>4. CipherMatchesKey
  BY DEF KeyringInit, CipherMatchesKey
<1> QED
  BY <1>1, <1>3, <1>4 DEF KeyringInv

(* The two operations that generate a version: the table grows, nothing    *)
(* else changes, and the cached ciphers still match.                       *)
LEMMA GenerationKeepsInv ==
  ASSUME KeyringInv, NEW n \in Names,
         KrRotateKey(n) \/ \E minDec \in Nat, deletable \in BOOLEAN : KrCreateKey(n, minDec, deletable)
  PROVE  TableGrown /\ KeyringInv'
<1>1. /\ policies \in [Names -> Policy] /\ image \in [Names -> Policy]
      /\ ciphers \subseteq Names \X Nat \X Nat /\ draws \in Nat /\ krSealed \in BOOLEAN
  BY DEF KeyringInv, KeyringTypeOK
<1>2. UNCHANGED <<ciphers, krSealed, image>> /\ draws' = draws + 1
  BY Zenon DEF KrRotateKey, KrCreateKey
<1>3. PICK p \in Policy : p.keys = policies[n].keys /\ policies' = [policies EXCEPT ![n] = generateKeyVersion(p)]
  <2>1. CASE KrRotateKey(n)
    BY <1>1, <2>1, Zenon DEF KrRotateKey
  <2>2. ASSUME NEW minDec \in Nat, NEW deletable \in BOOLEAN, KrCreateKey(n, minDec, deletable)
        PROVE  \E p \in Policy : p.keys = policies[n].keys /\ policies' = [policies EXCEPT ![n] = generateKeyVersion(p)]
    <3> DEFINE p == [keys |-> <<>>, minDec |-> minDec, deletable |-> deletable]
    <3>1. p \in Policy /\ p.keys = policies[n].keys
      BY <2>2, EmptyPolicy DEF KrCreateKey, HasPolicy
    <3>2. policies' = [policies EXCEPT ![n] = generateKeyVersion(p)]
      BY <2>2 DEF KrCreateKey
    <3> QED
      BY <3>1, <3>2, Zenon
  <2> QED
    BY <2>1, <2>2
<1>4. /\ policies' \in [Names -> Policy]
      /\ TableGrown
      /\ \A m \in Names : \A v \in 1..Len(policies'[m].keys) : policies'[m].keys[v] \in 1..draws'
      /\ Distinct(policies)'
  BY <1>1, <1>2, <1>3, TableGrows, Zenon DEF KeyringInv
<1>5. KeyringTypeOK'
  BY <1>1, <1>2, <1>4 DEF KeyringTypeOK
<1>6. Drawn(policies)' /\ Drawn(image)'
  BY <1>1, <1>2, <1>4 DEF Drawn, KeyringInv
<1>7. Distinct(policies)' /\ Distinct(image)'
  BY <1>2, <1>4 DEF Distinct, KeyringInv
<1>8. \A m \in Names : Len(policies[m].keys) \in Nat /\ Len(policies'[m].keys) \in Nat
  BY <1>1, <1>4, PolicyKeys
<1>9. CipherMatchesKey'
  BY <1>1, <1>2, <1>4, <1>8 DEF CipherMatchesKey, LatestVersion, KeyringInv, TableGrown
<1> QED
  BY <1>4, <1>5, <1>6, <1>7, <1>9 DEF KeyringInv

(* One step of the keyring keeps the inductive invariant. *)
LEMMA KeyringStepInv == KeyringInv /\ [KeyringNext]_keyringVars => KeyringInv'
<1> SUFFICES ASSUME KeyringInv, [KeyringNext]_keyringVars
             PROVE  KeyringInv'
  OBVIOUS
<1> USE DEF KeyringInv
<1>t. /\ policies \in [Names -> Policy] /\ image \in [Names -> Policy]
      /\ ciphers \subseteq Names \X Nat \X Nat /\ draws \in Nat /\ krSealed \in BOOLEAN
  BY DEF KeyringTypeOK
<1>1. ASSUME NEW n \in Names, NEW minDec \in MinVersions, NEW deletable \in BOOLEAN,
             KrCreateKey(n, minDec, deletable)
      PROVE  KeyringInv'
  BY <1>1, KeyringAssumption, GenerationKeepsInv
<1>2. ASSUME NEW n \in Names, KrRotateKey(n)
      PROVE  KeyringInv'
  BY <1>2, GenerationKeepsInv
<1>3. ASSUME NEW n \in Names, NEW minDec \in MinVersions, NEW deletable \in BOOLEAN,
             UpdateConfig(n, minDec, deletable)
      PROVE  KeyringInv'
  <2>1. minDec \in Nat
    BY KeyringAssumption
  <2>2. /\ policies' \in [Names -> Policy]
        /\ \A m \in Names : policies'[m].keys = policies[m].keys
        /\ UNCHANGED <<ciphers, krSealed, draws, image>>
    <3>1. UNCHANGED <<ciphers, krSealed, draws, image>>
      BY <1>3 DEF UpdateConfig
    <3> QED
      BY <1>t, <1>3, <2>1, <3>1, ConfiguredPolicy
  <2>3. KeyringTypeOK'
    BY <1>t, <2>2 DEF KeyringTypeOK
  <2>4. Drawn(policies)' /\ Drawn(image)' /\ Distinct(policies)' /\ Distinct(image)'
    <3>1. Drawn(policies)' /\ Drawn(image)'
      BY <2>2 DEF Drawn
    <3>2. Distinct(policies)'
      BY <2>2 DEF Distinct
    <3>3. Distinct(image)'
      BY <2>2 DEF Distinct
    <3> QED
      BY <3>1, <3>2, <3>3
  <2>5. CipherMatchesKey'
    BY <1>t, <2>2 DEF CipherMatchesKey, LatestVersion
  <2> QED
    BY <2>3, <2>4, <2>5
<1>4. ASSUME NEW n \in Names, NEW v \in 0..MaxDraws, GetCipher(n, v)
      PROVE  KeyringInv'
  <2> DEFINE w == ResolveVersion(n, v)
  <2>1. /\ w \in 1..LatestVersion(n)
        /\ ciphers' = ciphers \cup {<<n, w, policies[n].keys[w]>>}
        /\ UNCHANGED <<policies, krSealed, draws, image>>
    BY <1>4 DEF GetCipher
  <2>2. LatestVersion(n) \in Nat /\ policies[n].keys[w] \in Nat
    BY <1>t, <2>1, PolicyKeys DEF LatestVersion
  <2> HIDE DEF w
  <2>3. <<n, w, policies[n].keys[w]>> \in Names \X Nat \X Nat
    BY <2>1, <2>2
  <2>4. KeyringTypeOK'
    BY <1>t, <2>1, <2>3 DEF KeyringTypeOK
  <2>5. Drawn(policies)' /\ Drawn(image)' /\ Distinct(policies)' /\ Distinct(image)'
    BY <2>1 DEF Drawn, Distinct
  <2>6. CipherMatchesKey'
    BY <2>1 DEF CipherMatchesKey, LatestVersion
  <2> QED
    BY <2>4, <2>5, <2>6
<1>5. ASSUME NEW n \in Names, DeleteKey(n)
      PROVE  KeyringInv'
  <2>1. /\ policies' = [policies EXCEPT ![n] = NoPolicy]
        /\ ciphers' = {c \in ciphers : c[1] # n}
        /\ UNCHANGED <<krSealed, draws, image>>
    BY <1>5 DEF DeleteKey
  <2>2. KeyringTypeOK'
    BY <1>t, <2>1, NoPolicyFacts DEF KeyringTypeOK
  <2>3. /\ \A m \in Names \ {n} : policies'[m] = policies[m]
        /\ Len(policies'[n].keys) = 0
    <3>1. Len(<<>>) = 0
      OBVIOUS
    <3> QED
      BY <1>t, <2>1, <3>1, NoPolicyFacts
  <2>4. Drawn(policies)' /\ Drawn(image)' /\ Distinct(policies)' /\ Distinct(image)'
    BY <2>1, <2>3 DEF Drawn, Distinct
  <2>5. CipherMatchesKey'
    BY <1>t, <2>1, <2>3 DEF CipherMatchesKey, LatestVersion
  <2> QED
    BY <2>2, <2>4, <2>5
<1>6. CASE KrSeal
  BY <1>6, <1>t, NoPolicyFacts
     DEF KrSeal, KeyringTypeOK, Drawn, Distinct, CipherMatchesKey
<1>7. CASE Marshal
  BY <1>7, <1>t DEF Marshal, KeyringTypeOK, Drawn, Distinct, CipherMatchesKey, LatestVersion
<1>8. CASE Unmarshal
  <2>1. KeyringTypeOK' /\ CipherMatchesKey'
    BY <1>8, <1>t, Zenon DEF Unmarshal, KeyringTypeOK, CipherMatchesKey
  <2>2. Drawn(policies)' /\ Drawn(image)' /\ Distinct(policies)' /\ Distinct(image)'
    BY <1>8 DEF Unmarshal, Drawn, Distinct
  <2> QED
    BY <2>1, <2>2
<1>9. CASE UNCHANGED keyringVars
  <2>1. KeyringTypeOK'
    BY <1>9, <1>t DEF keyringVars, KeyringTypeOK
  <2>2. Drawn(policies)' /\ Drawn(image)' /\ Distinct(policies)' /\ Distinct(image)'
    BY <1>9 DEF keyringVars, Drawn, Distinct
  <2>3. CipherMatchesKey'
    BY <1>9 DEF keyringVars, CipherMatchesKey, LatestVersion
  <2> QED
    BY <2>1, <2>2, <2>3
<1> QED
  BY <1>1, <1>2, <1>3, <1>4, <1>5, <1>6, <1>7, <1>8, <1>9 DEF KeyringNext
-----------------------------------------------------------------------------
(* Along every behaviour of the keyring the cipher cache agrees with the   *)
(* key table and no two key versions share material.                       *)
THEOREM KeyringCorrect == KeyringSpec => [](KeyringTypeOK /\ CipherMatchesKey /\ MaterialIsUnique)
<1>1. KeyringInv => KeyringTypeOK /\ CipherMatchesKey /\ MaterialIsUnique
  BY DEF KeyringInv, MaterialIsUnique
<1> QED
  BY <1>1, KeyringInitInv, KeyringStepInv, PTL DEF KeyringSpec

(* A step keeps the versions of every key, or reloads the table. *)
LEMMA KeyringStepKeeps ==
  KeyringInv /\ [KeyringNext]_keyringVars =>
    [Unmarshal \/ \A n \in Names : KeepsVersions(n)]_keyringVars
<1> SUFFICES ASSUME KeyringInv, KeyringNext
             PROVE  Unmarshal \/ \A n \in Names : KeepsVersions(n)
  OBVIOUS
<1>t. /\ policies \in [Names -> Policy] /\ draws \in Nat
      /\ Drawn(policies) /\ Distinct(policies)
      /\ \A n \in Names : Len(policies[n].keys) \in Nat
  BY PolicyKeys DEF KeyringInv, KeyringTypeOK
<1>g. ASSUME TableGrown, KeyringInv'
      PROVE  \A m \in Names : KeepsVersions(m)
  <2>1. \A m \in Names : Len(policies'[m].keys) \in Nat
    BY <1>g, PolicyKeys DEF KeyringInv, KeyringTypeOK
  <2> QED
    BY <1>g, <1>t, <2>1 DEF TableGrown, KeepsVersions, LatestVersion
<1>k. ASSUME \A m \in Names : policies'[m].keys \in {policies[m].keys, <<>>}
      PROVE  \A m \in Names : KeepsVersions(m)
  BY <1>t, <1>k DEF KeepsVersions, HasPolicy, LatestVersion
<1>1. ASSUME NEW n \in Names, NEW minDec \in MinVersions, NEW deletable \in BOOLEAN,
             KrCreateKey(n, minDec, deletable)
      PROVE  \A m \in Names : KeepsVersions(m)
  BY <1>g, <1>1, GenerationKeepsInv, KeyringAssumption
<1>2. ASSUME NEW n \in Names, KrRotateKey(n)
      PROVE  \A m \in Names : KeepsVersions(m)
  BY <1>g, <1>2, GenerationKeepsInv
<1>3. ASSUME NEW n \in Names, NEW minDec \in MinVersions, NEW deletable \in BOOLEAN,
             UpdateConfig(n, minDec, deletable)
      PROVE  \A m \in Names : KeepsVersions(m)
  <2>1. minDec \in Nat
    BY KeyringAssumption
  <2> QED
    BY <1>t, <1>k, <1>3, <2>1, ConfiguredPolicy
<1>4. ASSUME NEW n \in Names, DeleteKey(n)
      PROVE  \A m \in Names : KeepsVersions(m)
  BY <1>t, <1>k, <1>4, NoPolicyFacts DEF DeleteKey
<1>5. CASE KrSeal
  <2>1. \A m \in Names : policies'[m].keys = <<>>
    BY <1>5, NoPolicyFacts DEF KrSeal, NoPolicies
  <2> QED
    BY <1>k, <2>1
<1>6. ASSUME policies' = policies
      PROVE  \A m \in Names : KeepsVersions(m)
  BY <1>k, <1>6
<1>7. CASE Marshal \/ \E n \in Names, v \in 0..MaxDraws : GetCipher(n, v)
  BY <1>6, <1>7 DEF Marshal, GetCipher
<1> QED
  BY <1>1, <1>2, <1>3, <1>4, <1>5, <1>7 DEF KeyringNext

(* Rotation keeps the old versions: whatever is created, rotated, deleted, *)
(* configured, sealed or exported, a key that is still there has the       *)
(* material it had under each of its versions.                             *)
THEOREM RotationKeepsVersions == KeyringSpec => OldVersionsKept
  BY KeyringInitInv, KeyringStepInv, KeyringStepKeeps, PTL DEF KeyringSpec, OldVersionsKept
-----------------------------------------------------------------------------
(***************************************************************************)
(* The concurrent handlers implement the service as a sequence of its      *)
(* methods, and what holds of those.                                       *)
(***************************************************************************)
SealTypeOK ==
  /\ initialized \in BOOLEAN /\ sealed \in BOOLEAN
  /\ shares \in Nat /\ threshold \in Int
  /\ unsealKeys \in Seq(Share)

(* A good share among the pending ones is one that was handed out, and     *)
(* there are pending shares only after Initialize.                         *)
PendingHandedOut ==
  /\ \A i \in 1..Len(unsealKeys) : unsealKeys[i] = "good" => shares > 0
  /\ ~initialized => unsealKeys = <<>>

SealInv == SealTypeOK /\ SharesPending /\ PendingHandedOut /\ SealedHoldsNoKey
-----------------------------------------------------------------------------
(* Every step of a handler is one call of a service method, a restart of   *)
(* the process, or leaves the service alone: all that the handlers do      *)
(* outside the service's lock is reading.                                  *)
LEMMA HandlersStepService == [Next]_vars => [LockNext]_lockVars
<1> SUFFICES ASSUME [Next]_vars PROVE [LockNext]_lockVars
  OBVIOUS
<1>1. ASSUME NEW n \in ShareCounts,
             InitializeVaultPanics(n) \/ \E t \in Thresholds : InitializeVault(n, t)
      PROVE  LockNext
  BY <1>1 DEF InitializeVaultPanics, InitializeVault, LockNext
<1>2. ASSUME NEW n \in Names, CreateKeyCall(n) \/ RotateKeyCall(n)
      PROVE  LockNext
  BY <1>2 DEF CreateKeyCall, RotateKeyCall, LockNext
<1>3. ASSUME NEW c \in Callers, NEW share \in Share, UnsealCall(c, share)
      PROVE  LockNext
  BY <1>3 DEF UnsealCall, LockNext
<1>4. ASSUME NEW c \in Callers, SealCall(c)
      PROVE  LockNext
  BY <1>4 DEF SealCall, LockNext
<1>5. ASSUME NEW c \in Callers, NEW p \in Paths, DeleteSecretCall(c, p)
      PROVE  LockNext
  BY <1>5 DEF DeleteSecretCall, LockNext
<1>6. ASSUME NEW c \in Callers, NEW p \in Paths, NEW d \in Data, PutSecretCall(c, p, d)
      PROVE  LockNext
  BY <1>6 DEF PutSecretCall, LockNext
<1>7. ASSUME NEW c \in Callers, GetKeyVersionsLoop(c)
      PROVE  LockNext \/ UNCHANGED lockVars
  BY <1>7 DEF GetKeyVersionsLoop, ProcessCrash, LockNext
<1>8. CASE ProcessCrash
  BY <1>8 DEF ProcessCrash, LockNext
<1>9. ASSUME NEW c \in Callers,
             \/ UnsealUnsealed(c) \/ UnsealRespond(c) \/ SealRespond(c)
             \/ \E p \in Paths : GetSecret(c, p)
             \/ \E n \in Names, v \in 0..MaxDraws : GetEncryptionKeyCall(c, n, v)
             \/ GetEncryptionKeyMarshal(c)
             \/ \E n \in Names : GetKeyVersionsCall(c, n)
             \/ GetKeyVersionsMake(c)
      PROVE  UNCHANGED lockVars
  BY <1>9, Zenon DEF UnsealUnsealed, UnsealRespond, SealRespond, GetSecret, GetEncryptionKeyCall,
              GetEncryptionKeyMarshal, GetKeyVersionsCall, GetKeyVersionsMake
<1>10. CASE UNCHANGED vars
  BY <1>10 DEF vars
<1> QED
  BY <1>1, <1>2, <1>3, <1>4, <1>5, <1>6, <1>7, <1>8, <1>9, <1>10 DEF Next

(* The handlers implement the service: what clients see of the vault is a  *)
(* sequence of calls of its methods, however their handlers overlap.       *)
THEOREM HandlersImplementService == Spec => LockSpec
<1>1. Init => LockInit
  BY DEF Init
<1> QED
  BY <1>1, HandlersStepService, PTL DEF Spec, LockSpec
-----------------------------------------------------------------------------
(* A new process satisfies the invariant. *)
LEMMA SealInitInv == LockInit => SealInv
<1> SUFFICES ASSUME LockInit PROVE SealInv
  OBVIOUS
<1>1. SealTypeOK
  <2>1. initialized \in BOOLEAN /\ sealed \in BOOLEAN
    BY Zenon DEF LockInit
  <2>2. shares \in Nat /\ threshold \in Int /\ unsealKeys \in Seq(Share)
    BY LockAssumption DEF LockInit
  <2> QED
    BY <2>1, <2>2 DEF SealTypeOK
<1>2. SharesPending
  BY LockAssumption DEF LockInit, SharesPending, Needed
<1>3. PendingHandedOut
  BY DEF LockInit, PendingHandedOut
<1>4. SealedHoldsNoKey
  BY DEF LockInit, KeyringInit, SealedHoldsNoKey
<1> QED
  BY <1>1, <1>2, <1>3, <1>4 DEF SealInv

(* So does the one started after a crash. *)
LEMMA CrashInv == Crash => SealInv'
<1> SUFFICES ASSUME Crash PROVE SealInv'
  OBVIOUS
<1>1. SealTypeOK'
  <2>1. initialized' \in BOOLEAN /\ sealed' \in BOOLEAN
    BY Zenon DEF Crash
  <2>2. shares' \in Nat /\ threshold' \in Int /\ unsealKeys' \in Seq(Share)
    BY LockAssumption DEF Crash
  <2> QED
    BY <2>1, <2>2 DEF SealTypeOK
<1>2. SharesPending'
  BY LockAssumption DEF Crash, SharesPending, Needed
<1>3. PendingHandedOut'
  BY DEF Crash, PendingHandedOut
<1>4. SealedHoldsNoKey'
  BY DEF Crash, SealedHoldsNoKey, NoPolicies
<1> QED
  BY <1>1, <1>2, <1>3, <1>4 DEF SealInv

(* A share that is not enough yet is kept; one that completes the number   *)
(* ends the attempt, whatever comes of it.                                 *)
LEMMA UnsealInv ==
  ASSUME SealInv, NEW share \in Share, Unseal(share)
  PROVE  SealInv'
<1> DEFINE submitted == Append(unsealKeys, share)
<1>1. /\ submitted \in Seq(Share) /\ Len(submitted) = Len(unsealKeys) + 1
      /\ \A i \in 1..Len(unsealKeys) : submitted[i] = unsealKeys[i]
      /\ submitted[Len(unsealKeys) + 1] = share
  BY DEF SealInv, SealTypeOK
<1>2. initialized /\ sealed /\ (share = "good" => shares > 0)
  BY DEF Unseal
<1>3. CASE /\ ~EnoughShares(submitted)
           /\ unsealKeys' = submitted
           /\ UNCHANGED <<initialized, sealed, shares, threshold, secrets, keyringVars>>
  <2>1. SealTypeOK'
    BY <1>1, <1>3 DEF SealInv, SealTypeOK
  <2>2. SharesPending'
    <3>1. Len(unsealKeys) \in Nat /\ threshold \in Int
      BY DEF SealInv, SealTypeOK
    <3>2. Len(submitted) < threshold
      BY <1>1, <1>3, <3>1 DEF EnoughShares
    <3>3. Needed' = threshold
      BY <1>1, <1>3, <3>1, <3>2 DEF Needed
    <3> QED
      BY <1>2, <1>3, <3>2, <3>3 DEF SharesPending
  <2>3. PendingHandedOut'
    <3>1. ASSUME NEW i \in 1..Len(submitted), submitted[i] = "good"
          PROVE  shares > 0
      <4>1. Len(unsealKeys) \in Nat
        BY DEF SealInv, SealTypeOK
      <4>2. i \in 1..Len(unsealKeys) \/ i = Len(unsealKeys) + 1
        BY <1>1, <4>1
      <4> QED
        BY <1>1, <1>2, <3>1, <4>2 DEF SealInv, PendingHandedOut
    <3> QED
      BY <1>2, <1>3, <3>1 DEF PendingHandedOut
  <2>4. SealedHoldsNoKey'
    BY <1>2, <1>3 DEF keyringVars, SealInv, SealedHoldsNoKey, NoPolicies
  <2> QED
    BY <2>1, <2>2, <2>3, <2>4 DEF SealInv
<1>4. CASE /\ sealed' = ~Combines(submitted)
           /\ unsealKeys' = <<>>
           /\ UNCHANGED <<initialized, shares, threshold, secrets, keyringVars>>
  <2>1. SealTypeOK'
    BY <1>4 DEF SealInv, SealTypeOK
  <2>2. SharesPending'
    BY <1>4 DEF SealInv, SealTypeOK, SharesPending, Needed
  <2>3. PendingHandedOut'
    BY <1>4 DEF PendingHandedOut
  <2>4. SealedHoldsNoKey'
    BY <1>2, <1>4 DEF keyringVars, SealInv, SealedHoldsNoKey, NoPolicies
  <2> QED
    BY <2>1, <2>2, <2>3, <2>4 DEF SealInv
<1> QED
  BY <1>3, <1>4, CrashInv, Zenon DEF Unseal

(* Every method of the service preserves the invariant. *)
LEMMA SealNextInv == SealInv /\ [LockNext]_lockVars => SealInv'
<1> SUFFICES ASSUME SealInv, [LockNext]_lockVars PROVE SealInv'
  OBVIOUS
<1>1. ASSUME NEW n \in ShareCounts, NEW t \in Thresholds, Initialize(n, t)
      PROVE  SealInv'
  <2>1. n \in Nat /\ t \in Int /\ unsealKeys' = <<>> /\ ~sealed' /\ shares' = n /\ threshold' = t
    BY <1>1, LockAssumption DEF Initialize, SealInv, PendingHandedOut
  <2>2. SealTypeOK'
    <3>1. initialized' \in BOOLEAN /\ sealed' \in BOOLEAN
      BY <1>1, Zenon DEF Initialize
    <3>2. shares' \in Nat /\ threshold' \in Int /\ unsealKeys' \in Seq(Share)
      BY <2>1
    <3> QED
      BY <3>1, <3>2 DEF SealTypeOK
  <2>3. SharesPending'
    BY <2>1 DEF SharesPending, Needed
  <2>4. PendingHandedOut' /\ SealedHoldsNoKey'
    BY <2>1 DEF PendingHandedOut, SealedHoldsNoKey
  <2> QED
    BY <2>2, <2>3, <2>4 DEF SealInv
<1>2. ASSUME NEW share \in Share, Unseal(share)
      PROVE  SealInv'
  BY <1>2, UnsealInv
<1>3. CASE Seal
  <2>1. unsealKeys' = <<>> /\ sealed' /\ UNCHANGED <<initialized, shares, threshold>>
    BY <1>3 DEF Seal
  <2>2. SealTypeOK'
    BY <1>3, <2>1 DEF Seal, SealInv, SealTypeOK
  <2>3. SharesPending'
    BY <2>1 DEF SealInv, SealTypeOK, SharesPending, Needed
  <2>4. PendingHandedOut'
    BY <2>1 DEF PendingHandedOut
  <2>5. SealedHoldsNoKey'
    BY <1>3 DEF Seal, KrSeal, SealedHoldsNoKey, NoPolicies
  <2> QED
    BY <2>2, <2>3, <2>4, <2>5 DEF SealInv
<1>4. ASSUME UNCHANGED sealVars, ~sealed \/ UNCHANGED keyringVars
      PROVE  SealInv'
  BY <1>4 DEF sealVars, keyringVars, SealInv, SealTypeOK, SharesPending, Needed,
              PendingHandedOut, SealedHoldsNoKey, NoPolicies
<1>5. ASSUME NEW p \in Paths, DeleteSecret(p) \/ \E d \in Data : PutSecret(p, d)
      PROVE  SealInv'
  BY <1>4, <1>5 DEF DeleteSecret, PutSecret
<1>6. ASSUME NEW n \in Names, CreateKey(n) \/ RotateKey(n)
      PROVE  SealInv'
  BY <1>4, <1>6, Zenon DEF CreateKey, RotateKey
<1>7. Crash => SealInv'
  BY CrashInv
<1>8. CASE UNCHANGED lockVars
  BY <1>4, <1>8 DEF lockVars
<1> QED
  BY <1>1, <1>2, <1>3, <1>5, <1>6, <1>7, <1>8 DEF LockNext, InitializePanics

(* A sealed vault holds no key and no cipher, and the shares submitted to  *)
(* it are fewer than Unseal needs, none of them kept in an open vault.     *)
THEOREM VaultCorrect == Spec => [](SealedHoldsNoKey /\ SharesPending)
<1>1. SealInv => SealedHoldsNoKey /\ SharesPending
  BY DEF SealInv
<1> QED
  BY <1>1, SealInitInv, SealNextInv, HandlersImplementService, PTL DEF LockSpec

(* Unseal opens the vault with exactly as many shares as the threshold     *)
(* says, the first of them one that Initialize handed out.                 *)
THEOREM VaultOpensAtThreshold == Spec => UnsealedAtThreshold
<1> DEFINE Opens ==
      initialized /\ sealed /\ ~sealed' =>
        /\ Len(unsealKeys) + 1 = Needed
        /\ unsealKeys = <<>> \/ unsealKeys[1] = "good"
        /\ shares > 0
<1>1. ASSUME SealInv, [LockNext]_lockVars, initialized, sealed, ~sealed'
      PROVE  /\ Len(unsealKeys) + 1 = Needed
             /\ unsealKeys = <<>> \/ unsealKeys[1] = "good"
             /\ shares > 0
  <2>1. PICK share \in Share : Unseal(share)
    BY <1>1, Zenon DEF LockNext, lockVars, sealVars, InitializePanics, Initialize, Seal, DeleteSecret, PutSecret,
                CreateKey, RotateKey, Crash
  <2> DEFINE submitted == Append(unsealKeys, share)
  <2>2. EnoughShares(submitted) /\ Combines(submitted) /\ (share = "good" => shares > 0)
    BY <1>1, <2>1, Zenon DEF Unseal, Crash
  <2>3. Len(unsealKeys) \in Nat /\ threshold \in Int /\ Len(submitted) = Len(unsealKeys) + 1
    BY <1>1 DEF SealInv, SealTypeOK
  <2>4. Len(unsealKeys) + 1 = Needed
    BY <1>1, <2>2, <2>3 DEF EnoughShares, SealInv, SharesPending, Needed
  <2>5. CASE unsealKeys = <<>>
    <3>1. submitted[1] = share
      BY <2>5
    <3> QED
      BY <2>2, <2>4, <2>5, <3>1 DEF Combines
  <2>6. CASE unsealKeys # <<>>
    <3>1. 1 \in 1..Len(unsealKeys) /\ submitted[1] = unsealKeys[1]
      BY <1>1, <2>6 DEF SealInv, SealTypeOK
    <3> QED
      BY <1>1, <2>2, <2>4, <3>1 DEF Combines, SealInv, PendingHandedOut
  <2> QED
    BY <2>5, <2>6
<1>2. SealInv /\ [LockNext]_lockVars => [Opens]_lockVars
  BY <1>1
<1> QED
  BY <1>2, SealInitInv, SealNextInv, HandlersImplementService, PTL DEF LockSpec, UnsealedAtThreshold

(* No method changes a secret while the vault is sealed, or by sealing or  *)
(* unsealing it.                                                           *)
THEOREM SealingKeepsSecrets == Spec => SecretsKeptWhileSealed
<1>1. ASSUME [LockNext]_lockVars, sealed \/ sealed', initialized, initialized'
      PROVE  secrets' = secrets
  <2>1. ASSUME NEW share \in Share, Unseal(share)
        PROVE  secrets' = secrets
    BY <1>1, <2>1, Zenon DEF Unseal, Crash
  <2>2. ASSUME NEW p \in Paths, DeleteSecret(p) \/ \E d \in Data : PutSecret(p, d)
        PROVE  secrets' = secrets
    BY <1>1, <2>2 DEF DeleteSecret, PutSecret, sealVars
  <2>3. ASSUME NEW n \in Names, CreateKey(n) \/ RotateKey(n)
        PROVE  secrets' = secrets
    BY <2>3, Zenon DEF CreateKey, RotateKey
  <2>4. CASE Crash
    BY <1>1, <2>4 DEF Crash
  <2> QED
    BY <1>1, <2>1, <2>2, <2>3, <2>4 DEF LockNext, lockVars, InitializePanics, Initialize, Seal
<1>2. [LockNext]_lockVars =>
        [(sealed \/ sealed') /\ initialized /\ initialized' => secrets' = secrets]_lockVars
  BY <1>1
<1> QED
  BY <1>2, HandlersImplementService, PTL DEF LockSpec, SecretsKeptWhileSealed
-----------------------------------------------------------------------------
(***************************************************************************)
(* The key table and the copies of its keys that leave the vault.          *)
(***************************************************************************)
(* The service calls the keyring's operations, or starts it anew. *)
LEMMA VaultKeepsKeyringInv ==
  ASSUME KeyringInv, [LockNext]_lockVars
  PROVE  KeyringInv'
<1>1. KeyringInv /\ UNCHANGED keyringVars => KeyringInv'
  BY KeyringStepInv
<1>2. CASE Crash
  <2>1. KeyringTypeOK' /\ CipherMatchesKey'
    BY <1>2, NoPolicyFacts, Zenon DEF Crash, KeyringInv, KeyringTypeOK, CipherMatchesKey
  <2>2. Drawn(policies)' /\ Drawn(image)'
    BY <1>2, NoPolicyFacts DEF Crash, KeyringInv, Drawn
  <2>3. Distinct(policies)' /\ Distinct(image)'
    BY <1>2, NoPolicyFacts DEF Crash, KeyringInv, Distinct
  <2> QED
    BY <2>1, <2>2, <2>3 DEF KeyringInv
<1>3. CASE Seal
  BY <1>3, KeyringStepInv DEF Seal, KeyringNext
<1>4. ASSUME NEW n \in Names, CreateKey(n) \/ RotateKey(n)
      PROVE  KeyringInv'
  <2>1. 1 \in Nat /\ FALSE \in BOOLEAN
    OBVIOUS
  <2> QED
    BY <1>4, <2>1, GenerationKeepsInv, Zenon DEF CreateKey, RotateKey
<1>5. ASSUME NEW share \in Share, Unseal(share)
      PROVE  KeyringInv'
  BY <1>1, <1>2, <1>5, Zenon DEF Unseal
<1> QED
  BY <1>1, <1>2, <1>3, <1>4, <1>5
     DEF LockNext, InitializePanics, Initialize, DeleteSecret, PutSecret, lockVars

(* Copies of keys outside the vault.  M is the key table as it was when    *)
(* the keyring was last open, and a copy of version v of key n is its      *)
(* material there, unless a Seal (s) caught the bytes on their way.        *)
TableKept(M) ==
  /\ M \in [Names -> Seq(Nat)]
  /\ ~krSealed => \A n \in Names : M[n] = policies[n].keys

Copy(M, s, n, v, k) ==
  /\ v \in 1..Len(M[n])
  /\ k = M[n][v] \/ (s /\ k \in {Zeroed, Torn})

(* Every key the vault has may be used from its first version on: CreateKey *)
(* sets no higher minimum and no handler changes it.                        *)
AllVersionsUsable == \A n \in Names : policies[n].minDec = 1

(* What an operation on the vault does to the key table: nothing, or it    *)
(* adds a version, or it seals.                                            *)
LEMMA OperationOnKeys ==
  ASSUME NEW operators, Operation(operators), KeyringInv
  PROVE  \/ UNCHANGED <<policies, krSealed>>
         \/ TableGrown /\ ~krSealed /\ ~krSealed'
         \/ krSealed' /\ policies' = NoPolicies
<1>1. ASSUME NEW n \in Names, CreateKeyCall(n) \/ RotateKeyCall(n)
      PROVE  TableGrown /\ ~krSealed /\ ~krSealed'
  <2>1. KrRotateKey(n) \/ KrCreateKey(n, 1, FALSE)
    BY <1>1, Zenon DEF CreateKeyCall, RotateKeyCall, CreateKey, RotateKey
  <2>2. TableGrown
    BY <2>1, GenerationKeepsInv, Zenon
  <2>3. ~krSealed /\ ~krSealed'
    BY ONLY <2>1 DEF KrRotateKey, KrCreateKey
  <2> QED
    BY <2>2, <2>3
<1>2. ASSUME NEW c \in operators, SealCall(c)
      PROVE  krSealed' /\ policies' = NoPolicies
  BY <1>2 DEF SealCall, Seal, KrSeal
<1> QED
  BY <1>1, <1>2 DEF Operation, InitializeVault, Initialize, SealRespond, lockVars, keyringVars

LEMMA OperationStepsService ==
  ASSUME NEW operators, Operation(operators)
  PROVE  [LockNext]_lockVars
  BY DEF Operation, InitializeVault, CreateKeyCall, RotateKeyCall, SealCall, SealRespond, LockNext

(* The copies made so far stay copies: their table is kept or extended. *)
LEMMA OperationKeepsCopies ==
  ASSUME NEW operators, Operation(operators), KeyringInv, NEW M, TableKept(M)
  PROVE  \E N :
           /\ TableKept(N)'
           /\ \A n \in Names : \A v, k : Copy(M, krSealed, n, v, k) => Copy(N, krSealed', n, v, k)
<1>1. CASE UNCHANGED <<policies, krSealed>>
  BY <1>1 DEF TableKept, Copy
<1>2. CASE TableGrown /\ ~krSealed /\ ~krSealed'
  <2>1. PICK N : N = [n \in Names |-> policies'[n].keys]
    BY Zenon
  <2>2. KeyringInv'
    BY OperationStepsService, VaultKeepsKeyringInv
  <2>3. \A n \in Names : policies'[n].keys \in Seq(Nat) /\ policies[n].keys \in Seq(Nat)
    BY <2>2, PolicyKeys DEF KeyringInv, KeyringTypeOK
  <2>4. TableKept(N)'
    BY <2>1, <2>3 DEF TableKept
  <2>5. ASSUME NEW n \in Names, NEW v, NEW k, Copy(M, krSealed, n, v, k)
        PROVE  Copy(N, krSealed', n, v, k)
    <3>1. N[n] = policies'[n].keys /\ M[n] = policies[n].keys
      BY <1>2, <2>1 DEF TableKept
    <3>2. v \in 1..Len(M[n]) /\ k = M[n][v]
      BY <1>2, <2>5 DEF Copy
    <3>3. Len(M[n]) \in Nat /\ Len(N[n]) \in Nat /\ Len(M[n]) <= Len(N[n])
      BY <1>2, <2>3, <3>1 DEF TableGrown
    <3>4. N[n][v] = M[n][v]
      BY <1>2, <3>1, <3>2 DEF TableGrown
    <3> QED
      BY <3>2, <3>3, <3>4 DEF Copy
  <2> QED
    BY <2>4, <2>5
<1>3. CASE krSealed'
  <2>1. TableKept(M)'
    BY <1>3 DEF TableKept
  <2>2. \A n \in Names : \A v, k : Copy(M, krSealed, n, v, k) => Copy(M, krSealed', n, v, k)
    BY <1>3 DEF Copy
  <2> QED
    BY <2>1, <2>2
<1> QED
  BY <1>1, <1>2, <1>3, OperationOnKeys

LEMMA OperationKeepsUsable ==
  ASSUME NEW operators, Operation(operators), KeyringInv, AllVersionsUsable
  PROVE  AllVersionsUsable'
<1>1. ASSUME NEW n \in Names, NEW p, p.minDec = 1,
             policies' = [policies EXCEPT ![n] = generateKeyVersion(p)]
      PROVE  AllVersionsUsable'
  <2>1. generateKeyVersion(p).minDec = 1
    BY <1>1 DEF generateKeyVersion
  <2> QED
    BY <1>1, <2>1 DEF AllVersionsUsable, KeyringInv, KeyringTypeOK
<1>2. ASSUME NEW n \in Names, CreateKeyCall(n) PROVE AllVersionsUsable'
  <2>1. policies' = [policies EXCEPT ![n] =
          generateKeyVersion([keys |-> <<>>, minDec |-> 1, deletable |-> FALSE])]
    BY <1>2 DEF CreateKeyCall, CreateKey, KrCreateKey
  <2> QED
    BY <1>1, <2>1, Zenon
<1>3. ASSUME NEW n \in Names, RotateKeyCall(n) PROVE AllVersionsUsable'
  BY <1>1, <1>3, Zenon DEF RotateKeyCall, RotateKey, KrRotateKey, AllVersionsUsable
<1>4. CASE policies' = NoPolicies
  BY <1>4 DEF AllVersionsUsable, NoPolicies, NoPolicy
<1>5. CASE policies' = policies
  BY <1>5 DEF AllVersionsUsable
<1> QED
  BY <1>2, <1>3, <1>4, <1>5
     DEF Operation, InitializeVault, Initialize, SealCall, Seal, KrSeal, SealRespond, lockVars, keyringVars

(* The key an accepted GetEncryptionKey call carries away is a copy of the *)
(* version it asked for, or of the latest.                                 *)
LEMMA FetchedCopy ==
  ASSUME KeyringInv, NEW c, NEW n \in Names, NEW v \in Nat, GetEncryptionKeyCall(c, n, v),
         NEW M, TableKept(M)
  PROVE  \E w \in Nat \ {0}, k \in Nat :
           /\ call' = [call EXCEPT ![c] = [at |-> "marshal", name |-> n, version |-> w, key |-> k]]
           /\ Copy(M, krSealed, n, w, k)
           /\ v > 0 => w = v
           /\ v = 0 => w = LatestVersion(n)
<1> DEFINE w == ResolveVersion(n, v)
           k == policies[n].keys[w]
<1>1. ~krSealed /\ w \in 1..LatestVersion(n)
  BY DEF GetEncryptionKeyCall, CanGetEncryptionKey, HasKeyVersion
<1>2. LatestVersion(n) \in Nat /\ w \in Nat \ {0} /\ k \in Nat
  BY <1>1, PolicyKeys DEF KeyringInv, KeyringTypeOK, LatestVersion
<1>3. call' = [call EXCEPT ![c] = [at |-> "marshal", name |-> n, version |-> w, key |-> k]]
  BY DEF GetEncryptionKeyCall, Enter, GetKeyVersion
<1>4. (v > 0 => w = v) /\ (v = 0 => w = LatestVersion(n))
  BY DEF ResolveVersion
<1> HIDE DEF w
<1>5. Copy(M, krSealed, n, w, k)
  BY <1>1 DEF Copy, TableKept, LatestVersion
<1> HIDE DEF k
<1> QED
  BY <1>2, <1>3, <1>4, <1>5, Zenon

(* What Seal does to a key being marshalled. *)
LEMMA AfterSealMarshal ==
  ASSUME NEW c, NEW torn, call[c] \in [at : {"marshal"}, name : Names, version : Nat, key : Nat]
  PROVE  LET y == AfterSeal(c, torn) IN
         /\ y \in [at : {"marshal"}, name : Names, version : Nat, key : Nat]
         /\ y.name = call[c].name /\ y.version = call[c].version /\ y.key \in {Zeroed, Torn}
<1> DEFINE x == call[c]
           y == AfterSeal(c, torn)
           k == IF x.key \in {Zeroed, Torn} THEN x.key ELSE IF c \in torn THEN Torn ELSE Zeroed
<1>1. y = [x EXCEPT !.key = k]
  BY DEF AfterSeal
<1>2. k \in {Zeroed, Torn} /\ k \in Nat
  BY KeyringAssumption DEF Zeroed, Torn
<1> HIDE DEF k, y
<1>3. /\ y \in [at : {"marshal"}, name : Names, version : Nat, key : Nat]
      /\ y.name = x.name /\ y.version = x.version /\ y.key = k
  BY <1>1, <1>2
<1> QED
  BY <1>2, <1>3 DEF y
-----------------------------------------------------------------------------
(***************************************************************************)
(* The key cache (an LRU list).                                            *)
(***************************************************************************)
(* A hit answers with an entry of the cache. *)
LEMMA CacheHit ==
  ASSUME NEW E, NEW cache \in Seq(E), NEW k, CacheHas(cache, k)
  PROVE  /\ CachePlace(cache, k) \in 1..Len(cache)
         /\ cache[CachePlace(cache, k)].k = k
         /\ CacheInfo(cache, k) = cache[CachePlace(cache, k)].info
  BY DEF CacheHas, CachePlace, CacheInfo

(* No two entries have the same key. *)
CacheDistinct(cache) == \A i, j \in 1..Len(cache) : cache[i].k = cache[j].k => i = j

(* Where the entries are after a removal. *)
LEMMA CacheRemovePlaces ==
  ASSUME NEW E, NEW cache \in Seq(E), NEW k, CacheHas(cache, k)
  PROVE  /\ CacheRemove(cache, k) \in Seq(E)
         /\ Len(CacheRemove(cache, k)) = Len(cache) - 1
         /\ \A j \in 1..Len(cache) - 1 :
              CacheRemove(cache, k)[j] = IF j < CachePlace(cache, k) THEN cache[j] ELSE cache[j + 1]
<1> DEFINE i == CachePlace(cache, k)
           s == SubSeq(cache, 1, i - 1)
           t == SubSeq(cache, i + 1, Len(cache))
           r == s \o t
<1>1. i \in 1..Len(cache) /\ Len(cache) \in Nat
  BY CacheHit
<1>2. CacheRemove(cache, k) = r
  BY Zenon DEF CacheRemove
<1> HIDE DEF i
<1>3. /\ s \in Seq(E) /\ Len(s) = i - 1
      /\ \A j \in 1..Len(s) : s[j] = cache[j]
  BY <1>1
<1>4. /\ t \in Seq(E) /\ Len(t) = Len(cache) - i
      /\ \A j \in 1..Len(t) : t[j] = cache[i + j]
  BY <1>1
<1> HIDE DEF s, t
<1>5. /\ r \in Seq(E) /\ Len(r) = Len(s) + Len(t)
      /\ \A j \in 1..Len(s) + Len(t) : r[j] = IF j <= Len(s) THEN s[j] ELSE t[j - Len(s)]
  BY <1>3, <1>4, ConcatProperties, Zenon
<1> HIDE DEF r
<1>6. Len(r) = Len(cache) - 1
  BY <1>1, <1>3, <1>4, <1>5
<1>7. ASSUME NEW j \in 1..Len(cache) - 1 PROVE r[j] = IF j < i THEN cache[j] ELSE cache[j + 1]
  <2>1. CASE j < i
    <3>1. j \in 1..Len(s) + Len(t) /\ j <= Len(s) /\ j \in 1..Len(s)
      BY <1>1, <1>3, <1>4, <2>1
    <3>2. r[j] = s[j]
      BY <1>5, <3>1
    <3> QED
      BY <1>3, <2>1, <3>1, <3>2
  <2>2. CASE ~(j < i)
    <3>1. PICK m \in 1..Len(t) : m = j - Len(s) /\ i + m = j + 1
      BY <1>1, <1>3, <1>4, <2>2
    <3>4. j \in 1..Len(s) + Len(t) /\ ~(j <= Len(s))
      BY <1>1, <1>3, <1>4, <2>2
    <3>5. r[j] = t[j - Len(s)]
      BY <1>5, <3>4
    <3>2. r[j] = t[m]
      BY <3>1, <3>5
    <3>3. t[m] = cache[j + 1]
      BY <1>4, <3>1
    <3> QED
      BY <2>2, <3>2, <3>3
  <2> QED
    BY <2>1, <2>2
<1> QED
  BY <1>2, <1>5, <1>6, <1>7 DEF i

(* Removal leaves entries of the cache. *)
LEMMA CacheRemoveEntries ==
  ASSUME NEW E, NEW cache \in Seq(E), NEW k
  PROVE  LET rest == CacheRemove(cache, k) IN
         /\ rest \in Seq(E) /\ Len(rest) \in Nat /\ Len(cache) \in Nat
         /\ Len(rest) <= Len(cache)
         /\ CacheHas(cache, k) => Len(rest) + 1 = Len(cache)
         /\ \A j \in 1..Len(rest) : \E i \in 1..Len(cache) : rest[j] = cache[i]
         /\ CacheDistinct(cache) => CacheDistinct(rest) /\ \A j \in 1..Len(rest) : rest[j].k # k
<1>1. CASE ~CacheHas(cache, k)
  BY <1>1 DEF CacheRemove, CacheHas
<1>2. CASE CacheHas(cache, k)
  <2> DEFINE p == CachePlace(cache, k)
             r == CacheRemove(cache, k)
             At(j) == IF j < p THEN j ELSE j + 1
  <2>1. p \in 1..Len(cache) /\ cache[p].k = k /\ Len(cache) \in Nat
    BY <1>2, CacheHit
  <2>2. /\ r \in Seq(E) /\ Len(r) = Len(cache) - 1
        /\ \A j \in 1..Len(cache) - 1 : r[j] = IF j < p THEN cache[j] ELSE cache[j + 1]
    BY <1>2, CacheRemovePlaces
  <2> HIDE DEF p, r
  <2>3. \A j \in 1..Len(r) : At(j) \in 1..Len(cache) /\ At(j) # p /\ r[j] = cache[At(j)]
    BY <2>1, <2>2
  <2>4. \A j, l \in 1..Len(r) : At(j) = At(l) => j = l
    BY <2>1, <2>2
  <2> HIDE DEF At
  <2>5. CacheDistinct(cache) => CacheDistinct(r) /\ \A j \in 1..Len(r) : r[j].k # k
    BY <2>1, <2>3, <2>4, Zenon DEF CacheDistinct
  <2>6. /\ Len(r) \in Nat /\ Len(r) <= Len(cache) /\ Len(r) + 1 = Len(cache)
        /\ \A j \in 1..Len(r) : \E i \in 1..Len(cache) : r[j] = cache[i]
    BY <2>1, <2>2, <2>3
  <2> QED
    BY <2>1, <2>2, <2>5, <2>6 DEF r
<1> QED
  BY <1>1, <1>2

(* Entries behind which one with a new key is put stay distinct. *)
LEMMA AppendDistinct ==
  ASSUME NEW E, NEW s \in Seq(E), NEW e \in E, CacheDistinct(s), \A j \in 1..Len(s) : s[j].k # e.k
  PROVE  CacheDistinct(Append(s, e))
<1> DEFINE t == Append(s, e)
<1>1. /\ Len(t) = Len(s) + 1 /\ Len(s) \in Nat
      /\ \A j \in 1..Len(s) : t[j] = s[j]
      /\ t[Len(s) + 1] = e
  OBVIOUS
<1> HIDE DEF t
<1>2. ASSUME NEW i \in 1..Len(t), NEW j \in 1..Len(t), t[i].k = t[j].k PROVE i = j
  <2>1. (i \in 1..Len(s) \/ i = Len(s) + 1) /\ (j \in 1..Len(s) \/ j = Len(s) + 1)
    BY <1>1
  <2> QED
    BY <1>1, <1>2, <2>1 DEF CacheDistinct
<1> QED
  BY <1>2 DEF CacheDistinct, t

(* Add leaves, beside the new entry, entries of the cache only, and never  *)
(* more of them than fit.                                                  *)
LEMMA CacheAddEntries ==
  ASSUME NEW E, NEW cache \in Seq(E), NEW k, NEW info, [k |-> k, info |-> info] \in E, NEW size \in Nat \ {0},
         Len(cache) <= size, CacheDistinct(cache)
  PROVE  LET after == CacheAdd(cache, k, info, size) IN
         /\ after \in Seq(E) /\ Len(after) <= size /\ CacheDistinct(after)
         /\ \A j \in 1..Len(after) : \/ after[j] = [k |-> k, info |-> info]
                                     \/ \E i \in 1..Len(cache) : after[j] = cache[i]
<1> DEFINE e == [k |-> k, info |-> info]
           rest == CacheRemove(cache, k)
           added == Append(rest, e)
           after == CacheAdd(cache, k, info, size)
<1>1. /\ rest \in Seq(E) /\ Len(rest) <= Len(cache) /\ Len(cache) \in Nat /\ Len(rest) \in Nat
      /\ \A j \in 1..Len(rest) : \E i \in 1..Len(cache) : rest[j] = cache[i]
      /\ CacheDistinct(rest) /\ \A j \in 1..Len(rest) : rest[j].k # e.k
  BY CacheRemoveEntries
<1>2. after = IF Len(added) > size THEN Tail(added) ELSE added
  BY DEF CacheAdd
<1> HIDE DEF rest, e, after
<1>3. /\ added \in Seq(E) /\ Len(added) = Len(rest) + 1
      /\ \A j \in 1..Len(rest) : added[j] = rest[j]
      /\ added[Len(rest) + 1] = e
  BY <1>1 DEF e
<1>7. CacheDistinct(added)
  BY <1>1, AppendDistinct, Zenon DEF e
<1>4. ASSUME NEW j \in 1..Len(added) PROVE added[j] = e \/ \E i \in 1..Len(cache) : added[j] = cache[i]
  <2>1. j \in 1..Len(rest) \/ j = Len(rest) + 1
    BY <1>1, <1>3
  <2> QED
    BY <1>1, <1>3, <2>1
<1> HIDE DEF added
<1> DEFINE Added == /\ after \in Seq(E) /\ Len(after) <= size /\ CacheDistinct(after)
                    /\ \A j \in 1..Len(after) : after[j] = e \/ \E i \in 1..Len(cache) : after[j] = cache[i]
<1>5. ASSUME Len(added) > size PROVE Added
  <2>1. /\ after = Tail(added) /\ added # <<>>
    BY <1>1, <1>2, <1>3, <1>5
  <2>2. /\ after \in Seq(E) /\ Len(after) = Len(added) - 1
        /\ \A j \in 1..Len(after) : after[j] = added[j + 1]
    BY <1>3, <2>1, HeadTailProperties
  <2>3. ASSUME NEW j \in 1..Len(after) PROVE after[j] = e \/ \E i \in 1..Len(cache) : after[j] = cache[i]
    <3>1. j + 1 \in 1..Len(added) /\ after[j] = added[j + 1]
      BY <1>1, <1>3, <2>2
    <3> QED
      BY <1>4, <3>1
  <2>4. CacheDistinct(after)
    <3> SUFFICES ASSUME NEW i \in 1..Len(after), NEW j \in 1..Len(after), after[i].k = after[j].k PROVE i = j
      BY DEF CacheDistinct
    <3>1. i + 1 \in 1..Len(added) /\ j + 1 \in 1..Len(added)
      BY <1>1, <1>3, <2>2
    <3>2. i + 1 = j + 1
      BY <1>7, <2>2, <3>1, Zenon DEF CacheDistinct
    <3> QED
      BY <3>2
  <2>5. Len(after) <= size
    BY <1>1, <1>3, <2>2
  <2> QED
    BY <2>2, <2>3, <2>4, <2>5
<1>6. ASSUME ~(Len(added) > size) PROVE Added
  <2>1. after = added /\ Len(added) <= size
    BY <1>1, <1>2, <1>3, <1>6
  <2> QED
    BY <1>3, <1>4, <1>7, <2>1
<1>8. Added
  BY <1>5, <1>6
<1> QED
  BY <1>8 DEF after, e

(* The same, the entry and the result being named. *)
LEMMA CacheAdded ==
  ASSUME NEW E, NEW cache \in Seq(E), NEW k, NEW info, NEW e \in E, e = [k |-> k, info |-> info],
         NEW size \in Nat \ {0}, Len(cache) <= size, CacheDistinct(cache),
         NEW after, after = CacheAdd(cache, k, info, size)
  PROVE  /\ after \in Seq(E) /\ Len(after) <= size /\ CacheDistinct(after)
         /\ \A j \in 1..Len(after) : after[j] = e \/ \E i \in 1..Len(cache) : after[j] = cache[i]
  BY CacheAddEntries

(* Get of an entry that is there only moves it. *)
LEMMA CacheTouchEntries ==
  ASSUME NEW E, NEW cache \in Seq(E), NEW k, CacheHas(cache, k),
         \A e \in E : e = [k |-> e.k, info |-> e.info], CacheDistinct(cache)
  PROVE  LET after == CacheTouch(cache, k) IN
         /\ after \in Seq(E) /\ Len(after) = Len(cache) /\ CacheDistinct(after)
         /\ \A j \in 1..Len(after) : \E i \in 1..Len(cache) : after[j] = cache[i]
<1> DEFINE p == CachePlace(cache, k)
           rest == CacheRemove(cache, k)
           after == CacheTouch(cache, k)
<1>1. /\ rest \in Seq(E) /\ Len(rest) + 1 = Len(cache) /\ Len(cache) \in Nat /\ Len(rest) \in Nat
      /\ \A j \in 1..Len(rest) : \E i \in 1..Len(cache) : rest[j] = cache[i]
      /\ CacheDistinct(rest) /\ \A j \in 1..Len(rest) : rest[j].k # k
  BY CacheRemoveEntries
<1>2. p \in 1..Len(cache) /\ cache[p] \in E /\ cache[p].k = k /\ [k |-> k, info |-> CacheInfo(cache, k)] = cache[p]
  BY CacheHit
<1>3. after = Append(rest, cache[p])
  BY <1>2 DEF CacheTouch
<1> HIDE DEF p, rest, after
<1>6. CacheDistinct(after)
  BY <1>1, <1>2, <1>3, AppendDistinct, Zenon
<1>4. /\ after \in Seq(E) /\ Len(after) = Len(rest) + 1
      /\ \A j \in 1..Len(rest) : after[j] = rest[j]
      /\ after[Len(rest) + 1] = cache[p]
  BY <1>1, <1>2, <1>3
<1>5. ASSUME NEW j \in 1..Len(after) PROVE \E i \in 1..Len(cache) : after[j] = cache[i]
  <2>1. j \in 1..Len(rest) \/ j = Len(rest) + 1
    BY <1>1, <1>4
  <2> QED
    BY <1>1, <1>2, <1>4, <2>1
<1> QED
  BY <1>1, <1>4, <1>5, <1>6 DEF after
==============================================================================
