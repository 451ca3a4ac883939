----------------------------- MODULE LockService -----------------------------
(***************************************************************************)
(* services/lock/internal/service: the vault.  It is initialized once,     *)
(* sealed and unsealed with key shares, keeps secrets by path and the      *)
(* encryption keys in a Keyring.                                           *)
(*                                                                         *)
(* Every method runs under s.mu (and calls the keyring under it), so it is *)
(* one step; a call refused with an error changes nothing and is no step.  *)
(* All state is in memory: Crash is the end of the process, by a panic or  *)
(* from outside, and the start of a new one.                               *)
(*                                                                         *)
(* A key share is abstracted to what Unseal can tell: "good" (an index     *)
(* byte and the master key of this process), "bad" (decodes to something   *)
(* else), "empty" (decodes to no byte).  A share that does not decode is   *)
(* refused without effect.                                                 *)
(***************************************************************************)
EXTENDS Keyring, Integers

CONSTANTS
  Paths,        \* paths of secrets
  Data,         \* contents of secrets
  ShareCounts,  \* values of InitializeRequest.secret_shares
  Thresholds,   \* values of InitializeRequest.secret_threshold
  DefaultThreshold, \* cfg.Seal.Threshold
  MaxPuts       \* bound: versions of one secret

ASSUME LockAssumption ==
  /\ ShareCounts \subseteq Int /\ Thresholds \subseteq Int
  /\ DefaultThreshold \in Int /\ MaxPuts \in Nat /\ Data # {}

VARIABLES
  initialized, sealed,
  shares,       \* len(shamirKeys): how many good shares were handed out
  threshold,
  unsealKeys,   \* the shares submitted since the last reset
  secrets       \* secrets[p]: version and data; version 0 is "no secret"

sealVars == <<initialized, sealed, shares, threshold, unsealKeys>>
lockVars == <<sealVars, secrets, keyringVars>>

Share == {"good", "bad", "empty"}

Secret == [version : Nat, data : Data]

NoSecret == [version |-> 0, data |-> CHOOSE d \in Data : TRUE]

NoSecrets == [p \in Paths |-> NoSecret]

LockTypeOK ==
  /\ KeyringTypeOK
  /\ initialized \in BOOLEAN /\ sealed \in BOOLEAN
  /\ shares \in Nat /\ threshold \in Int
  /\ unsealKeys \in Seq(Share)
  /\ secrets \in [Paths -> Secret]

LockInit ==
  /\ initialized = FALSE
  /\ sealed = TRUE
  /\ shares = 0
  /\ threshold = DefaultThreshold
  /\ unsealKeys = <<>>
  /\ secrets = NoSecrets
  /\ KeyringInit
-----------------------------------------------------------------------------
Crash ==
  /\ initialized' = FALSE
  /\ sealed' = TRUE
  /\ shares' = 0
  /\ threshold' = DefaultThreshold
  /\ unsealKeys' = <<>>
  /\ secrets' = NoSecrets
  /\ policies' = NoPolicies
  /\ ciphers' = {}
  /\ krSealed' = FALSE
  /\ UNCHANGED <<draws, image>>

(* The request's numbers are not checked: any threshold is stored ... *)
Initialize(n, t) ==
  /\ ~initialized
  /\ n >= 0
  /\ shares' = n
  /\ threshold' = t
  /\ initialized' = TRUE
  /\ sealed' = FALSE
  /\ UNCHANGED <<unsealKeys, secrets, keyringVars>>

(* ... and make panics for a negative number of shares. *)
InitializePanics(n) == ~initialized /\ n < 0 /\ Crash

(* Faulty: the last share decides. *)
CombinesLast(submitted) == submitted[Len(submitted)] = "good"

(* shamirCombine looks at the first share only; bytesEqual compares it     *)
(* with the master key.                                                    *)
Combines(submitted) == submitted[1] = "good"

(* Faulty: one share more than the threshold. *)
EnoughSharesOffByOne(submitted) == Len(submitted) > threshold

EnoughShares(submitted) == Len(submitted) >= threshold

Unseal(share) ==
  /\ initialized /\ sealed
  /\ share = "good" => shares > 0
  /\ LET submitted == Append(unsealKeys, share) IN
     \/ /\ ~EnoughShares(submitted)
        /\ unsealKeys' = submitted
        /\ UNCHANGED <<initialized, sealed, shares, threshold, secrets, keyringVars>>
     \/ /\ EnoughShares(submitted)
        /\ submitted[1] # "empty"
        /\ sealed' = ~Combines(submitted)
        /\ unsealKeys' = <<>>
        /\ UNCHANGED <<initialized, shares, threshold, secrets, keyringVars>>
     \/ /\ EnoughShares(submitted)
        /\ submitted[1] = "empty"      \* shares[0][1:] is out of range: panic
        /\ Crash

Seal ==
  /\ initialized /\ ~sealed
  /\ KrSeal
  /\ unsealKeys' = <<>>
  /\ sealed' = TRUE
  /\ UNCHANGED <<initialized, shares, threshold, secrets>>

(* Faulty: the version of the secret it replaces. *)
PutSecretSameVersion(p, d) ==
  /\ ~sealed
  /\ secrets[p].version < MaxPuts
  /\ secrets' = [secrets EXCEPT ![p] =
       [version |-> IF secrets[p].version = 0 THEN 1 ELSE secrets[p].version, data |-> d]]
  /\ UNCHANGED <<sealVars, keyringVars>>

PutSecret(p, d) ==
  /\ ~sealed
  /\ secrets[p].version < MaxPuts
  /\ secrets' = [secrets EXCEPT ![p] = [version |-> secrets[p].version + 1, data |-> d]]
  /\ UNCHANGED <<sealVars, keyringVars>>

DeleteSecret(p) ==
  /\ ~sealed
  /\ secrets[p].version > 0
  /\ secrets' = [secrets EXCEPT ![p] = NoSecret]
  /\ UNCHANGED <<sealVars, keyringVars>>

CreateKey(n) == ~sealed /\ KrCreateKey(n, 1, FALSE) /\ UNCHANGED <<sealVars, secrets>>

RotateKey(n) == ~sealed /\ KrRotateKey(n) /\ UNCHANGED <<sealVars, secrets>>

(* GetEncryptionKey(n, v) succeeds; GetKey(n) and the others likewise.     *)
CanGetEncryptionKey(n, v) == ~sealed /\ HasKeyVersion(n, v)

CanGetKey(n) == ~sealed /\ ~krSealed /\ HasPolicy(n)

CanGetSecret(p) == ~sealed /\ secrets[p].version > 0

LockNext ==
  \/ \E n \in ShareCounts : InitializePanics(n) \/ \E t \in Thresholds : Initialize(n, t)
  \/ \E share \in Share : Unseal(share)
  \/ Seal
  \/ \E p \in Paths : DeleteSecret(p) \/ \E d \in Data : PutSecret(p, d)
  \/ \E n \in Names : CreateKey(n) \/ RotateKey(n)
  \/ Crash

LockSpec == LockInit /\ [][LockNext]_lockVars
-----------------------------------------------------------------------------
(* A sealed vault holds no encryption key and no cipher: Seal sealed the   *)
(* keyring, and nothing was created since.                                 *)
SealedHoldsNoKey == sealed => policies = NoPolicies /\ ciphers = {}

(* The shares a threshold needs at least: Initialize takes any threshold,  *)
(* and with 0 or less the first share already counts as enough.            *)
Needed == IF threshold <= 0 THEN 1 ELSE threshold

(* A vault that was initialized and is sealed opens with exactly as many   *)
(* shares as the threshold says, none of them left over from an earlier    *)
(* attempt, the first of them one that Initialize handed out.              *)
UnsealedAtThreshold ==
  [][initialized /\ sealed /\ ~sealed' =>
       /\ Len(unsealKeys) + 1 = Needed
       /\ unsealKeys = <<>> \/ unsealKeys[1] = "good"
       /\ shares > 0]_lockVars

(* Sealing, the time a vault is sealed and unsealing leave its secrets     *)
(* alone: they are kept in memory only, so a vault that is sealed and      *)
(* opened again, in the same process, still has all of them.               *)
SecretsKeptWhileSealed ==
  [][(sealed \/ sealed') /\ initialized /\ initialized' => secrets' = secrets]_lockVars

(* The submitted shares are fewer than needed, and none are kept in an     *)
(* open vault: what makes UnsealedAtThreshold hold.                        *)
SharesPending ==
  /\ Len(unsealKeys) < Needed
  /\ ~sealed => unsealKeys = <<>>

(* "Load keyring", then "Lock Service is now operational!": an unsealed    *)
(* vault has an open keyring.                                              *)
KeyringOperational == ~sealed => ~krSealed
==============================================================================
