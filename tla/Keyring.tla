------------------------------- MODULE Keyring -------------------------------
(***************************************************************************)
(* pkg/crypto/keyring: named encryption keys with versions, the cipher     *)
(* cache in front of them, sealing, and the JSON image of the key table.   *)
(*                                                                         *)
(* The n-th 32-byte string drawn from crypto/rand is the number n: draws   *)
(* never repeat.  A policy keeps the material of version v at position v   *)
(* of "keys", so LatestVersion is its length.  A name without a policy has *)
(* NoPolicy (a stored policy always has a first version).                  *)
(*                                                                         *)
(* Every operation runs under kr.mu and is one step.  A call that returns  *)
(* an error leaves the keyring alone and is no step of its own.            *)
(***************************************************************************)
EXTENDS Naturals, Sequences

CONSTANTS
  Names,        \* the key names clients use
  MaxDraws,     \* bound: key versions generated in one behaviour
  MinVersions   \* the values passed to WithMinDecryptionVersion

ASSUME KeyringAssumption == MaxDraws \in Nat /\ MinVersions \subseteq Nat

VARIABLES
  policies,     \* policies[n]: the policy of n, or NoPolicy
  ciphers,      \* the cached ciphers, <<name, version, material>>
  krSealed,     \* Keyring.sealed
  draws,        \* how many key versions were generated so far
  image         \* the last result of Marshal (held by the caller)

keyringVars == <<policies, ciphers, krSealed, draws, image>>

Policy == [keys : Seq(Nat), minDec : Nat, deletable : BOOLEAN]

NoPolicy == [keys |-> <<>>, minDec |-> 1, deletable |-> FALSE]

NoPolicies == [n \in Names |-> NoPolicy]

HasPolicy(n) == policies[n].keys # <<>>

LatestVersion(n) == Len(policies[n].keys)

KeyringTypeOK ==
  /\ policies \in [Names -> Policy]
  /\ ciphers \subseteq Names \X Nat \X Nat
  /\ krSealed \in BOOLEAN
  /\ draws \in Nat
  /\ image \in [Names -> Policy]

KeyringInit ==
  /\ policies = NoPolicies
  /\ ciphers = {}
  /\ krSealed = FALSE
  /\ draws = 0
  /\ image = NoPolicies
-----------------------------------------------------------------------------
(* Faulty: 0 asks for the first. *)
ResolveVersionFirst(n, v) == IF v = 0 THEN 1 ELSE v

(* The version a request names: 0 asks for the latest. *)
ResolveVersion(n, v) == IF v = 0 THEN LatestVersion(n) ELSE v

(* GetKeyVersion(n, v) finds a key: it exists, v is not below the minimum  *)
(* and one of the stored versions.                                         *)
HasKeyVersion(n, v) ==
  /\ ~krSealed
  /\ HasPolicy(n)
  /\ ResolveVersion(n, v) >= policies[n].minDec
  /\ ResolveVersion(n, v) \in 1..LatestVersion(n)

(* Faulty: the latest key under the version that was asked for. *)
GetKeyVersionLatest(n, v) ==
  [version |-> ResolveVersion(n, v), key |-> policies[n].keys[LatestVersion(n)]]

GetKeyVersion(n, v) ==
  [version |-> ResolveVersion(n, v), key |-> policies[n].keys[ResolveVersion(n, v)]]

generateKeyVersion(p) ==
  [keys |-> Append(p.keys, draws + 1), minDec |-> p.minDec, deletable |-> p.deletable]

KrCreateKey(n, minDec, deletable) ==
  /\ ~krSealed
  /\ ~HasPolicy(n)
  /\ draws < MaxDraws
  /\ policies' = [policies EXCEPT ![n] =
       generateKeyVersion([keys |-> <<>>, minDec |-> minDec, deletable |-> deletable])]
  /\ draws' = draws + 1
  /\ UNCHANGED <<ciphers, krSealed, image>>

(* Faulty: the new version takes the place of the old ones. *)
KrRotateKeyReplaces(n) ==
  /\ ~krSealed /\ HasPolicy(n) /\ draws < MaxDraws
  /\ policies' = [policies EXCEPT ![n] = generateKeyVersion(NoPolicy)]
  /\ draws' = draws + 1
  /\ UNCHANGED <<ciphers, krSealed, image>>

KrRotateKey(n) ==
  /\ ~krSealed
  /\ HasPolicy(n)
  /\ draws < MaxDraws
  /\ policies' = [policies EXCEPT ![n] = generateKeyVersion(policies[n])]
  /\ draws' = draws + 1
  /\ UNCHANGED <<ciphers, krSealed, image>>

(* A cached cipher is returned as it is; a missing one is made from the    *)
(* stored key and cached.                                                  *)
GetCipher(n, v) ==
  /\ ~krSealed
  /\ HasPolicy(n)
  /\ LET version == ResolveVersion(n, v) IN
     /\ ~ \E m \in 1..draws : <<n, version, m>> \in ciphers
     /\ version \in 1..LatestVersion(n)
     /\ ciphers' = ciphers \cup {<<n, version, policies[n].keys[version]>>}
  /\ UNCHANGED <<policies, krSealed, draws, image>>

(* Faulty: the cached ciphers of a deleted key stay. *)
DeleteKeyLeavesCiphers(n) ==
  /\ ~krSealed
  /\ HasPolicy(n)
  /\ policies[n].deletable
  /\ policies' = [policies EXCEPT ![n] = NoPolicy]
  /\ UNCHANGED <<ciphers, krSealed, draws, image>>

DeleteKey(n) ==
  /\ ~krSealed
  /\ HasPolicy(n)
  /\ policies[n].deletable
  /\ policies' = [policies EXCEPT ![n] = NoPolicy]
  /\ ciphers' = {c \in ciphers : c[1] # n}
  /\ UNCHANGED <<krSealed, draws, image>>

UpdateConfig(n, minDec, deletable) ==
  /\ ~krSealed
  /\ HasPolicy(n)
  /\ policies' = [policies EXCEPT ![n].minDec = minDec, ![n].deletable = deletable]
  /\ UNCHANGED <<ciphers, krSealed, draws, image>>

(* Seal overwrites the key bytes where they lie and drops both tables.     *)
KrSeal ==
  /\ policies' = NoPolicies
  /\ ciphers' = {}
  /\ krSealed' = TRUE
  /\ UNCHANGED <<draws, image>>

Marshal ==
  /\ image' = policies
  /\ UNCHANGED <<policies, ciphers, krSealed, draws>>

(* The only operation that clears "sealed". *)
Unmarshal ==
  /\ policies' = image
  /\ ciphers' = {}
  /\ krSealed' = FALSE
  /\ UNCHANGED <<draws, image>>

KeyringNext ==
  \/ \E n \in Names, minDec \in MinVersions, deletable \in BOOLEAN :
       \/ KrCreateKey(n, minDec, deletable)
       \/ UpdateConfig(n, minDec, deletable)
  \/ \E n \in Names : KrRotateKey(n) \/ DeleteKey(n)
  \/ \E n \in Names, v \in 0..MaxDraws : GetCipher(n, v)
  \/ KrSeal
  \/ Marshal
  \/ Unmarshal

KeyringSpec == KeyringInit /\ [][KeyringNext]_keyringVars
-----------------------------------------------------------------------------
(* Every cached cipher was made from the key its name and version denote   *)
(* now.  GetCipher answers from the cache without looking at the stored    *)
(* key again, so a cipher that outlived its key (deleted and created       *)
(* again, replaced by Unmarshal) would silently encrypt under a key that   *)
(* GetKeyVersion no longer knows.                                          *)
CipherMatchesKey ==
  \A c \in ciphers :
    /\ c[2] \in 1..LatestVersion(c[1])
    /\ policies[c[1]].keys[c[2]] = c[3]

(* No two versions, of the same or of different keys, share material: a    *)
(* version is always a draw of its own, also after an older image of the   *)
(* table was loaded and its keys rotated again.                            *)
Distinct(table) ==
  \A n1, n2 \in Names :
    \A v1 \in 1..Len(table[n1].keys), v2 \in 1..Len(table[n2].keys) :
      table[n1].keys[v1] = table[n2].keys[v2] => n1 = n2 /\ v1 = v2

MaterialIsUnique == Distinct(policies)

(* Rotation keeps the old versions: unless the table is reloaded, a key    *)
(* that is still there has kept the material of each of its versions       *)
(* ("Old versions are kept for decryption", docs/03).                      *)
KeepsVersions(n) ==
  HasPolicy(n) /\ HasPolicy(n)' =>
    \A v \in 1..LatestVersion(n) :
      v <= LatestVersion(n)' /\ policies'[n].keys[v] = policies[n].keys[v]

OldVersionsKept == [][Unmarshal \/ \A n \in Names : KeepsVersions(n)]_keyringVars
==============================================================================
