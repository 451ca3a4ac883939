------------------------------- MODULE APIKeys -------------------------------
(* API keys of services/auth: CreateAPIKey, ValidateAPIKey, RevokeAPIKey    *)
(* and the note of the last use that a validation leaves to a goroutine.    *)
(* Each of them takes the repository's lock once.  A key and its hash are   *)
(* random; keys are numbered in the order they are created.  Nothing        *)
(* deletes a key, and nothing caches the answer of a validation.            *)
EXTENDS Integers

CONSTANTS
  KeyTTLs,      \* values of ttl_seconds: not positive means no expiry
  MaxKeys,      \* bound: keys created in one behaviour
  MaxClock      \* bound: ticks

ASSUME APIKeyAssumption == KeyTTLs \subseteq Int /\ MaxKeys \in Nat /\ MaxClock \in Nat

VARIABLES
  created,      \* how many keys have been created
  keys,         \* keys[k]: the record of k, by ID
  byHash,       \* the keys whose hash is in the index
  using,        \* the IDs whose use a goroutine has still to note
  clock         \* time

keyVars == <<created, keys, byHash, using, clock>>

APIKey == 1..MaxKeys

Never == -1

NoKey == [expires |-> Never, revoked |-> FALSE, used |-> FALSE]

KeyTypeOK ==
  /\ created \in 0..MaxKeys
  /\ keys \in [APIKey -> [expires : Int, revoked : BOOLEAN, used : BOOLEAN]]
  /\ byHash \subseteq 1..created
  /\ using \subseteq byHash
  /\ clock \in 0..MaxClock

KeyInit ==
  /\ created = 0
  /\ keys = [k \in APIKey |-> NoKey]
  /\ byHash = {}
  /\ using = {}
  /\ clock = 0

CreateAPIKey(ttl) ==
  /\ created < MaxKeys
  /\ created' = created + 1
  /\ keys' = [keys EXCEPT ![created'] =
       [expires |-> IF ttl > 0 THEN clock + ttl ELSE Never, revoked |-> FALSE, used |-> FALSE]]
  /\ byHash' = byHash \cup {created'}
  /\ UNCHANGED <<using, clock>>

(* GetByHash finds the key, not revoked and not expired.                    *)
GetByHash(k) ==
  /\ k \in byHash
  /\ ~keys[k].revoked
  /\ keys[k].expires # Never => clock <= keys[k].expires

(* A validation that is refused changes nothing; an accepted one starts a   *)
(* goroutine.                                                               *)
ValidateAPIKey(k) ==
  /\ GetByHash(k)
  /\ using' = using \cup {k}
  /\ UNCHANGED <<created, keys, byHash, clock>>

(* Faulty: the use is noted in a new record.                                *)
UpdateLastUsedAnew(k) ==
  /\ k \in using
  /\ keys' = [keys EXCEPT ![k] = [NoKey EXCEPT !.used = TRUE]]
  /\ using' = using \ {k}
  /\ UNCHANGED <<created, byHash, clock>>

UpdateLastUsed(k) ==
  /\ k \in using
  /\ keys' = [keys EXCEPT ![k].used = TRUE]
  /\ using' = using \ {k}
  /\ UNCHANGED <<created, byHash, clock>>

RevokeAPIKey(k) ==
  /\ k \in byHash
  /\ keys' = [keys EXCEPT ![k].revoked = TRUE]
  /\ UNCHANGED <<created, byHash, using, clock>>

KeyTick ==
  /\ clock < MaxClock
  /\ clock' = clock + 1
  /\ UNCHANGED <<created, keys, byHash, using>>

(* The process ends and a new one starts with no keys.                      *)
KeyCrash ==
  /\ keys' = [k \in APIKey |-> NoKey]
  /\ byHash' = {} /\ using' = {}
  /\ UNCHANGED <<created, clock>>

KeyNext ==
  \/ \E ttl \in KeyTTLs : CreateAPIKey(ttl)
  \/ \E k \in APIKey : ValidateAPIKey(k) \/ UpdateLastUsed(k) \/ RevokeAPIKey(k)
  \/ KeyTick
  \/ KeyCrash

KeySpec == KeyInit /\ [][KeyNext]_keyVars

------------------------------------------------------------------------------
(* A key that was refused once is refused for good: neither the clock, nor  *)
(* a restart, nor a goroutine that still has to note a use from before the  *)
(* key was revoked, makes ValidateAPIKey accept it again.                   *)
RefusedForGood == [][\A k \in 1..created : ~GetByHash(k) => ~GetByHash(k)']_keyVars
==============================================================================
