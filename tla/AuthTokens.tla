----------------------------- MODULE AuthTokens -----------------------------
(***************************************************************************)
(* services/auth: JWTs, their records and the cache of validated claims.   *)
(*                                                                         *)
(* A validation looks into the cache, checks signature and expiry, asks    *)
(* the repository whether the token was revoked, and fills the cache; each *)
(* of the four has its own lock or none.  Tokens are numbered in the order *)
(* in which they are issued.  Every process signs with a key of its own.   *)
(*                                                                         *)
(* Time is kept as the ticks left until a token or a cache entry expires.  *)
(* The repository in memory never refuses Create, and nothing calls        *)
(* DeleteExpired: exactly the tokens of this process have a record.        *)
(* LastUsedAt is read by nobody and left out.                              *)
(***************************************************************************)
EXTENDS Integers, Sequences, KeyCache

CONSTANTS
  Callers,      \* calls in progress
  TTLs,         \* values of ttl_seconds
  DefaultTTL, MaxTTL,
  RefreshTTL,   \* the hour RefreshToken takes when ttl_seconds is 0
  CacheTTL,     \* cfg.Cache.L2TTL
  CacheSize,    \* cfg.Cache.L1Size
  MaxTokens     \* bound: tokens issued in one behaviour

ASSUME TokenAssumption ==
  /\ TTLs \subseteq Int
  /\ DefaultTTL \in 1..MaxTTL /\ MaxTTL \in Nat /\ RefreshTTL \in Nat \ {0}
  /\ CacheTTL \in Nat \ {0} /\ CacheSize \in Nat \ {0} /\ MaxTokens \in Nat

VARIABLES
  issued,       \* how many tokens have been issued
  left,         \* left[i]: ticks until token i expires
  own,          \* the tokens signed by this process
  revoked,      \* those of them whose record has a RevokedAt
  tokenCache,   \* the tokens in the LRU cache, each with the ticks it has left
  call          \* call[c]: where the call is, and its token

vars == <<issued, left, own, revoked, tokenCache, call>>

Tokens == 1..MaxTokens

Idle == [at |-> "idle"]

Call ==
  {Idle} \cup [at : {"parse", "check", "cache", "claims"}, op : {"validate", "refresh"},
               token : Tokens]

TokenTypeOK ==
  /\ issued \in 0..MaxTokens
  /\ left \in [Tokens -> 0..MaxTTL]
  /\ own \subseteq 1..issued /\ revoked \subseteq own
  /\ Len(tokenCache) <= CacheSize
  /\ \A i \in 1..Len(tokenCache) : tokenCache[i].k \in Tokens /\ tokenCache[i].info \in 0..CacheTTL
  /\ call \in [Callers -> Call]

Init ==
  /\ issued = 0
  /\ left = [i \in Tokens |-> 0]
  /\ own = {} /\ revoked = {}
  /\ tokenCache = <<>>
  /\ call = [c \in Callers |-> Idle]
-----------------------------------------------------------------------------
(* The lifetime CreateToken gives: not positive asks for the default. *)
Lifetime(ttl) ==
  LET asked == IF ttl <= 0 THEN DefaultTTL ELSE ttl
  IN  IF asked > MaxTTL THEN MaxTTL ELSE asked

Issue(ttl) ==
  /\ issued < MaxTokens
  /\ issued' = issued + 1
  /\ left' = [left EXCEPT ![issued'] = Lifetime(ttl)]
  /\ own' = own \cup {issued'}

(* A token is given to the client when it is signed and recorded. *)
CreateToken(ttl) == Issue(ttl) /\ UNCHANGED <<revoked, tokenCache, call>>

RevokeToken(i) ==
  /\ i \in own
  /\ revoked' = revoked \cup {i}
  /\ UNCHANGED <<issued, left, own, tokenCache, call>>

Goto(c, place) == call' = [call EXCEPT ![c].at = place]

End(c) == call' = [call EXCEPT ![c] = Idle]

Fresh(i) == CacheHas(tokenCache, i) /\ CacheInfo(tokenCache, i) > 0

(* Faulty: a hit renews the entry. *)
StartRenews(c, op, i) ==
  /\ call[c] = Idle
  /\ i <= issued
  /\ call' = [call EXCEPT ![c] =
       [at |-> IF Fresh(i) THEN "claims" ELSE "parse", op |-> op, token |-> i]]
  /\ tokenCache' = IF Fresh(i) THEN CacheAdd(tokenCache, i, CacheTTL, CacheSize)
                             ELSE CacheRemove(tokenCache, i)
  /\ UNCHANGED <<issued, left, own, revoked>>

(* ValidateToken or RefreshToken starts with LRUCache.Get: an entry whose  *)
(* time is over is removed.  A hit returns the claims as they are.         *)
Start(c, op, i) ==
  /\ call[c] = Idle
  /\ i <= issued
  /\ call' = [call EXCEPT ![c] =
       [at |-> IF Fresh(i) THEN "claims" ELSE "parse", op |-> op, token |-> i]]
  /\ tokenCache' = IF Fresh(i) THEN CacheTouch(tokenCache, i) ELSE CacheRemove(tokenCache, i)
  /\ UNCHANGED <<issued, left, own, revoked>>

(* jwt.Manager.ValidateToken: signature and expiry. *)
Parse(c) ==
  /\ call[c].at = "parse"
  /\ \/ call[c].token \in own /\ left[call[c].token] > 0 /\ Goto(c, "check")
     \/ ~(call[c].token \in own /\ left[call[c].token] > 0) /\ End(c)
  /\ UNCHANGED <<issued, left, own, revoked, tokenCache>>

(* tokenRepo.Get: only ErrTokenRevoked stops the validation; a record that *)
(* has expired meanwhile is "not found", and ignored.                      *)
GetToken(c) ==
  /\ call[c].at = "check"
  /\ \/ call[c].token \notin revoked /\ Goto(c, "cache")
     \/ call[c].token \in revoked /\ End(c)
  /\ UNCHANGED <<issued, left, own, revoked, tokenCache>>

Cache(c) ==
  /\ call[c].at = "cache"
  /\ tokenCache' = CacheAdd(tokenCache, call[c].token, CacheTTL, CacheSize)
  /\ Goto(c, "claims")
  /\ UNCHANGED <<issued, left, own, revoked>>

(* ValidateTokenWithPolicy: the policies do not allow the action. *)
Denied(c) ==
  /\ call[c].at = "claims" /\ call[c].op = "validate"
  /\ End(c)
  /\ UNCHANGED <<issued, left, own, revoked, tokenCache>>

(* RefreshToken: a new token on the claims of the old one, or the signing  *)
(* failed.                                                                 *)
Refresh(c, ttl) ==
  /\ call[c].at = "claims" /\ call[c].op = "refresh"
  /\ \/ Issue(IF ttl = 0 THEN RefreshTTL ELSE ttl) /\ End(c)
     \/ End(c) /\ UNCHANGED <<issued, left, own>>
  /\ UNCHANGED <<revoked, tokenCache>>

(* Faulty: the cache outlives the signing key. *)
RestartKeepsCache ==
  /\ own' = {} /\ revoked' = {}
  /\ call' = [c \in Callers |-> Idle]
  /\ UNCHANGED <<issued, left, tokenCache>>

(* The process ends, and its calls with it; a new one starts. *)
Restart ==
  /\ own' = {} /\ revoked' = {}
  /\ tokenCache' = <<>>
  /\ call' = [c \in Callers |-> Idle]
  /\ UNCHANGED <<issued, left>>

Crash == Restart

(* ValidateToken got the claims and asserts an interface that jwt.Claims   *)
(* does not implement: a panic that nothing recovers.                      *)
Panic(c) ==
  /\ call[c].at = "claims" /\ call[c].op = "validate"
  /\ Restart

Tick ==
  /\ left' = [i \in Tokens |-> IF left[i] > 0 THEN left[i] - 1 ELSE 0]
  /\ tokenCache' = [j \in DOMAIN tokenCache |->
       [tokenCache[j] EXCEPT !.info = IF @ > 0 THEN @ - 1 ELSE 0]]
  /\ UNCHANGED <<issued, own, revoked, call>>

Next ==
  \/ \E ttl \in TTLs : CreateToken(ttl) \/ \E c \in Callers : Refresh(c, ttl)
  \/ \E i \in Tokens : RevokeToken(i)
  \/ \E c \in Callers, op \in {"validate", "refresh"}, i \in Tokens : Start(c, op, i)
  \/ \E c \in Callers : Parse(c) \/ GetToken(c) \/ Cache(c) \/ Denied(c) \/ Panic(c)
  \/ Tick
  \/ Crash

Spec == Init /\ [][Next]_vars

(* Time passes, and a call that has begun goes on. *)
Fairness ==
  /\ WF_vars(Tick)
  /\ \A c \in Callers : WF_vars(Parse(c) \/ GetToken(c) \/ Cache(c))

FairSpec == Spec /\ Fairness
-----------------------------------------------------------------------------
(* A restart ends the life of every token: what the cache holds, and what  *)
(* a call goes on with after the signature check, was signed by the key of *)
(* this process.  The cache is trusted without any check.                  *)
OwnTokensOnly ==
  /\ \A i \in 1..Len(tokenCache) : tokenCache[i].k \in own
  /\ \A c \in Callers : call[c].at \in {"check", "cache", "claims"} => call[c].token \in own

(* A token that must not be honoured any more. *)
Dead(i) == i \notin own \/ i \in revoked \/ left[i] = 0

(* A validation of i would succeed now, or is about to make the next ones  *)
(* succeed.                                                                *)
Honoured(i) ==
  Fresh(i) \/ \E c \in Callers : call[c].at \in {"check", "cache"} /\ call[c].token = i

(* Expiry and revocation take effect in the end, for good: RevokeToken     *)
(* does not touch the cache and a cached token is not checked again, but   *)
(* an entry is not renewed by being used.                                  *)
DeadTokensLapse == \A i \in Tokens : i <= issued /\ Dead(i) ~> []~Honoured(i)
==============================================================================
