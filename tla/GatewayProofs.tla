---------------------------- MODULE GatewayProofs ----------------------------
(***************************************************************************)
(* Proofs about the gateway: its circuit breaker, for any number of calls  *)
(* and any settings; its rate limiter, for any number of users, ports,     *)
(* handlers and buckets; and the connections of its proxy, for any number  *)
(* of services, goroutines and connections per pool.                       *)
(***************************************************************************)
EXTENDS CircuitBreaker, RateLimiter, Gateway, FiniteSetTheorems, TLAPS

-----------------------------------------------------------------------------
(***************************************************************************)
(* The circuit breaker, for any setting of its parameters, 0 included.     *)
(***************************************************************************)
(* Only a half-open breaker has probes, and it has had at least one. *)
ProbesOnlyHalfOpen ==
  IF state = "halfOpen" THEN requests >= 1 ELSE Probes = {}

BreakerInv == BreakerTypeOK /\ ProbesOnlyHalfOpen /\ HalfOpenBudget /\ ProbesAccounted
-----------------------------------------------------------------------------
(* Counters below the modulus do not wrap, and no counter leaves its range. *)
LEMMA Wrap ==
  ASSUME NEW n \in Nat
  PROVE  /\ n % Modulus \in 0..Modulus - 1
         /\ n < Modulus => n % Modulus = n
BY BreakerAssumption

LEMMA BudgetType == Budget \in Nat /\ Budget >= 1 /\ (maxRequests > 0 => Budget = maxRequests)
BY BreakerAssumption DEF Budget

(* The probes are finitely many. *)
LEMMA ProbesFinite == IsFiniteSet(Probes) /\ Cardinality(Probes) \in Nat
<1>1. Probes \subseteq Calls
  BY DEF Probes
<1>2. IsFiniteSet(Probes)
  BY <1>1, FS_Subset, BreakerAssumption
<1> QED
  BY <1>2, FS_CardinalityType

(* No probe, no count. *)
LEMMA NoProbes == ASSUME Probes = {} PROVE Cardinality(Probes) = 0
BY FS_EmptySet

(* The results of Over: the call is idle, and when the half-open period    *)
(* goes on the others are what they were.                                  *)
LEMMA OverCalls ==
  ASSUME BreakerTypeOK, NEW c \in Calls, Over(c)
  PROVE  /\ call' \in [Calls -> {"idle", "probe", "other"}]
         /\ state' # "halfOpen" => Probes' = {}
         /\ state' = "halfOpen" => Probes' = Probes \ {c}
BY DEF Over, BreakerTypeOK, Probes

(* Init establishes the invariant. *)
LEMMA BreakerInitInv == Init => BreakerInv
<1> SUFFICES ASSUME Init PROVE BreakerInv
  OBVIOUS
<1>1. BreakerTypeOK
  <2>1. 0 \in 0..Modulus - 1
    BY BreakerAssumption
  <2> QED
    BY <2>1, Zenon DEF Init, BreakerTypeOK
<1>2. state = "closed" /\ Probes = {}
  BY DEF Init, Probes
<1> QED
  BY <1>1, <1>2 DEF BreakerInv, ProbesOnlyHalfOpen, HalfOpenBudget, ProbesAccounted
-----------------------------------------------------------------------------
(* A call admitted in the closed state. *)
LEMMA AdmitClosedInv ==
  ASSUME BreakerInv, NEW c \in Calls, call[c] = "idle", AdmitClosed(c)
  PROVE  BreakerInv'
<1>1. BreakerTypeOK'
  <2>1. requests' \in 0..Modulus - 1 /\ failures' \in 0..Modulus - 1 /\ successes' \in 0..Modulus - 1
    BY Wrap, BreakerAssumption DEF AdmitClosed, BreakerInv, BreakerTypeOK
  <2>2. left' \in Nat
    BY BreakerAssumption DEF AdmitClosed, BreakerInv, BreakerTypeOK
  <2> QED
    BY <2>1, <2>2 DEF AdmitClosed, BreakerInv, BreakerTypeOK
<1>2. state' = "closed" /\ Probes' = {}
  BY DEF AdmitClosed, BreakerInv, BreakerTypeOK, ProbesOnlyHalfOpen, Probes
<1> QED
  BY <1>1, <1>2 DEF BreakerInv, ProbesOnlyHalfOpen, HalfOpenBudget, ProbesAccounted

(* The first probe of a half-open period. *)
LEMMA AdmitOpenInv ==
  ASSUME BreakerInv, NEW c \in Calls, call[c] = "idle", AdmitOpen(c)
  PROVE  BreakerInv'
<1>1. BreakerTypeOK'
  BY BreakerAssumption DEF AdmitOpen, BreakerInv, BreakerTypeOK
<1>2. Probes' = {c}
  BY DEF AdmitOpen, BreakerInv, BreakerTypeOK, ProbesOnlyHalfOpen, Probes
<1>3. Cardinality(Probes') = 1
  BY <1>2, FS_Singleton, Zenon
<1>4. state' = "halfOpen" /\ requests' = 1 /\ failures' = 0 /\ successes' = 0
  BY DEF AdmitOpen
<1>5. Budget' = Budget
  BY DEF Budget
<1> QED
  BY <1>1, <1>3, <1>4, <1>5, BudgetType
     DEF BreakerInv, ProbesOnlyHalfOpen, HalfOpenBudget, ProbesAccounted

(* A further probe. *)
LEMMA AdmitHalfOpenInv ==
  ASSUME BreakerInv, NEW c \in Calls, call[c] = "idle", AdmitHalfOpen(c)
  PROVE  BreakerInv'
<1>1. requests \in Nat /\ successes \in Nat /\ requests + 1 <= maxRequests /\ requests >= 1
  BY BreakerAssumption DEF AdmitHalfOpen, BreakerInv, BreakerTypeOK, ProbesOnlyHalfOpen
<1>2. requests' = requests + 1 /\ requests' \in 0..Modulus - 1
  BY <1>1, Wrap, BreakerAssumption DEF AdmitHalfOpen
<1>3. BreakerTypeOK'
  BY <1>2 DEF AdmitHalfOpen, BreakerInv, BreakerTypeOK
<1>4. Probes' = Probes \cup {c} /\ c \notin Probes
  BY DEF AdmitHalfOpen, BreakerInv, BreakerTypeOK, Probes
<1>5. Cardinality(Probes') = Cardinality(Probes) + 1
  BY <1>4, ProbesFinite, FS_AddElement
<1>6. state = "halfOpen" /\ state' = "halfOpen" /\ failures' = failures /\ successes' = successes
  BY DEF AdmitHalfOpen
<1>7. Budget = maxRequests /\ Budget' = Budget
  BY <1>1, BudgetType, BreakerAssumption DEF Budget
<1> QED
  BY <1>1, <1>2, <1>3, <1>5, <1>6, <1>7, ProbesFinite, BreakerAssumption
     DEF BreakerInv, ProbesOnlyHalfOpen, HalfOpenBudget, ProbesAccounted

(* A success, of a probe or of a call admitted before the period.          *)
LEMMA OnSuccessInv ==
  ASSUME BreakerInv, NEW c \in Calls, onSuccess(c)
  PROVE  BreakerInv'
<1>1. Over(c) /\ BreakerTypeOK
  BY DEF onSuccess, BreakerInv
<1>2. BreakerTypeOK'
  <2>1. successes' \in 0..Modulus - 1
    BY Wrap, BreakerAssumption DEF onSuccess, BreakerInv, BreakerTypeOK
  <2>2. requests' \in 0..Modulus - 1 /\ failures' \in 0..Modulus - 1 /\ left' \in Nat
    BY BreakerAssumption DEF onSuccess, BreakerInv, BreakerTypeOK
  <2>3. state' \in {"closed", "halfOpen", "open"} /\ armed' \in BOOLEAN
    BY Zenon DEF onSuccess, BreakerInv, BreakerTypeOK
  <2> QED
    BY <1>1, <2>1, <2>2, <2>3, OverCalls DEF BreakerTypeOK
<1>3. CASE state' # "halfOpen"
  BY <1>1, <1>2, <1>3, OverCalls
     DEF BreakerInv, ProbesOnlyHalfOpen, HalfOpenBudget, ProbesAccounted
<1>4. CASE state' = "halfOpen"
  <2>1. /\ state = "halfOpen" /\ successes + 1 < maxRequests
        /\ requests' = requests /\ failures' = failures
        /\ successes' = (successes + 1) % Modulus
    BY <1>4, BreakerAssumption DEF onSuccess, BreakerInv, BreakerTypeOK
  <2>2. requests \in Nat /\ successes \in Nat
    BY DEF BreakerInv, BreakerTypeOK
  <2>3. successes' = successes + 1
    BY <2>1, <2>2, Wrap, BreakerAssumption
  <2>4. Probes' = Probes \ {c}
    BY <1>1, <1>4, OverCalls
  <2>5. /\ Cardinality(Probes') <= Cardinality(Probes)
        /\ Cardinality(Probes') + 1 >= Cardinality(Probes)
        /\ Cardinality(Probes') \in Nat
    <3>1. Cardinality(Probes \ {c}) = IF c \in Probes THEN Cardinality(Probes) - 1 ELSE Cardinality(Probes)
      BY ProbesFinite, FS_RemoveElement
    <3>2. Cardinality(Probes \ {c}) \in Nat
      BY ProbesFinite, FS_RemoveElement, FS_CardinalityType
    <3>3. Cardinality(Probes') = Cardinality(Probes \ {c})
      BY <2>4
    <3> QED
      BY <3>1, <3>2, <3>3, ProbesFinite
  <2>6. Budget = maxRequests /\ Budget' = Budget
    BY <2>1, <2>2, BudgetType, BreakerAssumption DEF Budget
  <2> QED
    BY <1>2, <1>4, <2>1, <2>2, <2>3, <2>5, <2>6, ProbesFinite, BreakerAssumption
       DEF BreakerInv, ProbesOnlyHalfOpen, HalfOpenBudget, ProbesAccounted
<1> QED
  BY <1>3, <1>4

(* A failure ends a half-open period. *)
LEMMA OnFailureInv ==
  ASSUME BreakerInv, NEW c \in Calls, onFailure(c)
  PROVE  BreakerInv'
<1>1. Over(c) /\ BreakerTypeOK
  BY DEF onFailure, BreakerInv
<1>2. state' # "halfOpen" /\ state' \in {"closed", "halfOpen", "open"}
  BY DEF onFailure, BreakerInv, BreakerTypeOK
<1>3. BreakerTypeOK'
  <2>1. failures' \in 0..Modulus - 1
    BY Wrap, BreakerAssumption DEF onFailure, BreakerInv, BreakerTypeOK
  <2>2. requests' \in 0..Modulus - 1 /\ successes' \in 0..Modulus - 1 /\ left' \in Nat
    BY BreakerAssumption DEF onFailure, BreakerInv, BreakerTypeOK
  <2>3. armed' \in BOOLEAN
    BY Zenon DEF onFailure, BreakerInv, BreakerTypeOK
  <2> QED
    BY <1>1, <1>2, <2>1, <2>2, <2>3, OverCalls DEF BreakerTypeOK
<1> QED
  BY <1>1, <1>2, <1>3, OverCalls
     DEF BreakerInv, ProbesOnlyHalfOpen, HalfOpenBudget, ProbesAccounted

(* Every step preserves the invariant. *)
LEMMA BreakerNextInv == BreakerInv /\ [Next]_vars => BreakerInv'
<1> SUFFICES ASSUME BreakerInv, [Next]_vars PROVE BreakerInv'
  OBVIOUS
<1>1. ASSUME NEW c \in Calls, beforeRequest(c) PROVE BreakerInv'
  BY <1>1, AdmitClosedInv, AdmitOpenInv, AdmitHalfOpenInv DEF beforeRequest
<1>2. ASSUME NEW c \in Calls, onSuccess(c) PROVE BreakerInv'
  BY <1>2, OnSuccessInv
<1>3. ASSUME NEW c \in Calls, onFailure(c) PROVE BreakerInv'
  BY <1>3, OnFailureInv
<1>4. CASE Tick
  <2>1. BreakerTypeOK'
    BY <1>4 DEF Tick, counts, BreakerInv, BreakerTypeOK
  <2>2. Probes' = Probes /\ Budget' = Budget
    BY <1>4 DEF Tick, Probes, Budget
  <2> QED
    BY <1>4, <2>1, <2>2
       DEF Tick, counts, BreakerInv, ProbesOnlyHalfOpen, HalfOpenBudget, ProbesAccounted
<1>5. CASE UNCHANGED vars
  <2>1. BreakerTypeOK'
    BY <1>5 DEF vars, counts, BreakerInv, BreakerTypeOK
  <2>2. Probes' = Probes /\ Budget' = Budget
    BY <1>5 DEF vars, Probes, Budget
  <2> QED
    BY <1>5, <2>1, <2>2
       DEF vars, counts, BreakerInv, ProbesOnlyHalfOpen, HalfOpenBudget, ProbesAccounted
<1> QED
  BY <1>1, <1>2, <1>3, <1>4, <1>5 DEF Next

(* A half-open breaker is never stuck: the probes out and the successes    *)
(* counted make up all it admitted, and the successes are too few to have  *)
(* closed it.                                                              *)
LEMMA InvNeverStuck == BreakerInv => NeverStuck
<1> SUFFICES ASSUME BreakerInv, state = "halfOpen", Probes = {}
             PROVE  requests < maxRequests
  BY DEF NeverStuck
<1>1. Cardinality(Probes) = 0
  BY NoProbes
<1>2. requests \in Nat /\ successes \in Nat /\ requests >= 1 /\ successes < Budget /\ successes >= requests
  BY <1>1 DEF BreakerInv, BreakerTypeOK, ProbesOnlyHalfOpen, ProbesAccounted
<1> QED
  BY <1>2, BreakerAssumption DEF Budget

(* The circuit breaker keeps its half-open budget, accounts for its probes *)
(* and is never stuck refusing every call, with results of earlier calls   *)
(* arriving at any time (beforeRequest, onSuccess, onFailure).             *)
THEOREM BreakerCorrect ==
  Spec => [](BreakerTypeOK /\ HalfOpenBudget /\ ProbesAccounted /\ NeverStuck)
<1>1. BreakerInv => BreakerTypeOK /\ HalfOpenBudget /\ ProbesAccounted /\ NeverStuck
  BY InvNeverStuck DEF BreakerInv
<1> QED
  BY <1>1, BreakerInitInv, BreakerNextInv, PTL DEF Spec
-----------------------------------------------------------------------------
(* An open breaker stays open for its timeout and admits nothing, whatever *)
(* results of earlier calls arrive.                                        *)
THEOREM BreakerOpenForTimeout == Spec => OpenForTimeout
<1> DEFINE Stays ==
      state = "open" /\ left > 0 =>
        /\ state' = "open" /\ left' <= left
        /\ \A c \in Calls : call[c] = "idle" => call'[c] = "idle"
<1>1. ASSUME BreakerInv, [Next]_vars, state = "open", left > 0
      PROVE  /\ state' = "open" /\ left' <= left
             /\ \A c \in Calls : call[c] = "idle" => call'[c] = "idle"
  <2>1. left \in Nat /\ call \in [Calls -> {"idle", "probe", "other"}]
    BY <1>1 DEF BreakerInv, BreakerTypeOK
  <2>2. ASSUME NEW c \in Calls PROVE ~beforeRequest(c)
    BY <1>1, <2>1 DEF beforeRequest, AdmitClosed, AdmitOpen, AdmitHalfOpen
  <2>3. ASSUME NEW c \in Calls, onSuccess(c) \/ onFailure(c)
        PROVE  /\ state' = "open" /\ left' <= left
               /\ \A d \in Calls : call[d] = "idle" => call'[d] = "idle"
    <3>1. state' = "open" /\ left' = left /\ Over(c)
      BY <1>1, <2>3 DEF onSuccess, onFailure
    <3> QED
      BY <2>1, <3>1 DEF Over
  <2>4. CASE Tick
    BY <1>1, <2>1, <2>4 DEF Tick
  <2>5. CASE UNCHANGED vars
    BY <1>1, <2>1, <2>5 DEF vars
  <2> QED
    BY <1>1, <2>2, <2>3, <2>4, <2>5 DEF Next
<1>2. BreakerInv /\ [Next]_vars => [Stays]_vars
  BY <1>1
<1> QED
  BY <1>2, BreakerInitInv, BreakerNextInv, PTL DEF Spec, OpenForTimeout
-----------------------------------------------------------------------------
(***************************************************************************)
(* The rate limiter refuses no request within the limit.  The invariant is *)
(* about every bucket a client ID refers to, by the table or by a handler  *)
(* that looked it up: no other ID refers to it, and it holds no less than  *)
(* what the ID may still be granted.  An ID found expired refers to its    *)
(* bucket in the table only, because no handler has it in hand (SeenNow).  *)
(*                                                                         *)
(* It grants little beyond the limit.  When first requests of an ID race,  *)
(* each stores a bucket of its own, and the ones replaced still grant to   *)
(* the handlers that looked them up.  The second invariant has, for each   *)
(* ID, a reserve for what the buckets it refers to hold and for what the   *)
(* handlers about to store one will add.  No reserve is needed for an ID   *)
(* that is about to be deleted, or is deleted and not stored again.        *)
(***************************************************************************)
Refers(k, b) ==
  \/ clients[k] = b /\ b # NoBucket
  \/ \E h \in Callers : handler[h].at = "allow" /\ handler[h].id = k /\ handler[h].bucket = b

LimiterType ==
  /\ clients \in [ClientIDs -> Buckets \cup {NoBucket}]
  /\ idle \in [ClientIDs -> 0..(3 * Cleanup + 1)]
  /\ tokens \in [Buckets -> 0..Burst]
  /\ handler \in [Callers -> {Resting} \cup Allowing]
  /\ credit \in [ClientIDs -> Int]

(* Garbage keeps a bucket from coming to a second ID. *)
OneOwner ==
  \A b \in Buckets : \A k, l \in ClientIDs : Refers(k, b) /\ Refers(l, b) => k = l

(* No bucket of an ID holds less than what the ID may still be granted. *)
Covered ==
  /\ \A k \in ClientIDs : credit[k] <= Burst
  /\ \A b \in Buckets : \A k \in ClientIDs : Refers(k, b) => credit[k] <= tokens[b]

(* A handler about to use a bucket has just been seen. *)
SeenNow == \A h \in Callers : handler[h].at = "allow" => idle[handler[h].id] = 0

LimiterInv == LimiterType /\ OneOwner /\ Covered /\ SeenNow

LEMMA LimiterInvRefuses == LimiterInv => RefusedOnlyOverLimit
<1> SUFFICES ASSUME LimiterInv, NEW h \in Callers,
                    handler[h].at = "allow", tokens[handler[h].bucket] = 0
             PROVE  credit[handler[h].id] <= 0
  BY DEF RefusedOnlyOverLimit
<1>1. handler[h].id \in ClientIDs /\ handler[h].bucket \in Buckets
  BY DEF LimiterInv, LimiterType, Allowing, Resting
<1>2. Refers(handler[h].id, handler[h].bucket)
  BY DEF Refers
<1> QED
  BY <1>1, <1>2 DEF LimiterInv, Covered

LEMMA LimiterInitInv == LimiterInit => LimiterInv
<1> SUFFICES ASSUME LimiterInit
             PROVE  LimiterInv
  OBVIOUS
<1>1. LimiterType
  BY LimiterAssumption DEF LimiterInit, LimiterType
<1>2. \A b \in Buckets : \A k \in ClientIDs : ~Refers(k, b)
  BY DEF LimiterInit, Refers, Resting
<1>3. OneOwner
  BY <1>2 DEF OneOwner
<1>4. Covered /\ SeenNow
  BY <1>2, LimiterAssumption DEF Covered, LimiterInit, SeenNow, Resting
<1> QED
  BY <1>1, <1>3, <1>4 DEF LimiterInv

(* A step after which an ID refers to no bucket it did not refer to, and   *)
(* that gives no ID more credit than its buckets, keeps the invariant.     *)
LEMMA FewerReferences ==
  ASSUME LimiterInv, LimiterType', SeenNow',
         \A b \in Buckets : \A k \in ClientIDs : Refers(k, b)' => Refers(k, b),
         \A k \in ClientIDs : credit'[k] <= Burst,
         \A b \in Buckets : \A k \in ClientIDs : Refers(k, b) => credit'[k] <= tokens'[b]
  PROVE  LimiterInv'
<1>1. OneOwner'
  BY DEF LimiterInv, OneOwner
<1>2. Covered'
  BY DEF Covered
<1> QED
  BY <1>1, <1>2 DEF LimiterInv

(* Load gives a handler the bucket the table has for its ID, or none. *)
LEMMA LoadKeepsInv ==
  ASSUME LimiterInv, NEW h \in Callers, NEW u \in Users, NEW port \in Ports, Load(h, u, port)
  PROVE  LimiterInv'
<1> DEFINE k == getClientID(u, port)
           placed == IF clients[k] # NoBucket
                     THEN [at |-> "allow", id |-> k, bucket |-> clients[k]]
                     ELSE [at |-> "store", id |-> k, bucket |-> NoBucket]
           seen == IF clients[k] # NoBucket THEN [idle EXCEPT ![k] = 0] ELSE idle
<1>1. k \in ClientIDs
  BY DEF ClientIDs
<1>2. /\ handler' = [handler EXCEPT ![h] = placed] /\ idle' = seen
      /\ UNCHANGED <<clients, tokens, credit>>
  BY DEF Load
<1> HIDE DEF k
<1>i. /\ seen \in [ClientIDs -> 0..(3 * Cleanup + 1)]
      /\ \A l \in ClientIDs : seen[l] = idle[l] \/ seen[l] = 0
      /\ placed.at = "allow" => seen[k] = 0
  BY <1>1, LimiterAssumption DEF LimiterInv, LimiterType
<1> HIDE DEF seen
<1>3. /\ placed \in Allowing
      /\ placed.id = k
      /\ placed.at = "allow" => placed.bucket = clients[k] /\ clients[k] # NoBucket
  <2>1. clients[k] \in Buckets \cup {NoBucket}
    BY <1>1 DEF LimiterInv, LimiterType
  <2>2. CASE clients[k] # NoBucket
    BY <1>1, <2>1, <2>2 DEF Allowing
  <2>3. CASE clients[k] = NoBucket
    BY <1>1, <2>3 DEF Allowing
  <2> QED
    BY <2>2, <2>3
<1> HIDE DEF placed
<1>4. /\ handler' \in [Callers -> {Resting} \cup Allowing]
      /\ handler'[h] = placed
      /\ \A g \in Callers \ {h} : handler'[g] = handler[g]
  BY <1>2, <1>3 DEF LimiterInv, LimiterType
<1>5. LimiterType'
  BY <1>2, <1>4, <1>i DEF LimiterInv, LimiterType
<1>6. \A b \in Buckets : \A l \in ClientIDs : Refers(l, b)' => Refers(l, b)
  BY <1>2, <1>3, <1>4 DEF Refers
<1>7. SeenNow'
  <2> SUFFICES ASSUME NEW g \in Callers, handler'[g].at = "allow" PROVE idle'[handler'[g].id] = 0
    BY DEF SeenNow
  <2>1. CASE g = h
    BY <1>2, <1>3, <1>4, <1>i, <2>1
  <2>2. CASE g # h
    <3>1. handler'[g] = handler[g] /\ handler[g].id \in ClientIDs /\ idle[handler[g].id] = 0
      BY <1>4, <2>2 DEF LimiterInv, LimiterType, Allowing, Resting, SeenNow
    <3> QED
      BY <1>2, <1>i, <3>1
  <2> QED
    BY <2>1, <2>2
<1> QED
  BY <1>2, <1>5, <1>6, <1>7, FewerReferences DEF LimiterInv, Covered

(* Store takes a bucket nobody refers to, and fills it. *)
LEMMA StoreKeepsInv ==
  ASSUME LimiterInv, NEW h \in Callers, NEW b \in Buckets, Store(h, b)
  PROVE  LimiterInv'
<1> DEFINE k == handler[h].id
<1>1. /\ k \in ClientIDs
      /\ handler[h].bucket = NoBucket
      /\ handler[h] \in [at : {"store"}, id : ClientIDs, bucket : {NoBucket}]
  BY DEF Store, LimiterInv, LimiterType, Allowing, Resting
<1>2. /\ \A l \in ClientIDs : clients[l] # b
      /\ \A g \in Callers : handler[g].bucket # b
      /\ b # NoBucket
  BY <1>1 DEF Store, Garbage
<1>3. /\ tokens' = [tokens EXCEPT ![b] = Burst]
      /\ clients' = [clients EXCEPT ![k] = b]
      /\ handler' = [handler EXCEPT ![h].at = "allow", ![h].bucket = b]
      /\ credit' = credit /\ idle' = [idle EXCEPT ![k] = 0]
  BY DEF Store
<1> HIDE DEF k
<1>4. /\ handler' \in [Callers -> {Resting} \cup Allowing]
      /\ handler'[h].at = "allow" /\ handler'[h].id = handler[h].id /\ handler'[h].bucket = b
      /\ \A g \in Callers \ {h} : handler'[g] = handler[g]
  <2>1. handler \in [Callers -> {Resting} \cup Allowing]
    BY DEF LimiterInv, LimiterType
  <2>2. /\ handler'[h] \in [at : {"allow"}, id : ClientIDs, bucket : Buckets]
        /\ handler'[h].id = handler[h].id /\ handler'[h].bucket = b
        /\ \A g \in Callers \ {h} : handler'[g] = handler[g]
    BY <1>1, <1>3, <2>1, Zenon
  <2>3. handler'[h] \in Allowing
    BY <2>2 DEF Allowing
  <2> QED
    BY <1>3, <2>1, <2>2, <2>3
<1>5. /\ tokens' \in [Buckets -> 0..Burst]
      /\ tokens'[b] = Burst
      /\ \A c \in Buckets \ {b} : tokens'[c] = tokens[c]
      /\ clients' \in [ClientIDs -> Buckets \cup {NoBucket}]
      /\ clients'[k] = b
      /\ \A l \in ClientIDs \ {k} : clients'[l] = clients[l]
      /\ idle' \in [ClientIDs -> 0..(3 * Cleanup + 1)] /\ idle'[k] = 0
      /\ \A l \in ClientIDs \ {k} : idle'[l] = idle[l]
  BY <1>1, <1>3, LimiterAssumption DEF LimiterInv, LimiterType
<1>6. LimiterType'
  BY <1>3, <1>4, <1>5 DEF LimiterInv, LimiterType
<1>7. \A l \in ClientIDs : Refers(l, b)' => l = k
  BY <1>2, <1>4, <1>5 DEF Refers, k
<1>8. \A c \in Buckets \ {b} : \A l \in ClientIDs : Refers(l, c)' => Refers(l, c)
  BY <1>4, <1>5 DEF Refers
<1>9. OneOwner'
  BY <1>7, <1>8 DEF LimiterInv, OneOwner
<1>10. Covered'
  BY <1>3, <1>5, <1>7, <1>8 DEF LimiterInv, Covered
<1>11. SeenNow'
  <2> SUFFICES ASSUME NEW g \in Callers, handler'[g].at = "allow" PROVE idle'[handler'[g].id] = 0
    BY DEF SeenNow
  <2>1. CASE g = h
    BY <1>4, <1>5, <2>1 DEF k
  <2>2. CASE g # h
    <3>1. handler'[g] = handler[g] /\ handler[g].id \in ClientIDs /\ idle[handler[g].id] = 0
      BY <1>4, <2>2 DEF LimiterInv, LimiterType, Allowing, Resting, SeenNow
    <3> QED
      BY <1>5, <3>1
  <2> QED
    BY <2>1, <2>2
<1> QED
  BY <1>6, <1>9, <1>10, <1>11 DEF LimiterInv

(* Admit takes one from a bucket and one from what its only owner may get. *)
LEMMA AdmitKeepsInv ==
  ASSUME LimiterInv, NEW h \in Callers, Admit(h)
  PROVE  LimiterInv'
<1> DEFINE k == handler[h].id
           b == handler[h].bucket
<1>1. k \in ClientIDs /\ b \in Buckets /\ Refers(k, b)
  BY DEF Admit, LimiterInv, LimiterType, Allowing, Resting, Refers
<1>2. /\ tokens[b] > 0
      /\ tokens' = [tokens EXCEPT ![b] = tokens[b] - 1]
      /\ credit' = [credit EXCEPT ![k] = credit[k] - 1]
      /\ handler' = [handler EXCEPT ![h] = Resting]
      /\ clients' = clients /\ idle' = idle
  BY DEF Admit
<1> HIDE DEF k, b
<1>3. /\ tokens \in [Buckets -> 0..Burst] /\ credit \in [ClientIDs -> Int] /\ Burst \in Nat
      /\ handler \in [Callers -> {Resting} \cup Allowing]
  BY LimiterAssumption DEF LimiterInv, LimiterType
<1>4. /\ tokens' \in [Buckets -> 0..Burst]
      /\ tokens'[b] = tokens[b] - 1
      /\ \A c \in Buckets \ {b} : tokens'[c] = tokens[c]
  BY <1>1, <1>2, <1>3
<1>5. /\ credit' \in [ClientIDs -> Int]
      /\ credit'[k] = credit[k] - 1
      /\ \A l \in ClientIDs \ {k} : credit'[l] = credit[l]
  BY <1>1, <1>2, <1>3
<1>6. /\ handler' \in [Callers -> {Resting} \cup Allowing]
      /\ handler'[h] = Resting
      /\ \A g \in Callers \ {h} : handler'[g] = handler[g]
  BY <1>2, <1>3
<1>7. LimiterType'
  BY <1>2, <1>4, <1>5, <1>6 DEF LimiterInv, LimiterType
<1>8. \A c \in Buckets : \A l \in ClientIDs : Refers(l, c)' => Refers(l, c)
  BY <1>2, <1>6 DEF Refers, Resting
<1>9. \A l \in ClientIDs : credit'[l] <= Burst
  BY <1>3, <1>5 DEF LimiterInv, Covered
<1>10. ASSUME NEW c \in Buckets, NEW l \in ClientIDs, Refers(l, c)
       PROVE  credit'[l] <= tokens'[c]
  <2>1. credit[l] <= tokens[c] /\ credit[l] \in Int /\ tokens[c] \in Int
    BY <1>3, <1>10 DEF LimiterInv, Covered
  <2>2. CASE l = k
    BY <1>4, <1>5, <2>1, <2>2
  <2>3. CASE l # k
    <3>1. c # b
      BY <1>1, <1>10, <2>3 DEF LimiterInv, OneOwner
    <3> QED
      BY <1>4, <1>5, <2>1, <2>3, <3>1
  <2> QED
    BY <2>2, <2>3
<1>11. SeenNow'
  BY <1>2, <1>6 DEF LimiterInv, SeenNow, Resting
<1> QED
  BY <1>7, <1>8, <1>9, <1>10, <1>11, FewerReferences

LEMMA RefuseKeepsInv ==
  ASSUME LimiterInv, NEW h \in Callers, Refuse(h)
  PROVE  LimiterInv'
<1>1. handler' = [handler EXCEPT ![h] = Resting] /\ UNCHANGED <<clients, idle, tokens, credit>>
  BY DEF Refuse
<1>2. /\ handler' \in [Callers -> {Resting} \cup Allowing]
      /\ handler'[h] = Resting
      /\ \A g \in Callers \ {h} : handler'[g] = handler[g]
  BY <1>1 DEF LimiterInv, LimiterType
<1>3. LimiterType'
  BY <1>1, <1>2 DEF LimiterInv, LimiterType
<1>4. \A c \in Buckets : \A l \in ClientIDs : Refers(l, c)' => Refers(l, c)
  BY <1>1, <1>2 DEF Refers, Resting
<1>5. SeenNow'
  BY <1>1, <1>2 DEF LimiterInv, SeenNow, Resting
<1> QED
  BY <1>1, <1>3, <1>4, <1>5, FewerReferences DEF LimiterInv, Covered

(* A refill never lets the credit overtake a bucket. *)
LEMMA RefilledMonotone ==
  ASSUME NEW m \in Int, NEW n \in Int, m <= n, n <= Burst
  PROVE  Refilled(m) <= Refilled(n) /\ Refilled(n) <= Burst /\ Refilled(m) \in Int
  BY LimiterAssumption DEF Refilled

LEMMA RefillKeepsInv ==
  ASSUME LimiterInv, Refill
  PROVE  LimiterInv'
<1>1. /\ tokens' = [b \in Buckets |-> Refilled(tokens[b])]
      /\ credit' = [k \in ClientIDs |-> Refilled(credit[k])]
      /\ idle' = [k \in ClientIDs |-> Older(k)]
      /\ handler' = handler /\ clients' = clients
      /\ \A h \in Callers : handler[h] = Resting
  BY DEF Refill
<1>2. /\ tokens \in [Buckets -> 0..Burst] /\ credit \in [ClientIDs -> Int] /\ Burst \in Nat
      /\ idle \in [ClientIDs -> 0..(3 * Cleanup + 1)] /\ Cleanup \in Nat
  BY LimiterAssumption DEF LimiterInv, LimiterType
<1>3. idle' \in [ClientIDs -> 0..(3 * Cleanup + 1)]
  BY <1>1, <1>2 DEF Older
<1>4. tokens' \in [Buckets -> 0..Burst]
  BY <1>1, <1>2 DEF Refilled
<1>5. /\ credit' \in [ClientIDs -> Int]
      /\ \A k \in ClientIDs : credit'[k] <= Burst
  BY <1>1, <1>2 DEF Refilled
<1>6. LimiterType'
  BY <1>1, <1>3, <1>4, <1>5 DEF LimiterInv, LimiterType
<1>7. \A b \in Buckets : \A k \in ClientIDs : Refers(k, b)' => Refers(k, b)
  BY <1>1 DEF Refers
<1>8. ASSUME NEW b \in Buckets, NEW k \in ClientIDs, Refers(k, b)
      PROVE  credit'[k] <= tokens'[b]
  <2>1. credit[k] <= tokens[b] /\ tokens[b] <= Burst /\ credit[k] \in Int /\ tokens[b] \in Int
    BY <1>2, <1>8 DEF LimiterInv, Covered
  <2>2. Refilled(credit[k]) <= Refilled(tokens[b])
    BY <2>1, RefilledMonotone
  <2> QED
    BY <1>1, <2>2
<1>9. SeenNow'
  BY <1>1 DEF SeenNow, Resting
<1> QED
  BY <1>5, <1>6, <1>7, <1>8, <1>9, FewerReferences

(* The handlers have nothing to do with an ID found expired. *)
LEMMA ExpiredUnused ==
  ASSUME LimiterInv, NEW k \in ClientIDs, Expired(k)
  PROVE  /\ \A h \in Callers : handler[h].at = "allow" => handler[h].id # k
         /\ clients[k] \in Buckets
         /\ \A b \in Buckets : Refers(k, b) <=> b = clients[k]
<1>1. idle[k] # 0
  BY LimiterAssumption DEF Expired, LimiterInv, LimiterType
<1>2. \A h \in Callers : handler[h].at = "allow" => handler[h].id # k
  BY <1>1 DEF LimiterInv, SeenNow
<1>3. clients[k] \in Buckets /\ clients[k] # NoBucket
  BY DEF Expired, LimiterInv, LimiterType
<1> QED
  BY <1>2, <1>3 DEF Refers

LEMMA FindExpiredKeepsInv ==
  ASSUME LimiterInv, NEW k \in ClientIDs, FindExpired(k)
  PROVE  LimiterInv'
<1>1. /\ Expired(k) /\ credit' = [credit EXCEPT ![k] = tokens[clients[k]]]
      /\ UNCHANGED <<clients, idle, tokens, handler>>
  BY DEF FindExpired
<1>2. clients[k] \in Buckets /\ \A b \in Buckets : Refers(k, b) <=> b = clients[k]
  BY <1>1, ExpiredUnused
<1>3. /\ tokens[clients[k]] \in 0..Burst /\ Burst \in Nat
      /\ credit' \in [ClientIDs -> Int] /\ credit'[k] = tokens[clients[k]]
      /\ \A l \in ClientIDs \ {k} : credit'[l] = credit[l]
  BY <1>1, <1>2, LimiterAssumption DEF LimiterInv, LimiterType
<1>4. LimiterType' /\ SeenNow'
  BY <1>1, <1>3 DEF LimiterInv, LimiterType, SeenNow
<1>5. \A b \in Buckets : \A l \in ClientIDs : Refers(l, b)' => Refers(l, b)
  BY <1>1 DEF Refers
<1>6. \A l \in ClientIDs : credit'[l] <= Burst
  BY <1>3 DEF LimiterInv, Covered
<1>7. ASSUME NEW b \in Buckets, NEW l \in ClientIDs, Refers(l, b)
      PROVE  credit'[l] <= tokens'[b]
  BY <1>1, <1>2, <1>3, <1>7 DEF LimiterInv, Covered
<1> QED
  BY <1>4, <1>5, <1>6, <1>7, FewerReferences

LEMMA DeleteKeepsInv ==
  ASSUME LimiterInv, NEW k \in ClientIDs, Delete(k)
  PROVE  LimiterInv'
<1>1. clients' = [clients EXCEPT ![k] = NoBucket] /\ UNCHANGED <<idle, tokens, handler, credit>>
  BY DEF Delete
<1>2. LimiterType' /\ SeenNow'
  BY <1>1 DEF LimiterInv, LimiterType, SeenNow
<1>3. \A b \in Buckets : \A l \in ClientIDs : Refers(l, b)' => Refers(l, b)
  BY <1>1 DEF Refers, LimiterInv, LimiterType
<1> QED
  BY <1>1, <1>2, <1>3, FewerReferences DEF LimiterInv, Covered

(* The cleanup loop starts a pass, or passes a client over. *)
Unhandled == UNCHANGED <<clients, idle, tokens, handler, credit>>

LEMMA PassOverUnhandled ==
  ASSUME NEW k \in ClientIDs, cleanupLoop \/ PassOver(k)
  PROVE  Unhandled /\ doomed' = doomed
  BY DEF cleanupLoop, PassOver, Unhandled

LEMMA LimiterStepInv == LimiterInv /\ [LimiterNext]_limiterVars => LimiterInv'
<1> SUFFICES ASSUME LimiterInv, [LimiterNext]_limiterVars
             PROVE  LimiterInv'
  OBVIOUS
<1>1. ASSUME NEW h \in Callers, NEW u \in Users, NEW port \in Ports, Load(h, u, port)
      PROVE  LimiterInv'
  BY <1>1, LoadKeepsInv
<1>2. ASSUME NEW h \in Callers, NEW b \in Buckets, Store(h, b)
      PROVE  LimiterInv'
  BY <1>2, StoreKeepsInv
<1>3. ASSUME NEW h \in Callers, Admit(h) \/ Refuse(h)
      PROVE  LimiterInv'
  BY <1>3, AdmitKeepsInv, RefuseKeepsInv
<1>4. CASE Refill
  BY <1>4, RefillKeepsInv
<1>5. ASSUME NEW k \in ClientIDs, FindExpired(k) \/ Delete(k)
      PROVE  LimiterInv'
  BY <1>5, FindExpiredKeepsInv, DeleteKeepsInv
<1>6. CASE Unhandled
  BY <1>6 DEF Unhandled, LimiterInv, LimiterType, OneOwner, Covered, Refers, SeenNow
<1>7. cleanupLoop => Unhandled
  BY DEF cleanupLoop, Unhandled
<1>8. UNCHANGED limiterVars => Unhandled
  BY DEF limiterVars, Unhandled
<1> QED
  BY <1>1, <1>2, <1>3, <1>4, <1>5, <1>6, <1>7, <1>8, PassOverUnhandled DEF LimiterNext

(* A handler finds its bucket empty only when one bucket kept for the      *)
(* client ID, since it was last found expired, would be empty too: the     *)
(* cleanup, racing first requests and other clients take nothing from it.  *)
THEOREM NoneRefusedWithinLimit == LimiterSpec => []RefusedOnlyOverLimit
  BY LimiterInvRefuses, LimiterInitInv, LimiterStepInv, PTL DEF LimiterSpec
-----------------------------------------------------------------------------
(* How far past the limit a client ID can get.  What it may still be       *)
(* granted without waiting is what its buckets hold, the ones replaced in  *)
(* the table but still in a handler's hands included, and a full bucket    *)
(* for every handler that missed in Load and has yet to store.             *)
Grants(k) == {g \in Buckets \X (1..Burst) : Refers(k, g[1]) /\ g[2] <= tokens[g[1]]}

Storing(k) == {h \in Callers : handler[h].at = "store" /\ handler[h].id = k}

(* One burst for each handler. *)
AllBursts == Burst * Cardinality(Callers)

Bounded(k) ==
  /\ IsFiniteSet(Grants(k))
  /\ credit[k] >= Cardinality(Grants(k)) + Burst * Cardinality(Storing(k)) - AllBursts

(* An ID that has no bucket, or one about to be deleted, can draw no more   *)
(* from the buckets there are than one bucket would grant.                 *)
Departing ==
  \A k \in ClientIDs : clients[k] = NoBucket \/ k \in doomed => Cardinality(Grants(k)) <= credit[k]

(* No handler stores a bucket for an ID that is about to be deleted ...    *)
DoomedThere == \A k \in doomed : clients[k] # NoBucket /\ Storing(k) = {}

(* ... nor for one that has a bucket, unless that was stored just now.     *)
MissedNow ==
  \A h \in Callers : handler[h].at = "store" =>
    clients[handler[h].id] = NoBucket \/ idle[handler[h].id] = 0

ExcessInv == (\A k \in ClientIDs : Bounded(k)) /\ Departing /\ DoomedThere /\ MissedNow

LEMMA TimesMonotone ==
  ASSUME NEW b \in Nat, NEW m \in Nat, NEW n \in Nat, m <= n
  PROVE  b * m \in Nat /\ b * m <= b * n
  OBVIOUS

LEMMA TimesLess ==
  ASSUME NEW b \in Nat, NEW m \in Nat, NEW n \in Nat, n = m - 1
  PROVE  b * n = b * m - b
  OBVIOUS

(* Any handlers together stay within all the bursts. *)
LEMMA BurstsOf ==
  ASSUME NEW S \in SUBSET Callers
  PROVE  /\ IsFiniteSet(S) /\ Cardinality(S) \in Nat
         /\ Burst * Cardinality(S) \in Nat /\ Burst * Cardinality(S) <= AllBursts
<1>1. /\ IsFiniteSet(S) /\ Cardinality(S) \in Nat /\ Cardinality(Callers) \in Nat
      /\ Cardinality(S) <= Cardinality(Callers)
  BY LimiterAssumption, FS_Subset, FS_CardinalityType
<1> QED
  BY <1>1, LimiterAssumption, TimesMonotone DEF AllBursts

LEMMA BurstFacts ==
  Burst \in Nat /\ Burst > 0 /\ AllBursts \in Nat /\ Cleanup \in Nat /\ Cleanup > 0
<1>1. AllBursts \in Nat
  BY BurstsOf DEF AllBursts
<1> QED
  BY <1>1, LimiterAssumption

(* A step that gives an ID no bucket, no token and no handler on its way   *)
(* to Store, and takes none of its credit.                                 *)
LEMMA StaysBounded ==
  ASSUME LimiterType, LimiterType', NEW k \in ClientIDs, Bounded(k),
         Grants(k)' \subseteq Grants(k), Storing(k)' \subseteq Storing(k), credit'[k] = credit[k]
  PROVE  Bounded(k)'
<1>1. /\ IsFiniteSet(Grants(k)') /\ Cardinality(Grants(k)') <= Cardinality(Grants(k))
      /\ Cardinality(Grants(k)') \in Nat /\ Cardinality(Grants(k)) \in Nat
  BY FS_Subset, FS_CardinalityType DEF Bounded
<1>2. Storing(k) \in SUBSET Callers /\ Storing(k)' \in SUBSET Callers
  BY DEF Storing
<1>3. IsFiniteSet(Storing(k)) /\ Cardinality(Storing(k)) \in Nat /\ Cardinality(Storing(k)') \in Nat
  BY <1>2, BurstsOf
<1>4. Cardinality(Storing(k)') <= Cardinality(Storing(k))
  BY <1>3, FS_Subset
<1>5. /\ Burst * Cardinality(Storing(k)') <= Burst * Cardinality(Storing(k))
      /\ Burst * Cardinality(Storing(k)') \in Nat /\ Burst * Cardinality(Storing(k)) \in Nat
  BY <1>2, <1>3, <1>4, BurstsOf, BurstFacts, TimesMonotone
<1>6. credit[k] \in Int /\ AllBursts \in Nat /\ Burst \in Nat
  BY BurstFacts DEF LimiterType
<1>7. credit'[k] >= Cardinality(Grants(k)') + Burst * Cardinality(Storing(k)') - AllBursts
  BY <1>1, <1>5, <1>6 DEF Bounded
<1> QED
  BY <1>1, <1>7 DEF Bounded

(* What the invariant says of the bound. *)
LEMMA BoundedExcess ==
  ASSUME LimiterType, NEW k \in ClientIDs, Bounded(k)
  PROVE  credit[k] >= -AllBursts
<1>1. Cardinality(Grants(k)) \in Nat
  BY FS_CardinalityType DEF Bounded
<1>2. Burst * Cardinality(Storing(k)) \in Nat
  BY BurstsOf DEF Storing
<1>3. credit[k] \in Int /\ AllBursts \in Nat /\ Burst \in Nat
  BY BurstFacts DEF LimiterType
<1> QED
  BY <1>1, <1>2, <1>3 DEF Bounded

LEMMA ExcessInvBounds == LimiterType /\ ExcessInv => ExcessBounded
  BY BoundedExcess DEF ExcessInv, ExcessBounded, AllBursts

LEMMA ExcessInitInv == LimiterInit => ExcessInv
<1> SUFFICES ASSUME LimiterInit
             PROVE  ExcessInv
  OBVIOUS
<1>1. /\ credit = [k \in ClientIDs |-> Burst] /\ doomed = {}
      /\ clients = [k \in ClientIDs |-> NoBucket]
      /\ \A h \in Callers : handler[h].at = "rest"
  BY DEF LimiterInit, Resting
<1>2. ASSUME NEW k \in ClientIDs PROVE Bounded(k) /\ Cardinality(Grants(k)) <= credit[k]
  <2>1. Grants(k) = {} /\ Storing(k) = {}
    BY <1>1 DEF Grants, Storing, Refers
  <2>2. IsFiniteSet(Grants(k)) /\ Cardinality(Grants(k)) = 0
    BY <2>1, FS_EmptySet
  <2>3. Burst * Cardinality(Storing(k)) \in Nat /\ Burst * Cardinality(Storing(k)) <= AllBursts
    BY BurstsOf DEF Storing
  <2>4. credit[k] = Burst
    BY <1>1
  <2> QED
    BY <2>2, <2>3, <2>4, BurstFacts DEF Bounded
<1>3. DoomedThere /\ MissedNow
  BY <1>1 DEF DoomedThere, MissedNow
<1> QED
  BY <1>2, <1>3 DEF ExcessInv, Departing

(* A step that gives an ID no bucket and no token, and takes none of its   *)
(* credit, keeps what it can draw.                                         *)
LEMMA StaysDeparting ==
  ASSUME LimiterType, NEW k \in ClientIDs, Bounded(k), Cardinality(Grants(k)) <= credit[k],
         Grants(k)' \subseteq Grants(k), credit'[k] = credit[k]
  PROVE  Cardinality(Grants(k)') <= credit'[k]
<1>1. /\ Cardinality(Grants(k)') <= Cardinality(Grants(k))
      /\ Cardinality(Grants(k)') \in Nat /\ Cardinality(Grants(k)) \in Nat
  BY FS_Subset, FS_CardinalityType DEF Bounded
<1> QED
  BY <1>1 DEF LimiterType

(* The calls after Load. *)
LEMMA LoadCalls ==
  ASSUME LimiterType, NEW h \in Callers, NEW u \in Users, NEW port \in Ports, Load(h, u, port)
  PROVE  \E k \in ClientIDs :
           /\ handler[h].at = "rest"
           /\ \A g \in Callers \ {h} : handler'[g] = handler[g]
           /\ handler'[h].id = k
           /\ \/ /\ clients[k] # NoBucket /\ handler'[h].at = "allow" /\ handler'[h].bucket = clients[k]
                 /\ idle' = [idle EXCEPT ![k] = 0]
              \/ /\ clients[k] = NoBucket /\ handler'[h].at = "store" /\ idle' = idle
<1> DEFINE k == getClientID(u, port)
<1>1. k \in ClientIDs
  BY DEF ClientIDs
<1>2. CASE clients[k] # NoBucket
  <2>1. /\ handler' = [handler EXCEPT ![h] = [at |-> "allow", id |-> k, bucket |-> clients[k]]]
        /\ idle' = [idle EXCEPT ![k] = 0] /\ handler[h] = Resting
    BY <1>2 DEF Load
  <2> HIDE DEF k
  <2>2. /\ handler[h].at = "rest" /\ \A g \in Callers \ {h} : handler'[g] = handler[g]
        /\ handler'[h].id = k /\ handler'[h].at = "allow" /\ handler'[h].bucket = clients[k]
    BY <2>1 DEF LimiterType, Resting
  <2> QED
    BY <1>1, <1>2, <2>1, <2>2, Zenon
<1>3. CASE clients[k] = NoBucket
  <2>1. /\ handler' = [handler EXCEPT ![h] = [at |-> "store", id |-> k, bucket |-> NoBucket]]
        /\ idle' = idle /\ handler[h] = Resting
    BY <1>3 DEF Load
  <2> HIDE DEF k
  <2>2. /\ handler[h].at = "rest" /\ \A g \in Callers \ {h} : handler'[g] = handler[g]
        /\ handler'[h].id = k /\ handler'[h].at = "store"
    BY <2>1 DEF LimiterType, Resting
  <2> QED
    BY <1>1, <1>3, <2>1, <2>2
<1> QED
  BY <1>2, <1>3

LEMMA LoadKeepsExcess ==
  ASSUME LimiterInv, LimiterType', ExcessInv, NEW h \in Callers, NEW u \in Users, NEW port \in Ports,
         Load(h, u, port)
  PROVE  ExcessInv'
<1>t. LimiterType /\ clients' = clients /\ tokens' = tokens /\ credit' = credit /\ doomed' = doomed
  BY DEF LimiterInv, Load, cleanupVars
<1>1. PICK k \in ClientIDs :
           /\ handler[h].at = "rest"
           /\ \A g \in Callers \ {h} : handler'[g] = handler[g]
           /\ handler'[h].id = k
           /\ \/ /\ clients[k] # NoBucket /\ handler'[h].at = "allow" /\ handler'[h].bucket = clients[k]
                 /\ idle' = [idle EXCEPT ![k] = 0]
              \/ /\ clients[k] = NoBucket /\ handler'[h].at = "store" /\ idle' = idle
  BY <1>t, LoadCalls
<1>2. \A l \in ClientIDs : \A b \in Buckets : Refers(l, b)' => Refers(l, b)
  BY <1>t, <1>1 DEF Refers
<1>3. \A l \in ClientIDs : Grants(l)' \subseteq Grants(l)
  BY <1>t, <1>2 DEF Grants
<1>4. \A l \in ClientIDs : l # k \/ clients[k] # NoBucket => Storing(l)' \subseteq Storing(l)
  BY <1>1 DEF Storing
<1>5. \A l \in ClientIDs : l # k \/ clients[k] # NoBucket => Bounded(l)'
  BY <1>t, <1>3, <1>4, StaysBounded, Zenon DEF ExcessInv
<1>6. Departing'
  BY <1>t, <1>3, StaysDeparting, Zenon DEF ExcessInv, Departing
<1>7. ASSUME clients[k] = NoBucket PROVE Bounded(k)'
  <2>1. Cardinality(Grants(k)') <= credit'[k]
    BY <1>6, <1>7, <1>t, Zenon DEF Departing
  <2>2. IsFiniteSet(Grants(k)') /\ Cardinality(Grants(k)') \in Nat
    BY <1>3, FS_Subset, FS_CardinalityType DEF ExcessInv, Bounded
  <2>3. Burst * Cardinality(Storing(k)') \in Nat /\ Burst * Cardinality(Storing(k)') <= AllBursts
    BY BurstsOf DEF Storing
  <2>4. credit'[k] >= Cardinality(Grants(k)') + Burst * Cardinality(Storing(k)') - AllBursts
    BY <2>1, <2>2, <2>3, BurstFacts DEF LimiterType
  <2> QED
    BY <2>2, <2>4 DEF Bounded
<1>8. DoomedThere'
  <2> SUFFICES ASSUME NEW l \in doomed PROVE clients[l] # NoBucket /\ Storing(l)' = {}
    BY <1>t DEF DoomedThere
  <2>1. clients[l] # NoBucket /\ Storing(l) = {}
    BY DEF ExcessInv, DoomedThere
  <2> QED
    BY <1>1, <2>1 DEF Storing
<1>9. MissedNow'
  <2> SUFFICES ASSUME NEW g \in Callers, handler'[g].at = "store"
               PROVE  clients[handler'[g].id] = NoBucket \/ idle'[handler'[g].id] = 0
    BY <1>t DEF MissedNow
  <2>1. CASE g = h
    BY <1>1, <2>1
  <2>2. CASE g # h
    <3>1. /\ handler'[g] = handler[g] /\ handler[g].id \in ClientIDs
          /\ clients[handler[g].id] = NoBucket \/ idle[handler[g].id] = 0
      BY <1>t, <1>1, <2>2 DEF LimiterType, Allowing, Resting, ExcessInv, MissedNow
    <3> QED
      BY <1>t, <1>1, <3>1 DEF LimiterType
  <2> QED
    BY <2>1, <2>2
<1> QED
  BY <1>5, <1>6, <1>7, <1>8, <1>9 DEF ExcessInv

(* What a bucket of n tokens grants. *)
LEMMA OneBucket ==
  ASSUME NEW b \in Buckets, NEW n \in Nat
  PROVE  IsFiniteSet({b} \X (1..n)) /\ Cardinality({b} \X (1..n)) = n
<1>1. IsFiniteSet({b}) /\ Cardinality({b}) = 1
  BY FS_Singleton
<1>2. IsFiniteSet(1..n) /\ Cardinality(1..n) = n
  BY FS_Interval
<1>3. IsFiniteSet({b} \X (1..n)) /\ Cardinality({b} \X (1..n)) = Cardinality({b}) * Cardinality(1..n)
  BY <1>1, <1>2, FS_Product, Zenon
<1>4. Cardinality({b}) * Cardinality(1..n) = n
  BY <1>1, <1>2
<1> QED
  BY <1>3, <1>4

(* Store exchanges a promise for a full bucket. *)
LEMMA StoreKeepsExcess ==
  ASSUME LimiterInv, LimiterType', ExcessInv, NEW h \in Callers, NEW b \in Buckets, Store(h, b)
  PROVE  ExcessInv'
<1>t. LimiterType
  BY DEF LimiterInv
<1>k. PICK k \in ClientIDs : k = handler[h].id
  BY <1>t DEF Store, LimiterType, Allowing, Resting
<1>1. /\ k \in ClientIDs /\ handler[h].bucket = NoBucket /\ handler[h].at = "store"
      /\ handler[h] \in [at : {"store"}, id : ClientIDs, bucket : {NoBucket}]
  BY <1>t DEF Store, LimiterType, Allowing, Resting
<1>2. /\ \A l \in ClientIDs : clients[l] # b
      /\ \A g \in Callers : handler[g].bucket # b
      /\ b # NoBucket
  BY <1>1 DEF Store, Garbage
<1>3. /\ tokens' = [tokens EXCEPT ![b] = Burst]
      /\ clients' = [clients EXCEPT ![k] = b]
      /\ idle' = [idle EXCEPT ![k] = 0]
      /\ handler' = [handler EXCEPT ![h].at = "allow", ![h].bucket = b]
      /\ credit' = credit
  BY <1>k DEF Store
<1>4. /\ handler'[h].at = "allow" /\ handler'[h].id = handler[h].id /\ handler'[h].bucket = b
      /\ \A g \in Callers \ {h} : handler'[g] = handler[g]
  BY <1>t, <1>1, <1>3 DEF LimiterType
<1>5. /\ tokens'[b] = Burst /\ \A c \in Buckets \ {b} : tokens'[c] = tokens[c]
      /\ clients'[k] = b /\ \A l \in ClientIDs \ {k} : clients'[l] = clients[l]
      /\ idle' \in [ClientIDs -> 0..(3 * Cleanup + 1)] /\ idle'[k] = 0
      /\ \A l \in ClientIDs \ {k} : idle'[l] = idle[l]
  BY <1>t, <1>1, <1>3, BurstFacts DEF LimiterType
<1>6. \A l \in ClientIDs : Refers(l, b)' => l = k
  BY <1>k, <1>2, <1>4, <1>5 DEF Refers
<1>7. \A c \in Buckets \ {b} : \A l \in ClientIDs : Refers(l, c)' => Refers(l, c)
  BY <1>4, <1>5 DEF Refers
<1>8. ASSUME NEW l \in ClientIDs \ {k} PROVE Bounded(l)'
  <2>1. Grants(l)' \subseteq Grants(l)
    BY <1>5, <1>6, <1>7 DEF Grants
  <2>2. Storing(l)' \subseteq Storing(l)
    BY <1>4 DEF Storing
  <2> QED
    BY <1>t, <1>3, <2>1, <2>2, StaysBounded DEF ExcessInv
<1>9. Bounded(k)'
  <2> DEFINE full == {b} \X (1..Burst)
  <2>1. IsFiniteSet(full) /\ Cardinality(full) = Burst
    BY OneBucket, BurstFacts
  <2>2. Grants(k)' \subseteq Grants(k) \cup full
    BY <1>5, <1>7, Zenon DEF Grants
  <2> HIDE DEF full
  <2>3. IsFiniteSet(Grants(k)) /\ Cardinality(Grants(k)) \in Nat
    BY <1>1, FS_CardinalityType, Zenon DEF ExcessInv, Bounded
  <2>4. /\ IsFiniteSet(Grants(k) \cup full)
        /\ Cardinality(Grants(k) \cup full) = Cardinality(Grants(k)) + Burst - Cardinality(Grants(k) \cap full)
    BY <2>1, <2>3, FS_Union
  <2>5. Cardinality(Grants(k) \cap full) \in Nat
    <3>1. IsFiniteSet(Grants(k) \cap full)
      BY <2>3, FS_Subset
    <3> QED
      BY <3>1, FS_CardinalityType
  <2>6. /\ IsFiniteSet(Grants(k)') /\ Cardinality(Grants(k)') \in Nat
        /\ Cardinality(Grants(k)') <= Cardinality(Grants(k) \cup full)
    BY <2>2, <2>4, FS_Subset, FS_CardinalityType
  <2>7. Cardinality(Grants(k)') <= Cardinality(Grants(k)) + Burst
    BY <2>3, <2>4, <2>5, <2>6, BurstFacts
  <2>8. Storing(k)' = Storing(k) \ {h} /\ h \in Storing(k)
    BY <1>k, <1>1, <1>4 DEF Storing
  <2>9. /\ IsFiniteSet(Storing(k)) /\ Cardinality(Storing(k)) \in Nat /\ Cardinality(Storing(k)') \in Nat
        /\ Burst * Cardinality(Storing(k)) \in Nat /\ Burst * Cardinality(Storing(k)') \in Nat
    <3>1. Storing(k) \in SUBSET Callers /\ Storing(k)' \in SUBSET Callers
      BY DEF Storing
    <3> QED
      BY <3>1, BurstsOf
  <2>10. Cardinality(Storing(k)') = Cardinality(Storing(k)) - 1
    BY <2>8, <2>9, FS_RemoveElement, Zenon
  <2>11. Burst * Cardinality(Storing(k)') = Burst * Cardinality(Storing(k)) - Burst
    BY <2>9, <2>10, BurstFacts, TimesLess
  <2>12. /\ credit[k] >= Cardinality(Grants(k)) + Burst * Cardinality(Storing(k)) - AllBursts
         /\ credit[k] \in Int /\ credit'[k] = credit[k]
    BY <1>t, <1>1, <1>3 DEF ExcessInv, Bounded, LimiterType
  <2>13. credit'[k] >= Cardinality(Grants(k)') + Burst * Cardinality(Storing(k)') - AllBursts
    BY <2>3, <2>6, <2>7, <2>9, <2>11, <2>12, BurstFacts
  <2> QED
    BY <2>6, <2>13 DEF Bounded
<1>10. k \notin doomed /\ doomed' = doomed
  BY <1>k, <1>1 DEF ExcessInv, DoomedThere, Storing, Store, cleanupVars
<1>11. Departing'
  <2> SUFFICES ASSUME NEW l \in ClientIDs, clients'[l] = NoBucket \/ l \in doomed'
               PROVE  Cardinality(Grants(l)') <= credit'[l]
    BY DEF Departing
  <2>1. l # k /\ (clients[l] = NoBucket \/ l \in doomed)
    BY <1>2, <1>5, <1>10
  <2>2. Grants(l)' \subseteq Grants(l)
    BY <1>5, <1>6, <1>7, <2>1 DEF Grants
  <2> QED
    BY <1>t, <1>3, <2>1, <2>2, StaysDeparting DEF ExcessInv, Departing
<1>12. DoomedThere'
  <2> SUFFICES ASSUME NEW l \in doomed PROVE clients'[l] # NoBucket /\ Storing(l)' = {}
    BY <1>10 DEF DoomedThere
  <2>1. clients[l] # NoBucket /\ Storing(l) = {} /\ l # k
    BY <1>10 DEF ExcessInv, DoomedThere
  <2>2. clients'[l] = clients[l]
    BY <1>t, <1>3, <2>1 DEF LimiterType
  <2> QED
    BY <1>4, <2>1, <2>2 DEF Storing
<1>13. MissedNow'
  <2> SUFFICES ASSUME NEW g \in Callers, handler'[g].at = "store"
               PROVE  clients'[handler'[g].id] = NoBucket \/ idle'[handler'[g].id] = 0
    BY DEF MissedNow
  <2>1. /\ handler'[g] = handler[g] /\ handler[g].id \in ClientIDs
        /\ clients[handler[g].id] = NoBucket \/ idle[handler[g].id] = 0
    BY <1>t, <1>4 DEF LimiterType, Allowing, Resting, ExcessInv, MissedNow
  <2> QED
    BY <1>5, <2>1, Zenon
<1> QED
  BY <1>8, <1>9, <1>11, <1>12, <1>13 DEF ExcessInv

(* Admit takes a token away with the credit. *)
LEMMA AdmitKeepsExcess ==
  ASSUME LimiterInv, LimiterType', ExcessInv, NEW h \in Callers, Admit(h)
  PROVE  ExcessInv'
<1>t. LimiterType
  BY DEF LimiterInv
<1>k. PICK k \in ClientIDs, b \in Buckets : k = handler[h].id /\ b = handler[h].bucket
  BY <1>t DEF Admit, LimiterType, Allowing, Resting
<1>1. k \in ClientIDs /\ b \in Buckets /\ Refers(k, b) /\ handler[h].at = "allow"
  BY <1>t, <1>k, Zenon DEF Admit, Refers
<1>2. /\ tokens[b] > 0
      /\ tokens' = [tokens EXCEPT ![b] = tokens[b] - 1]
      /\ credit' = [credit EXCEPT ![k] = credit[k] - 1]
      /\ handler' = [handler EXCEPT ![h] = Resting]
      /\ clients' = clients /\ idle' = idle /\ doomed' = doomed
  BY <1>k DEF Admit, cleanupVars
<1>a. /\ tokens[b] \in 1..Burst /\ tokens'[b] = tokens[b] - 1
      /\ \A c \in Buckets \ {b} : tokens'[c] = tokens[c]
  BY <1>t, <1>1, <1>2, BurstFacts DEF LimiterType
<1>b. /\ credit[k] \in Int /\ credit'[k] = credit[k] - 1
      /\ \A l \in ClientIDs \ {k} : credit'[l] = credit[l]
  BY <1>t, <1>1, <1>2 DEF LimiterType
<1>c. handler'[h].at = "rest" /\ \A g \in Callers \ {h} : handler'[g] = handler[g]
  BY <1>t, <1>2 DEF LimiterType, Resting
<1>5. \A l \in ClientIDs : \A c \in Buckets : Refers(l, c)' => Refers(l, c)
  BY <1>2, <1>c, Zenon DEF Refers
<1>6. \A l \in ClientIDs : Grants(l)' \subseteq Grants(l)
  <2>1. \A c \in Buckets : \A i \in 1..Burst : i <= tokens'[c] => i <= tokens[c]
    BY ONLY <1>a, BurstFacts
  <2> QED
    BY <1>5, <2>1 DEF Grants
<1>7. \A l \in ClientIDs : Storing(l)' \subseteq Storing(l)
  BY <1>c DEF Storing
<1>8. \A l \in ClientIDs \ {k} : Bounded(l)'
  BY <1>t, <1>b, <1>6, <1>7, StaysBounded DEF ExcessInv
<1>d. PICK g : g = <<b, tokens[b]>>
  BY Zenon
<1>e. g \in Grants(k)
  BY <1>1, <1>a, <1>d, BurstFacts DEF Grants
<1>f. g \notin Grants(k)'
  BY <1>1, <1>a, <1>d, BurstFacts DEF Grants
<1>g. Grants(k)' \subseteq Grants(k) \ {g}
  BY <1>1, <1>6, <1>f
<1>i. IsFiniteSet(Grants(k)) /\ Cardinality(Grants(k)) \in Nat
  BY <1>1, FS_CardinalityType DEF ExcessInv, Bounded
<1>j. IsFiniteSet(Grants(k) \ {g}) /\ Cardinality(Grants(k) \ {g}) = Cardinality(Grants(k)) - 1
  BY <1>e, <1>i, FS_RemoveElement
<1>l. /\ IsFiniteSet(Grants(k)') /\ Cardinality(Grants(k)') \in Nat
      /\ Cardinality(Grants(k)') <= Cardinality(Grants(k)) - 1
  BY <1>g, <1>j, FS_Subset, FS_CardinalityType
<1>9. Bounded(k)'
  <2>1. Storing(k)' = Storing(k)
    BY <1>1, <1>c DEF Storing
  <2>2. Burst * Cardinality(Storing(k)) \in Nat
    BY BurstsOf DEF Storing
  <2>3. credit[k] >= Cardinality(Grants(k)) + Burst * Cardinality(Storing(k)) - AllBursts
    BY <1>1 DEF ExcessInv, Bounded
  <2>4. credit'[k] >= Cardinality(Grants(k)') + Burst * Cardinality(Storing(k)) - AllBursts
    BY ONLY <1>b, <1>i, <1>l, <2>2, <2>3, BurstFacts
  <2> QED
    BY <1>l, <2>1, <2>4 DEF Bounded
<1>10. Departing'
  <2> SUFFICES ASSUME NEW l \in ClientIDs, clients[l] = NoBucket \/ l \in doomed
               PROVE  Cardinality(Grants(l)') <= credit'[l]
    BY <1>2 DEF Departing
  <2>1. Cardinality(Grants(l)) <= credit[l]
    BY DEF ExcessInv, Departing
  <2>2. CASE l = k
    BY ONLY <1>b, <1>i, <1>l, <2>1, <2>2
  <2>3. CASE l # k
    BY <1>t, <1>b, <1>6, <2>1, <2>3, StaysDeparting DEF ExcessInv
  <2> QED
    BY <2>2, <2>3
<1>11. DoomedThere'
  <2>1. \A l \in doomed : Storing(l)' = {}
    BY <1>c DEF ExcessInv, DoomedThere, Storing
  <2> QED
    BY <1>2, <2>1 DEF ExcessInv, DoomedThere
<1>12. MissedNow'
  BY <1>2, <1>c, Zenon DEF ExcessInv, MissedNow
<1> QED
  BY <1>8, <1>9, <1>10, <1>11, <1>12 DEF ExcessInv

LEMMA RefuseKeepsExcess ==
  ASSUME LimiterInv, LimiterType', ExcessInv, NEW h \in Callers, Refuse(h)
  PROVE  ExcessInv'
<1>t. LimiterType
  BY DEF LimiterInv
<1>1. /\ handler' = [handler EXCEPT ![h] = Resting]
      /\ UNCHANGED <<clients, idle, tokens, credit, doomed>>
  BY DEF Refuse, cleanupVars
<1>2. handler'[h].at = "rest" /\ \A g \in Callers \ {h} : handler'[g] = handler[g]
  BY <1>t, <1>1 DEF LimiterType, Resting
<1>3. \A l \in ClientIDs : \A c \in Buckets : Refers(l, c)' => Refers(l, c)
  BY <1>1, <1>2 DEF Refers
<1>4. \A l \in ClientIDs : Grants(l)' \subseteq Grants(l) /\ Storing(l)' \subseteq Storing(l)
  BY <1>1, <1>2, <1>3 DEF Grants, Storing
<1>5. \A l \in ClientIDs : Bounded(l)'
  BY <1>t, <1>1, <1>4, StaysBounded DEF ExcessInv
<1>6. Departing'
  BY <1>t, <1>1, <1>4, StaysDeparting DEF ExcessInv, Departing
<1>7. \A l \in doomed : Storing(l)' = {}
  BY <1>2 DEF ExcessInv, DoomedThere, Storing
<1>8. DoomedThere' /\ MissedNow'
  BY <1>1, <1>2, <1>7 DEF ExcessInv, DoomedThere, MissedNow
<1> QED
  BY <1>5, <1>6, <1>8 DEF ExcessInv

(* A tick lets an ID draw at most one more, and not more than a burst. *)
LEMMA RefillGrants ==
  ASSUME LimiterInv, LimiterType', ExcessInv, Refill, NEW k \in ClientIDs
  PROVE  /\ IsFiniteSet(Grants(k)') /\ Cardinality(Grants(k)') \in Nat /\ Cardinality(Grants(k)') <= Burst
         /\ Cardinality(Grants(k)') <= Cardinality(Grants(k)) + 1
         /\ clients[k] = NoBucket => Cardinality(Grants(k)') = 0
<1>t. LimiterType
  BY DEF LimiterInv
<1>1. /\ \A h \in Callers : handler[h].at = "rest" /\ handler'[h].at = "rest"
      /\ tokens' = [b \in Buckets |-> Refilled(tokens[b])] /\ clients' = clients
  BY DEF Refill, Resting
<1>2. IsFiniteSet(Grants(k)) /\ Cardinality(Grants(k)) \in Nat
  BY FS_CardinalityType DEF ExcessInv, Bounded
<1>3. CASE clients[k] = NoBucket
  <2>1. Grants(k)' = {}
    BY <1>1, <1>3 DEF Grants, Refers
  <2>2. IsFiniteSet(Grants(k)') /\ Cardinality(Grants(k)') = 0
    BY <2>1, FS_EmptySet
  <2> QED
    BY <1>2, <2>2, BurstFacts
<1>4. CASE clients[k] # NoBucket
  <2>1. PICK b \in Buckets : b = clients[k] /\ clients'[k] = b /\ b # NoBucket
    BY <1>t, <1>1, <1>4 DEF LimiterType
  <2>2. PICK n \in 0..Burst : n = tokens'[b]
    BY DEF LimiterType
  <2>3. \A i \in 1..Burst : i <= tokens'[b] => i <= tokens[b] \/ i = n
    <3>1. tokens[b] \in 0..Burst /\ n = Refilled(tokens[b]) /\ tokens'[b] = n
      BY <1>t, <1>1, <2>2 DEF LimiterType
    <3>2. n <= tokens[b] + 1
      BY <3>1, BurstFacts DEF Refilled
    <3> QED
      BY <3>1, <3>2, BurstFacts
  <2>4. \A c \in Buckets : Refers(k, c)' => c = b
    BY <1>1, <2>1 DEF Refers
  <2>5. Refers(k, b)
    BY <2>1 DEF Refers
  <2>6. Grants(k)' \subseteq Grants(k) \cup {<<b, n>>}
    <3> SUFFICES ASSUME NEW g \in Grants(k)' PROVE g \in Grants(k) \/ g = <<b, n>>
      OBVIOUS
    <3>1. PICK c \in Buckets, i \in 1..Burst : g = <<c, i>> /\ c = b /\ i <= tokens'[b]
      BY <2>4 DEF Grants
    <3>2. i <= tokens[b] \/ i = n
      BY <2>3, <3>1
    <3> QED
      BY <2>5, <3>1, <3>2 DEF Grants
  <2>7. Grants(k)' \subseteq {b} \X (1..Burst)
    BY <2>4 DEF Grants
  <2>8. IsFiniteSet({b} \X (1..Burst)) /\ Cardinality({b} \X (1..Burst)) = Burst
    BY OneBucket, BurstFacts
  <2>9. /\ IsFiniteSet(Grants(k)') /\ Cardinality(Grants(k)') \in Nat /\ Cardinality(Grants(k)') <= Burst
    BY <2>7, <2>8, FS_Subset, FS_CardinalityType
  <2>10. /\ IsFiniteSet(Grants(k) \cup {<<b, n>>})
         /\ Cardinality(Grants(k) \cup {<<b, n>>}) =
              IF <<b, n>> \in Grants(k) THEN Cardinality(Grants(k)) ELSE Cardinality(Grants(k)) + 1
    BY <1>2, FS_AddElement, Zenon
  <2>11. Cardinality(Grants(k)') <= Cardinality(Grants(k) \cup {<<b, n>>})
    BY <2>6, <2>10, FS_Subset
  <2>12. Cardinality(Grants(k)') <= Cardinality(Grants(k)) + 1
    BY <1>2, <2>9, <2>10, <2>11
  <2> QED
    BY <1>4, <2>9, <2>12
<1> QED
  BY <1>3, <1>4

(* A tick gives back one token and one unit of credit. *)
LEMMA RefillKeepsExcess ==
  ASSUME LimiterInv, LimiterType', ExcessInv, Refill
  PROVE  ExcessInv'
<1>t. LimiterType
  BY DEF LimiterInv
<1>1. /\ \A h \in Callers : handler[h].at = "rest" /\ handler'[h].at = "rest"
      /\ credit' = [k \in ClientIDs |-> Refilled(credit[k])]
      /\ clients' = clients /\ doomed' = doomed
  BY DEF Refill, Resting
<1>2. ASSUME NEW k \in ClientIDs
      PROVE  /\ Bounded(k)'
             /\ clients[k] = NoBucket \/ k \in doomed => Cardinality(Grants(k)') <= credit'[k]
  <2>1. Burst * Cardinality(Storing(k)') = 0 /\ Burst * Cardinality(Storing(k)) = 0
    <3>1. Storing(k)' = {} /\ Storing(k) = {}
      BY <1>1 DEF Storing
    <3> QED
      BY <3>1, FS_EmptySet, BurstFacts
  <2>2. Cardinality(Grants(k)) \in Nat
    BY FS_CardinalityType DEF ExcessInv, Bounded
  <2>3. credit[k] \in Int /\ credit[k] <= Burst /\ credit'[k] = Refilled(credit[k])
    BY <1>t, <1>1 DEF LimiterType, LimiterInv, Covered
  <2>4. credit[k] >= Cardinality(Grants(k)) - AllBursts
    BY <2>1, <2>2, <2>3, BurstFacts DEF ExcessInv, Bounded
  <2>5. /\ IsFiniteSet(Grants(k)') /\ Cardinality(Grants(k)') \in Nat /\ Cardinality(Grants(k)') <= Burst
        /\ Cardinality(Grants(k)') <= Cardinality(Grants(k)) + 1
    BY RefillGrants
  <2>6. credit'[k] >= Cardinality(Grants(k)') + Burst * Cardinality(Storing(k)') - AllBursts
    BY ONLY <2>1, <2>2, <2>3, <2>4, <2>5, BurstFacts DEF Refilled
  <2>7. ASSUME clients[k] = NoBucket \/ k \in doomed PROVE Cardinality(Grants(k)') <= credit'[k]
    <3>1. Cardinality(Grants(k)) <= credit[k]
      BY <2>7 DEF ExcessInv, Departing
    <3> QED
      BY ONLY <3>1, <2>2, <2>3, <2>5, BurstFacts DEF Refilled
  <2> QED
    BY <2>5, <2>6, <2>7 DEF Bounded
<1>3. Departing'
  BY <1>1, <1>2 DEF Departing
<1>4. DoomedThere' /\ MissedNow'
  BY <1>1 DEF ExcessInv, DoomedThere, MissedNow, Storing
<1> QED
  BY <1>2, <1>3, <1>4 DEF ExcessInv

(* A client found expired starts again with what its bucket holds. *)
LEMMA FindExpiredKeepsExcess ==
  ASSUME LimiterInv, LimiterType', ExcessInv, NEW k \in ClientIDs, FindExpired(k)
  PROVE  ExcessInv'
<1>t. LimiterType
  BY DEF LimiterInv
<1>1. /\ Expired(k) /\ credit' = [credit EXCEPT ![k] = tokens[clients[k]]]
      /\ doomed = {} /\ doomed' = {k}
      /\ clients' = clients /\ idle' = idle /\ tokens' = tokens /\ handler' = handler
  BY DEF FindExpired
<1>2. /\ clients[k] \in Buckets /\ clients[k] # NoBucket
      /\ \A b \in Buckets : Refers(k, b) <=> b = clients[k]
  BY <1>1, ExpiredUnused DEF Expired
<1>3. PICK b \in Buckets, n \in Nat : b = clients[k] /\ n = tokens[b] /\ n <= Burst
  BY <1>t, <1>2, BurstFacts DEF LimiterType
<1>4. /\ credit'[k] = n /\ \A l \in ClientIDs \ {k} : credit'[l] = credit[l]
  BY <1>t, <1>1, <1>3 DEF LimiterType
<1>5. \A l \in ClientIDs : Grants(l)' = Grants(l) /\ Storing(l)' = Storing(l)
  BY <1>1 DEF Grants, Storing, Refers
<1>6. Storing(k) = {}
  <2>1. idle[k] # 0
    BY <1>t, <1>1, BurstFacts DEF Expired, LimiterType
  <2> QED
    BY <1>2, <2>1, Zenon DEF ExcessInv, MissedNow, Storing
<1>7. Cardinality(Grants(k)) = n /\ IsFiniteSet(Grants(k))
  <2>1. \A c \in Buckets, i \in 1..Burst : Refers(k, c) /\ i <= tokens[c] <=> c = b /\ i \in 1..n
    BY <1>2, <1>3, BurstFacts
  <2>2. 1..n \subseteq 1..Burst
    BY <1>3, BurstFacts
  <2>3. Grants(k) = {b} \X (1..n)
    <3>1. ASSUME NEW g \in Grants(k) PROVE g \in {b} \X (1..n)
      BY <2>1 DEF Grants
    <3>2. ASSUME NEW c \in {b}, NEW i \in 1..n PROVE <<c, i>> \in Grants(k)
      BY <2>1, <2>2 DEF Grants
    <3> QED
      BY <3>1, <3>2
  <2> QED
    BY <2>3, OneBucket
<1>8. Bounded(k)'
  <2>1. Burst * Cardinality(Storing(k)') = 0
    BY <1>5, <1>6, FS_EmptySet, BurstFacts
  <2>2. credit'[k] >= Cardinality(Grants(k)') + Burst * Cardinality(Storing(k)') - AllBursts
    BY <1>4, <1>5, <1>7, <2>1, BurstFacts
  <2> QED
    BY <1>5, <1>7, <2>2 DEF Bounded
<1>9. \A l \in ClientIDs \ {k} : Bounded(l)'
  BY <1>t, <1>4, <1>5, StaysBounded DEF ExcessInv
<1>10. Departing'
  <2>1. ASSUME NEW l \in ClientIDs, clients'[l] = NoBucket \/ l \in doomed'
        PROVE  Cardinality(Grants(l)') <= credit'[l]
    <3>1. CASE l = k
      BY <1>4, <1>5, <1>7, <3>1
    <3>2. CASE l # k
      <4>1. clients[l] = NoBucket
        BY <1>1, <2>1, <3>2
      <4>2. Cardinality(Grants(l)) <= credit[l]
        BY <4>1 DEF ExcessInv, Departing
      <4> QED
        BY <1>4, <1>5, <3>2, <4>2
    <3> QED
      BY <3>1, <3>2
  <2> QED
    BY <2>1, Zenon DEF Departing
<1>11. DoomedThere' /\ MissedNow'
  BY <1>1, <1>2, <1>5, <1>6, Zenon DEF ExcessInv, DoomedThere, MissedNow
<1> QED
  BY <1>8, <1>9, <1>10, <1>11 DEF ExcessInv

(* Delete leaves the bucket, if at all, to handlers that looked it up. *)
LEMMA DeleteKeepsExcess ==
  ASSUME LimiterInv, LimiterType', ExcessInv, NEW k \in ClientIDs, Delete(k)
  PROVE  ExcessInv'
<1>t. LimiterType
  BY DEF LimiterInv
<1>1. /\ k \in doomed /\ doomed' = {}
      /\ clients' = [clients EXCEPT ![k] = NoBucket]
      /\ idle' = idle /\ tokens' = tokens /\ handler' = handler /\ credit' = credit
  BY DEF Delete
<1>2. clients'[k] = NoBucket /\ \A l \in ClientIDs \ {k} : clients'[l] = clients[l]
  BY <1>t, <1>1 DEF LimiterType
<1>3. \A b \in Buckets : \A l \in ClientIDs : Refers(l, b)' => Refers(l, b)
  BY <1>1, <1>2 DEF Refers
<1>4. \A l \in ClientIDs : Grants(l)' \subseteq Grants(l) /\ Storing(l)' \subseteq Storing(l)
  BY <1>1, <1>3 DEF Grants, Storing
<1>5. \A l \in ClientIDs : Bounded(l)'
  BY <1>t, <1>1, <1>4, StaysBounded DEF ExcessInv
<1>6. \A l \in ClientIDs : clients'[l] = NoBucket => Cardinality(Grants(l)) <= credit[l]
  BY <1>1, <1>2 DEF ExcessInv, Departing
<1>7. Departing'
  BY <1>t, <1>1, <1>4, <1>6, StaysDeparting DEF ExcessInv, Departing
<1>8. DoomedThere'
  BY <1>1 DEF DoomedThere
<1>9. MissedNow'
  <2>1. \A h \in Callers : handler[h].at = "store" => handler[h].id \in ClientIDs
    BY <1>t DEF LimiterType, Allowing, Resting
  <2> QED
    BY <1>1, <1>2, <2>1 DEF ExcessInv, MissedNow
<1> QED
  BY <1>5, <1>7, <1>8, <1>9 DEF ExcessInv

LEMMA ExcessStepInv == LimiterInv /\ ExcessInv /\ [LimiterNext]_limiterVars => ExcessInv'
<1> SUFFICES ASSUME LimiterInv, ExcessInv, [LimiterNext]_limiterVars
             PROVE  ExcessInv'
  OBVIOUS
<1>t. LimiterType'
  BY LimiterStepInv DEF LimiterInv
<1>1. ASSUME NEW h \in Callers, NEW u \in Users, NEW port \in Ports, Load(h, u, port)
      PROVE  ExcessInv'
  BY <1>t, <1>1, LoadKeepsExcess
<1>2. ASSUME NEW h \in Callers, NEW b \in Buckets, Store(h, b)
      PROVE  ExcessInv'
  BY <1>t, <1>2, StoreKeepsExcess
<1>3. ASSUME NEW h \in Callers, Admit(h) \/ Refuse(h)
      PROVE  ExcessInv'
  BY <1>t, <1>3, AdmitKeepsExcess, RefuseKeepsExcess
<1>4. CASE Refill
  BY <1>t, <1>4, RefillKeepsExcess
<1>5. ASSUME NEW k \in ClientIDs, FindExpired(k) \/ Delete(k)
      PROVE  ExcessInv'
  BY <1>t, <1>5, FindExpiredKeepsExcess, DeleteKeepsExcess
<1>6. CASE Unhandled /\ doomed' = doomed
  BY <1>6, Zenon
     DEF Unhandled, ExcessInv, Bounded, Grants, Storing, Refers, Departing, DoomedThere, MissedNow
<1>7. cleanupLoop => Unhandled /\ doomed' = doomed
  BY DEF cleanupLoop, Unhandled
<1>8. UNCHANGED limiterVars => Unhandled /\ doomed' = doomed
  BY DEF limiterVars, cleanupVars, Unhandled
<1> QED
  BY <1>1, <1>2, <1>3, <1>4, <1>5, <1>6, <1>7, <1>8, PassOverUnhandled DEF LimiterNext

(* Since a client ID was last found expired, it has been granted at most   *)
(* what one bucket would have granted and one burst for each handler: the  *)
(* handlers may spend the bucket that is found expired before it is        *)
(* deleted, and store one each afterwards, and that is all.                *)
THEOREM RacesExceedByBursts == LimiterSpec => []ExcessBounded
<1>1. LimiterInv /\ ExcessInv => ExcessBounded
  BY ExcessInvBounds DEF LimiterInv
<1> QED
  BY <1>1, LimiterInitInv, LimiterStepInv, ExcessInitInv, ExcessStepInv, PTL DEF LimiterSpec
-----------------------------------------------------------------------------
(***************************************************************************)
(* Connections.  That none is leaked does not follow from itself: a failed *)
(* dial and Dialled close what the pool's entry names, and an entry of     *)
(* generation 0 must name nothing open.  The invariant says exactly which  *)
(* connections are open: those of the entries there are.                   *)
(***************************************************************************)
Connections == Services \X Nat \X Indexes

Places == [at : {"idle", "lookup", "connect", "call", "done"},
           service : Services \cup {"none"},
           conn : {NoConn} \cup Connections,
           result : {"none", "ok", "error", "unavailable"}]

(* Generation and counter of every entry, and the goroutines' places. *)
GatewayType ==
  /\ pool \in [Services -> [gen : Nat, counter : Indexes]]
  /\ gens \in [Services -> Nat]
  /\ go \in [Goroutines -> Places]
  /\ \A g \in Goroutines : go[g].at \in {"lookup", "connect"} => go[g].service \in Services

(* Open are the connections of the entries of the pool table. *)
OpenIsPooled ==
  /\ open \subseteq Connections
  /\ \A c \in Connections : c \in open <=> pool[c[1]].gen # 0 /\ c[2] = pool[c[1]].gen

GatewayInv == GatewayType /\ OpenIsPooled /\ HandedOutOpen

LEMMA GatewayInvLeakless == GatewayInv => NoLeakedConnections
  BY DEF GatewayInv, OpenIsPooled, NoLeakedConnections

LEMMA GatewayInitInv == GatewayInit => GatewayInv
<1> SUFFICES ASSUME GatewayInit
             PROVE  GatewayInv
  OBVIOUS
<1>1. 0 \in Indexes
  BY GatewayAssumption DEF Indexes
<1>2. AtRest \in Places
  BY DEF AtRest, Places, NoConn
<1>3. GatewayType
  BY <1>1, <1>2 DEF GatewayInit, GatewayType, NoPool, AtRest
<1>4. OpenIsPooled
  BY DEF GatewayInit, OpenIsPooled, Connections, NoPool
<1>5. HandedOutOpen
  BY DEF GatewayInit, HandedOutOpen, AtRest
<1> QED
  BY <1>3, <1>4, <1>5 DEF GatewayInv

(* The connections of an entry are distinguished by service and generation. *)
LEMMA ConnsAre ==
  ASSUME NEW s \in Services, NEW gen \in Nat
  PROVE  /\ Conns(s, gen) \subseteq Connections
         /\ \A c \in Connections : c \in Conns(s, gen) <=> c[1] = s /\ c[2] = gen
<1>1. ASSUME NEW c \in Connections, c[1] = s, c[2] = gen
      PROVE  c \in Conns(s, gen)
  <2>1. c = <<c[1], c[2], c[3]>> /\ c[3] \in Indexes
    BY <1>1 DEF Connections
  <2> QED
    BY <1>1, <2>1 DEF Conns
<1>2. ASSUME NEW c \in Conns(s, gen)
      PROVE  c \in Connections /\ c[1] = s /\ c[2] = gen
  BY <1>2 DEF Conns, Connections
<1> QED
  BY <1>1, <1>2

(* The counter stays an index of the pool. *)
LEMMA NextIndex ==
  ASSUME NEW i \in Indexes
  PROVE  (i + 1) % PoolSize \in Indexes
  BY GatewayAssumption DEF Indexes

-----------------------------------------------------------------------------
(* A step that only moves goroutines to places without a connection. *)
LEMMA MovesKeepInv ==
  ASSUME GatewayInv, UNCHANGED <<pool, gens, open>>,
         go' \in [Goroutines -> Places],
         server' \in {"serving", "draining", "drained", "stopped"} =>
           server \in {"serving", "draining", "drained", "stopped"},
         \A g \in Goroutines : \/ go'[g] = go[g]
                               \/ /\ go'[g].at # "call"
                                  /\ go'[g].at \in {"lookup", "connect"} => go'[g].service \in Services
  PROVE  GatewayInv'
<1>1. GatewayType'
  BY DEF GatewayInv, GatewayType
<1>2. OpenIsPooled'
  BY DEF GatewayInv, OpenIsPooled
<1>3. HandedOutOpen'
  BY DEF GatewayInv, HandedOutOpen
<1> QED
  BY <1>1, <1>2, <1>3 DEF GatewayInv

(* Round robin hands out a connection of the entry, which is open. *)
LEMMA RoundRobinKeepsInv ==
  ASSUME GatewayInv, NEW g \in Goroutines, go[g].service \in Services,
         HasPool(go[g].service), RoundRobin(g), server' = server
  PROVE  GatewayInv'
<1> DEFINE s == go[g].service
           i == (pool[s].counter + 1) % PoolSize
           c == <<s, pool[s].gen, i>>
<1>1. /\ s \in Services
      /\ pool \in [Services -> [gen : Nat, counter : Indexes]]
      /\ go \in [Goroutines -> Places]
  BY DEF GatewayInv, GatewayType
<1>2. i \in Indexes
  BY <1>1, NextIndex
<1>3. /\ pool' = [pool EXCEPT ![s].counter = i]
      /\ go' = [go EXCEPT ![g].at = "call", ![g].conn = c]
      /\ gens' = gens
      /\ open' = open
  BY DEF RoundRobin
<1>4. c \in Connections /\ c[1] = s /\ c[2] = pool[s].gen
  BY <1>1, <1>2 DEF Connections
<1>5. c \in open
  BY <1>4, Zenon DEF GatewayInv, OpenIsPooled, HasPool
<1> HIDE DEF s, i, c
<1>6. /\ pool' \in [Services -> [gen : Nat, counter : Indexes]]
      /\ \A t \in Services : pool'[t].gen = pool[t].gen
  BY <1>1, <1>2, <1>3
<1>7. /\ go' \in [Goroutines -> Places]
      /\ go'[g].at = "call" /\ go'[g].conn = c
      /\ \A h \in Goroutines \ {g} : go'[h] = go[h]
  BY <1>1, <1>3, <1>4, Zenon DEF Places
<1>8. GatewayType'
  BY <1>3, <1>6, <1>7 DEF GatewayInv, GatewayType
<1>9. OpenIsPooled'
  <2>1. \A d \in Connections : d[1] \in Services
    BY DEF Connections
  <2> QED
    BY <1>3, <1>6, <2>1 DEF GatewayInv, OpenIsPooled
<1>10. HandedOutOpen'
  BY <1>3, <1>5, <1>7 DEF GatewayInv, HandedOutOpen
<1> QED
  BY <1>8, <1>9, <1>10 DEF GatewayInv

(* Dialling where there is no entry closes nothing and opens its pool. *)
LEMMA DialledKeepsInv ==
  ASSUME GatewayInv, NEW g \in Goroutines, go[g].service \in Services,
         ~HasPool(go[g].service), Dialled(g), server' = server
  PROVE  GatewayInv'
<1> DEFINE s == go[g].service
           gen == gens[s] + 1
           c == <<s, gen, 0>>
<1>1. /\ s \in Services
      /\ gen \in Nat /\ gen # 0
      /\ pool \in [Services -> [gen : Nat, counter : Indexes]]
      /\ gens \in [Services -> Nat]
      /\ go \in [Goroutines -> Places]
      /\ pool[s].gen = 0
  BY DEF GatewayInv, GatewayType, HasPool
<1>2. 0 \in Indexes
  BY GatewayAssumption DEF Indexes
<1>3. /\ gens' = [gens EXCEPT ![s] = gen]
      /\ pool' = [pool EXCEPT ![s] = [gen |-> gen, counter |-> 0]]
      /\ open' = (open \ Conns(s, 0)) \cup Conns(s, gen)
      /\ go' = [go EXCEPT ![g].at = "call", ![g].conn = c]
  BY <1>1 DEF Dialled
<1>4. c \in Connections /\ c \in Conns(s, gen)
  BY <1>1, <1>2 DEF Connections, Conns
<1> HIDE DEF s, gen, c
<1>5. /\ pool' \in [Services -> [gen : Nat, counter : Indexes]]
      /\ pool'[s].gen = gen
      /\ \A t \in Services \ {s} : pool'[t] = pool[t]
      /\ gens' \in [Services -> Nat]
  BY <1>1, <1>2, <1>3
<1>6. /\ go' \in [Goroutines -> Places]
      /\ go'[g].at = "call" /\ go'[g].conn = c
      /\ \A h \in Goroutines \ {g} : go'[h] = go[h]
  BY <1>1, <1>3, <1>4, Zenon DEF Places
<1>7. /\ \A d \in Connections : d \in Conns(s, 0) <=> d[1] = s /\ d[2] = 0
      /\ \A d \in Connections : d \in Conns(s, gen) <=> d[1] = s /\ d[2] = gen
      /\ Conns(s, gen) \subseteq Connections
  BY <1>1, ConnsAre
<1>8. open \subseteq open'
  BY <1>1, <1>3, <1>7 DEF GatewayInv, OpenIsPooled
<1>9. OpenIsPooled'
  <2>1. \A d \in Connections : d[1] \in Services
    BY DEF Connections
  <2> QED
    BY <1>1, <1>3, <1>5, <1>7, <2>1 DEF GatewayInv, OpenIsPooled
<1>10. GatewayType'
  BY <1>5, <1>6 DEF GatewayInv, GatewayType
<1>11. HandedOutOpen'
  BY <1>3, <1>4, <1>6, <1>8 DEF GatewayInv, HandedOutOpen
<1> QED
  BY <1>9, <1>10, <1>11 DEF GatewayInv

(* A failed dial where there is no entry closes nothing of anybody else's. *)
LEMMA DialFailedKeepsInv ==
  ASSUME GatewayInv, NEW g \in Goroutines, go[g].service \in Services,
         ~HasPool(go[g].service), DialFailed(g), server' = server
  PROVE  GatewayInv'
<1> DEFINE s == go[g].service
           gone == [AtRest EXCEPT !.at = "done", !.result = "unavailable"]
<1>1. s \in Services /\ pool[s].gen = 0 /\ go \in [Goroutines -> Places]
  BY DEF GatewayInv, GatewayType, HasPool
<1>2. open' = open \ Conns(s, 0) /\ go' = [go EXCEPT ![g] = gone] /\ UNCHANGED <<pool, gens>>
  BY <1>1 DEF DialFailed
<1>3. gone \in Places /\ gone.at = "done"
  BY Zenon DEF AtRest, Places
<1> HIDE DEF s, gone
<1>4. \A d \in Connections : d \in Conns(s, 0) <=> d[1] = s /\ d[2] = 0
  BY <1>1, ConnsAre
<1>5. open' = open
  BY <1>1, <1>2, <1>4 DEF GatewayInv, OpenIsPooled
<1>6. /\ go' \in [Goroutines -> Places]
      /\ \A h \in Goroutines : go'[h] = go[h] \/ go'[h].at = "done"
  BY <1>1, <1>2, <1>3
<1> QED
  BY <1>2, <1>5, <1>6, MovesKeepInv

LEMMA LookupKeepsInv ==
  ASSUME GatewayInv, NEW g \in Goroutines, Lookup(g)
  PROVE  GatewayInv'
<1>1. go[g].service \in Services /\ server' = server /\ go \in [Goroutines -> Places]
  BY DEF GatewayInv, GatewayType, Lookup
<1>2. CASE HasPool(go[g].service) /\ RoundRobin(g)
  BY <1>1, <1>2, RoundRobinKeepsInv
<1>3. CASE go' = [go EXCEPT ![g].at = "connect"] /\ UNCHANGED <<pool, gens, open>>
  <2>1. /\ go' \in [Goroutines -> Places]
        /\ go'[g].at = "connect" /\ go'[g].service = go[g].service
        /\ \A h \in Goroutines \ {g} : go'[h] = go[h]
    BY <1>1, <1>3 DEF Places
  <2> QED
    BY <1>1, <1>3, <2>1, MovesKeepInv
<1> QED
  BY <1>2, <1>3 DEF Lookup

LEMMA ConnectKeepsInv ==
  ASSUME GatewayInv, NEW g \in Goroutines, Connect(g)
  PROVE  GatewayInv'
<1>1. go[g].service \in Services /\ server' = server
  BY DEF GatewayInv, GatewayType, Connect
<1> QED
  BY <1>1, RoundRobinKeepsInv, DialledKeepsInv, DialFailedKeepsInv, Zenon DEF Connect

(* A goroutine gets a place without a connection, nothing else changes. *)
LEMMA PlacedKeepsInv ==
  ASSUME GatewayInv, NEW g \in Goroutines, NEW place \in Places,
         place.at # "call", place.at \in {"lookup", "connect"} => place.service \in Services,
         go' = [go EXCEPT ![g] = place], UNCHANGED <<server, pool, gens, open>>
  PROVE  GatewayInv'
<1>1. go \in [Goroutines -> Places]
  BY DEF GatewayInv, GatewayType
<1>2. /\ go' \in [Goroutines -> Places]
      /\ \A h \in Goroutines : go'[h] = go[h] \/ go'[h] = place
  BY <1>1
<1> QED
  BY <1>2, MovesKeepInv

LEMMA ForwardKeepsInv ==
  ASSUME GatewayInv, NEW r \in Requests, NEW s, Forward(r, s)
  PROVE  GatewayInv'
<1> DEFINE place == [AtRest EXCEPT !.at = "lookup", !.service = s]
<1>1. place \in Places /\ place.at = "lookup" /\ place.service \in Services
  BY Zenon DEF Forward, AtRest, Places
<1>2. go' = [go EXCEPT ![r] = place] /\ UNCHANGED <<server, pool, gens, open>>
  BY DEF Forward
<1>3. r \in Goroutines
  BY DEF Goroutines
<1> HIDE DEF place
<1> QED
  BY <1>1, <1>2, <1>3, PlacedKeepsInv, Zenon

LEMMA EndCallKeepsInv ==
  ASSUME GatewayInv, NEW g \in Goroutines, NEW ok \in BOOLEAN, EndCall(g, ok)
  PROVE  GatewayInv'
<1> DEFINE answer == IF ok THEN "ok" ELSE "error"
           place == [AtRest EXCEPT !.at = "done", !.result = answer]
<1>1. answer \in {"ok", "error"}
  OBVIOUS
<1>2. go' = [go EXCEPT ![g] = place] /\ UNCHANGED <<server, pool, gens, open>>
  BY DEF EndCall
<1> HIDE DEF answer
<1>3. place \in Places /\ place.at = "done"
  BY <1>1, Zenon DEF AtRest, Places
<1> HIDE DEF place
<1> QED
  BY <1>2, <1>3, PlacedKeepsInv, Zenon

LEMMA RespondKeepsInv ==
  ASSUME GatewayInv, NEW r \in Requests, Respond(r)
  PROVE  GatewayInv'
<1>1. AtRest \in Places /\ AtRest.at = "idle"
  BY DEF AtRest, Places, NoConn
<1>2. r \in Goroutines
  BY DEF Goroutines
<1> QED
  BY <1>1, <1>2, PlacedKeepsInv, Zenon DEF Respond

(* The readiness check starts or forgets its goroutines. *)
LEMMA ReadinessKeepsInv ==
  ASSUME GatewayInv, Readiness \/ ReadinessAnswered
  PROVE  GatewayInv'
<1> DEFINE Looking(s) == [AtRest EXCEPT !.at = "lookup", !.service = s]
<1>1. go \in [Goroutines -> Places]
  BY DEF GatewayInv, GatewayType
<1>2. /\ AtRest \in Places /\ AtRest.at = "idle"
      /\ \A s \in Services : /\ Looking(s) \in Places
                             /\ Looking(s).at = "lookup"
                             /\ Looking(s).service = s
  <2>1. AtRest \in Places /\ AtRest.at = "idle"
    BY DEF AtRest, Places, NoConn
  <2>2. ASSUME NEW s \in Services
        PROVE  Looking(s) \in Places /\ Looking(s).at = "lookup" /\ Looking(s).service = s
    BY <2>1, Zenon DEF Places
  <2> HIDE DEF Looking
  <2> QED
    BY <2>1, <2>2
<1>3. CASE Readiness
  <2>1. /\ go' = [g \in Goroutines |-> IF g \in Services THEN Looking(g) ELSE go[g]]
        /\ UNCHANGED <<server, pool, gens, open>>
    BY <1>3, Zenon DEF Readiness
  <2> HIDE DEF Looking
  <2>2. ASSUME NEW g \in Goroutines
        PROVE  /\ go'[g] \in Places
               /\ go'[g] = go[g] \/ (go'[g].at = "lookup" /\ go'[g].service \in Services)
    <3>1. CASE g \in Services
      BY <1>2, <2>1, <3>1
    <3>2. CASE g \notin Services
      BY <1>1, <2>1, <3>2
    <3> QED
      BY <3>1, <3>2
  <2>3. go' \in [Goroutines -> Places]
    BY <2>1, <2>2
  <2> QED
    BY <2>1, <2>2, <2>3, MovesKeepInv
<1> HIDE DEF Looking
<1>4. CASE ReadinessAnswered
  <2>1. /\ go' = [g \in Goroutines |-> IF g \in Services THEN AtRest ELSE go[g]]
        /\ UNCHANGED <<server, pool, gens, open>>
    BY <1>4 DEF ReadinessAnswered
  <2>2. go' \in [Goroutines -> Places]
    BY <1>1, <1>2, <2>1
  <2>3. \A g \in Goroutines : go'[g] = go[g] \/ go'[g].at = "idle"
    BY <1>2, <2>1
  <2> QED
    BY <2>1, <2>2, <2>3, MovesKeepInv
<1> QED
  BY <1>3, <1>4

(* Close finds every open connection in the pool table. *)
LEMMA CloseKeepsInv ==
  ASSUME GatewayInv, Close
  PROVE  GatewayInv'
<1>1. /\ pool \in [Services -> [gen : Nat, counter : Indexes]]
      /\ 0 \in Indexes
  BY GatewayAssumption DEF GatewayInv, GatewayType, Indexes
<1>2. ASSUME NEW c \in open
      PROVE  \E s \in Services : c \in Conns(s, pool[s].gen)
  <2>1. c \in Connections /\ c[1] \in Services /\ c[2] = pool[c[1]].gen
    BY <1>2 DEF GatewayInv, OpenIsPooled, Connections
  <2>2. pool[c[1]].gen \in Nat
    BY <1>1, <2>1
  <2>3. c \in Conns(c[1], pool[c[1]].gen)
    BY <2>1, <2>2, ConnsAre
  <2> QED
    BY <2>1, <2>3
<1>3. open' = {}
  BY <1>2 DEF Close
<1>4. GatewayType'
  BY <1>1 DEF GatewayInv, GatewayType, Close, NoPool
<1>5. OpenIsPooled'
  BY <1>3 DEF OpenIsPooled, Connections, Close, NoPool
<1>6. HandedOutOpen'
  BY DEF HandedOutOpen, Close
<1> QED
  BY <1>4, <1>5, <1>6 DEF GatewayInv

(* A new process is in an initial state. *)
LEMMA NewProcessKeepsInv ==
  ASSUME NewProcess
  PROVE  GatewayInv'
<1>1. 0 \in Indexes
  BY GatewayAssumption DEF Indexes
<1>2. AtRest \in Places
  BY DEF AtRest, Places, NoConn
<1>3. GatewayType'
  BY <1>1, <1>2 DEF NewProcess, GatewayType, NoPool, AtRest
<1>4. OpenIsPooled'
  BY DEF NewProcess, OpenIsPooled, Connections, NoPool
<1>5. HandedOutOpen'
  BY DEF NewProcess, HandedOutOpen, AtRest
<1> QED
  BY <1>3, <1>4, <1>5 DEF GatewayInv

(* main's own steps, and HealthCheck's return, move no goroutine. *)
LEMMA ServerKeepsInv ==
  ASSUME GatewayInv, Shutdown \/ Drained \/ GracefulStop \/ Exit \/ HealthCheck
  PROVE  GatewayInv'
<1>1. UNCHANGED <<pool, gens, open, go>> /\ go \in [Goroutines -> Places]
  BY DEF GatewayInv, GatewayType, Shutdown, Drained, GracefulStop, Exit, HealthCheck
<1>2. server' \in {"serving", "draining", "drained", "stopped"} =>
        server \in {"serving", "draining", "drained", "stopped"}
  BY DEF Shutdown, Drained, GracefulStop, Exit, HealthCheck
<1> QED
  BY <1>1, <1>2, MovesKeepInv

LEMMA GatewayStepInv == GatewayInv /\ [GatewayNext]_gatewayVars => GatewayInv'
<1> SUFFICES ASSUME GatewayInv, [GatewayNext]_gatewayVars
             PROVE  GatewayInv'
  OBVIOUS
<1>1. ASSUME NEW r \in Requests,
             CryptoRequest(r) \/ TokenizeRequest(r) \/ SealRequest(r) \/ KeyRequest(r)
      PROVE  GatewayInv'
  BY <1>1, ForwardKeepsInv DEF CryptoRequest, TokenizeRequest, SealRequest, KeyRequest
<1>2. ASSUME NEW r \in Requests, Respond(r)
      PROVE  GatewayInv'
  BY <1>2, RespondKeepsInv
<1>3. CASE Readiness \/ ReadinessAnswered
  BY <1>3, ReadinessKeepsInv
<1>4. ASSUME NEW g \in Goroutines, Lookup(g)
      PROVE  GatewayInv'
  BY <1>4, LookupKeepsInv
<1>5. ASSUME NEW g \in Goroutines, Connect(g)
      PROVE  GatewayInv'
  BY <1>5, ConnectKeepsInv
<1>6. ASSUME NEW g \in Goroutines, NEW ok \in BOOLEAN, EndCall(g, ok)
      PROVE  GatewayInv'
  BY <1>6, EndCallKeepsInv
<1>7. CASE Shutdown \/ Drained \/ GracefulStop \/ Exit \/ HealthCheck
  BY <1>7, ServerKeepsInv
<1>8. CASE Close
  BY <1>8, CloseKeepsInv
<1>9. CASE NewProcess
  BY <1>9, NewProcessKeepsInv
<1>10. CASE UNCHANGED <<server, pool, gens, open, go>>
  BY <1>10 DEF GatewayInv, GatewayType, OpenIsPooled, HandedOutOpen
<1>11. \A w \in Watchers : OpenStream(w) \/ EndStream(w) => UNCHANGED <<server, pool, gens, open, go>>
  BY DEF OpenStream, EndStream
<1>12. UNCHANGED gatewayVars => UNCHANGED <<server, pool, gens, open, go>>
  BY DEF gatewayVars
<1> QED
  BY <1>1, <1>2, <1>3, <1>4, <1>5, <1>6, <1>7, <1>8, <1>9, <1>10, <1>11, <1>12 DEF GatewayNext

(* Until main closes the proxy, a connection GetConnection returned stays  *)
(* open for the goroutine it was returned to, however many goroutines find *)
(* no pool at the same time.                                               *)
THEOREM ConnectionsHandedOutOpen == GatewaySpec => []HandedOutOpen
<1>1. GatewayInv => HandedOutOpen
  BY DEF GatewayInv
<1> QED
  BY <1>1, GatewayInitInv, GatewayStepInv, PTL DEF GatewaySpec

(* No connection is open that is not in the pool table, where              *)
(* GRPCProxy.Close finds it.                                               *)
THEOREM ConnectionsNotLeaked == GatewaySpec => []NoLeakedConnections
  BY GatewayInvLeakless, GatewayInitInv, GatewayStepInv, PTL DEF GatewaySpec
==============================================================================
