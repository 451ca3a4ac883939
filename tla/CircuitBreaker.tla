---------------------------- MODULE CircuitBreaker ----------------------------
(***************************************************************************)
(* services/gateway/internal/middleware: the circuit breaker in front of   *)
(* one downstream service, with concurrent calls through Execute.          *)
(*                                                                         *)
(* beforeRequest and afterRequest are critical sections of cb.mu; the call *)
(* itself runs between them without the lock, so its result may arrive in  *)
(* another state than it was admitted in.  Nothing tells afterRequest      *)
(* which: every result counts for the state of the moment.                 *)
(*                                                                         *)
(* Time is kept as "left", the ticks until expiry is before now.  Counters *)
(* that no decision reads (TotalSuccesses, ConsecutiveFailures) and        *)
(* lastFailure are left out.  Counters wrap like uint32.                   *)
(***************************************************************************)
EXTENDS Naturals, FiniteSets

CONSTANTS
  Calls,        \* goroutines that call the service, one call at a time
  maxRequests, interval, timeout,
  FailNum, FailDen,  \* failureRatio = FailNum / FailDen
  Modulus       \* 2^32 in the code

ASSUME BreakerAssumption ==
  /\ IsFiniteSet(Calls)
  /\ maxRequests \in Nat /\ interval \in Nat /\ timeout \in Nat
  /\ FailNum \in Nat /\ FailDen \in Nat \ {0}
  /\ Modulus \in Nat /\ maxRequests < Modulus /\ 1 < Modulus

VARIABLES
  state,        \* "closed", "halfOpen" or "open"
  requests,     \* counts.Requests
  failures,     \* counts.TotalFailures
  successes,    \* counts.ConsecutiveSuccesses
  armed,        \* expiry is not the zero time
  left,         \* ticks until expiry has passed
  call          \* "idle", or the call is running: a "probe" admitted in the
                \* present half-open period, or an "other" call

counts == <<requests, failures, successes>>
vars == <<state, counts, armed, left, call>>

Probes == {c \in Calls : call[c] = "probe"}

BreakerTypeOK ==
  /\ state \in {"closed", "halfOpen", "open"}
  /\ requests \in 0..Modulus - 1 /\ failures \in 0..Modulus - 1 /\ successes \in 0..Modulus - 1
  /\ armed \in BOOLEAN
  /\ left \in Nat
  /\ call \in [Calls -> {"idle", "probe", "other"}]

Init ==
  /\ state = "closed"
  /\ requests = 0 /\ failures = 0 /\ successes = 0
  /\ armed = FALSE /\ left = 0
  /\ call = [c \in Calls |-> "idle"]
-----------------------------------------------------------------------------
(* beforeRequest, one disjunct per case that admits the call; a refused    *)
(* call changes nothing.                                                   *)
AdmitClosed(c) ==
  /\ state = "closed"
  /\ IF armed /\ left = 0
       THEN /\ requests' = 1 /\ failures' = 0 /\ successes' = 0
            /\ left' = interval + 1
       ELSE /\ requests' = (requests + 1) % Modulus
            /\ UNCHANGED <<failures, successes, left>>
  /\ call' = [call EXCEPT ![c] = "other"]
  /\ UNCHANGED <<state, armed>>

AdmitOpen(c) ==
  /\ state = "open" /\ left = 0
  /\ state' = "halfOpen"
  /\ requests' = 1 /\ failures' = 0 /\ successes' = 0
  /\ call' = [call EXCEPT ![c] = "probe"]
  /\ UNCHANGED <<armed, left>>

(* Faulty: one probe too many. *)
AdmitHalfOpenOffByOne(c) ==
  /\ state = "halfOpen" /\ requests <= maxRequests
  /\ requests' = (requests + 1) % Modulus
  /\ call' = [call EXCEPT ![c] = "probe"]
  /\ UNCHANGED <<state, failures, successes, armed, left>>

AdmitHalfOpen(c) ==
  /\ state = "halfOpen" /\ requests < maxRequests
  /\ requests' = (requests + 1) % Modulus
  /\ call' = [call EXCEPT ![c] = "probe"]
  /\ UNCHANGED <<state, failures, successes, armed, left>>

beforeRequest(c) ==
  /\ call[c] = "idle"
  /\ AdmitClosed(c) \/ AdmitOpen(c) \/ AdmitHalfOpen(c)

(* The call c is over.  When the half-open period ends with it, the calls  *)
(* admitted in it are probes no longer.                                    *)
Over(c) ==
  call' = [d \in Calls |-> IF d = c THEN "idle"
                           ELSE IF call[d] = "probe" /\ state' # "halfOpen" THEN "other"
                           ELSE call[d]]

shouldTrip ==
  /\ requests >= maxRequests
  /\ requests > 0 => ((failures + 1) % Modulus) * FailDen >= FailNum * requests
  /\ requests = 0 => ((failures + 1) % Modulus) > 0   \* x/0 is +Inf, 0/0 is NaN

(* Faulty: one success more than the probes there are. *)
onSuccessOffByOne(c) ==
  /\ call[c] # "idle"
  /\ IF state = "halfOpen" /\ successes + 1 > maxRequests
       THEN /\ state' = "closed"
            /\ requests' = 0 /\ failures' = 0 /\ successes' = 0
            /\ left' = interval + 1 /\ armed' = TRUE
       ELSE /\ successes' = (successes + 1) % Modulus
            /\ UNCHANGED <<state, requests, failures, left, armed>>
  /\ Over(c)

(* Faulty: a probe that succeeds makes room for another and is not counted. *)
onSuccessNotCounted(c) ==
  /\ call[c] # "idle"
  /\ requests' = IF call[c] = "probe" THEN requests - 1 ELSE requests
  /\ UNCHANGED <<state, failures, successes, left, armed>>
  /\ Over(c)

onSuccess(c) ==
  /\ call[c] # "idle"
  /\ IF state = "halfOpen" /\ successes + 1 >= maxRequests
       THEN /\ state' = "closed"
            /\ requests' = 0 /\ failures' = 0 /\ successes' = 0
            /\ left' = interval + 1 /\ armed' = TRUE
       ELSE /\ successes' = (successes + 1) % Modulus
            /\ UNCHANGED <<state, requests, failures, left, armed>>
  /\ Over(c)

(* Faulty: a late failure opens the open breaker again. *)
onFailureReopens(c) ==
  /\ call[c] # "idle"
  /\ failures' = (failures + 1) % Modulus
  /\ successes' = 0
  /\ IF state # "closed" \/ shouldTrip
       THEN state' = "open" /\ left' = timeout + 1 /\ armed' = TRUE
       ELSE UNCHANGED <<state, left, armed>>
  /\ UNCHANGED requests
  /\ Over(c)

onFailure(c) ==
  /\ call[c] # "idle"
  /\ failures' = (failures + 1) % Modulus
  /\ successes' = 0
  /\ IF state = "halfOpen" \/ (state = "closed" /\ shouldTrip)
       THEN state' = "open" /\ left' = timeout + 1 /\ armed' = TRUE
       ELSE UNCHANGED <<state, left, armed>>
  /\ UNCHANGED requests
  /\ Over(c)

Tick == left > 0 /\ left' = left - 1 /\ UNCHANGED <<state, counts, armed, call>>

Next ==
  \/ \E c \in Calls : beforeRequest(c) \/ onSuccess(c) \/ onFailure(c)
  \/ Tick

Spec == Init /\ [][Next]_vars

(* Time passes, clients keep calling, and every admitted call returns.  No *)
(* deadline of the gateway sees to the last (the handlers pass on          *)
(* r.Context()): the services do, whose handlers do a bounded amount of    *)
(* work, and the keepalive pings, which fail the calls of a dead           *)
(* connection.                                                             *)
FairSpec ==
  /\ Spec
  /\ WF_vars(Tick)
  /\ \A c \in Calls : WF_vars(beforeRequest(c)) /\ WF_vars(onSuccess(c) \/ onFailure(c))
-----------------------------------------------------------------------------
Budget == IF maxRequests = 0 THEN 1 ELSE maxRequests

(* A half-open breaker lets through no more calls than its budget, however *)
(* many are waiting and whatever late results of earlier calls come in.    *)
HalfOpenBudget == state = "halfOpen" => Cardinality(Probes) <= requests /\ requests <= Budget

(* A half-open breaker cannot be stuck: a probe is under way whose result  *)
(* will move it, or there is room for one more.  beforeRequest counts      *)
(* probes up and nothing counts them down, so a probe whose result went    *)
(* elsewhere would leave the breaker refusing every call for ever.         *)
NeverStuck == state = "halfOpen" => Probes # {} \/ requests < maxRequests

(* What makes it so: no failure has been counted in the period, every      *)
(* probe that came back was a success, and they were too few to close.     *)
ProbesAccounted ==
  state = "halfOpen" =>
    /\ failures = 0
    /\ successes < Budget
    /\ successes + Cardinality(Probes) >= requests

(* An open breaker stays open for its timeout and admits nothing: results  *)
(* of calls admitted before it opened neither close it nor prolong it.     *)
OpenForTimeout ==
  [][state = "open" /\ left > 0 =>
       /\ state' = "open" /\ left' <= left
       /\ \A c \in Calls : call[c] = "idle" => call'[c] = "idle"]_vars

(* A half-open period ends, if the calls admitted in it return.            *)
HalfOpenEnds == state = "halfOpen" ~> state # "halfOpen"

(* Recovery: once no call fails any more, the breaker closes for good.     *)
Recovers ==
  <>[][\A c \in Calls : ~onFailure(c)]_vars => <>[](state = "closed")
==============================================================================
