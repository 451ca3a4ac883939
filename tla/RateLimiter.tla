----------------------------- MODULE RateLimiter -----------------------------
(***************************************************************************)
(* services/gateway/internal/middleware/ratelimit.go: one token bucket per *)
(* client in a sync.Map, made at the client's first request and dropped by *)
(* a cleanup loop when the client has not been seen for three intervals.   *)
(*                                                                         *)
(* getLimiter takes two steps on the map, Load and Store, and the bucket   *)
(* is used in a third.  The cleanup goroutine runs beside the handlers: it *)
(* goes through the clients one by one, and looks at lastSeen and deletes  *)
(* in two steps; lastSeen is written without a lock, and Since reads one   *)
(* word of it, the old or the new.  A bucket (rate.Limiter) refills by one *)
(* token a tick, up to Burst.  None of a call's steps waits, so a call     *)
(* never spans a tick; a pass over all clients may.  A bucket nobody       *)
(* refers to is garbage and is used again as a new one, so Buckets needs   *)
(* one bucket per client ID and per handler.                               *)
(***************************************************************************)
EXTENDS Integers, FiniteSets

CONSTANTS
  Users,        \* who sends requests
  Creds,        \* Creds[u]: "apikey", "token" or "ip", what u's requests carry
  Ports,        \* the TCP ports a user's connections come from
  Callers,      \* concurrent HTTP handlers
  Buckets,      \* the rate.Limiter objects
  Burst,        \* RateLimiter.b
  Cleanup       \* RateLimiter.cleanup, in ticks

ASSUME LimiterAssumption ==
  /\ Creds \in [Users -> {"apikey", "token", "ip"}]
  /\ Burst \in Nat \ {0} /\ Cleanup \in Nat \ {0}
  /\ IsFiniteSet(Callers)

VARIABLES
  clients,   \* clients[k]: the bucket of client ID k, or NoBucket
  idle,      \* idle[k]: ticks since lastSeen, at most 3 * Cleanup + 1
  tokens,    \* tokens[b]: what is left in bucket b
  ticker,    \* ticks to the next tick of the cleanup loop
  due,       \* a tick waits in ticker.C
  todo,      \* the client IDs that Range has not come to yet
  doomed,    \* the one found expired and not deleted yet, if any
  handler,   \* handler[h]: where handler h is in Allow
  credit     \* credit[k]: what a single bucket, kept for k since it was last
             \* found expired, would grant now; negative when more has been
             \* granted

cleanupVars == <<ticker, due, todo, doomed>>
limiterVars == <<clients, idle, tokens, cleanupVars, handler, credit>>

NoBucket == "none"

(* The ID of a request: the API key; the first 32 characters of the        *)
(* Authorization header, which for every token the auth service issues are *)
(* "Bearer " and the same 25 characters of its JWT header; or the address  *)
(* of the connection, port included.                                       *)
getClientID(u, port) ==
  CASE Creds[u] = "apikey" -> <<"apikey", u, "">>
    [] Creds[u] = "token"  -> <<"token", "Bearer", "">>
    [] Creds[u] = "ip"     -> <<"ip", u, port>>

ClientIDs == {getClientID(u, port) : u \in Users, port \in Ports}

Resting == [at |-> "rest", id |-> <<>>, bucket |-> NoBucket]

Allowing ==
  [at : {"store"}, id : ClientIDs, bucket : {NoBucket}]
    \cup [at : {"allow"}, id : ClientIDs, bucket : Buckets]

LimiterTypeOK ==
  /\ clients \in [ClientIDs -> Buckets \cup {NoBucket}]
  /\ idle \in [ClientIDs -> 0..(3 * Cleanup + 1)]
  /\ tokens \in [Buckets -> 0..Burst]
  /\ ticker \in 1..Cleanup /\ due \in BOOLEAN
  /\ todo \subseteq ClientIDs /\ doomed \subseteq ClientIDs
  /\ handler \in [Callers -> {Resting} \cup Allowing]
  /\ credit \in [ClientIDs -> Int]

LimiterInit ==
  /\ clients = [k \in ClientIDs |-> NoBucket]
  /\ idle = [k \in ClientIDs |-> 0]
  /\ tokens = [b \in Buckets |-> Burst]
  /\ ticker = Cleanup /\ due = FALSE
  /\ todo = {} /\ doomed = {}
  /\ handler = [h \in Callers |-> Resting]
  /\ credit = [k \in ClientIDs |-> Burst]
-----------------------------------------------------------------------------
(* clients.Load: a known client is seen again. *)
Load(h, u, port) ==
  LET k == getClientID(u, port) IN
  /\ handler[h] = Resting
  /\ IF clients[k] # NoBucket
     THEN /\ idle' = [idle EXCEPT ![k] = 0]
          /\ handler' = [handler EXCEPT ![h] =
               [at |-> "allow", id |-> k, bucket |-> clients[k]]]
     ELSE /\ handler' = [handler EXCEPT ![h] =
               [at |-> "store", id |-> k, bucket |-> NoBucket]]
          /\ UNCHANGED idle
  /\ UNCHANGED <<clients, tokens, cleanupVars, credit>>

Garbage(b) ==
  /\ \A k \in ClientIDs : clients[k] # b
  /\ \A h \in Callers : handler[h].bucket # b

(* Faulty: the new bucket is another client's, with what is left in it. *)
StoreShared(h, b) ==
  /\ handler[h].at = "store"
  /\ clients' = [clients EXCEPT ![handler[h].id] = b]
  /\ idle' = [idle EXCEPT ![handler[h].id] = 0]
  /\ handler' = [handler EXCEPT ![h].at = "allow", ![h].bucket = b]
  /\ UNCHANGED <<tokens, cleanupVars, credit>>

(* Faulty: the new bucket is used and not stored. *)
StoreForgets(h, b) ==
  /\ handler[h].at = "store"
  /\ Garbage(b)
  /\ tokens' = [tokens EXCEPT ![b] = Burst]
  /\ handler' = [handler EXCEPT ![h].at = "allow", ![h].bucket = b]
  /\ UNCHANGED <<clients, idle, cleanupVars, credit>>

(* clients.Store of a new bucket, in place of whatever is there by now. *)
Store(h, b) ==
  /\ handler[h].at = "store"
  /\ Garbage(b)
  /\ tokens' = [tokens EXCEPT ![b] = Burst]
  /\ clients' = [clients EXCEPT ![handler[h].id] = b]
  /\ idle' = [idle EXCEPT ![handler[h].id] = 0]
  /\ handler' = [handler EXCEPT ![h].at = "allow", ![h].bucket = b]
  /\ UNCHANGED <<cleanupVars, credit>>

(* limiter.Allow took a token: the request goes on to its handler. *)
Admit(h) ==
  /\ handler[h].at = "allow"
  /\ tokens[handler[h].bucket] > 0
  /\ tokens' = [tokens EXCEPT ![handler[h].bucket] = @ - 1]
  /\ credit' = [credit EXCEPT ![handler[h].id] = @ - 1]
  /\ handler' = [handler EXCEPT ![h] = Resting]
  /\ UNCHANGED <<clients, idle, cleanupVars>>

(* The bucket is empty: "Too Many Requests". *)
Refuse(h) ==
  /\ handler[h].at = "allow"
  /\ tokens[handler[h].bucket] = 0
  /\ handler' = [handler EXCEPT ![h] = Resting]
  /\ UNCHANGED <<clients, idle, tokens, cleanupVars, credit>>

Refilled(n) == IF n < Burst THEN n + 1 ELSE Burst

Older(k) == IF idle[k] <= 3 * Cleanup THEN idle[k] + 1 ELSE idle[k]

(* Time passes: buckets refill, and every Cleanup ticks the ticker puts a  *)
(* tick into its channel, which has room for one.                          *)
Refill ==
  /\ \A h \in Callers : handler[h] = Resting
  /\ idle' = [k \in ClientIDs |-> Older(k)]
  /\ tokens' = [b \in Buckets |-> Refilled(tokens[b])]
  /\ credit' = [k \in ClientIDs |-> Refilled(credit[k])]
  /\ IF ticker = 1 THEN ticker' = Cleanup /\ due' = TRUE
                   ELSE ticker' = ticker - 1 /\ UNCHANGED due
  /\ UNCHANGED <<clients, todo, doomed, handler>>

(* cleanupLoop receives the tick and starts Range.  A client stored while  *)
(* Range is under way is come to or not.                                   *)
cleanupLoop ==
  /\ due /\ todo = {} /\ doomed = {}
  /\ due' = FALSE
  /\ todo' = ClientIDs
  /\ UNCHANGED <<clients, idle, tokens, ticker, doomed, handler, credit>>

Expired(k) == clients[k] # NoBucket /\ idle[k] > 3 * Cleanup

(* Range comes to client k, which has not been seen for more than three    *)
(* intervals and is to be deleted ...                                      *)
FindExpired(k) ==
  /\ k \in todo /\ doomed = {}
  /\ todo' = todo \ {k}
  /\ Expired(k)
  /\ doomed' = {k}
  /\ credit' = [credit EXCEPT ![k] = tokens[clients[k]]]
  /\ UNCHANGED <<clients, idle, tokens, ticker, due, handler>>

(* ... or has, or is not there.                                            *)
PassOver(k) ==
  /\ k \in todo /\ doomed = {}
  /\ todo' = todo \ {k}
  /\ ~Expired(k)
  /\ UNCHANGED <<clients, idle, tokens, ticker, due, doomed, handler, credit>>

(* clients.Delete, also when the client has been seen again meanwhile.     *)
Delete(k) ==
  /\ k \in doomed
  /\ doomed' = {}
  /\ clients' = [clients EXCEPT ![k] = NoBucket]
  /\ UNCHANGED <<idle, tokens, ticker, due, todo, handler, credit>>

LimiterNext ==
  \/ \E h \in Callers, u \in Users, port \in Ports : Load(h, u, port)
  \/ \E h \in Callers, b \in Buckets : Store(h, b)
  \/ \E h \in Callers : Admit(h) \/ Refuse(h)
  \/ Refill
  \/ cleanupLoop
  \/ \E k \in ClientIDs : FindExpired(k) \/ PassOver(k) \/ Delete(k)

LimiterSpec == LimiterInit /\ [][LimiterNext]_limiterVars
-----------------------------------------------------------------------------
(* No request is refused while its client ID is within the limit: a        *)
(* handler finds the bucket empty only when one bucket, kept for the ID    *)
(* since it was last found expired, would be empty as well, whatever the   *)
(* cleanup loop, other clients and racing first requests did.              *)
RefusedOnlyOverLimit ==
  \A h \in Callers :
    handler[h].at = "allow" /\ tokens[handler[h].bucket] = 0 => credit[handler[h].id] <= 0

(* Racing requests get past the limit, but not far.  From the moment the   *)
(* cleanup loop finds a client expired it may use up the bucket that is    *)
(* about to be deleted; and of the handlers that then miss in Load each    *)
(* stores a full bucket over the one in use.  So a client is granted one   *)
(* burst more than there are handlers, and what refills, and not more.     *)
ExcessBounded == \A k \in ClientIDs : credit[k] >= -(Burst * Cardinality(Callers))
==============================================================================
