------------------------------- MODULE Gateway -------------------------------
(***************************************************************************)
(* The gateway: HTTP handlers that forward to the backend services over    *)
(* connection pools (internal/proxy/grpc_proxy.go), the readiness check    *)
(* that looks at every service in parallel, and the shutdown in main.      *)
(*                                                                         *)
(* A goroutine is a request, or the readiness check's goroutine for a      *)
(* service, which is named like the service.  GetConnection is two         *)
(* critical sections, under the read lock and under the write lock, and a  *)
(* goroutine may be overtaken between them.  Each service has one address, *)
(* fixed by the configuration.  Requests refused before they reach a       *)
(* backend (bad JSON, wrong method) change nothing and are no steps.  Of   *)
(* the gateway's own gRPC server, which has the health and the reflection  *)
(* service, only the streams count: GracefulStop waits for them.           *)
(***************************************************************************)
EXTENDS Naturals

CONSTANTS
  Requests,   \* concurrent HTTP requests
  Services,   \* the backends: "crypto", "tokenize", "lock", ...
  Watchers,   \* clients of the gateway's gRPC server: health Watch, reflection
  PoolSize,   \* connections per service
  MaxPools    \* bound: pools made for one service in one process

ASSUME GatewayAssumption == PoolSize \in Nat \ {0} /\ MaxPools \in Nat

VARIABLES
  server,   \* "serving", "draining", "drained", "stopped", "closed" or "exited"
  streams,  \* the watchers that have a stream open
  pool,     \* pool[s]: GRPCProxy.connections[s]; generation 0 is no entry
  gens,     \* gens[s]: how many pools were made for s
  open,     \* the open connections, <<service, generation, index>>
  go,       \* go[g]: where goroutine g is
  ready     \* the readiness check: "idle", "checking", "ok", "degraded"

gatewayVars == <<server, streams, pool, gens, open, go, ready>>

Goroutines == Requests \cup Services

Indexes == 0..(PoolSize - 1)

NoPool == [gen |-> 0, counter |-> 0]

NoConn == <<>>

AtRest == [at |-> "idle", service |-> "none", conn |-> NoConn, result |-> "none"]

Conns(s, gen) == {<<s, gen, i>> : i \in Indexes}

GatewayTypeOK ==
  /\ server \in {"serving", "draining", "drained", "stopped", "closed", "exited"}
  /\ streams \subseteq Watchers
  /\ pool \in [Services -> [gen : 0..MaxPools, counter : Indexes]]
  /\ gens \in [Services -> 0..MaxPools]
  /\ open \subseteq Services \X (1..MaxPools) \X Indexes
  /\ \A g \in Goroutines :
       /\ go[g].at \in {"idle", "lookup", "connect", "call", "done"}
       /\ go[g].conn \in {NoConn} \cup (Services \X (1..MaxPools) \X Indexes)
       /\ go[g].result \in {"none", "ok", "error", "unavailable"}
  /\ ready \in {"idle", "checking", "ok", "degraded"}

GatewayInit ==
  /\ server = "serving"
  /\ streams = {}
  /\ pool = [s \in Services |-> NoPool]
  /\ gens = [s \in Services |-> 0]
  /\ open = {}
  /\ go = [g \in Goroutines |-> AtRest]
  /\ ready = "idle"
-----------------------------------------------------------------------------
(* A request for service s enters its handler. *)
Forward(r, s) ==
  /\ server = "serving"
  /\ s \in Services
  /\ go[r] = AtRest
  /\ go' = [go EXCEPT ![r] = [AtRest EXCEPT !.at = "lookup", !.service = s]]
  /\ UNCHANGED <<server, streams, pool, gens, open, ready>>

(* Encrypt and Decrypt. *)
CryptoRequest(r) == Forward(r, "crypto")

(* Tokenize and Detokenize. *)
TokenizeRequest(r) == Forward(r, "tokenize")

(* GetSealStatus, Initialize, Unseal and Seal. *)
SealRequest(r) == Forward(r, "lock")

(* CreateKey and ListKeys. *)
KeyRequest(r) == Forward(r, "lock")

(* The readiness check starts a goroutine for every service. *)
Readiness ==
  /\ server = "serving"
  /\ ready = "idle"
  /\ ready' = "checking"
  /\ go' = [g \in Goroutines |->
       IF g \in Services THEN [AtRest EXCEPT !.at = "lookup", !.service = g] ELSE go[g]]
  /\ UNCHANGED <<server, streams, pool, gens, open>>

(* The next connection of the pool; the counter is advanced atomically. *)
RoundRobin(g) ==
  LET s == go[g].service
      i == (pool[s].counter + 1) % PoolSize IN
  /\ pool' = [pool EXCEPT ![s].counter = i]
  /\ go' = [go EXCEPT ![g].at = "call", ![g].conn = <<s, pool[s].gen, i>>]
  /\ UNCHANGED <<gens, open>>

HasPool(s) == pool[s].gen # 0

(* GetConnection under the read lock. *)
Lookup(g) ==
  /\ go[g].at = "lookup"
  /\ \/ HasPool(go[g].service) /\ RoundRobin(g)
     \/ /\ ~HasPool(go[g].service)
        /\ go' = [go EXCEPT ![g].at = "connect"]
        /\ UNCHANGED <<pool, gens, open>>
  /\ UNCHANGED <<server, streams, ready>>

(* All PoolSize dials succeeded.  The connections of an earlier entry are  *)
(* closed first; the caller gets the first of the new ones.                *)
Dialled(g) ==
  LET s == go[g].service
      gen == gens[s] + 1 IN
  /\ gen <= MaxPools
  /\ gens' = [gens EXCEPT ![s] = gen]
  /\ pool' = [pool EXCEPT ![s] = [gen |-> gen, counter |-> 0]]
  /\ open' = (open \ Conns(s, pool[s].gen)) \cup Conns(s, gen)
  /\ go' = [go EXCEPT ![g].at = "call", ![g].conn = <<s, gen, 0>>]

(* Faulty: the connections dialled before the failure stay open. *)
DialFailedLeaks(g) ==
  /\ open' = open \cup {<<go[g].service, gens[go[g].service] + 1, 0>>}
  /\ go' = [go EXCEPT ![g] = [AtRest EXCEPT !.at = "done", !.result = "unavailable"]]
  /\ UNCHANGED <<pool, gens>>

(* A dial failed: the connections made before it are closed again. *)
DialFailed(g) ==
  /\ open' = open \ Conns(go[g].service, pool[go[g].service].gen)
  /\ go' = [go EXCEPT ![g] = [AtRest EXCEPT !.at = "done", !.result = "unavailable"]]
  /\ UNCHANGED <<pool, gens>>

(* Faulty: no second look after the write lock was acquired. *)
ConnectUnchecked(g) ==
  /\ go[g].at = "connect"
  /\ Dialled(g) \/ DialFailed(g)
  /\ UNCHANGED <<server, streams, ready>>

(* GetConnection under the write lock, which looks again. *)
Connect(g) ==
  /\ go[g].at = "connect"
  /\ \/ HasPool(go[g].service) /\ RoundRobin(g)
     \/ ~HasPool(go[g].service) /\ (Dialled(g) \/ DialFailed(g))
  /\ UNCHANGED <<server, streams, ready>>

(* The RPC (or, for the readiness check, GetState) on the connection ends; *)
(* on a closed connection it fails.                                        *)
EndCall(g, ok) ==
  /\ go[g].at = "call"
  /\ ok => go[g].conn \in open
  /\ go' = [go EXCEPT ![g] =
       [AtRest EXCEPT !.at = "done", !.result = IF ok THEN "ok" ELSE "error"]]
  /\ UNCHANGED <<server, streams, pool, gens, open, ready>>

(* The handler writes its answer. *)
Respond(r) ==
  /\ go[r].at = "done"
  /\ go' = [go EXCEPT ![r] = AtRest]
  /\ UNCHANGED <<server, streams, pool, gens, open, ready>>

(* wg.Wait of HealthCheck returned: all services healthy, or degraded. *)
HealthCheck ==
  /\ ready = "checking"
  /\ \A s \in Services : go[s].at = "done"
  /\ ready' = IF \A s \in Services : go[s].result = "ok" THEN "ok" ELSE "degraded"
  /\ UNCHANGED <<server, streams, pool, gens, open, go>>

ReadinessAnswered ==
  /\ ready \in {"ok", "degraded"}
  /\ ready' = "idle"
  /\ go' = [g \in Goroutines |-> IF g \in Services THEN AtRest ELSE go[g]]
  /\ UNCHANGED <<server, streams, pool, gens, open>>
-----------------------------------------------------------------------------
(* A watcher opens a stream, until GracefulStop refuses new ones ...       *)
OpenStream(w) ==
  /\ server \in {"serving", "draining"}
  /\ w \notin streams
  /\ streams' = streams \cup {w}
  /\ UNCHANGED <<server, pool, gens, open, go, ready>>

(* ... and ends it when it likes: the server never does.                   *)
EndStream(w) ==
  /\ w \in streams
  /\ streams' = streams \ {w}
  /\ UNCHANGED <<server, pool, gens, open, go, ready>>

(* A signal: httpServer.Shutdown takes no new requests ... *)
Shutdown ==
  /\ server = "serving"
  /\ server' = "draining"
  /\ UNCHANGED <<streams, pool, gens, open, go, ready>>

NoneInFlight == ready = "idle" /\ \A g \in Goroutines : go[g] = AtRest

(* Faulty: Shutdown without the 30 second limit. *)
DrainedOnly ==
  /\ server = "draining"
  /\ NoneInFlight
  /\ server' = "drained"
  /\ UNCHANGED <<streams, pool, gens, open, go, ready>>

(* ... and returns when none is left, or 30 seconds later.                 *)
Drained ==
  /\ server = "draining"
  /\ server' = "drained"
  /\ UNCHANGED <<streams, pool, gens, open, go, ready>>

(* grpcServer.GracefulStop returns once no stream is left, and waits       *)
(* without a limit.                                                        *)
GracefulStop ==
  /\ server = "drained"
  /\ streams = {}
  /\ server' = "stopped"
  /\ UNCHANGED <<streams, pool, gens, open, go, ready>>

(* The deferred grpcProxy.Close. *)
Close ==
  /\ server = "stopped"
  /\ server' = "closed"
  /\ open' = {c \in open : ~ \E s \in Services : c \in Conns(s, pool[s].gen)}
  /\ pool' = [s \in Services |-> NoPool]
  /\ UNCHANGED <<streams, gens, go, ready>>

Exit ==
  /\ server = "closed"
  /\ server' = "exited"
  /\ UNCHANGED <<streams, pool, gens, open, go, ready>>

(* A new process. *)
NewProcess ==
  /\ server = "exited"
  /\ server' = "serving"
  /\ streams' = {}
  /\ pool' = [s \in Services |-> NoPool]
  /\ gens' = [s \in Services |-> 0]
  /\ open' = {}
  /\ go' = [g \in Goroutines |-> AtRest]
  /\ ready' = "idle"

Running == server # "exited"

GatewayNext ==
  \/ \E r \in Requests : CryptoRequest(r) \/ TokenizeRequest(r) \/ SealRequest(r) \/ KeyRequest(r)
  \/ Running /\ \E r \in Requests : Respond(r)
  \/ Readiness
  \/ Running /\ (HealthCheck \/ ReadinessAnswered)
  \/ Running /\ \E g \in Goroutines : Lookup(g) \/ Connect(g) \/ \E ok \in BOOLEAN : EndCall(g, ok)
  \/ \E w \in Watchers : OpenStream(w) \/ (Running /\ EndStream(w))
  \/ Shutdown
  \/ Drained
  \/ GracefulStop
  \/ Close
  \/ Exit
  \/ NewProcess

GatewaySpec == GatewayInit /\ [][GatewayNext]_gatewayVars

(* main goes on once it was signalled.  Nothing is assumed of the backends *)
(* or of the requests in flight, nor that a stream ever ends.              *)
GatewayFairSpec ==
  /\ GatewaySpec
  /\ WF_gatewayVars(Drained) /\ WF_gatewayVars(GracefulStop)
  /\ WF_gatewayVars(Close) /\ WF_gatewayVars(Exit)
-----------------------------------------------------------------------------
(* Until main closes the proxy, every connection in a goroutine's hands is *)
(* open: two goroutines that both found no pool do not both make one, the  *)
(* second closing the connections the first was given.                     *)
HandedOutOpen ==
  server \in {"serving", "draining", "drained", "stopped"} =>
    \A g \in Goroutines : go[g].at = "call" => go[g].conn \in open

(* Every open connection is in the pool of its service, where Close finds  *)
(* it: a failed dial, a lost race or a shutdown leaves none behind.        *)
NoLeakedConnections == \A c \in open : c[2] = pool[c[1]].gen

(* A shutdown comes to its end also when backends never answer: Shutdown   *)
(* gives up after 30 seconds.  One thing holds it for ever, a stream of    *)
(* the gateway's gRPC server that its client keeps open: GracefulStop has  *)
(* no limit.                                                               *)
GatewayStops ==
  server = "draining" ~> (server = "exited" \/ [](server = "drained" /\ streams # {}))
==============================================================================
