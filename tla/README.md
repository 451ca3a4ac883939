# A TLA+ model of grpc-vault-ha

This directory holds TLA+ modules for the services of the repository, TLC
configurations that check them on small instances, and TLAPS proofs of the
results that matter most. Paths below are relative to `src/`.

## 1. The system

A secrets vault split into six Go processes. Clients speak HTTP to the
**gateway**, which forwards to five gRPC services:

| part | source | state | operations that change it |
|---|---|---|---|
| keyring | `pkg/crypto/keyring` | key policies with versions, cipher cache, sealed flag | create, rotate, get cipher, delete, update config, seal, marshal, unmarshal |
| lock service | `services/lock` | seal state, pending shares, secrets, the keyring | initialize, unseal, seal, put/delete secret, create/rotate key |
| crypto service | `services/crypto` | LRU cache of keys, worker pool | encrypt, decrypt, their batches |
| tokenize service | `services/tokenize` | LRU cache of keys, custom transformations, worker pool | FPE encrypt/decrypt, their batches, create/delete transformation |
| auth service | `services/auth`, `pkg/auth` | token records, claims cache, policy repository and evaluator, API keys | create, validate, refresh, revoke token; create, update, delete policy; API keys |
| audit service | `services/audit` | buffer, flush worker, log file, index | log request/response/error, flush, close, query |
| gateway | `services/gateway` | connection pools, rate limiter, circuit breakers | forward, readiness, limit, break, shut down |

All state except the audit log is in memory. Every service is started by a
`main` that stops on a signal. No gRPC service installs a recovery
interceptor, so a panic in a handler ends the process. Crypto and tokenize
fetch keys from the lock service and cache them. The gateway dials the
services; nothing wires the auth or the audit service into the other paths.
Every message between two of them goes through one codec
(`pkg/grpcutil/codec`), registered under gRPC's own name "proto", and through
the generated functions it calls (`gen/go/*/v1/*_vtproto.pb.go`).

What is hard here is not any one function but what happens between two of
them: results used after a lock was released, caches in front of state that
changes, two tables changed one after the other, late results, shutdown with
work in flight, and restarts that empty one process and not its clients. The
`hazards` of `PROJECT.json` list these places by line.

## 2. Modules

Each module keeps the names of the code. Definitions marked *Faulty* are
plausible mistakes in the definition that follows; no specification uses
them. They document which mistake each property would notice.

| module | models | built on |
|---|---|---|
| `Keyring` | `pkg/crypto/keyring/keyring.go`, every operation | |
| `LockService` | the methods of `lock_service.go`, each one critical section of `s.mu` | `Keyring` |
| `LockHandler` | concurrent gRPC handlers over it, split where they hold no lock | `LockService` |
| `KeyCache` | the LRU caches, as a sequence from oldest to newest | |
| `CryptoService` | encrypt/decrypt with cached keys over the vault | `LockHandler`, `KeyCache` |
| `TokenizeService` | format-preserving encryption over the vault | `LockHandler`, `KeyCache` |
| `Masking` | `Mask` and `MaskBatch` of the tokenize service | `TokenizeService` |
| `BatchPool` | batch handlers of both services and their worker pool | |
| `AuthTokens` | JWTs, records, claims cache | `KeyCache` |
| `AuthPolicies` | policy repository and evaluator table | |
| `PolicyPaths` | `pathMatches`, and the same question asked by segments | |
| `PolicyEvaluator` | `Evaluate`: rules in order, capabilities, conditions | `PolicyPaths` |
| `AuthDecisions` | decisions on whatever table concurrent changes have left | `AuthPolicies`, `PolicyEvaluator` |
| `APIKeys` | API keys, their expiry, revocation and the goroutine that notes a use | |
| `AuditLog` | what the audit service promises: an append-only log | |
| `AuditPipeline` | writers, flush worker, file storage, torn lines | `AuditLog` |
| `AuditQuery` | queries and counts of both storages | `AuditPipeline` |
| `CircuitBreaker` | `middleware/circuitbreaker.go` | |
| `RateLimiter` | `middleware/ratelimit.go` | |
| `Gateway` | proxy, handlers, readiness, shutdown | |
| `Wire` | the statements of the generated marshalling code, once per kind of field | |
| `CommonWire`, `LockWire`, `CryptoWire`, `TokenizeWire`, `AuthWire`, `AuditWire`, `GatewayWire` | what differs per message: fields, tags, order | `Wire` |
| `Codec` | a message between two services: marshalled, cut short or relayed, unmarshalled | all of the above |
| `MC...` | the instances TLC checks | |
| `VaultProofs` | keyring, seal state, the handlers implement the service; lemmas on copies of keys and the key cache | `LockHandler`, `KeyCache` |
| `HandlerProofs` | what the concurrent handlers answer; lemmas on calls of clients | `VaultProofs` |
| `CryptoServiceProofs` | keys and ciphertexts of the crypto service over the vault | `CryptoService`, `HandlerProofs` |
| `TokenizeServiceProofs` | keys and tokens of the tokenize service over the vault; masks | `Masking`, `HandlerProofs` |
| `BatchPoolProofs` | the answers of batches | `BatchPool` |
| `AuthProofs` | policies and what they decide, tokens, API keys | `AuthDecisions`, `AuthTokens`, `APIKeys` |
| `AuditPipelineProofs` | the pipeline implements the log; wakeups, shutdown, index, torn lines; pages of queries | `AuditQuery` |
| `GatewayProofs` | circuit breaker, rate limiter, connections of the proxy | `CircuitBreaker`, `RateLimiter`, `Gateway` |

How state and steps correspond to the code:

* **One critical section, one step.** A call refused with an error and without
  effect is no step. Handlers that enter a service several times, or keep a
  pointer into its state, have a step per entry (`call[c]` holds their place
  and locals): `Unseal` and `Seal` read the status again, `GetEncryptionKey`
  marshals the keyring's own slice after the locks are gone,
  `GetKeyVersions` reads a shared field for the size and in every round.
* **Key material** is the number of the draw from `crypto/rand`. A cipher is a
  name, a version and the material it was made from. A slice that `Seal`
  overwrites while it is read becomes zeros or torn, nondeterministically.
* **Cryptography is ideal**: a GCM ciphertext opens under its own key and no
  other; FF1 is a permutation per key and alphabet and always answers, as it does
  for values over the alphabets the service offers.
* **Key shares** are *good*, *bad* or *empty*, which is all the placeholder
  Shamir functions can tell.
* **Crash** is the end of a process, by a panic or from outside, and its
  restart. Clients keep what they hold: ciphertexts, tokens, cached keys of
  other processes.
* **Time** is counted in ticks that are left (`CircuitBreaker`, `AuthTokens`)
  or gone (`RateLimiter`, `APIKeys`).
* **Pure functions** (paths, decisions, masks, queries, the codec) are operators
  on the bytes, characters or entries the code works on. Their panics are
  outcomes of their own: `Masking` ends the process, `MarshalVT` has no outcome.
* **Messages.** The generator repeats the same statements for every field, so
  `Wire` has them once, and each message type is three tables read off three
  functions: what `MarshalToSizedBufferVT` writes, what `SizeVT` counts, what
  `UnmarshalVT` has cases for. They are three because nothing but the generator
  makes them agree. The functions return sets: Go visits a map in any order, and
  no outcome is an error.
* **Integer widths.** The counters of the circuit breaker are `uint32` in the
  code and wrap at `Modulus` in the model. The codec's integers have `Bits32`
  and `Bits64` bits, with Go's conversions between them. Elsewhere integers stay
  far from their width and are unbounded.

## 3. Runs

Ten runs pass. The other two, `lock_keyring_after_unseal` and `policy_globs`,
end in a counterexample, which is their point (section 6). Where parts of a
service share no state, one run exercises them side by side: the variable `part`
says which one a behaviour is about.

| run | module and configuration | what it shows |
|---|---|---|
| `vault` | `MCVault`, `Vault.cfg` | Keyring: a cached cipher belongs to the key its name and version denote (`CipherMatchesKey`). Lock service: it opens with exactly the threshold's number of shares, none left over from before (`UnsealedAtThreshold`); keys handed out are the ones asked for unless a seal intervened (`KeyDelivered`); answers put together from two critical sections agree with themselves (`AnswersAgree`); a secret's version stands for one contents until the path is deleted (`VersionNamesContents`). |
| `lock_keyring_after_unseal` | `MCVault`, `LockKeyringOperational.cfg` | Violation of `KeyringOperational`: see section 6. |
| `crypto` | `MCCryptoService`, `CryptoService.cfg` | Through rotation, eviction, seal and restart of either process, Decrypt gets the key its ciphertext was made with or fails (`DecryptOpens`); no ciphertext is orphaned while the vault lives (`CiphertextsDecryptable`); an Encrypt that fetched its key got a current one, so staleness comes from the cache alone (`FetchedIsCurrent`). |
| `tokenize` | `MCTokenizeService`, `TokenizeService.cfg` | FPEDecrypt has no integrity check, but equal key versions mean the right plaintext (`SameVersionOpens`). A mask shows the bytes it was asked to show and no others (`MaskShowsAsked`). |
| `breaker` | `CircuitBreaker`, `CircuitBreaker.cfg` | With late results: half-open admits no more than its budget (`HalfOpenBudget`) and is never stuck (`NeverStuck`); open lasts for the timeout (`OpenForTimeout`). Half-open periods end (`HalfOpenEnds`) and the breaker recovers (`Recovers`). |
| `audit` | `MCAuditPipeline`, `AuditPipeline.cfg` | The pipeline implements the append-only log (`ImplementsLog`). No wakeup is lost (`NoLostWakeup`), a shutdown flushes (`ShutdownFlushes`) and ends (`ShutdownEnds`), every entry is stored or lost to a named cause (`EventuallyStored`). The index is the tail of the log (`IndexIsLogTail`), a crash spoils at most one entry of the next process (`OneGluedPerCrash`), and the pages of a query hold each match once and in its place (`PagesComplete`). |
| `auth` | `MCAuth`, `Auth.cfg` | Tokens: only those of this process are accepted (`OwnTokensOnly`); a revoked or expired one stops being honoured for good, although cached claims are not checked again (`DeadTokensLapse`). Policies: a change that no other change of the policy overlaps is in force when answered (`LoneChangeApplies`); built-in policies stay in force (`BuiltInsInForce`); a request is allowed exactly when a rule grants it and none before denies it (`GrantedUnlessDeniedBefore`). API keys: what was refused once is refused for good (`RefusedForGood`). |
| `policy_globs` | `MCPolicyPaths`, `PolicyPaths.cfg` | Violation of `StarsMatchSegments`: see section 6. |
| `batch` | `MCBatchPool`, `BatchPool.cfg` | Answers are complete and in place, with one key per encrypting batch (`AnswersComplete`); batches are answered (`BatchesAnswered`) and a graceful stop ends (`StopEnds`). |
| `limiter` | `MCRateLimiter`, `RateLimiter.cfg` | No client ID within its limit is refused (`RefusedOnlyOverLimit`); racing first requests exceed the limit by at most one burst per handler, however often the cleanup drops the client (`ExcessBounded`). |
| `gateway` | `Gateway`, `Gateway.cfg` | Connections handed out are open until the proxy closes (`HandedOutOpen`), none leaks (`NoLeakedConnections`); a signalled gateway exits (`GatewayStops`). |
| `codec` | `MCCodec`, `Codec.cfg` | For every message type of the six services: what is sent arrives (`RoundTrip`), also through a peer built before one of its fields was added (`RelayKeepsFields`), and a message cut short is refused or ends where a field ends (`NoPartialFields`). |

### Bounds

The bounds are constants, guards of the actions they bound.

* `Names`, `Callers`, `Workers`, `Writers`, `Editors`: two of a kind wherever two
  can interfere; four calls at the breaker, so that two late ones can meet two
  probes. The policy properties that depend on who overlaps whom are proved for
  any number of editors. The gateway has one request, next to one readiness
  goroutine per service, which compete for the same pools; its two invariants are
  proved for any number of requests.
* `MaxDraws` (key versions): 3 in the keyring's part of `vault`, enough to rotate,
  delete, create again and restore an older image; 2 behind the handlers
  (`MaxVaultDraws`) and elsewhere, which tells old from new.
* `MaxPuts` 2, with two contents: a version can be replaced.
* `ShareCounts`, `Thresholds` {0, 2}: the code accepts 0; 2 has a pending share.
* `CacheSize` 1 or 2: eviction happens. `MaxLives` 1: the vault loses its keys once.
* `BufferSize` 2, `maxSize` 2, `MaxEntries` 5: two full batches and a rest, and
  the index is trimmed. `MaxCrashes` 2: lines can be torn in two lives of the
  process. Filters on type, time and token; `Limits` 1, 2, 3 and 5, from one entry
  a page to all entries on one page.
* `TTLs` -1, 0, 3 with a maximum of 2; `MaxTokens` 2: a token and its refresh.
* `MaxKeys` 2, `KeyTTLs` -1, 1, 2, `MaxClock` 3: keys that never expire, expire
  before another one, and are long expired.
* Policies: `Rules` with one star, two stars, a denial before a `sudo` and a
  condition; the requests (`Queries`) name two policies in either order, with a path
  that one star covers, one that only two stars cover, one with a slash to trim, two
  actions, and a context that meets the condition or does not.
* `Values` of 0 to 4 bytes, `Preserve` -2 to 5: on both sides of every length.
* `Burst` 2, `Cleanup` 1: the smallest values with the assumed relation.
* `MaxItems` 2, `Workers` 2, `MaxVersions` 2: batches compete for workers while
  the key is rotated.
* `PoolSize` 2, `MaxPools` 2: one pool, and one made after `Close`.
* `Modulus` 6: counters wrap.
* `Bits64` 16, `Bits32` 8: a negative `int32` is still sign-extended and takes
  more groups than a positive one, and the widest number ends in a group that is
  not full, as with 64 bits. `Samples`: no field, one or two set, each to its edges
  (an empty and a full nested message, texts of 1 and 128 bytes, the extremes of
  integers). A length of 128 needs two bytes. `MaxCut` 4 bytes: the longest tag
  with the longest length.
* `MaxPath` 3 in `policy_globs`: a path of two segments.

Deadlock is checked except in `audit`, whose process has exited after a shutdown,
and in `codec` and `policy_globs`, which ask one question per behaviour. Symmetry
is used only where no liveness property is checked.

### Fairness

* `CircuitBreaker!FairSpec`: time passes, clients go on calling, admitted calls
  return. No deadline in the gateway enforces the last; the services' handlers
  do a bounded amount of work and keepalive pings fail the calls of dead
  connections.
* `AuditPipeline!FairSpec`: the scheduler runs writers and worker, the ticker
  ticks; strong fairness for the `closeChan` case, because Go's `select`
  chooses at random among the ready cases.
* `MCAuth!AuthSpec`: in the part about tokens (`AuthTokens!Fairness`), time passes
  and a call that has begun goes on. Policies and API keys need no fairness.
* `BatchPool!FairSpec`: handlers and workers run, key requests are answered.
* `Gateway!GatewayFairSpec`: only `main` goes on after the signal. Nothing is assumed
  of backends or requests.

## 4. Proofs

TLC checks the instances above; the theorems below hold for every value of the
constants. An invariant is proved action by action, and is stronger than the
properties it gives for the reason stated with it.

### Assumptions

The named assumptions of the modules say that bounds are natural numbers and
little more.

| assumption | beyond bounds and types |
|---|---|
| `KeyringAssumption`, `AuditAssumption`, `APIKeyAssumption`, `TokenAssumption`, `BatchAssumption` | nothing but sizes and lifetimes that must be positive |
| `LockAssumption`, `CryptoAssumption`, `TokenizeAssumption` | there is a name, a contents and a transformation at all; requests come from callers of the vault; built-in and custom transformations have different names |
| `MaskAssumption` | values are sequences of bytes; lengths are integers, negative ones included |
| `GatewayAssumption` | a pool has a connection |
| `PolicyAssumption` | built-in names are names; "no rules" is not a rule set |
| `DecisionAssumption` | a policy is a list of rules, a path is a text, a request names policies |
| `QueryAssumption` | a page has room for an entry; a limit of 0 means no limit in the code, and no pages |
| `BreakerAssumption` | finitely many calls at a time; a budget below the counter's modulus |
| `LimiterAssumption` | all racing bursts refill before an idle client is forgotten (see `RacesExceedByBursts`) |

Two theorems have a hypothesis of their own. That of `CryptoCorrect` is
`CacheKeysTell`: the crypto service's
cache keys "name:version" tell names and versions apart. It is false when one name
is another followed by a colon and a number. The lemma `PlainNamesTell` shows that it
holds when no name contains a colon. That of `DecisionsInOrder` is `StarsOnlyLast`: a
pattern ends in `**` or has no segment `**`. The code compares a `**` in the middle
of a pattern as a text (`policy.go:230`), although its comment says "** matches any
segments" (`:203`), so there the two readings differ.

### Loops

Several properties say what a loop computes. The model writes the loop as a
recursive function of the round, and the proofs are by induction on the round.
The library's induction theorems take an operator as a parameter, which the provers cannot
instantiate, so the induction used here is one for a *set* of rounds
(`Induction`), which follows from the least-element principle of a well-founded
order. `LoopRuns` gives the states of a loop as a function, so that a definition by
recursion can be unfolded. `AuthProofs` and `AuditPipelineProofs` both have them.

### The vault (`VaultProofs`, `HandlerProofs`)

`KeyringCorrect`: `KeyringSpec => [](KeyringTypeOK /\ CipherMatchesKey /\
MaterialIsUnique)`. Uniqueness of key material is not inductive: a new version
must differ from all others, so all stored material must have been drawn already
(`Drawn`), and since `Unmarshal` turns the exported image into the table, the
image must satisfy the same two facts. `RotationKeepsVersions`: `KeyringSpec =>
OldVersionsKept`, from the types of the same invariant, `KeyringInv`.

`HandlersImplementService`: `Spec => LockSpec`. The concurrent handlers of
`LockHandler` implement the service of `LockService`, in which every method is one
step. The service's variables are those of the handler module, so the refinement
mapping is the identity; each handler step is a method, a restart, or leaves the
service alone. Three theorems are proved of the service and carried over:

* `VaultCorrect`: `Spec => [](SealedHoldsNoKey /\ SharesPending)`;
* `VaultOpensAtThreshold`: `Spec => UnsealedAtThreshold`;
* `SealingKeepsSecrets`: `Spec => SecretsKeptWhileSealed`.

Their invariant is `SealInv`. To `SharesPending` it adds that there are no pending
shares before `Initialize` (which does not clear them) and that a good share
among them was handed out, without which nothing relates `unsealKeys` to
`shares`.

`HandlersCorrect`: `Spec => [](HandlerTypeOK /\ KeyDelivered /\ AnswersAgree /\
VersionNamesContents)`. The properties speak of answers; what makes them true
happens in the steps before, so `HandlerInv` says what a handler knows between its
critical sections (`CallFacts`): that an `Unseal` which saw the vault open
carries full progress, and that the slice of a `GetKeyVersions` under way is no
longer than the versions its policy shows now, because versions only grow until a
seal or a restart takes the table away. Seals are the hard case: they overwrite
key slices that handlers and answers still hold, and `HandedOut` must survive it.

### Crypto and tokenize service (`CryptoServiceProofs`, `TokenizeServiceProofs`)

`CryptoCorrect`: under `CacheKeysTell`, `CryptoSpec => [](CryptoTypeOK /\
DecryptOpens /\ CiphertextsDecryptable /\ FetchedIsCurrent)`. `TokenizeCorrect`:
`TokenizeSpec => [](TokenizeTypeOK /\ SameVersionOpens)`.

`DecryptOpens` and `SameVersionOpens` compare two copies of a key that were taken at different times
and may both be older than the vault's present table, which a seal has emptied. The
invariants therefore say that there *is* one key table `M` of which every copy in
the system (in a ciphertext or token, in the cache, in a request, in a call under
way) is a copy, and which is the keyring's own table for as long as the keyring is
open (`CryptoCopies`, `TokenizeCopies`). A rotation extends `M`; a seal keeps it.
`FetchedIsCurrent` adds where the version of a request under way stands relative
to the latest at its start (`JobCurrent`). The lemmas on copies of keys and on the
LRU cache (what `Add`, `Remove` and `Get` leave in it) are in `VaultProofs`, those
on calls of clients in `HandlerProofs`, and both services use them.

`MaskingCorrect`: `MaskSpec => []MaskShowsAsked`, for values of any length. `Attach`
is taken apart into the shown beginning, the mask and the shown end, any of which
may be empty (`AttachShows`).

### Worker pool (`BatchPoolProofs`)

`BatchesComplete`: `Spec => []AnswersComplete`, by counting. A task is *out* while it
is in the queue or with a worker, in one place only. The counter of a
call's WaitGroup is the number of its items that are out, and the results are
filled exactly for the items submitted and not out (`PoolInv`). A counter of zero
after the last submission then means a complete answer.

### Auth service (`AuthProofs`)

`TokensCorrect`: `Spec => [](TokenTypeOK /\ OwnTokensOnly)`. The cache is trusted
without a check, so the invariant types it: its entries are tokens this process
signed (`OwnEntry`), and so is every token in a call past the signature check.

`PoliciesCorrect`, `PolicySpec => [](PolicyTypeOK /\ BuiltInsInForce)`, and
`LoneChangesApply`, `PolicySpec => LoneChangeApplies`. That a built-in policy is in
the evaluator depends on the calls that have changed the repository and not yet
the evaluator; `BuiltInsSafe` says none of them removes a built-in.
`AloneIsStored` says that a call nobody overlapped carries what the repository
holds.

`DecisionsInOrder`: under `StarsOnlyLast`, `PolicySpec => []GrantedUnlessDeniedBefore`,
for any policies, paths, requests and contexts, and whatever changes are half done. It takes
two steps. `Evaluate` is two nested loops that return at the first rule with
something to say; `FirstOutcomeFound` gives the round at which such a loop ends,
and `EvaluateFinds` the policy and the rule. `MatchesIsPathMatches` shows that
`pathMatches`, which works on the text, answers the question asked segment by segment
(`CoversPath`, an alignment of the pattern's segments with the path's): without a
star two paths are equal as texts exactly when they split into the same segments
(`SplitInjective`, by induction on the text), and a star stands for one segment.
A trailing `**` is outside this comparison: there the property itself uses the code's prefix
test, because the segment reading is violated (section 6).

`RefusedKeysStayRefused`: `KeySpec => RefusedForGood`. The invariant is `KeyTypeOK`,
which says that only created keys are in the index: a key created now takes the
place of no key there was. The note of a use, made late and possibly after a
revocation, leaves expiry and revocation as they are.

### Audit service (`AuditPipelineProofs`)

`PipelineImplementsLog`: `Spec => ImplementsLog`, where `ImplementsLog` is the
specification of `AuditLog` with

    waiting <- batch \o buffer    log <- file    gone <- lost    next <- accepted + 1

Appending to the buffer is `Accept`. A batch that is written, wholly, in part or
not at all, and a crash settle entries from the front of what waits (`Settle`).
Taking the buffer moves nothing in the abstract log, but only if the batch was
empty before: the invariant `PipeInv` adds `BatchTaken`, that a batch exists only
while the worker is writing it. Without it the next swap would drop entries.

* `WakeupsKept`, `Spec => []NoLostWakeup`, and `ShutdownLosesNothing`, `Spec =>
  []ShutdownFlushes`: `FlushInv` orders a shutdown (the channel is closed when no
  handler is left, the last flush starts after that, the buffer it took stays
  empty), and `AllAccounted` says where every accepted entry is.
* `IndexFollowsFile`, `Spec => []IndexIsLogTail`: trimming the index and appending
  to both keeps it a tail of the file.
* `CrashSpoilsOneLine`, `Spec => []OneGluedPerCrash`: a line can be glued to only
  while the file ends in a broken one, and the process that broke it writes no more
  (`GluedInv`), so a broken end is a credit for one glued entry that only the
  next crash can renew.

* `QueriesInPages`, `Spec => []PagesComplete`: after k rounds, what the loop of `Query`
  has skipped and collected is a function of the number of matching entries among
  the first k (`Rank`, `ReadSoFar`). So a page is an interval of ranks (`IsPage`),
  division by the limit finds the page of a rank (`PageAndPlace`), and since ranks
  are distinct every match is on one page, once. For the storage that lists the
  newest first, a bijection shows that `Count` counts the same (`HitsNewestFirst`). All the
  invariant has to give is that the index is a sequence, also after a write that failed.

### Gateway (`GatewayProofs`)

`ConnectionsHandedOutOpen`, `GatewaySpec => []HandedOutOpen`, and
`ConnectionsNotLeaked`, `GatewaySpec => []NoLeakedConnections`. Neither is
inductive: a dial closes whatever the entry it replaces names, so the invariant
must say which connections are open. They are exactly those of the entries in the
pool table (`OpenIsPooled`). The second look under the write lock then makes every
dial one into an empty entry, which closes nothing that anyone was given.

`BreakerCorrect`, `Spec => [](BreakerTypeOK /\ HalfOpenBudget /\ ProbesAccounted /\
NeverStuck)`, and `BreakerOpenForTimeout`, `Spec => OpenForTimeout`. A half-open
breaker admits calls by a counter that nothing decreases, and the code does not
remember in which period a call was admitted: results of older calls count like
those of its own probes. It is never stuck because every probe of the period is
under way or came back as a success, and the successes, late ones included, are
too few to close (`ProbesAccounted`). `ProbesOnlyHalfOpen` adds that "probe" names
only calls of the present period, and that the call which opened the period was
counted.

`NoneRefusedWithinLimit`: `LimiterSpec => []RefusedOnlyOverLimit`. The invariant
speaks of every bucket a client ID refers to, by the table or by a handler that
looked it up before it was replaced: no other ID refers to it (`OneOwner`), and it
holds at least what the ID may still be granted (`Covered`). Without the first,
admitting one client would empty another's bucket.

`RacesExceedByBursts`: `LimiterSpec => []ExcessBounded`. What a client may still be
granted without waiting is what all its buckets hold (`Grants`, replaced ones in a
handler's hands included) and a full bucket for every handler that has missed in
`Load` and not yet stored (`Storing`); the sum never exceeds the credit by more than
a burst for every handler but one (`Bounded`). When the cleanup drops a client, the sum starts again, so the
client must by then have its full credit back. This is where `LimiterAssumption`'s
relation is used: refilling one burst per handler takes no longer than a client
is remembered (two seconds each against three minutes in the configured defaults,
so it covers 90 handlers racing for the same first request).


## 5. What is only model-checked, and what is not modelled

Model-checked only:

* all liveness properties (`HalfOpenEnds`, `Recovers`, `EventuallyStored`,
  `ShutdownEnds`, `DeadTokensLapse`, `BatchesAnswered`, `StopEnds`,
  `GatewayStops`), because TLAPS proves no liveness under fairness and no
  `ENABLED`;
* the codec's `RoundTrip`, `RelayKeepsFields` and `NoPartialFields`: a message
  contains messages, so `Wire` needs `RECURSIVE` operators, which the provers do not
  accept. As a recursive function the codec would need a domain that contains all
  messages of all types, and the order of map entries makes it a relation.

Every other property of a passing run is stated by a theorem of section 4. The
type invariants of the keyring, the handlers, the crypto and the tokenize
service, tokens, policies, API keys and the breaker are parts of the theorems;
gateway, limiter, audit pipeline and worker pool are proved from types of their
own.

Not modelled:

* the gateway's routing table and header handling; its authentication middleware,
  which the router does not use; its `GetSecret`, `PutSecret` and `Login`, marked
  stubs that forward nothing;
* the audit service's gRPC handler, which registers no service, and interceptors
  that no service installs;
* getters, descriptors and client and server stubs of the generated code, which
  decide nothing, and groups, which no encoder here writes;
* the rounds of FF1 and AES-GCM, which are libraries: cryptographic strength is
  assumed. The placeholder Shamir functions (marked as such in
  `lock_service.go`) are modelled as they are: the first share decides, and shares
  need not be distinct;
* gateway and circuit breaker in one composition: `Gateway` lets every call
  succeed or fail, which includes what a breaker would answer;
* the hit and miss counters of the LRU cache, timestamps and times of last use,
  which no decision reads; `?`, `[` and `\` in policy paths;
* logging and configuration.

## 6. Where code and documentation differ

Two differences are shown by runs of their own. `lock_keyring_after_unseal` checks
that an unsealed vault has an open keyring (`KeyringOperational`).
`docs/03-DATA-FLOW-DIAGRAMS.md:508` lists "9. Load keyring" as a step of unsealing and
line 514 says "Lock Service is now operational!". `Unseal` (`lock_service.go:170`)
clears the service's flag but nothing reloads or reopens the keyring that
`Seal` closed (`:194`): the counterexample is initialize, seal, unseal with
enough shares. After it, every key operation fails until the process restarts.

`policy_globs` checks that `pathMatches` agrees with its comments
(`StarsMatchSegments`). `pkg/auth/policy/policy.go:203` says "** matches any
segments" and `:209` "matches everything under this path", but the code at `:213`
compares the text before `**` as a prefix, so `a/**` also covers `aa`.

The other differences are visible in how a property had to be worded:

| code | documentation | wording |
|---|---|---|
| The lock handler drops `cas` (`lock_handler.go:134`). | `lock.proto:70` "Check-and-set: must match current version" | `VersionNamesContents` speaks of versions, not of the writer's expectation. |
| `DeleteSecret` removes the entry; numbering starts over (`lock_service.go:279`). | `lock.proto:81` "Empty = soft delete latest" | The same property holds up to the delete. |
| A key slice is marshalled after the locks are released, `Seal` overwrites it in place (`lock_handler.go:299`, `keyring.go:317`). | `lock.proto:216` "Decrypted key material" | `KeyDelivered` is about an unsealed keyring; after a seal the slice may be zero or torn. |
| `GetKeyVersions` sizes its answer from one read of the latest version and loops to another (`lock_handler.go:352`); a rotation between them is an index out of range. | `:338` "returns all versions of a key" | `AnswersAgree` is about answers that are given. |
| The crypto cache's key is name, colon, version (`crypto_service.go:114`), so a name with a colon can meet another's entry. | `docs/03:403` "Old versions are kept for decryption." | The model's names have no colon; `CryptoCorrect` needs no more than that cache keys tell names and versions apart. |
| The cached latest key outlives a rotation (`crypto_service.go:118`). | `docs/03:404` "New encryptions use version N+1." | `FetchedIsCurrent` is about fetched keys. |
| A token is opened with the cached or the latest key; the requested version is not looked at (`tokenize_service.go:124`). | `tokenize.proto:49` "0 = try to detect" | `SameVersionOpens` requires equal versions. |
| No deadline bounds a call behind the breaker (`circuitbreaker.go:105`). | `docs/02:117` "timeout: 10s" | `HalfOpenEnds` assumes that calls return. |
| Cached claims are not compared with the revocation record (`auth_service.go:147`). | | `DeadTokensLapse` says "eventually for good", not "at once". |
| Repository and evaluator are two critical sections (`auth_service.go:310`, `:322`), so overlapping changes can leave them different. | | `LoneChangeApplies` is about changes that do not overlap. |
| `Mask` slices by lengths that nothing checks (`tokenize_service.go:369`); one negative and one beyond the value panic. | | `MaskShowsAsked` is about answers that are given. |
| A crash in the middle of a line leaves it without its end, and the file is opened to append (`file_storage.go:32`): the next line is glued to it. | | `OneGluedPerCrash` bounds the damage to one entry. |
| Two racing first requests each install a bucket (`ratelimit.go:47`); tokens with the same first 32 characters share one (`:100`). | `ratelimit.go:11` | `ExcessBounded` allows a burst per handler; the limit is per client ID. |

## 7. What could follow

1. **LRU cache** (`pkg/storage/cache`) as a module of its own, with the map it implements
   and its statistics as races; `KeyCache` becomes its abstraction.
2. **A key store** that crypto service and vault implement together, as
   `AuditPipeline` implements `AuditLog`.
3. **Gateway and breakers** composed, with a breaker for each pool.
4. **Proofs** of the refinement of item 2, and of the codec for messages without
   nested messages, whose fields are a loop.
