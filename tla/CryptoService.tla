---------------------------- MODULE CryptoService ----------------------------
(***************************************************************************)
(* services/crypto over services/lock: requests that encrypt and decrypt   *)
(* with keys fetched from the vault and kept in a cache, while keys are    *)
(* rotated, the vault is sealed, and either process restarts.              *)
(*                                                                         *)
(* getKey looks into the cache, asks the vault on a miss and stores the    *)
(* answer, with no lock across the three.  What follows it (cipher, GCM)   *)
(* touches no shared state and belongs to the step that obtained the key.  *)
(*                                                                         *)
(* A key name is a sequence, so that "name:version" is what cacheKey says: *)
(* the name with one more component.  A ciphertext is its key name, the    *)
(* version written in it and the key it was made with; GCM opens it under  *)
(* that key and no other.  EncryptBatch obtains one key for all its items: *)
(* to shared state it is an Encrypt.  The items of DecryptBatch are        *)
(* independent Decrypts by several workers.                                *)
(***************************************************************************)
EXTENDS LockHandler, KeyCache

CONSTANTS
  Workers,      \* requests in progress; those callers are the vault's clients
  CacheSize,    \* capacity of the LRU cache (10000 in the code)
  MaxLives      \* bound: lives of the vault process

ASSUME CryptoAssumption ==
  /\ Workers \subseteq Callers /\ Names # {}
  /\ CacheSize \in Nat \ {0} /\ MaxLives \in Nat

VARIABLES
  cache,        \* keyCache
  ciphertexts,  \* every ciphertext clients hold
  job,          \* job[w]: the request w serves, or has last served
  lives         \* restarts of the vault so far

cryptoVars == <<cache, ciphertexts, job>>
allVars == <<vars, cryptoVars, lives>>

Info == [version : Nat, key : Nat]

NoInfo == [version |-> 0, key |-> 0]

Ciphertext == [name : Names, version : Nat, key : Nat]

(* A request: Encrypt ("enc"), or Decrypt ("dec") of the ciphertext in ct; *)
(* the version it asks the vault for; the latest version when it started   *)
(* (floor); the key it got.                                                *)
Job ==
  [at : {"idle", "fetch", "reply", "add", "done"}, op : {"enc", "dec"},
   name : Names, version : Nat, floor : Nat, ct : SUBSET Ciphertext, info : Info]

NoJob ==
  [at |-> "idle", op |-> "enc", name |-> CHOOSE n \in Names : TRUE,
   version |-> 0, floor |-> 0, ct |-> {}, info |-> NoInfo]

CryptoTypeOK ==
  /\ HandlerTypeOK
  /\ \A i \in 1..Len(cache) : cache[i].info \in Info
  /\ \A i, j \in 1..Len(cache) : cache[i].k = cache[j].k => i = j
  /\ Len(cache) <= CacheSize
  /\ ciphertexts \subseteq Ciphertext
  /\ job \in [Workers -> Job]
  /\ lives \in 0..MaxLives

CryptoInit ==
  /\ Init
  /\ cache = <<>>
  /\ ciphertexts = {}
  /\ job = [w \in Workers |-> NoJob]
  /\ lives = 0

(* Faulty: all versions of a key share an entry. *)
cacheKeyByName(n, v) == n

cacheKey(n, v) == IF v > 0 THEN Append(n, v) ELSE n
-----------------------------------------------------------------------------
(* The request j is finished with the key info. *)
Finish(w, j, info) ==
  /\ job' = [job EXCEPT ![w] = [j EXCEPT !.at = "done", !.info = info]]
  /\ \/ j.op = "dec" /\ UNCHANGED ciphertexts
     \/ /\ j.op = "enc"
        /\ ciphertexts' = ciphertexts \cup
             {[name |-> j.name, version |-> info.version, key |-> info.key]}

(* getKey, first part: a hit finishes the request, a miss goes on to the   *)
(* vault.                                                                  *)
Lookup(w, j) ==
  LET k == cacheKey(j.name, j.version) IN
  \/ /\ CacheHas(cache, k)
     /\ cache' = CacheTouch(cache, k)
     /\ Finish(w, j, CacheInfo(cache, k))
  \/ /\ ~CacheHas(cache, k)
     /\ job' = [job EXCEPT ![w] = j]
     /\ UNCHANGED <<cache, ciphertexts>>

Encrypt(w, n) ==
  /\ job[w].at \in {"idle", "done"}
  /\ Lookup(w, [NoJob EXCEPT !.at = "fetch", !.name = n, !.floor = LatestVersion(n)])
  /\ UNCHANGED <<vars, lives>>

Decrypt(w, c) ==
  /\ job[w].at \in {"idle", "done"}
  /\ Lookup(w, [NoJob EXCEPT !.at = "fetch", !.op = "dec", !.name = c.name,
                             !.version = c.version, !.ct = {c}])
  /\ UNCHANGED <<vars, lives>>

(* The request for the key reaches the vault, which accepts it. *)
Fetch(w) ==
  /\ job[w].at = "fetch"
  /\ GetEncryptionKeyCall(w, job[w].name, job[w].version)
  /\ job' = [job EXCEPT ![w].at = "reply"]
  /\ UNCHANGED <<cache, ciphertexts, lives>>

(* It fails: the vault refuses, cannot be reached, or died meanwhile.      *)
FetchFails(w) ==
  /\ \/ job[w].at = "fetch"
     \/ job[w].at = "reply" /\ call[w] = Idle
  /\ job' = [job EXCEPT ![w] = NoJob]
  /\ UNCHANGED <<cache, ciphertexts, vars, lives>>

(* The vault's answer is marshalled and arrives. *)
Deliver(w) ==
  /\ job[w].at = "reply"
  /\ GetEncryptionKeyMarshal(w)
  /\ job' = [job EXCEPT ![w].at = "add",
                        ![w].info = [version |-> call[w].version, key |-> call[w].key]]
  /\ UNCHANGED <<cache, ciphertexts, lives>>

(* getKey, last part. *)
Store(w) ==
  /\ job[w].at = "add"
  /\ cache' = CacheAdd(cache, cacheKey(job[w].name, job[w].version), job[w].info, CacheSize)
  /\ Finish(w, job[w], job[w].info)
  /\ UNCHANGED <<vars, lives>>

(* The crypto process restarts: its cache and its requests are gone, the   *)
(* ciphertexts are with the clients.  A call it had in the vault goes on   *)
(* there and is answered to nobody.                                        *)
CryptoCrash ==
  /\ cache' = <<>>
  /\ job' = [w \in Workers |-> NoJob]
  /\ call' = [c \in Callers |-> IF c \in Workers THEN Idle ELSE call[c]]
  /\ UNCHANGED <<resp, lockVars, ciphertexts, lives>>

VaultCrash ==
  /\ lives < MaxLives
  /\ ProcessCrash
  /\ lives' = lives + 1
  /\ UNCHANGED cryptoVars

VaultStep == Operation(Callers \ Workers) /\ UNCHANGED <<cryptoVars, lives>>

CryptoNext ==
  \/ \E w \in Workers :
       \/ \E n \in Names : Encrypt(w, n)
       \/ \E c \in ciphertexts : Decrypt(w, c)
       \/ Fetch(w) \/ FetchFails(w) \/ Deliver(w) \/ Store(w)
  \/ CryptoCrash
  \/ VaultCrash
  \/ VaultStep

CryptoSpec == CryptoInit /\ [][CryptoNext]_allVars
-----------------------------------------------------------------------------
Intact(key) == key \notin {Zeroed, Torn}

(* Decryption with the right key: in one life of the vault, a Decrypt that *)
(* obtained a key, from the cache or from the vault, got the key its       *)
(* ciphertext was made with, whatever was rotated, evicted, restarted or   *)
(* sealed in between (key bytes caught by a Seal aside).                   *)
DecryptOpens ==
  \A w \in Workers, c \in ciphertexts :
    /\ job[w].at = "done" /\ job[w].ct = {c} /\ lives = 0
    /\ Intact(c.key) /\ Intact(job[w].info.key)
    => job[w].info.key = c.key

(* No ciphertext is orphaned: until the vault is sealed or restarts it     *)
(* still has, under the name and version a ciphertext carries, the key     *)
(* that made it.                                                           *)
CiphertextsDecryptable ==
  \A c \in ciphertexts : lives = 0 /\ ~krSealed =>
    HasKeyVersion(c.name, c.version) /\ GetKeyVersion(c.name, c.version).key = c.key

(* Staleness comes from the cache alone: in one life of the vault, an      *)
(* Encrypt that had to fetch its key was given a version no older than the *)
(* latest when it started, however long the answer was under way.  (One    *)
(* that hits the cache may get an older version, until its entry goes.)    *)
FetchedIsCurrent ==
  \A w \in Workers :
    job[w].at = "add" /\ job[w].op = "enc" /\ lives = 0 => job[w].info.version >= job[w].floor
==============================================================================
