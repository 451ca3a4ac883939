--------------------------- MODULE TokenizeService ---------------------------
(***************************************************************************)
(* services/tokenize over services/lock: format-preserving encryption with *)
(* keys fetched from the vault, cached by name alone, and alphabets looked *)
(* up in a table of transformations that clients change.                   *)
(*                                                                         *)
(* A request gets its key (cache, vault, cache), then its alphabet, then   *)
(* runs FF1, with no lock across the steps.  A token is a string: it       *)
(* carries neither version nor key.  The model keeps with it what made it. *)
(* FF1 is a library; it writes its strings in the numerals of the radix,   *)
(* 0-9a-z and so on, whatever letters the alphabet has.  The batches get   *)
(* one key and one alphabet for all their items, and a token is opened     *)
(* with the tweak it was made with.  An alphabet sent with the request is  *)
(* a custom one that nobody changes.  The keys are in the vault's memory:  *)
(* after a restart its versions begin at 1 again, with other keys.         *)
(***************************************************************************)
EXTENDS LockHandler, KeyCache, FiniteSets

CONSTANTS
  Workers, CacheSize,
  BuiltIn,      \* transformations with a fixed alphabet
  Custom,       \* names of custom transformations
  Alphabets,    \* alphabets of custom transformations
  MaxTokens,    \* bound: tokens that clients hold
  MaxLives      \* bound: restarts of the vault

ASSUME TokenizeAssumption ==
  /\ Workers \subseteq Callers /\ Names # {} /\ CacheSize \in Nat \ {0}
  /\ BuiltIn \cap Custom = {} /\ BuiltIn \cup Custom # {}
  /\ MaxLives \in Nat

VARIABLES
  keyCache,
  customTransformations,  \* a name's alphabet, as a set of at most one
  tokens,                 \* every token clients hold
  job,                    \* job[w]: the request w serves, or has last served
  lives                   \* restarts of the vault so far

tokenizeVars == <<keyCache, customTransformations, tokens, job>>
allVars == <<vars, tokenizeVars, lives>>

Transformations == BuiltIn \cup Custom

(* What getKey returns, and the life of the vault it comes from, which the *)
(* service does not know.                                                  *)
Info == [version : Nat, key : Nat, life : Nat]

NoInfo == [version |-> 0, key |-> 0, life |-> 0]

(* getAlphabet: the alphabets found for t, none or one. *)
getAlphabet(t) == IF t \in BuiltIn THEN {t} ELSE customTransformations[t]

Token ==
  [name : Names, trans : Transformations, alphabet : BuiltIn \cup Alphabets,
   version : Nat, key : Nat, life : Nat, legible : BOOLEAN]

(* Whether FF1 writes a token over alphabet a in a's own letters: digits   *)
(* and alphanumerics are the numerals of their radix.  For 26 letters they *)
(* are 0-9a-p: some tokens have no digit, and none is in capitals.         *)
Legible(a) ==
  CASE a = "alpha-upper" -> {FALSE}
    [] a \in BuiltIn \ {"alpha-upper", "alpha-lower"} -> {TRUE}
    [] OTHER -> BOOLEAN

Job ==
  [at : {"idle", "fetch", "reply", "add", "alphabet", "done"}, name : Names,
   trans : Transformations, token : SUBSET Token, info : Info, opened : BOOLEAN]

NoJob ==
  [at |-> "idle", name |-> CHOOSE n \in Names : TRUE, trans |-> CHOOSE t \in Transformations : TRUE,
   token |-> {}, info |-> NoInfo, opened |-> FALSE]

TokenizeTypeOK ==
  /\ HandlerTypeOK
  /\ \A i \in 1..Len(keyCache) : keyCache[i].k \in Names /\ keyCache[i].info \in Info
  /\ \A i, j \in 1..Len(keyCache) : keyCache[i].k = keyCache[j].k => i = j
  /\ Len(keyCache) <= CacheSize
  /\ customTransformations \in [Custom -> SUBSET Alphabets]
  /\ tokens \subseteq Token
  /\ job \in [Workers -> Job]
  /\ lives \in 0..MaxLives

TokenizeInit ==
  /\ Init
  /\ keyCache = <<>>
  /\ customTransformations = [t \in Custom |-> {}]
  /\ tokens = {}
  /\ job = [w \in Workers |-> NoJob]
  /\ lives = 0
-----------------------------------------------------------------------------
(* getKey, first part. *)
Lookup(w, j) ==
  \/ /\ CacheHas(keyCache, j.name)
     /\ keyCache' = CacheTouch(keyCache, j.name)
     /\ job' = [job EXCEPT ![w] = [j EXCEPT !.at = "alphabet", !.info = CacheInfo(keyCache, j.name)]]
  \/ /\ ~CacheHas(keyCache, j.name)
     /\ job' = [job EXCEPT ![w] = j]
     /\ UNCHANGED keyCache

FPEEncrypt(w, n, t) ==
  /\ job[w].at \in {"idle", "done"}
  /\ Lookup(w, [NoJob EXCEPT !.at = "fetch", !.name = n, !.trans = t])
  /\ UNCHANGED <<customTransformations, tokens, vars, lives>>

FPEDecrypt(w, k) ==
  /\ job[w].at \in {"idle", "done"}
  /\ Lookup(w, [NoJob EXCEPT !.at = "fetch", !.name = k.name, !.trans = k.trans, !.token = {k}])
  /\ UNCHANGED <<customTransformations, tokens, vars, lives>>

(* The vault accepts the request for the latest version ... *)
Fetch(w) ==
  /\ job[w].at = "fetch"
  /\ GetEncryptionKeyCall(w, job[w].name, 0)
  /\ job' = [job EXCEPT ![w].at = "reply"]
  /\ UNCHANGED <<keyCache, customTransformations, tokens, lives>>

(* ... or refuses it, or cannot be reached, or died meanwhile.             *)
FetchFails(w) ==
  /\ \/ job[w].at = "fetch"
     \/ job[w].at = "reply" /\ call[w] = Idle
  /\ job' = [job EXCEPT ![w] = NoJob]
  /\ UNCHANGED <<keyCache, customTransformations, tokens, vars, lives>>

Deliver(w) ==
  /\ job[w].at = "reply"
  /\ GetEncryptionKeyMarshal(w)
  /\ job' = [job EXCEPT ![w].at = "add",
                        ![w].info =
                          [version |-> call[w].version, key |-> call[w].key, life |-> lives]]
  /\ UNCHANGED <<keyCache, customTransformations, tokens, lives>>

(* getKey, last part. *)
Store(w) ==
  /\ job[w].at = "add"
  /\ keyCache' = CacheAdd(keyCache, job[w].name, job[w].info, CacheSize)
  /\ job' = [job EXCEPT ![w].at = "alphabet"]
  /\ UNCHANGED <<customTransformations, tokens, vars, lives>>

(* The rest of a request: the alphabet and FF1.  It fails when the         *)
(* transformation is not there ...                                         *)
NotFound(w) == getAlphabet(job[w].trans) = {} /\ job' = [job EXCEPT ![w] = NoJob] /\ UNCHANGED tokens

(* ... when the value is too short, has a character that is not in the     *)
(* alphabet or one that is no numeral; otherwise there is a token.         *)
Encrypted(w, a) ==
  LET j == job[w] IN
  /\ j.token = {}
  /\ \/ job' = [job EXCEPT ![w] = NoJob] /\ UNCHANGED tokens
     \/ \E legible \in Legible(a) :
          /\ tokens' = tokens \cup {[name |-> j.name, trans |-> j.trans, alphabet |-> a,
               version |-> j.info.version, key |-> j.info.key, life |-> j.info.life,
               legible |-> legible]}
          /\ Cardinality(tokens') <= MaxTokens
          /\ job' = [job EXCEPT ![w].at = "done"]

(* A token that is not in the letters of the alphabet is refused.  One     *)
(* that is gives its plaintext back under its key and alphabet, or, when   *)
(* the alphabet is a custom one, perhaps that in small letters.  For       *)
(* another alphabet a token is anything.                                   *)
Decrypted(w, a) ==
  LET j == job[w]
      Same(k) == k.key = j.info.key /\ k.alphabet = a IN
  /\ UNCHANGED tokens
  /\ \E k \in j.token :
       \/ /\ k.alphabet = a => ~k.legible
          /\ job' = [job EXCEPT ![w] = NoJob]
       \/ /\ k.alphabet = a => k.legible
          /\ \E right \in IF a \in BuiltIn THEN {Same(k)} ELSE {Same(k), FALSE} :
               job' = [job EXCEPT ![w].at = "done", ![w].opened = right]

Transform(w) ==
  /\ job[w].at = "alphabet"
  /\ NotFound(w) \/ \E a \in getAlphabet(job[w].trans) : Encrypted(w, a) \/ Decrypted(w, a)
  /\ UNCHANGED <<keyCache, customTransformations, vars, lives>>

(* Create stores over an existing custom transformation. *)
CreateTransformation(t, a) ==
  /\ customTransformations' = [customTransformations EXCEPT ![t] = {a}]
  /\ UNCHANGED <<keyCache, tokens, job, vars, lives>>

DeleteTransformation(t) ==
  /\ customTransformations[t] # {}
  /\ customTransformations' = [customTransformations EXCEPT ![t] = {}]
  /\ UNCHANGED <<keyCache, tokens, job, vars, lives>>

(* The tokenize process restarts; clients keep their tokens. *)
TokenizeCrash ==
  /\ keyCache' = <<>>
  /\ customTransformations' = [t \in Custom |-> {}]
  /\ job' = [w \in Workers |-> NoJob]
  /\ call' = [c \in Callers |-> IF c \in Workers THEN Idle ELSE call[c]]
  /\ UNCHANGED <<resp, lockVars, tokens, lives>>

VaultCrash ==
  /\ lives < MaxLives
  /\ ProcessCrash
  /\ lives' = lives + 1
  /\ UNCHANGED tokenizeVars

VaultStep == Operation(Callers \ Workers) /\ UNCHANGED <<tokenizeVars, lives>>

TokenizeNext ==
  \/ \E w \in Workers :
       \/ \E n \in Names, t \in Transformations : FPEEncrypt(w, n, t)
       \/ \E k \in tokens : FPEDecrypt(w, k)
       \/ Fetch(w) \/ FetchFails(w) \/ Deliver(w) \/ Store(w) \/ Transform(w)
  \/ \E t \in Custom : DeleteTransformation(t) \/ \E a \in Alphabets : CreateTransformation(t, a)
  \/ TokenizeCrash
  \/ VaultCrash
  \/ VaultStep

TokenizeSpec == TokenizeInit /\ [][TokenizeNext]_allVars
-----------------------------------------------------------------------------
(* Within a life of the vault the key version tells a right answer from a  *)
(* wrong one.  FPEDecrypt has no integrity check: it refuses a token or    *)
(* answers something.  When it answers with the version that FPEEncrypt    *)
(* reported, both keys coming from the same life of the vault, and the     *)
(* transformation is a built-in one, the answer is the plaintext (key      *)
(* bytes caught by a Seal aside).  A key cached before the vault restarted *)
(* is of its earlier life.                                                 *)
SameVersionOpens ==
  \A w \in Workers, k \in tokens :
    /\ job[w].at = "done" /\ job[w].token = {k} /\ k.trans \in BuiltIn
    /\ job[w].info.version = k.version /\ job[w].info.life = k.life
    /\ {k.key, job[w].info.key} \cap {Zeroed, Torn} = {}
    => job[w].opened
==============================================================================
