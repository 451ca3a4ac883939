----------------------------- MODULE LockHandler -----------------------------
(***************************************************************************)
(* services/lock/internal/handler: concurrent gRPC calls on one vault.     *)
(*                                                                         *)
(* A handler that enters the service once, and uses only copies of what it *)
(* got, is one step.  The others hold no lock between their steps:         *)
(*   - Seal and Unseal read the seal status in a second critical section;  *)
(*   - GetEncryptionKey answers with the keyring's own byte slice, which   *)
(*     gRPC marshals after the handler returned;                           *)
(*   - GetKeyVersions keeps the keyring's *KeyPolicy and reads its         *)
(*     LatestVersion to size the answer and again on every round.          *)
(* Keyring.Seal overwrites key bytes in place: a slice being marshalled    *)
(* meanwhile is read as zeros or torn, either is possible.                 *)
(***************************************************************************)
EXTENDS LockService

CONSTANT Callers      \* the calls in progress at a time

VARIABLES
  call,               \* call[c]: the handler c is in, and its locals
  resp                \* resp[c]: the last answer c got

handlerVars == <<call, resp>>
vars == <<lockVars, handlerVars>>

Zeroed == 0           \* a key slice that Seal has overwritten

Torn == MaxDraws + 1  \* one read while Seal was overwriting it: no draw

Idle == [at |-> "idle"]

NoResp == [op |-> "none"]

Call ==
  {Idle} \cup [at : {"sealStatus"}]
         \cup [at : {"unsealStatus"}, unsealed : BOOLEAN, progress : Int]
         \cup [at : {"marshal"}, name : Names, version : Nat, key : Nat]
         \cup [at : {"make"}, name : Names, latest : Nat]
         \cup [at : {"loop"}, name : Names, latest : Nat, made : Nat]

Resp ==
  {NoResp} \cup [op : {"seal"}, sealed : BOOLEAN, progress : Nat]
           \cup [op : {"unseal"}, sealed : BOOLEAN, threshold : Int, progress : Int]
           \cup [op : {"key"}, name : Names, version : Nat, key : Nat]
           \cup [op : {"versions"}, made : Nat, latest : Nat]
           \cup [op : {"secret"}, path : Paths, version : Nat, data : Data]

HandlerTypeOK ==
  /\ LockTypeOK
  /\ call \in [Callers -> Call]
  /\ resp \in [Callers -> Resp]

Init ==
  /\ LockInit
  /\ call = [c \in Callers |-> Idle]
  /\ resp = [c \in Callers |-> NoResp]

(* c enters the handler and stops at r; it leaves it with the answer a.    *)
Enter(c, r) == call' = [call EXCEPT ![c] = r] /\ UNCHANGED resp

Answer(c, a) == call' = [call EXCEPT ![c] = Idle] /\ resp' = [resp EXCEPT ![c] = a]

(* The process ends: every call fails, and answers speak of another life.  *)
ProcessCrash ==
  /\ Crash
  /\ call' = [c \in Callers |-> Idle]
  /\ resp' = [c \in Callers |-> NoResp]
-----------------------------------------------------------------------------
InitializeVault(n, t) == Initialize(n, t) /\ UNCHANGED handlerVars

InitializeVaultPanics(n) == InitializePanics(n) /\ ProcessCrash

UnsealCall(c, share) ==
  /\ call[c] = Idle
  /\ Unseal(share)
  /\ \/ /\ initialized' /\ unsealKeys' # <<>>
        /\ Enter(c, [at |-> "unsealStatus", unsealed |-> FALSE, progress |-> Len(unsealKeys')])
     \/ /\ initialized' /\ ~sealed'
        /\ Enter(c, [at |-> "unsealStatus", unsealed |-> TRUE, progress |-> threshold])
     \/ /\ initialized' /\ sealed' /\ unsealKeys' = <<>>   \* ErrInvalidKey
        /\ Answer(c, NoResp)
     \/ /\ ~initialized'                                  \* panic
        /\ call' = [d \in Callers |-> Idle]
        /\ resp' = [d \in Callers |-> NoResp]

(* Unseal of an unsealed vault is answered at once. *)
UnsealUnsealed(c) ==
  /\ call[c] = Idle
  /\ initialized /\ ~sealed
  /\ Enter(c, [at |-> "unsealStatus", unsealed |-> TRUE, progress |-> threshold])
  /\ UNCHANGED lockVars

UnsealRespond(c) ==
  /\ call[c].at = "unsealStatus"
  /\ Answer(c, [op |-> "unseal", sealed |-> ~call[c].unsealed,
                threshold |-> threshold, progress |-> call[c].progress])
  /\ UNCHANGED lockVars

(* What becomes of the calls that hold pointers into the keyring when it   *)
(* is sealed: key bytes are lost, a policy keeps the version it last had.  *)
AfterSeal(c, torn) ==
  CASE call[c].at = "marshal" ->
         [call[c] EXCEPT !.key = IF @ \in {Zeroed, Torn} THEN @
                                 ELSE IF c \in torn THEN Torn ELSE Zeroed]
    [] call[c].at \in {"make", "loop"} /\ HasPolicy(call[c].name) ->
         [call[c] EXCEPT !.latest = LatestVersion(call[c].name)]
    [] OTHER -> call[c]

SealCall(c) ==
  /\ call[c] = Idle
  /\ Seal
  /\ \E torn \in SUBSET {d \in Callers : call[d].at = "marshal"} :
       call' = [d \in Callers |-> IF d = c THEN [at |-> "sealStatus"] ELSE AfterSeal(d, torn)]
  /\ UNCHANGED resp

SealRespond(c) ==
  /\ call[c].at = "sealStatus"
  /\ Answer(c, [op |-> "seal", sealed |-> sealed, progress |-> Len(unsealKeys)])
  /\ UNCHANGED lockVars

GetSecret(c, p) ==
  /\ call[c] = Idle
  /\ CanGetSecret(p)
  /\ Answer(c, [op |-> "secret", path |-> p,
                version |-> secrets[p].version, data |-> secrets[p].data])
  /\ UNCHANGED lockVars

(* The handler passes path and data on, and nothing else ("cas" is not     *)
(* looked at), and answers with the version.                               *)
PutSecretCall(c, p, d) ==
  /\ call[c] = Idle
  /\ PutSecret(p, d)
  /\ Answer(c, [op |-> "secret", path |-> p, version |-> secrets'[p].version, data |-> d])

(* All versions are gone, and the next put starts over with version 1:     *)
(* what clients know of the path speaks of the secret that was deleted.    *)
DeleteSecretCall(c, p) ==
  /\ call[c] = Idle
  /\ DeleteSecret(p)
  /\ resp' = [d \in Callers |-> IF resp[d].op = "secret" /\ resp[d].path = p THEN NoResp ELSE resp[d]]
  /\ UNCHANGED call
-----------------------------------------------------------------------------
CreateKeyCall(n) == CreateKey(n) /\ UNCHANGED handlerVars

RotateKeyCall(n) == RotateKey(n) /\ UNCHANGED handlerVars

GetEncryptionKeyCall(c, n, v) ==
  /\ call[c] = Idle
  /\ CanGetEncryptionKey(n, v)
  /\ LET k == GetKeyVersion(n, v)
     IN  Enter(c, [at |-> "marshal", name |-> n, version |-> k.version, key |-> k.key])
  /\ UNCHANGED lockVars

GetEncryptionKeyMarshal(c) ==
  /\ call[c].at = "marshal"
  /\ Answer(c, [op |-> "key", name |-> call[c].name,
                version |-> call[c].version, key |-> call[c].key])
  /\ UNCHANGED lockVars

(* The LatestVersion that a held *KeyPolicy shows now. *)
HeldLatest(c) ==
  IF HasPolicy(call[c].name) THEN LatestVersion(call[c].name) ELSE call[c].latest

GetKeyVersionsCall(c, n) ==
  /\ call[c] = Idle
  /\ CanGetKey(n)
  /\ Enter(c, [at |-> "make", name |-> n, latest |-> LatestVersion(n)])
  /\ UNCHANGED lockVars

GetKeyVersionsMake(c) ==
  /\ call[c].at = "make"
  /\ Enter(c, [at |-> "loop", name |-> call[c].name, latest |-> HeldLatest(c),
               made |-> HeldLatest(c)])
  /\ UNCHANGED lockVars

(* The loop runs to HeldLatest over a slice of length made: an index past  *)
(* its end panics, and no interceptor recovers.                            *)
GetKeyVersionsLoop(c) ==
  /\ call[c].at = "loop"
  /\ \/ /\ HeldLatest(c) <= call[c].made
        /\ Answer(c, [op |-> "versions", made |-> call[c].made, latest |-> HeldLatest(c)])
        /\ UNCHANGED lockVars
     \/ /\ HeldLatest(c) > call[c].made
        /\ ProcessCrash
-----------------------------------------------------------------------------
Next ==
  \/ \E n \in ShareCounts : InitializeVaultPanics(n) \/ \E t \in Thresholds : InitializeVault(n, t)
  \/ \E n \in Names : CreateKeyCall(n) \/ RotateKeyCall(n)
  \/ \E c \in Callers :
       \/ \E share \in Share : UnsealCall(c, share)
       \/ UnsealUnsealed(c) \/ UnsealRespond(c)
       \/ SealCall(c) \/ SealRespond(c)
       \/ \E p \in Paths : GetSecret(c, p) \/ DeleteSecretCall(c, p)
       \/ \E p \in Paths, d \in Data : PutSecretCall(c, p, d)
       \/ \E n \in Names, v \in 0..MaxDraws : GetEncryptionKeyCall(c, n, v)
       \/ GetEncryptionKeyMarshal(c)
       \/ \E n \in Names : GetKeyVersionsCall(c, n)
       \/ GetKeyVersionsMake(c) \/ GetKeyVersionsLoop(c)
  \/ ProcessCrash

Spec == Init /\ [][Next]_vars

(* What goes on in one life of the vault beside its clients'               *)
(* GetEncryptionKey calls.  Unsealing is left out: the keyring stays       *)
(* sealed after it, so the vault gives out and creates no key until it     *)
(* restarts.                                                               *)
Operation(operators) ==
  \/ \E n \in ShareCounts, t \in Thresholds : InitializeVault(n, t)
  \/ \E n \in Names : CreateKeyCall(n) \/ RotateKeyCall(n)
  \/ \E c \in operators : SealCall(c) \/ SealRespond(c)
-----------------------------------------------------------------------------
(* Every key handed out in the life of this process is, as long as its     *)
(* keyring has not been sealed, still the material of that name and        *)
(* version; a slice of zeros or a torn one goes out only because of a      *)
(* Seal.  GetEncryptionKey releases both locks before gRPC marshals the    *)
(* slice, so rotations and a Seal fall between the two.                    *)
HandedOut(k) ==
  IF krSealed THEN k.key \in 0..draws \cup {Torn}
  ELSE /\ k.version \in 1..LatestVersion(k.name)
       /\ k.key = policies[k.name].keys[k.version]

KeyDelivered ==
  \A c \in Callers :
    /\ call[c].at = "marshal" => HandedOut(call[c])
    /\ resp[c].op = "key" => HandedOut(resp[c])

(* An answer put together from two critical sections still agrees with     *)
(* itself.  Unseal: a vault reported sealed lacks shares, one reported     *)
(* unsealed shows full progress, whatever seals and shares came between.   *)
(* GetKeyVersions: the slice, made from one read of LatestVersion, is      *)
(* filled to its end by a loop that reads it again on every round.         *)
AnswersAgree ==
  \A c \in Callers :
    /\ resp[c].op = "unseal" =>
         IF resp[c].sealed THEN resp[c].progress < resp[c].threshold
                           ELSE resp[c].progress = resp[c].threshold
    /\ resp[c].op = "versions" => resp[c].made = resp[c].latest

(* Until its path is deleted, a version that a client wrote or read stands *)
(* for the same contents: concurrent puts never get the same number,       *)
(* because PutSecret reads and replaces the version in one critical        *)
(* section.                                                                *)
VersionNamesContents ==
  \A c \in Callers :
    resp[c].op = "secret" =>
      /\ resp[c].version <= secrets[resp[c].path].version
      /\ secrets[resp[c].path].version = resp[c].version =>
           secrets[resp[c].path].data = resp[c].data
==============================================================================
