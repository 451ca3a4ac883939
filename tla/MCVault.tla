------------------------------ MODULE MCVault ------------------------------
(* A small instance of the vault.  The lock service calls some of the      *)
(* keyring's operations only; the others (deletion, configuration, ciphers *)
(* and the JSON image) are exercised on a keyring of its own.  A behaviour *)
(* is one of the two, the part; they differ in the key versions drawn.     *)
EXTENDS LockHandler

CONSTANT MaxVaultDraws   \* bound: key versions generated behind the handlers

(* Counts a request may carry, negative ones included. *)
SomeShareCounts == {-1, 0, 2}
SomeThresholds == {-1, 0, 2}

VARIABLE part

VaultInit == part \in {"keyring", "handlers"} /\ Init

VaultNext ==
  /\ \/ part = "keyring" /\ KeyringNext /\ UNCHANGED <<sealVars, secrets, handlerVars>>
     \/ part = "handlers" /\ Next /\ draws' <= MaxVaultDraws
  /\ UNCHANGED part

VaultSpec == VaultInit /\ [][VaultNext]_<<vars, part>>
==============================================================================
