--------------------------- MODULE MCCryptoService ---------------------------
(* Small instances of the crypto service over the vault. *)
EXTENDS CryptoService, TLC

(* A name without ":" (no name is the cache key of another one). *)
PlainNames == {<<"a">>}

(* Workers are alike. *)
WorkerSymmetry == Permutations(Workers)
==============================================================================
