-------------------------- MODULE MCTokenizeService --------------------------
(* A small instance of the tokenize service over the vault.  Masking uses  *)
(* none of its state but ends the process with it when it panics: it is    *)
(* exercised on a service of its own.  A behaviour is one of the two.      *)
EXTENDS Masking, TLC

VARIABLE part

MCInit == part \in {"tokens", "masking"} /\ MaskInit

MCNext ==
  /\ \/ part = "tokens" /\ TokenizeNext /\ UNCHANGED masked
     \/ part = "masking" /\ MaskNext
  /\ UNCHANGED part

MCSpec == MCInit /\ [][MCNext]_<<allVars, masked, part>>

(* Values whose bytes are all different. *)
ShortValues == {[i \in 1..n |-> i] : n \in 0..4}

(* Lengths on both sides of the values' lengths. *)
AroundLengths == -2..5

(* Workers are alike. *)
WorkerSymmetry == Permutations(Workers)
==============================================================================
