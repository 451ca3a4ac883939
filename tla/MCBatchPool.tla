----------------------------- MODULE MCBatchPool -----------------------------
(* A small instance of the batch handlers. *)
EXTENDS BatchPool

AllKinds == {"EncryptBatch", "DecryptBatch", "FPEBatch"}
==============================================================================
