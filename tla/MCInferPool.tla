----------------------------- MODULE MCInferPool -----------------------------
(* InferPool on two workers and short queues. *)
EXTENDS InferPool
=============================================================================
