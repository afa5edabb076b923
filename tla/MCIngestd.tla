----------------------------- MODULE MCIngestd -----------------------------
(***************************************************************************)
(* ingestd with queues of one place, so that every one of them fills, and  *)
(* a backoff of three doublings that reaches its cap with jitter.          *)
(***************************************************************************)
EXTENDS Ingestd
=============================================================================
