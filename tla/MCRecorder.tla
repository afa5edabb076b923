----------------------------- MODULE MCRecorder -----------------------------
(***************************************************************************)
(* Module Recorder on small queues and a few hours.  The frames alone come *)
(* in the order of their stamps; with the snapshots of a fetch goroutine   *)
(* they may cross.                                                         *)
(***************************************************************************)
EXTENDS Recorder
=============================================================================
