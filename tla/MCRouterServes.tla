--------------------------- MODULE MCRouterServes ---------------------------
(***************************************************************************)
(* The venue of MCRouter for module RouterServes.                          *)
(***************************************************************************)
EXTENDS MCRouter, RouterServes
=============================================================================
