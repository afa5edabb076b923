---------------------------- MODULE MCPublisher ----------------------------
(***************************************************************************)
(* Module Publisher with two subscribers and more events than the channels *)
(* hold.  The subscribers are registered in an order, so they are not      *)
(* symmetric.                                                              *)
(***************************************************************************)
EXTENDS Publisher
=============================================================================
