----------------------------- MODULE MCTracker -----------------------------
(***************************************************************************)
(* A venue of five books for module Tracker: levels appear, change, and    *)
(* disappear on both sides, and both sides are deeper than the snapshot    *)
(* limits.                                                                 *)
(***************************************************************************)
EXTENDS Tracker

MCSymbols == {"BTC", "ETH"}

\* bid prices grow towards the top, ask prices away from it
MCBook(b1, b2, b3, a3, a4, a5) ==
    [side \in Sides |->
        IF side = "bid" THEN <<b1, b2, b3, 0, 0>> ELSE <<0, 0, a3, a4, a5>>]

MCHistory ==
    [sym \in MCSymbols |-> [id \in 0 .. 4 |->
        CASE id = 0 -> MCBook(1, 0, 0, 0, 0, 1)
          [] id = 1 -> MCBook(1, 2, 0, 0, 1, 1)
          [] id = 2 -> MCBook(2, 0, 1, 0, 1, 2)
          [] id = 3 -> MCBook(2, 1, 0, 1, 2, 0)
          [] id = 4 -> IF sym = "BTC" THEN MCBook(0, 1, 0, 1, 0, 1)
                                      ELSE MCBook(0, 0, 2, 0, 0, 0)]]
=============================================================================
