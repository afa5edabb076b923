--------------------------- MODULE MCTrackerFeed ---------------------------
(***************************************************************************)
(* TrackerFeed on one symbol and one book price per side: the properties   *)
(* of this module are about positions, so the levels are kept minimal and  *)
(* the id space and the buffer are larger than in MCTracker.               *)
(***************************************************************************)
EXTENDS TrackerFeed

MCHistory ==
    [sym \in Symbols |-> [id \in Ids |->
        [side \in Sides |->
            [p \in Prices |-> IF side = "bid" /\ p = 1 THEN id % 2
                              ELSE IF side = "ask" /\ p = 2 THEN 1 ELSE 0]]]]
=============================================================================
