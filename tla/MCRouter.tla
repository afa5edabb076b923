------------------------------ MODULE MCRouter ------------------------------
(***************************************************************************)
(* Small venues for module Router.  The symbols' histories differ, so that *)
(* a book built from another symbol's messages is told apart.              *)
(***************************************************************************)
EXTENDS Router

\* Two bids and one ask; the lower bid lies past a snapshot of one level
\* while the higher one is there.
MCHistory ==
    [sym \in Symbols |-> [id \in Ids |->
        [side \in Sides |-> [p \in Prices |->
            IF side = "bid"
            THEN IF p = 1 THEN 1 + (((id + 1) \div 2) % 2)
                 ELSE IF p = 2 /\ sym = "BTC" THEN id % 2 ELSE 0
            ELSE IF p = 3 THEN 1 + ((id + 1) % 2) ELSE 0]]]]

OneShard == [sym \in Symbols |-> CHOOSE sh \in Shards : TRUE]
=============================================================================
