------------------------------ MODULE MCReplay ------------------------------
(***************************************************************************)
(* Small recordings for module Replay.  Every level of a side changes, and *)
(* snapshots hold one level per side, so books anchored on different       *)
(* snapshots differ.                                                       *)
(***************************************************************************)
EXTENDS Replay

MCHistory ==
    [sym \in Symbols |-> [id \in Ids |->
        [side \in Sides |-> [p \in Prices |->
            IF side = "bid"
            THEN IF p = 1 THEN 1 + (((id + 1) \div 2) % 2)
                 ELSE IF p = 2 /\ sym = "BTC" THEN id % 2 ELSE 0
            ELSE IF p = 3 THEN 1 + ((id + 1) % 2) ELSE 0]]]]

OneShard  == [sym \in Symbols |-> CHOOSE sh \in Shards : TRUE]
TwoShards == [sym \in Symbols |-> IF sym = "BTC" THEN "s1" ELSE "s2"]

Meta == [kind |-> "meta"]
Drop == [kind |-> "drop"]
Bad  == [kind |-> "corrupt"]
Frame(ev) == [kind |-> "frame", body |-> ev]
D(sym, a, b) ==
    Frame([kind |-> "delta",
           body |-> [symbol |-> sym, first |-> a, last |-> b, valid |-> TRUE]])
Refused(sym, a, b) ==
    Frame([kind |-> "delta",
           body |-> [symbol |-> sym, first |-> a, last |-> b, valid |-> FALSE]])
Trade(sym)  == Frame([kind |-> "trade", body |-> [symbol |-> sym]])
Undecodable == Frame([kind |-> "undecodable"])
S(sym, id) ==
    [kind |-> "snapshot",
     body |-> [symbol |-> sym, last |-> id, limit |-> 1, valid |-> TRUE]]

\* A gap repaired by a second snapshot beside a clean symbol; a gap that is
\* not, and a frame that does not decode; a first snapshot that is too old and
\* a delta that is refused; two recordings that cannot be opened.
MCRecordings ==
    { <<Meta, D("BTC", 1, 1), S("BTC", 1), D("ETH", 1, 1), S("ETH", 2),
        D("BTC", 3, 3), Drop, Meta, D("ETH", 2, 3), S("BTC", 3), D("BTC", 4, 4)>>,
      <<Meta, Undecodable, D("BTC", 1, 2), S("BTC", 2), Trade("BTC"), D("BTC", 4, 4),
        D("ETH", 1, 1)>>,
      <<Meta, S("BTC", 1), D("BTC", 3, 3), S("BTC", 3), Refused("BTC", 4, 4),
        D("BTC", 5, 5), S("BTC", 4)>>,
      <<Meta, D("BTC", 1, 1), Bad>>,
      <<D("BTC", 1, 1)>> }

\* A snapshot taken after the first delta, and three deltas behind it.
OneSnapshot ==
    { <<Meta, D("BTC", 1, 1), S("BTC", 1), D("BTC", 2, 2), D("BTC", 3, 3)>> }
=============================================================================
