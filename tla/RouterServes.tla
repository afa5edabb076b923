---------------------------- MODULE RouterServes ----------------------------
(***************************************************************************)
(* The book stage as the readers of one symbol see it: the book of a       *)
(* symbol behind its shard, with the queue, the requests and the shutdown  *)
(* around it, is the abstract book of module ServedBook.                   *)
(***************************************************************************)
EXTENDS Router

CONSTANT Watched   \* the symbol looked at

ASSUME WatchedAssumption == Watched \in Symbols

VARIABLE peak      \* history: the newest position at which it was served

\* The shard of sym is in the replay of Load for it.
Replaying(sym) ==
    loop[ShardOf[sym]].pc = "replay" /\ loop[ShardOf[sym]].symbol = sym

\* A book is served while it is live and no Load of it is running.
Serving == Tracked(Watched) /\ Live(trk[Watched]) /\ ~Replaying(Watched)

ServesInit == Init /\ peak = 0

ServesNext ==
    /\ Next
    /\ peak' = IF Serving' THEN trk'[Watched].seq.last ELSE peak

ServesSpec == ServesInit /\ [][ServesNext]_<<vars, peak>>

ServesFairSpec == ServesSpec /\ Fairness

-----------------------------------------------------------------------------
ABS == INSTANCE ServedBook WITH
          MaxUpdate <- MaxId,
          pos <- IF Serving THEN trk[Watched].seq.last ELSE -1,
          heard <- handled[Watched]

\* BookView: "Live reports that the book was anchored and current".  A symbol's
\* book implements the abstract book: while it is served it reflects every
\* delta its shard has handled, and it is never at a position behind one that
\* was served before, whichever results, refetches and overflows came between.
RouterServesBook == ABS!Spec
=============================================================================
