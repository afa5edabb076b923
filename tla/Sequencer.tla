----------------------------- MODULE Sequencer -----------------------------
(***************************************************************************)
(* internal/book/sequence.go: the position of one book in the venue's id   *)
(* space, and the class of a delta relative to it.  A position is          *)
(* [last, synced]; the operators return the class and the next position.   *)
(***************************************************************************)
EXTENDS Venue

Positions == [last: Ids, synced: BOOLEAN]

\* The zero Sequencer: nothing to sequence against.
Unanchored == [last |-> 0, synced |-> FALSE]

\* Sequencer.Reset
ResetAt(id) == [last |-> id, synced |-> TRUE]

\* Mutant: a resync that is never asked for.
InvalidateNothing(pos) == pos

\* Sequencer.Invalidate
Invalidate(pos) == [pos EXCEPT !.synced = FALSE]

\* Mutant: a gap of one update passes.
ClassifyOffByOne(pos, d) ==
    IF ~pos.synced THEN "gapped"
    ELSE IF d.last <= pos.last THEN "stale"
    ELSE IF d.first <= pos.last + 2 THEN "contiguous"
    ELSE "gapped"

\* The class Sequencer.Next returns.
Classify(pos, d) ==
    IF ~pos.synced THEN "gapped"
    ELSE IF d.last <= pos.last THEN "stale"
    ELSE IF d.first <= pos.last + 1 THEN "contiguous"
    ELSE "gapped"

\* The position Sequencer.Next leaves behind.
Advance(pos, d) ==
    CASE Classify(pos, d) = "contiguous" -> [pos EXCEPT !.last = d.last]
      [] Classify(pos, d) = "gapped"     -> Invalidate(pos)
      [] OTHER                           -> pos
=============================================================================
