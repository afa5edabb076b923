-------------------------------- MODULE Book --------------------------------
(***************************************************************************)
(* internal/book/book.go and compare.go: the container of one symbol's     *)
(* levels, the edges of what it knows, and its comparison with a snapshot. *)
(* The sorted slices of the code are abstracted to functions from price to *)
(* quantity.                                                               *)
(***************************************************************************)
EXTENDS Venue

EmptyBook == [side \in Sides |-> [p \in Prices |-> 0]]

\* Mutant: a zero quantity does not remove the level.
ApplyNeverRemoves(book, d) ==
    [side \in Sides |-> [p \in Prices |->
        IF Touched(d, side, p) /\ History[d.symbol][d.last][side][p] > 0
        THEN History[d.symbol][d.last][side][p] ELSE book[side][p]]]

\* Book.Apply of a delta whose levels validate: every level named gets the
\* delta's absolute quantity, a zero quantity removing it.
ApplyLevels(book, d) ==
    [side \in Sides |-> [p \in Prices |->
        IF Touched(d, side, p) THEN History[d.symbol][d.last][side][p]
                               ELSE book[side][p]]]

\* Book.Reset to the levels of a snapshot that validates.
ResetLevels(s) ==
    [side \in Sides |-> [p \in Prices |-> SnapQty(s, side, p)]]

Held(book, side) == {p \in Prices : book[side][p] > 0}

\* The first and the last level of a side in its own order.
Top(side, ps)     == CHOOSE p \in ps : \A q \in ps : ~Nearer(side, q, p)
Deepest(side, ps) == CHOOSE p \in ps : \A q \in ps : ~Nearer(side, p, q)

\* Book.Crossed
Crossed(book) ==
    /\ Held(book, "bid") # {}
    /\ Held(book, "ask") # {}
    /\ Top("bid", Held(book, "bid")) >= Top("ask", Held(book, "ask"))

-----------------------------------------------------------------------------
(***************************************************************************)
(* What a book knows.  A bound is the last price known on a side, and zero *)
(* when the whole side is known: bidFloor and askCeil in the code.         *)
(***************************************************************************)
Bounds == [Sides -> 0 .. MaxPrice]

NoBounds == [side \in Sides |-> 0]

\* Tracker.setBounds
BoundsOf(s) ==
    [side \in Sides |->
        IF Truncated(s) /\ SnapPrices(s, side) # {}
        THEN Deepest(side, SnapPrices(s, side)) ELSE 0]

Covers(bound, side, p) == bound = 0 \/ p = bound \/ Nearer(side, p, bound)

\* Mutant: the depth of the snapshot compared with is ignored.
ShallowerIsOwn(side, x, y) == x

\* The shallower of two bounds of a side.
Shallower(side, x, y) ==
    IF y # 0 /\ (x = 0 \/ Nearer(side, y, x)) THEN y ELSE x

\* compareSide: the prices at which one side of a book with the given bounds
\* differs from snapshot s, in the range both claim to know.
CompareSide(book, bounds, s, side) ==
    LET bound == Shallower(side, bounds[side], BoundsOf(s)[side])
    IN  {p \in Prices : Covers(bound, side, p)
                          /\ book[side][p] # SnapQty(s, side, p)}

\* Tracker.Compare, Diff.OK
Agrees(book, bounds, s) ==
    \A side \in Sides : CompareSide(book, bounds, s, side) = {}
=============================================================================
