------------------------------- MODULE Venue -------------------------------
(***************************************************************************)
(* The exchange, as the code in internal/book uses it: for every symbol a  *)
(* history of order books, one per update id.  A depth delta and a depth   *)
(* snapshot say something about that history, so the contents of both are  *)
(* determined by the ids they carry, and a message of the model is only    *)
(* its ids.                                                                *)
(*                                                                         *)
(* A quantity of zero is an absent level, so a side of a book is a total   *)
(* function from prices to quantities.                                     *)
(***************************************************************************)
EXTENDS Integers, FiniteSets

CONSTANTS
    Symbols,    \* the normalised symbols of the deployment
    MaxId,      \* bound: the last update id of the history
    MaxPrice,   \* bound: the highest price, as a fixed-point integer
    MaxQty,     \* bound: the largest quantity
    Limits,     \* the depth limits a snapshot may be requested with
    History     \* History[sym][id]: the venue's book of sym after update id

Ids    == 0 .. MaxId
Prices == 1 .. MaxPrice
Qtys   == 0 .. MaxQty
Sides  == {"bid", "ask"}
Books  == [Sides -> [Prices -> Qtys]]

ASSUME VenueAssumption ==
    /\ MaxId \in Nat
    /\ MaxPrice \in Nat
    /\ MaxQty \in Nat
    /\ Limits \subseteq Nat \ {0}
    /\ History \in [Symbols -> [Ids -> Books]]

\* No exchange publishes a crossed book (internal/book/book.go, Crossed).
ASSUME VenueNeverCrossed ==
    \A sym \in Symbols, id \in Ids : \A b, a \in Prices :
        (History[sym][id]["bid"][b] > 0 /\ History[sym][id]["ask"][a] > 0)
            => b < a

-----------------------------------------------------------------------------
(***************************************************************************)
(* Messages.  `valid' is what Book.Apply and Book.Reset check: FALSE is a  *)
(* message carrying a level they refuse (price <= 0, negative quantity, or *)
(* in a snapshot one price twice).  A delta may be malformed: nothing      *)
(* says that first <= last.                                                *)
(***************************************************************************)
Deltas ==
    [symbol: Symbols, first: 1 .. MaxId, last: 1 .. MaxId, valid: BOOLEAN]

Snapshots ==
    [symbol: Symbols, last: 1 .. MaxId, limit: Limits, valid: BOOLEAN]

\* The delta d names price p of a side when that level changed anywhere in
\* the range of ids d covers; the quantity it gives is the absolute one at
\* d.last, as in the Binance depth stream.
Touched(d, side, p) ==
    \E i \in (d.first - 1) .. (d.last - 1) :
        History[d.symbol][i][side][p] # History[d.symbol][d.last][side][p]

\* Bids are best at the highest price, asks at the lowest.
Nearer(side, p, q) == IF side = "bid" THEN p > q ELSE p < q

\* A depth request returns the `limit' levels nearest the top of each side.
SnapQty(s, side, p) ==
    LET full   == History[s.symbol][s.last][side]
        better == {q \in Prices : full[q] > 0 /\ Nearer(side, q, p)}
    IN  IF Cardinality(better) < s.limit THEN full[p] ELSE 0

SnapPrices(s, side) == {p \in Prices : SnapQty(s, side, p) > 0}

\* A side filled to the limit is the only evidence that there was more.
Truncated(s) == \E side \in Sides : Cardinality(SnapPrices(s, side)) >= s.limit
=============================================================================
