-------------------------- MODULE TrackerOpsProofs --------------------------
(***************************************************************************)
(* Lemmas about the operators of modules Venue, Book and TrackerOps: what  *)
(* a truncated snapshot shows, and that every method of the tracker        *)
(* returns a tracker in bounds whose book, when it is live, is the venue's.*)
(***************************************************************************)
EXTENDS TrackerOps, FiniteSetTheorems, SequenceTheorems, TLAPS

\* A nonempty set of naturals has a least element.
LEMMA LeastExists ==
    ASSUME NEW T \in SUBSET Nat, T # {}
    PROVE  \E x \in T : \A y \in T : x <= y
<1>1. \E x \in T : \A y \in T : ~(<<y, x>> \in OpToRel(<, Nat))
  BY NatLessThanWellFounded, WFMin
<1>2. PICK x \in T : \A y \in T : ~(<<y, x>> \in OpToRel(<, Nat))
  BY <1>1
<1>3. \A y \in T : ~(y < x)
  BY <1>2 DEF OpToRel
<1> QED BY <1>3

\* So has a nonempty set of prices a greatest one, the prices being bounded.
LEMMA GreatestExists ==
    ASSUME NEW ps \in SUBSET Prices, ps # {}
    PROVE  \E x \in ps : \A y \in ps : y <= x
<1> DEFINE T == {MaxPrice - p : p \in ps}
<1>1. T \in SUBSET Nat /\ T # {}
  BY VenueAssumption DEF Prices
<1>2. PICK m \in T : \A y \in T : m <= y
  BY <1>1, LeastExists
<1>3. PICK x \in ps : m = MaxPrice - x
  BY <1>2
<1>4. \A y \in ps : MaxPrice - y \in T
  OBVIOUS
<1> HIDE DEF T
<1>5. ASSUME NEW y \in ps PROVE y <= x
  BY <1>2, <1>3, <1>4, VenueAssumption DEF Prices
<1> QED BY <1>5

\* The first and the last level of a nonempty side are levels of it, and
\* nothing lies above the one or below the other.
LEMMA Extremes ==
    ASSUME NEW side \in Sides, NEW ps \in SUBSET Prices, ps # {}
    PROVE  /\ Top(side, ps) \in ps
           /\ \A q \in ps : ~Nearer(side, q, Top(side, ps))
           /\ Deepest(side, ps) \in ps
           /\ \A q \in ps : ~Nearer(side, Deepest(side, ps), q)
<1>0. ps \subseteq Nat
  BY DEF Prices
<1>1. PICK lo \in ps : \A q \in ps : lo <= q
  BY <1>0, LeastExists
<1>2. PICK up \in ps : \A q \in ps : q <= up
  BY GreatestExists
<1>3. \E p \in ps : \A q \in ps : ~Nearer(side, q, p)
  <2>1. CASE side = "bid"
    BY <1>0, <1>2, <2>1 DEF Nearer
  <2>2. CASE side # "bid"
    BY <1>0, <1>1, <2>2 DEF Nearer
  <2> QED BY <2>1, <2>2
<1>4. \E p \in ps : \A q \in ps : ~Nearer(side, p, q)
  <2>1. CASE side = "bid"
    BY <1>0, <1>1, <2>1 DEF Nearer
  <2>2. CASE side # "bid"
    BY <1>0, <1>2, <2>2 DEF Nearer
  <2> QED BY <2>1, <2>2
<1> QED BY <1>3, <1>4 DEF Top, Deepest

\* The prices, and any set of them, are finite.
LEMMA PricesFinite ==
    ASSUME NEW T \in SUBSET Prices
    PROVE  IsFiniteSet(T) /\ Cardinality(T) \in Nat
<1>1. IsFiniteSet(Prices)
  BY FS_Interval, VenueAssumption DEF Prices
<1>2. IsFiniteSet(T)
  BY <1>1, FS_Subset
<1> QED BY <1>2, FS_CardinalityType

\* A subset of the prices has no more members than the set.
LEMMA CardinalityMonotone ==
    ASSUME NEW S \in SUBSET Prices, NEW T \in SUBSET S
    PROVE  Cardinality(T) <= Cardinality(S)
  BY PricesFinite, FS_Subset

-----------------------------------------------------------------------------
\* What the venue holds at the snapshot's id, and the levels above a price.
Full(s, side) == History[s.symbol][s.last][side]
Above(s, side, p) == {q \in Prices : Full(s, side)[q] > 0 /\ Nearer(side, q, p)}

\* A snapshot shows a level of the venue as it is, or not at all.
LEMMA SnapQtyIs ==
    ASSUME NEW s \in Snapshots, NEW side \in Sides, NEW p \in Prices
    PROVE  SnapQty(s, side, p) =
             IF Cardinality(Above(s, side, p)) < s.limit
             THEN Full(s, side)[p] ELSE 0
  BY DEF SnapQty, Above, Full

\* The venue's book holds a quantity at every price.
LEMMA FullType ==
    ASSUME NEW s \in Snapshots, NEW side \in Sides
    PROVE  Full(s, side) \in [Prices -> Qtys]
  BY VenueAssumption DEF Full, Snapshots, Books, Ids

\* A snapshot holds a quantity at every price.
LEMMA SnapQtyType ==
    ASSUME NEW s \in Snapshots, NEW side \in Sides, NEW p \in Prices
    PROVE  SnapQty(s, side, p) \in Qtys
<1>1. Full(s, side)[p] \in Qtys /\ 0 \in Qtys
  BY FullType, VenueAssumption DEF Qtys
<1> QED BY <1>1, SnapQtyIs

\* A snapshot lacks a level of the venue only where a whole `limit' of levels
\* lies above it, and then it shows a whole `limit' of levels itself.
LEMMA ShortSideIsWhole ==
    ASSUME NEW s \in Snapshots, NEW side \in Sides,
           Cardinality(SnapPrices(s, side)) < s.limit,
           NEW p \in Prices
    PROVE  SnapQty(s, side, p) = Full(s, side)[p]
<1> DEFINE B == {q \in Prices : /\ Full(s, side)[q] > 0
                                /\ ~(Cardinality(Above(s, side, q)) < s.limit)}
<1>0. s.limit \in Nat \ {0}
  BY VenueAssumption DEF Snapshots
<1>1. CASE p \notin B
  <2>1. \/ Cardinality(Above(s, side, p)) < s.limit
        \/ ~(Full(s, side)[p] > 0)
    BY <1>1
  <2>2. Full(s, side)[p] \in Nat
    BY FullType, VenueAssumption DEF Qtys
  <2> QED BY <2>1, <2>2, SnapQtyIs
<1>2. CASE p \in B
  <2>1. PICK q \in B : \A r \in B : ~Nearer(side, r, q)
    BY <1>2, Extremes
  <2>2. Above(s, side, q) \subseteq SnapPrices(s, side)
    <3> SUFFICES ASSUME NEW r \in Above(s, side, q)
                 PROVE  r \in SnapPrices(s, side)
      OBVIOUS
    <3>1. r \in Prices /\ Full(s, side)[r] > 0 /\ r \notin B
      BY <2>1 DEF Above
    <3>2. SnapQty(s, side, r) = Full(s, side)[r]
      BY <3>1, SnapQtyIs
    <3> QED BY <3>1, <3>2 DEF SnapPrices
  <2>3. SnapPrices(s, side) \in SUBSET Prices
    BY DEF SnapPrices
  <2>4. Cardinality(Above(s, side, q)) <= Cardinality(SnapPrices(s, side))
    BY <2>2, <2>3, CardinalityMonotone
  <2>5. Cardinality(Above(s, side, q)) \in Nat
    BY <2>2, <2>3, PricesFinite
  <2>6. Cardinality(SnapPrices(s, side)) \in Nat
    BY <2>3, PricesFinite
  <2> QED BY <2>1, <2>4, <2>5, <2>6, <1>0
<1> QED BY <1>1, <1>2

\* The bounds of a snapshot: inside them it shows the venue's book.
LEMMA SnapshotIsAccurate ==
    ASSUME NEW s \in Snapshots, NEW side \in Sides, NEW p \in Prices,
           Covers(BoundsOf(s)[side], side, p)
    PROVE  SnapQty(s, side, p) = Full(s, side)[p]
<1> DEFINE b == BoundsOf(s)[side]
           ps == SnapPrices(s, side)
<1>0. ps \in SUBSET Prices /\ s.limit \in Nat \ {0}
  BY VenueAssumption DEF SnapPrices, Snapshots
<1>1. b = IF Truncated(s) /\ ps # {} THEN Deepest(side, ps) ELSE 0
  BY DEF BoundsOf
<1>2. CASE Truncated(s) /\ ps # {}
  <2>1. b \in ps
    BY <1>0, <1>1, <1>2, Extremes
  <2>2. b \in Prices /\ b # 0
    BY <1>0, <2>1 DEF Prices
  <2>3. Cardinality(Above(s, side, b)) < s.limit
    BY <2>1, <2>2, SnapQtyIs DEF SnapPrices
  <2>4. Above(s, side, p) \subseteq Above(s, side, b)
    BY <2>2 DEF Covers, Above, Nearer, Prices
  <2>5. Above(s, side, b) \in SUBSET Prices
    BY DEF Above
  <2>6. Cardinality(Above(s, side, p)) <= Cardinality(Above(s, side, b))
    BY <2>4, <2>5, CardinalityMonotone
  <2>7. /\ Cardinality(Above(s, side, b)) \in Nat
        /\ Cardinality(Above(s, side, p)) \in Nat
    BY <2>4, <2>5, PricesFinite
  <2> QED BY <2>3, <2>6, <2>7, <1>0, SnapQtyIs
<1>3. CASE ~Truncated(s)
  <2>1. ~(Cardinality(ps) >= s.limit)
    BY <1>3 DEF Truncated
  <2>2. Cardinality(ps) < s.limit
    BY <1>0, <2>1, PricesFinite
  <2> QED BY <2>2, ShortSideIsWhole
<1>4. CASE ps = {}
  <2>1. Cardinality(ps) < s.limit
    BY <1>0, <1>4, FS_EmptySet
  <2> QED BY <2>1, ShortSideIsWhole
<1> QED BY <1>2, <1>3, <1>4

\* setBounds yields bounds.
LEMMA BoundsOfType ==
    ASSUME NEW s \in Snapshots
    PROVE  BoundsOf(s) \in Bounds
<1>1. ASSUME NEW side \in Sides PROVE BoundsOf(s)[side] \in 0 .. MaxPrice
  <2>1. SnapPrices(s, side) \in SUBSET Prices
    BY DEF SnapPrices
  <2>2. CASE Truncated(s) /\ SnapPrices(s, side) # {}
    <3>1. BoundsOf(s)[side] \in Prices
      BY <2>1, <2>2, Extremes DEF BoundsOf
    <3> QED BY <3>1, VenueAssumption DEF Prices
  <2>3. CASE ~(Truncated(s) /\ SnapPrices(s, side) # {})
    BY <2>3, VenueAssumption DEF BoundsOf
  <2> QED BY <2>2, <2>3
<1> QED BY <1>1 DEF BoundsOf, Bounds

\* Book.Reset yields a book.
LEMMA ResetLevelsType ==
    ASSUME NEW s \in Snapshots
    PROVE  ResetLevels(s) \in Books
  BY SnapQtyType DEF ResetLevels, Books

-----------------------------------------------------------------------------
\* The deltas a tracker of sym buffers are its own.
Own(sym) == {d \in Deltas : d.symbol = sym}

-----------------------------------------------------------------------------
\* Sequencer.Next: a contiguous delta starts within the applied ids or right
\* after them and ends past them, and moves the position to its end.
LEMMA ContiguousDelta ==
    ASSUME NEW q \in Positions, NEW d \in Deltas,
           Classify(q, d) = "contiguous"
    PROVE  /\ q.synced
           /\ d.first - 1 <= q.last
           /\ q.last < d.last
           /\ Advance(q, d) = [q EXCEPT !.last = d.last]
<1>1. q.synced /\ d.first <= q.last + 1 /\ ~(d.last <= q.last)
  BY DEF Classify
<1>2. q.last \in Int /\ d.last \in Int /\ d.first \in Int
  BY VenueAssumption DEF Positions, Deltas, Ids
<1>3. Advance(q, d) = [q EXCEPT !.last = d.last]
  BY DEF Advance
<1> QED BY <1>1, <1>2, <1>3

\* Sequencer.Next returns one of the three classes.
LEMMA ClassifyIsAClass ==
    ASSUME NEW q, NEW d
    PROVE  Classify(q, d) \in {"stale", "contiguous", "gapped"}
  BY DEF Classify

\* Sequencer.Next leaves a position.
LEMMA AdvanceType ==
    ASSUME NEW q \in Positions, NEW d \in Deltas
    PROVE  /\ Advance(q, d) \in Positions
           /\ Invalidate(Advance(q, d)) \in Positions
           /\ ~Invalidate(Advance(q, d)).synced
           /\ Classify(q, d) = "gapped" => ~Advance(q, d).synced
<1>1. d.last \in Ids
  BY VenueAssumption DEF Deltas, Ids
<1>2. Advance(q, d) \in Positions /\ (Classify(q, d) = "gapped" => ~Advance(q, d).synced)
  <2>1. CASE Classify(q, d) = "contiguous"
    BY <1>1, <2>1 DEF Advance, Positions
  <2>2. CASE Classify(q, d) = "gapped"
    BY <2>2 DEF Advance, Positions, Invalidate
  <2>3. CASE Classify(q, d) = "stale"
    BY <2>3 DEF Advance
  <2> QED BY <2>1, <2>2, <2>3, ClassifyIsAClass
<1> QED BY <1>2 DEF Invalidate, Positions

\* Tracker.buffer keeps the bound and the newest delta.
LEMMA BufferKeeps ==
    ASSUME NEW S, NEW buf \in Seq(S), NEW d \in S, Len(buf) <= BufCap
    PROVE  /\ Buffer(buf, d) \in Seq(S)
           /\ Len(Buffer(buf, d)) <= BufCap
           /\ Len(Buffer(buf, d)) > 0
           /\ Buffer(buf, d)[Len(Buffer(buf, d))] = d
<1>1. BufCap \in Nat \ {0} /\ Len(buf) \in Nat
  BY TrackerAssumption
<1>2. CASE Len(buf) >= BufCap
  <2>1. buf # <<>>
    BY <1>1, <1>2
  <2>2. Tail(buf) \in Seq(S) /\ Len(Tail(buf)) = Len(buf) - 1
    BY <2>1, HeadTailProperties
  <2> HIDE DEF Buffer
  <2>3. Buffer(buf, d) = Append(Tail(buf), d)
    BY <1>2 DEF Buffer
  <2> QED BY <1>1, <2>2, <2>3
<1>3. CASE ~(Len(buf) >= BufCap)
  <2>1. Buffer(buf, d) = Append(buf, d)
    BY <1>3 DEF Buffer
  <2> QED BY <1>1, <1>3, <2>1
<1> QED BY <1>2, <1>3

\* Tracker.keepBufferFrom keeps the newest delta.
LEMMA KeepFromKeeps ==
    ASSUME NEW S, NEW buf \in Seq(S), NEW i \in 1 .. Len(buf)
    PROVE  /\ KeepFrom(buf, i) \in Seq(S)
           /\ Len(KeepFrom(buf, i)) = Len(buf) - i + 1
           /\ KeepFrom(buf, i)[Len(KeepFrom(buf, i))] = buf[Len(buf)]
<1>1. Len(buf) \in Nat /\ \A j \in i .. Len(buf) : buf[j] \in S
  OBVIOUS
<1>2. /\ KeepFrom(buf, i) \in Seq(S)
      /\ Len(KeepFrom(buf, i)) = Len(buf) - i + 1
      /\ \A j \in 1 .. Len(buf) - i + 1 : KeepFrom(buf, i)[j] = buf[i + j - 1]
  BY <1>1, SubSeqProperties DEF KeepFrom
<1> QED BY <1>1, <1>2

-----------------------------------------------------------------------------
\* Book.Apply yields a book.
LEMMA ApplyLevelsType ==
    ASSUME NEW b \in Books, NEW d \in Deltas
    PROVE  ApplyLevels(b, d) \in Books
<1>1. History[d.symbol][d.last] \in Books
  BY VenueAssumption DEF Deltas, Ids
<1>2. ASSUME NEW side \in Sides, NEW p \in Prices
      PROVE  ApplyLevels(b, d)[side][p] \in Qtys
  BY <1>1 DEF ApplyLevels, Books
<1> QED BY <1>2 DEF ApplyLevels, Books

\* A book that shows the venue at q shows it at d.last once a delta that is
\* contiguous at q has been applied: what the delta does not name has not
\* changed since q.
LEMMA ContiguousKeepsAccurate ==
    ASSUME NEW t \in Trackers, NEW d \in Deltas, NEW u \in Trackers,
           d.symbol = t.symbol,
           Classify(t.seq, d) = "contiguous",
           Accurate(t) /\ NoPhantom(t),
           u.symbol = t.symbol, u.bounds = t.bounds, u.seq.last = d.last,
           u.book = ApplyLevels(t.book, d)
    PROVE  Accurate(u) /\ NoPhantom(u)
<1>1. t.seq \in Positions
  BY DEF Trackers
<1>2. t.seq.last \in (d.first - 1) .. (d.last - 1)
  <2>1. t.seq.last \in Int /\ d.first \in Int /\ d.last \in Int
    BY <1>1, VenueAssumption DEF Positions, Deltas, Ids
  <2> QED BY <1>1, <2>1, ContiguousDelta
<1>3. ASSUME NEW side \in Sides, NEW p \in Prices
      PROVE  /\ Touched(d, side, p) =>
                  u.book[side][p] = History[u.symbol][u.seq.last][side][p]
             /\ ~Touched(d, side, p) =>
                  /\ u.book[side][p] = t.book[side][p]
                  /\ History[t.symbol][t.seq.last][side][p]
                       = History[u.symbol][u.seq.last][side][p]
  <2>1. Touched(d, side, p) =>
            u.book[side][p] = History[u.symbol][u.seq.last][side][p]
    BY DEF ApplyLevels
  <2>2. ~Touched(d, side, p) => u.book[side][p] = t.book[side][p]
    BY DEF ApplyLevels
  <2>3. ~Touched(d, side, p) =>
            History[t.symbol][t.seq.last][side][p]
               = History[u.symbol][u.seq.last][side][p]
    BY <1>2 DEF Touched
  <2> QED BY <2>1, <2>2, <2>3
<1>4. Accurate(u)
  BY <1>3 DEF Accurate
<1>5. NoPhantom(u)
  BY <1>3 DEF NoPhantom
<1> QED BY <1>4, <1>5

\* A book just anchored on a snapshot shows the venue at the snapshot's id.
LEMMA AnchoredIsAccurate ==
    ASSUME NEW s \in Snapshots, NEW u \in Trackers,
           u.symbol = s.symbol, u.book = ResetLevels(s),
           u.bounds = BoundsOf(s), u.seq.last = s.last
    PROVE  Accurate(u) /\ NoPhantom(u)
<1>1. \A side \in Sides, p \in Prices : u.book[side][p] = SnapQty(s, side, p)
  BY DEF ResetLevels
<1>2. Accurate(u)
  BY <1>1, SnapshotIsAccurate DEF Accurate, Full
<1>3. NoPhantom(u)
  BY <1>1, SnapQtyIs DEF NoPhantom, Full
<1> QED BY <1>2, <1>3

-----------------------------------------------------------------------------
(***************************************************************************)
(* The methods of the tracker, one lemma each: what they return is a       *)
(* tracker of the same symbol whose buffer is within bounds and its own,   *)
(* and whose book, when it is live, is the venue's.                        *)
(***************************************************************************)
Sound(t) ==
    /\ t \in Trackers
    /\ Len(t.buf) <= BufCap
    /\ t.buf \in Seq(Own(t.symbol))
    /\ Live(t) => Accurate(t) /\ NoPhantom(t)

\* The types of the fields of a tracker.
LEMMA TrackerFields ==
    ASSUME NEW t \in Trackers
    PROVE  /\ t.symbol \in Symbols /\ t.book \in Books /\ t.seq \in Positions
           /\ t.buf \in Seq(Deltas) /\ t.fetching \in BOOLEAN
           /\ t.bounds \in Bounds
           /\ t = [symbol |-> t.symbol, book |-> t.book, seq |-> t.seq,
                   buf |-> t.buf, fetching |-> t.fetching,
                   bounds |-> t.bounds]
  BY DEF Trackers

\* A sequence of a tracker's own deltas is a sequence of deltas.
LEMMA OwnSeq ==
    ASSUME NEW sym, NEW b \in Seq(Own(sym))
    PROVE  b \in Seq(Deltas)
  BY DEF Own

\* NewTracker returns a sound tracker.
LEMMA NewTrackerSound ==
    ASSUME NEW sym \in Symbols
    PROVE  /\ Sound(NewTracker(sym)) /\ ~Live(NewTracker(sym))
           /\ NewTracker(sym).symbol = sym
           /\ NewTracker(sym).buf = <<>>
<1> DEFINE t == NewTracker(sym)
<1>1. t \in Trackers
  <2>1. EmptyBook \in Books
    BY VenueAssumption DEF EmptyBook, Books, Qtys
  <2>2. Unanchored \in Positions
    BY VenueAssumption DEF Unanchored, Positions, Ids
  <2>3. NoBounds \in Bounds
    BY VenueAssumption DEF NoBounds, Bounds
  <2>4. <<>> \in Seq(Deltas)
    OBVIOUS
  <2> QED BY <2>1, <2>2, <2>3, <2>4 DEF NewTracker, Trackers
<1>2. t.symbol = sym /\ t.buf = <<>> /\ ~t.seq.synced
  BY DEF NewTracker, Unanchored
<1>3. Len(<<>>) <= BufCap /\ <<>> \in Seq(Own(t.symbol))
  BY TrackerAssumption
<1> QED BY <1>1, <1>2, <1>3 DEF Sound, Live

\* Tracker.Apply.  A live tracker holds nothing, so its buffer stays empty as
\* long as it stays live.
LEMMA ApplySound ==
    ASSUME NEW t, Sound(t), NEW d \in Deltas,
           Live(t) => t.buf = <<>> /\ ~t.fetching
    PROVE  /\ Sound(ApplyTo(t, d))
           /\ ApplyTo(t, d).symbol = t.symbol
           /\ Live(ApplyTo(t, d)) =>
                /\ ApplyTo(t, d).buf = <<>> /\ ~ApplyTo(t, d).fetching
                /\ Live(t) /\ ApplyTo(t, d).seq.last >= t.seq.last
<1> DEFINE u == ApplyTo(t, d)
           how == ApplyOutcome(t, d)
<1>0. t \in Trackers /\ t.seq \in Positions /\ t.buf \in Seq(Own(t.symbol))
  BY TrackerFields DEF Sound
<1>1. CASE how = "applied"
  <2>1. d.symbol = t.symbol /\ Live(t) /\ Classify(t.seq, d) = "contiguous"
    BY <1>1, ClassifyIsAClass DEF ApplyOutcome
  <2>2. u = [t EXCEPT !.seq = Advance(t.seq, d), !.book = ApplyLevels(t.book, d)]
    BY <1>1 DEF ApplyTo
  <2>3. u \in Trackers
    BY <1>0, <2>2, AdvanceType, ApplyLevelsType DEF Trackers
  <2>4. /\ u.symbol = t.symbol /\ u.bounds = t.bounds /\ u.buf = t.buf
        /\ u.fetching = t.fetching /\ u.seq = Advance(t.seq, d)
        /\ u.book = ApplyLevels(t.book, d)
    BY <1>0, <2>2 DEF Trackers
  <2>5. Advance(t.seq, d).last = d.last /\ d.last > t.seq.last
    <3>1. d.last \in Int /\ t.seq.last \in Int
      BY <1>0, VenueAssumption DEF Deltas, Positions, Ids
    <3>2. Advance(t.seq, d) = [t.seq EXCEPT !.last = d.last]
      BY <1>0, <2>1, ContiguousDelta
    <3> QED BY <1>0, <2>1, <3>1, <3>2, ContiguousDelta DEF Positions
  <2>6. Accurate(t) /\ NoPhantom(t)
    BY <2>1 DEF Sound
  <2>7. Accurate(u) /\ NoPhantom(u)
    BY <1>0, <2>1, <2>3, <2>4, <2>5, <2>6, ContiguousKeepsAccurate
  <2>8. d.last >= t.seq.last
    BY <1>0, <2>5, VenueAssumption DEF Deltas, Positions, Ids
  <2> HIDE DEF u
  <2> QED BY <2>1, <2>3, <2>4, <2>5, <2>7, <2>8 DEF Sound, u
<1>2. CASE how = "refused"
  <2>1. d \in Own(t.symbol)
    BY <1>2 DEF ApplyOutcome, Own, Sound
  <2>2. u = [t EXCEPT !.seq = Invalidate(Advance(t.seq, d)), !.buf = Buffer(t.buf, d)]
    BY <1>2 DEF ApplyTo
  <2>3. /\ Buffer(t.buf, d) \in Seq(Own(t.symbol)) /\ Len(Buffer(t.buf, d)) <= BufCap
    BY <1>0, <2>1, BufferKeeps DEF Sound
  <2>4. Buffer(t.buf, d) \in Seq(Deltas)
    BY <2>3, OwnSeq
  <2>5. u \in Trackers
    BY <1>0, <2>2, <2>4, AdvanceType DEF Trackers
  <2>6. /\ u.symbol = t.symbol /\ u.buf = Buffer(t.buf, d)
        /\ u.seq = Invalidate(Advance(t.seq, d))
    BY <1>0, <2>2 DEF Trackers
  <2>7. ~Live(u)
    BY <1>0, <2>6, AdvanceType DEF Live
  <2> QED BY <2>3, <2>5, <2>6, <2>7 DEF Sound
<1>3. CASE how \in {"buffered", "gapped"}
  <2>1. d \in Own(t.symbol)
    BY <1>3 DEF ApplyOutcome, Own, Sound
  <2>2. u = [t EXCEPT !.seq = Advance(t.seq, d), !.buf = Buffer(t.buf, d)]
    BY <1>3 DEF ApplyTo
  <2>3. /\ Buffer(t.buf, d) \in Seq(Own(t.symbol)) /\ Len(Buffer(t.buf, d)) <= BufCap
    BY <1>0, <2>1, BufferKeeps DEF Sound
  <2>4. Buffer(t.buf, d) \in Seq(Deltas)
    BY <2>3, OwnSeq
  <2>5. u \in Trackers
    BY <1>0, <2>2, <2>4, AdvanceType DEF Trackers
  <2>6. /\ u.symbol = t.symbol /\ u.buf = Buffer(t.buf, d)
        /\ u.seq = Advance(t.seq, d)
    BY <1>0, <2>2 DEF Trackers
  <2>7. Classify(t.seq, d) = "gapped"
    BY <1>3 DEF ApplyOutcome, Classify, Live
  <2>8. ~Live(u)
    BY <1>0, <2>6, <2>7, AdvanceType DEF Live
  <2> QED BY <2>3, <2>5, <2>6, <2>8 DEF Sound
<1>4. CASE how \in {"misrouted", "discarded"}
  <2>1. u = t
    BY <1>4 DEF ApplyTo
  <2>2. t.seq.last >= t.seq.last
    BY <1>0, VenueAssumption DEF Positions, Ids
  <2> QED BY <2>1, <2>2
<1>5. how \in {"misrouted", "buffered", "discarded", "gapped", "applied", "refused"}
  BY DEF ApplyOutcome
<1> QED BY <1>1, <1>2, <1>3, <1>4, <1>5

\* BeginFetch and FetchFailed keep a tracker sound.
LEMMA FetchingSound ==
    ASSUME NEW t, Sound(t), NEW yes \in BOOLEAN
    PROVE  /\ Sound(Fetching(t, yes))
           /\ Fetching(t, yes).symbol = t.symbol
           /\ Fetching(t, yes).seq = t.seq
           /\ Fetching(t, yes).buf = t.buf
           /\ Fetching(t, yes).fetching = yes
<1> DEFINE u == Fetching(t, yes)
<1>1. t \in Trackers
  BY DEF Sound
<1>2. u \in Trackers
  BY <1>1 DEF Fetching, Trackers
<1>3. /\ u.seq = t.seq /\ u.buf = t.buf /\ u.fetching = yes /\ u.book = t.book
      /\ u.bounds = t.bounds /\ u.symbol = t.symbol
  BY <1>1 DEF Fetching, Trackers
<1> HIDE DEF u
<1>4. Live(u) => Accurate(u) /\ NoPhantom(u)
  <2>1. Live(u) => Accurate(t) /\ NoPhantom(t)
    BY <1>3 DEF Sound, Live
  <2>2. Accurate(t) => Accurate(u)
    BY <1>3 DEF Accurate
  <2>3. NoPhantom(t) => NoPhantom(u)
    BY <1>3 DEF NoPhantom
  <2> QED BY <2>1, <2>2, <2>3
<1>5. Sound(u)
  BY <1>2, <1>3, <1>4 DEF Sound
<1> QED BY <1>3, <1>5 DEF u

\* Tracker.Load up to the replay.
LEMMA AnchorSound ==
    ASSUME NEW t, Sound(t), NEW s \in Snapshots
    PROVE  /\ Sound(Anchor(t, s))
           /\ Anchor(t, s).symbol = t.symbol
           /\ Anchor(t, s).buf = t.buf
           /\ ~Anchor(t, s).fetching
           /\ IF LoadOutcome(t, s) = "anchored"
              THEN /\ Live(Anchor(t, s))
                   /\ Anchor(t, s).seq.last = s.last
                   /\ Live(t) => s.last >= t.seq.last
              ELSE Anchor(t, s).seq = t.seq
<1> DEFINE u == Anchor(t, s)
<1>0. t \in Trackers /\ t.seq \in Positions
  BY TrackerFields DEF Sound
<1>1. CASE LoadOutcome(t, s) = "anchored"
  <2>1. u = [t EXCEPT !.fetching = FALSE, !.book = ResetLevels(s),
                      !.seq = ResetAt(s.last), !.bounds = BoundsOf(s)]
    BY <1>1 DEF Anchor
  <2>2. s.symbol = t.symbol /\ ~(Live(t) /\ s.last < t.seq.last)
    BY <1>1 DEF LoadOutcome
  <2>3. ResetAt(s.last) \in Positions
    BY VenueAssumption DEF ResetAt, Positions, Snapshots, Ids
  <2>4. u \in Trackers
    BY <1>0, <2>1, <2>3, ResetLevelsType, BoundsOfType DEF Trackers
  <2>5. /\ u.symbol = t.symbol /\ u.buf = t.buf /\ u.fetching = FALSE
        /\ u.book = ResetLevels(s) /\ u.bounds = BoundsOf(s)
        /\ u.seq = ResetAt(s.last)
    BY <1>0, <2>1 DEF Trackers
  <2>6. u.seq.last = s.last /\ u.seq.synced
    BY <2>5 DEF ResetAt
  <2>7. Accurate(u) /\ NoPhantom(u)
    BY <2>2, <2>4, <2>5, <2>6, AnchoredIsAccurate
  <2>8. Live(t) => s.last >= t.seq.last
    BY <1>0, <2>2, VenueAssumption DEF Snapshots, Positions, Ids
  <2> HIDE DEF u
  <2> QED BY <1>1, <2>4, <2>5, <2>6, <2>7, <2>8 DEF Sound, Live, u
<1>2. CASE LoadOutcome(t, s) # "anchored"
  <2>1. u = Fetching(t, FALSE)
    BY <1>2 DEF Anchor, Fetching
  <2> QED BY <1>2, <2>1, FetchingSound
<1> QED BY <1>1, <1>2

\* One step of the replay loop.
LEMMA ReplaySound ==
    ASSUME NEW t, Sound(t), Live(t), NEW i \in Nat \ {0}
    PROVE  /\ Sound(ReplayOne(t, i))
           /\ ReplayOne(t, i).symbol = t.symbol
           /\ ReplayOne(t, i).fetching = t.fetching
           /\ ReplayGoesOn(t, i) =>
                /\ Live(ReplayOne(t, i))
                /\ ReplayOne(t, i).buf = t.buf
                /\ i \in 1 .. Len(t.buf)
                /\ ReplayOne(t, i).seq.last >= t.buf[i].last
           /\ ~ReplayGoesOn(t, i) /\ Live(ReplayOne(t, i)) =>
                /\ ReplayOne(t, i).buf = <<>>
                /\ i > Len(t.buf)
                /\ ReplayOne(t, i).seq = t.seq
           /\ Live(ReplayOne(t, i)) =>
                ReplayOne(t, i).seq.last >= t.seq.last
           /\ ~Live(ReplayOne(t, i)) =>
                /\ i \in 1 .. Len(t.buf)
                /\ ReplayOne(t, i).buf = KeepFrom(t.buf, i)
<1> DEFINE u == ReplayOne(t, i)
           how == ReplayOutcome(t, i)
<1>0. /\ t \in Trackers /\ t.seq \in Positions /\ t.buf \in Seq(Own(t.symbol))
      /\ Len(t.buf) \in Nat /\ t.seq.last \in Int
  BY TrackerFields, VenueAssumption DEF Sound, Positions, Ids
<1>1. CASE how = "synced"
  <2>1. u = [t EXCEPT !.buf = <<>>] /\ ~ReplayGoesOn(t, i)
    BY <1>1 DEF ReplayOne, ReplayGoesOn
  <2>2. i > Len(t.buf)
    BY <1>0, <1>1 DEF ReplayOutcome
  <2>3. u \in Trackers
    <3>1. <<>> \in Seq(Deltas)
      OBVIOUS
    <3> QED BY <1>0, <2>1, <3>1 DEF Trackers
  <2>4. /\ u.symbol = t.symbol /\ u.buf = <<>> /\ u.fetching = t.fetching
        /\ u.book = t.book /\ u.bounds = t.bounds /\ u.seq = t.seq
    BY <1>0, <2>1 DEF Trackers
  <2>5. Len(<<>>) <= BufCap /\ <<>> \in Seq(Own(t.symbol))
    BY TrackerAssumption
  <2> HIDE DEF u
  <2>6. Accurate(u) /\ NoPhantom(u) /\ Live(u)
    <3>1. Live(u) /\ Accurate(t) /\ NoPhantom(t)
      BY <2>4 DEF Sound, Live
    <3>2. Accurate(t) => Accurate(u)
      BY <2>4 DEF Accurate
    <3>3. NoPhantom(t) => NoPhantom(u)
      BY <2>4 DEF NoPhantom
    <3> QED BY <3>1, <3>2, <3>3
  <2>7. Sound(u)
    BY <2>3, <2>4, <2>5, <2>6 DEF Sound
  <2> QED BY <1>0, <2>1, <2>2, <2>4, <2>6, <2>7 DEF u
<1> DEFINE d == t.buf[i]
<1>2. ASSUME how # "synced"
      PROVE  /\ i \in 1 .. Len(t.buf) /\ d \in Deltas /\ d \in Own(t.symbol)
             /\ d.symbol = t.symbol /\ d.last \in Int
  <2>1. i \in 1 .. Len(t.buf)
    BY <1>0, <1>2 DEF ReplayOutcome
  <2>2. d \in Own(t.symbol)
    BY <1>0, <2>1
  <2> QED BY <2>1, <2>2, VenueAssumption DEF Own, Sound, Deltas
<1>3. CASE how = "skipped"
  <2>1. u = t /\ ReplayGoesOn(t, i)
    BY <1>3 DEF ReplayOne, ReplayGoesOn
  <2>2. Classify(t.seq, d) = "stale"
    BY <1>3 DEF ReplayOutcome
  <2>3. d.last <= t.seq.last
    BY <2>2 DEF Classify
  <2> QED BY <1>0, <1>2, <1>3, <2>1, <2>3
<1>4. CASE how = "replayed"
  <2>1. u = [t EXCEPT !.seq = Advance(t.seq, d), !.book = ApplyLevels(t.book, d)]
        /\ ReplayGoesOn(t, i)
    BY <1>4 DEF ReplayOne, ReplayGoesOn
  <2>2. Classify(t.seq, d) = "contiguous"
    BY <1>4, ClassifyIsAClass DEF ReplayOutcome
  <2>3. u \in Trackers
    <3>1. t.book \in Books /\ d \in Deltas
      BY <1>0, <1>2, <1>4 DEF Trackers
    <3>2. Advance(t.seq, d) \in Positions /\ ApplyLevels(t.book, d) \in Books
      BY <1>0, <3>1, AdvanceType, ApplyLevelsType
    <3> QED BY <1>0, <2>1, <3>2 DEF Trackers
  <2>4. /\ u.symbol = t.symbol /\ u.bounds = t.bounds /\ u.buf = t.buf
        /\ u.fetching = t.fetching /\ u.seq = Advance(t.seq, d)
        /\ u.book = ApplyLevels(t.book, d)
    BY <1>0, <2>1 DEF Trackers
  <2>5. /\ Advance(t.seq, d) = [t.seq EXCEPT !.last = d.last]
        /\ t.seq.last < d.last
    BY <1>0, <1>2, <1>4, <2>2, ContiguousDelta
  <2>6. u.seq.last = d.last /\ u.seq.synced
    BY <1>0, <2>4, <2>5 DEF Positions, Live
  <2>7. Accurate(t) /\ NoPhantom(t)
    BY DEF Sound
  <2>8. Accurate(u) /\ NoPhantom(u)
    BY <1>0, <1>2, <1>4, <2>2, <2>3, <2>4, <2>6, <2>7, ContiguousKeepsAccurate
  <2> HIDE DEF u, d
  <2>9. Sound(u)
    BY <2>3, <2>4, <2>8 DEF Sound
  <2> QED BY <1>0, <1>2, <1>4, <2>1, <2>4, <2>5, <2>6, <2>9 DEF Live, u, d
<1>5. CASE how \in {"refetch", "refused"}
  <2>1. u = [t EXCEPT !.seq = Invalidate(Advance(t.seq, d)), !.buf = KeepFrom(t.buf, i)]
        /\ ~ReplayGoesOn(t, i)
    BY <1>5 DEF ReplayOne, ReplayGoesOn
  <2>2. /\ KeepFrom(t.buf, i) \in Seq(Own(t.symbol))
        /\ Len(KeepFrom(t.buf, i)) = Len(t.buf) - i + 1
    BY <1>0, <1>2, <1>5, KeepFromKeeps
  <2>3. KeepFrom(t.buf, i) \in Seq(Deltas)
    BY <2>2, OwnSeq
  <2>4. Len(KeepFrom(t.buf, i)) <= BufCap
    BY <1>0, <1>2, <1>5, <2>2, TrackerAssumption DEF Sound
  <2>5. u \in Trackers
    BY <1>0, <1>2, <1>5, <2>1, <2>3, AdvanceType DEF Trackers
  <2>6. /\ u.symbol = t.symbol /\ u.buf = KeepFrom(t.buf, i)
        /\ u.seq = Invalidate(Advance(t.seq, d)) /\ u.fetching = t.fetching
    BY <1>0, <2>1 DEF Trackers
  <2>7. ~Live(u)
    BY <1>0, <1>2, <1>5, <2>6, AdvanceType DEF Live
  <2> HIDE DEF u, d
  <2>8. Sound(u)
    BY <2>2, <2>4, <2>5, <2>6, <2>7 DEF Sound
  <2> QED BY <1>2, <1>5, <2>1, <2>6, <2>7, <2>8 DEF u
<1>6. how \in {"synced", "skipped", "refetch", "replayed", "refused"}
  BY DEF ReplayOutcome
<1> QED BY <1>1, <1>3, <1>4, <1>5, <1>6

\* The id of the newest delta held.
Newest(buf) == buf[Len(buf)].last

\* What Apply does with the tracker's own delta: it is behind the position of
\* a book that stays live, and is held, ahead of it, by one that does not.
LEMMA ApplyOwn ==
    ASSUME NEW t, Sound(t), NEW d \in Deltas, d.symbol = t.symbol,
           Live(t) => t.buf = <<>>
    PROVE  /\ Live(ApplyTo(t, d)) =>
                ApplyTo(t, d).seq.last >= d.last /\ ApplyTo(t, d).buf = <<>>
           /\ ~Live(ApplyTo(t, d)) =>
                /\ ApplyTo(t, d).buf # <<>>
                /\ Newest(ApplyTo(t, d).buf) = d.last
                /\ Live(t) => d.last > t.seq.last
<1> DEFINE u == ApplyTo(t, d)
           how == ApplyOutcome(t, d)
<1>0. /\ t \in Trackers /\ t.seq \in Positions /\ t.buf \in Seq(Own(t.symbol))
      /\ d \in Own(t.symbol) /\ d.last \in Int /\ t.seq.last \in Int
  BY TrackerFields, VenueAssumption DEF Sound, Positions, Ids, Own, Deltas
<1>1. /\ Buffer(t.buf, d) # <<>> /\ Newest(Buffer(t.buf, d)) = d.last
  <2>1. /\ Buffer(t.buf, d) \in Seq(Own(t.symbol)) /\ Len(Buffer(t.buf, d)) > 0
        /\ Buffer(t.buf, d)[Len(Buffer(t.buf, d))] = d
    BY <1>0, BufferKeeps DEF Sound
  <2> QED BY <2>1 DEF Newest
<1>2. CASE how = "applied"
  <2>1. Live(t) /\ Classify(t.seq, d) = "contiguous"
    BY <1>2, ClassifyIsAClass DEF ApplyOutcome
  <2>2. u = [t EXCEPT !.seq = Advance(t.seq, d), !.book = ApplyLevels(t.book, d)]
    BY <1>2 DEF ApplyTo
  <2>3. u.seq = Advance(t.seq, d) /\ u.buf = t.buf
    BY <1>0, <2>2 DEF Trackers
  <2>4. Advance(t.seq, d) = [t.seq EXCEPT !.last = d.last]
    BY <1>0, <2>1, ContiguousDelta
  <2>5. u.seq.last = d.last /\ u.seq.synced
    BY <1>0, <2>1, <2>3, <2>4 DEF Positions, Live
  <2> HIDE DEF u
  <2> QED BY <1>0, <2>1, <2>3, <2>5 DEF Live, u
<1>3. CASE how = "discarded"
  <2>1. u = t
    BY <1>3 DEF ApplyTo
  <2>2. Live(t) /\ Classify(t.seq, d) = "stale"
    BY <1>3 DEF ApplyOutcome
  <2>3. d.last <= t.seq.last
    BY <2>2 DEF Classify
  <2> QED BY <1>0, <2>1, <2>2, <2>3
<1>4. CASE how \in {"refused", "gapped", "buffered"}
  <2>1. u.buf = Buffer(t.buf, d)
    <3>1. \/ u = [t EXCEPT !.seq = Invalidate(Advance(t.seq, d)), !.buf = Buffer(t.buf, d)]
          \/ u = [t EXCEPT !.seq = Advance(t.seq, d), !.buf = Buffer(t.buf, d)]
      BY <1>4 DEF ApplyTo
    <3> QED BY <1>0, <3>1 DEF Trackers
  <2>2. Live(t) => d.last > t.seq.last
    <3>1. Live(t) => Classify(t.seq, d) # "stale"
      BY <1>4 DEF ApplyOutcome
    <3> QED BY <1>0, <3>1 DEF Classify, Live
  <2>3. Live(u) => u.buf = <<>>
    <3>1. CASE Live(u) /\ Live(t)
      <4>1. how \in {"refused", "gapped"}
        BY <1>4, <3>1 DEF ApplyOutcome
      <4>2. u.seq = Invalidate(Advance(t.seq, d)) \/ (u.seq = Advance(t.seq, d) /\ how = "gapped")
        BY <1>0, <4>1 DEF ApplyTo, Trackers
      <4>3. how = "gapped" => Classify(t.seq, d) = "gapped"
        BY DEF ApplyOutcome
      <4> QED BY <1>0, <3>1, <4>2, <4>3, AdvanceType DEF Live
    <3>2. CASE ~Live(t)
      <4>1. how = "buffered"
        BY <1>4, <3>2 DEF ApplyOutcome
      <4>2. u.seq = Advance(t.seq, d)
        BY <1>0, <4>1 DEF ApplyTo, Trackers
      <4>3. Classify(t.seq, d) = "gapped"
        BY <3>2 DEF Classify, Live
      <4> QED BY <1>0, <4>2, <4>3, AdvanceType DEF Live
    <3> QED BY <3>1, <3>2
  <2> HIDE DEF u
  <2> QED BY <1>1, <2>1, <2>2, <2>3 DEF u
<1>5. how \in {"buffered", "discarded", "gapped", "applied", "refused"}
  BY DEF ApplyOutcome
<1> QED BY <1>2, <1>3, <1>4, <1>5

\* Apply of another symbol's delta changes nothing.
LEMMA ApplyForeign ==
    ASSUME NEW t, NEW d, d.symbol # t.symbol
    PROVE  ApplyTo(t, d) = t
  BY DEF ApplyTo, ApplyOutcome

\* Tracker.Compare: a live book agrees with every snapshot taken at its own
\* id, whatever the limit of either.
LEMMA AgreesAtOwnId ==
    ASSUME NEW t, Sound(t), Live(t), NEW s \in Snapshots,
           s.symbol = t.symbol, s.last = t.seq.last
    PROVE  Agrees(t.book, t.bounds, s)
<1> SUFFICES ASSUME NEW side \in Sides, NEW p \in Prices,
                    Covers(Shallower(side, t.bounds[side], BoundsOf(s)[side]), side, p)
             PROVE  t.book[side][p] = SnapQty(s, side, p)
  BY DEF Agrees, CompareSide
<1> DEFINE x == t.bounds[side]
           y == BoundsOf(s)[side]
<1>1. t.bounds \in Bounds
  BY TrackerFields DEF Sound
<1>2. x \in Nat /\ y \in Nat
  BY <1>1, BoundsOfType DEF Bounds
<1> HIDE DEF x, y
<1>3. Covers(x, side, p) /\ Covers(y, side, p)
  <2>1. Covers(Shallower(side, x, y), side, p)
    BY DEF x, y
  <2> QED BY <1>2, <2>1 DEF Covers, Shallower, Nearer, Prices
<1>4. t.book[side][p] = History[t.symbol][t.seq.last][side][p]
  BY <1>3 DEF Sound, Accurate, x
<1>5. SnapQty(s, side, p) = Full(s, side)[p]
  BY <1>3, SnapshotIsAccurate DEF y
<1> QED BY <1>4, <1>5 DEF Full
=============================================================================
