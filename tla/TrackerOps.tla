----------------------------- MODULE TrackerOps -----------------------------
(***************************************************************************)
(* internal/book/tracker.go: one symbol's book through its whole life, the *)
(* first snapshot, live deltas, gaps and resyncs.  The methods of Tracker  *)
(* are operators on a tracker record; module Tracker runs them against an  *)
(* arbitrary caller and module Router inside the shards.                   *)
(*                                                                         *)
(* The counters of Stats count the outcomes named here and decide nothing, *)
(* so they are left out.                                                   *)
(***************************************************************************)
EXTENDS Sequencer, Book, Sequences

CONSTANT BufCap   \* bufCap: deltas held while a snapshot is in flight

ASSUME TrackerAssumption == BufCap \in Nat \ {0}

Trackers ==
    [symbol: Symbols, book: Books, seq: Positions, buf: Seq(Deltas),
     fetching: BOOLEAN, bounds: Bounds]

NewTracker(sym) ==
    [symbol |-> sym, book |-> EmptyBook, seq |-> Unanchored, buf |-> <<>>,
     fetching |-> FALSE, bounds |-> NoBounds]

Live(t) == t.seq.synced

\* Mutant: the buffer has no cap.
BufferUnbounded(buf, d) == Append(buf, d)

\* Mutant: a full buffer refuses the newest delta.
BufferDropsNewest(buf, d) == IF Len(buf) >= BufCap THEN buf ELSE Append(buf, d)

\* Tracker.buffer: the oldest delta makes room for the newest.
Buffer(buf, d) ==
    IF Len(buf) >= BufCap THEN Append(Tail(buf), d) ELSE Append(buf, d)

\* Mutant: the delta that showed the gap is not kept.
KeepAfter(buf, i) == SubSeq(buf, i + 1, Len(buf))

\* Tracker.keepBufferFrom, with the index of the first delta kept.
KeepFrom(buf, i) == SubSeq(buf, i, Len(buf))

-----------------------------------------------------------------------------
(***************************************************************************)
(* Tracker.Apply.  The outcome is the status returned, or the error:       *)
(* "misrouted" and "refused".                                              *)
(***************************************************************************)
ApplyOutcome(t, d) ==
    IF d.symbol # t.symbol THEN "misrouted"
    ELSE IF ~Live(t) THEN "buffered"
    ELSE IF Classify(t.seq, d) = "stale" THEN "discarded"
    ELSE IF Classify(t.seq, d) = "gapped" THEN "gapped"
    ELSE IF d.valid THEN "applied" ELSE "refused"

ApplyTo(t, d) ==
    LET how == ApplyOutcome(t, d)
    IN  CASE how = "applied" ->
                [t EXCEPT !.seq = Advance(t.seq, d),
                          !.book = ApplyLevels(t.book, d)]
          [] how = "refused" ->
                [t EXCEPT !.seq = Invalidate(Advance(t.seq, d)),
                          !.buf = Buffer(t.buf, d)]
          [] how \in {"buffered", "gapped"} ->
                [t EXCEPT !.seq = Advance(t.seq, d),
                          !.buf = Buffer(t.buf, d)]
          [] OTHER -> t

\* Mutant: a request that is outstanding is no reason to wait.
WantsFetchAgain(t) == ~Live(t)

\* Tracker.BeginFetch: whether a snapshot must be fetched.
WantsFetch(t) == ~t.fetching /\ ~Live(t)

\* Mutant: a failed request stays outstanding.
FetchingSticks(t, yes) == [t EXCEPT !.fetching = TRUE]

Fetching(t, yes) == [t EXCEPT !.fetching = yes]

-----------------------------------------------------------------------------
(***************************************************************************)
(* Tracker.Load: the checks and the anchor, then the replay of the buffer. *)
(***************************************************************************)
\* Mutant: a snapshot behind a live book is loaded.
LoadRewinds(t, s) ==
    IF s.symbol # t.symbol THEN "misrouted"
    ELSE IF ~s.valid THEN "refused"
    ELSE "anchored"

LoadOutcome(t, s) ==
    IF s.symbol # t.symbol THEN "misrouted"
    ELSE IF Live(t) /\ s.last < t.seq.last THEN "behind"
    ELSE IF ~s.valid THEN "refused"
    ELSE "anchored"

Anchor(t, s) ==
    IF LoadOutcome(t, s) = "anchored"
    THEN [t EXCEPT !.fetching = FALSE, !.book = ResetLevels(s),
                   !.seq = ResetAt(s.last), !.bounds = BoundsOf(s)]
    ELSE [t EXCEPT !.fetching = FALSE]

\* One iteration of the replay loop, at the i-th buffered delta.  It goes on
\* with the next delta ("skipped", "replayed") or Load returns.
ReplayOutcome(t, i) ==
    IF i > Len(t.buf) THEN "synced"
    ELSE IF Classify(t.seq, t.buf[i]) = "stale" THEN "skipped"
    ELSE IF Classify(t.seq, t.buf[i]) = "gapped" THEN "refetch"
    ELSE IF t.buf[i].valid THEN "replayed" ELSE "refused"

ReplayGoesOn(t, i) == ReplayOutcome(t, i) \in {"skipped", "replayed"}

ReplayOne(t, i) ==
    LET how == ReplayOutcome(t, i)
    IN  CASE how = "replayed" ->
                [t EXCEPT !.seq = Advance(t.seq, t.buf[i]),
                          !.book = ApplyLevels(t.book, t.buf[i])]
          [] how \in {"refetch", "refused"} ->
                [t EXCEPT !.seq = Invalidate(Advance(t.seq, t.buf[i])),
                          !.buf = KeepFrom(t.buf, i)]
          [] how = "synced" -> [t EXCEPT !.buf = <<>>]
          [] OTHER -> t

-----------------------------------------------------------------------------
(***************************************************************************)
(* What a tracker's book should say, for the properties of the modules     *)
(* that use it.                                                            *)
(***************************************************************************)
\* The book of t shows what the venue showed at position t.seq.last, at
\* every price the book claims to know.
Accurate(t) ==
    \A side \in Sides, p \in Prices :
        Covers(t.bounds[side], side, p)
            => t.book[side][p] = History[t.symbol][t.seq.last][side][p]

\* Past what it claims to know, the book of t may lack a level but holds no
\* level the venue did not have there.
NoPhantom(t) ==
    \A side \in Sides, p \in Prices :
        t.book[side][p] \in {0, History[t.symbol][t.seq.last][side][p]}
=============================================================================
