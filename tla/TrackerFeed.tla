---------------------------- MODULE TrackerFeed ----------------------------
(***************************************************************************)
(* The tracker behind a depth stream, which delivers a symbol's deltas in  *)
(* the order of their ids.  It may lose, repeat and merge them.  Snapshots *)
(* stay as they were: any of them, at any time, as old as it likes.        *)
(***************************************************************************)
EXTENDS Tracker

VARIABLES
    hi,     \* the newest update id the stream has delivered
    peak    \* history: the newest position at which the book was served

feedVars == <<tr, at, result, hi, peak>>

\* The book is served when no call is running and it is live.
Served == at = 0 /\ Live(tr)

FeedInit == Init /\ hi = 0 /\ peak = 0

Record == peak' = IF Served' THEN tr'.seq.last ELSE peak

Deliver(d) ==
    /\ d.symbol = Self => d.last >= hi
    /\ Apply(d)
    /\ hi' = IF d.symbol = Self THEN d.last ELSE hi

FeedNext ==
    /\ \/ \E d \in Deltas : Deliver(d)
       \/ /\ \/ BeginFetch
             \/ FetchFailed
             \/ \E s \in Snapshots : Load(s)
             \/ Replay
          /\ UNCHANGED hi
    /\ Record

FeedSpec == FeedInit /\ [][FeedNext]_feedVars

-----------------------------------------------------------------------------
\* Load and Apply: a served book reflects everything the stream has delivered
\* and is never at a position behind one that was served before, across every
\* gap, refetch and buffer overflow.
ServedBookIsCurrent == Served => tr.seq.last >= hi /\ tr.seq.last >= peak

\* A tracker that is not live holds the newest delta the stream delivered, so
\* no snapshot older than it can bring the book back.
NewestIsHeld ==
    ~Live(tr) /\ hi > 0 =>
        tr.buf # <<>> /\ tr.buf[Len(tr.buf)].last = hi

ABS == INSTANCE ServedBook WITH
          MaxUpdate <- MaxId,
          pos <- IF Served THEN tr.seq.last ELSE -1,
          heard <- hi

\* The tracker behind an ordered stream implements the abstract book.
ImplementsServedBook == ABS!Spec
=============================================================================
