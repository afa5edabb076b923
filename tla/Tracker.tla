------------------------------ MODULE Tracker ------------------------------
(***************************************************************************)
(* One tracker with a caller that offers it any delta and any snapshot in  *)
(* any order: lost, repeated, reordered, malformed, misrouted.             *)
(*                                                                         *)
(* Load is one call of the code and several steps here: it anchors the     *)
(* book, then takes one step per buffered delta.  Nothing else can happen  *)
(* to the tracker until it has returned, since one goroutine owns it.      *)
(***************************************************************************)
EXTENDS TrackerOps

CONSTANT Self      \* the symbol of the tracker

ASSUME SelfAssumption == Self \in Symbols

VARIABLES
    tr,      \* the tracker
    at,      \* the buffered delta Load is at, 0 when no call is running
    result   \* what the last call to return returned

vars == <<tr, at, result>>

Results ==
    {"none", "misrouted", "buffered", "discarded", "gapped", "applied",
     "refused", "behind", "refetch", "synced"}

TypeOK ==
    /\ tr \in Trackers
    /\ tr.symbol = Self
    /\ Len(tr.buf) <= BufCap
    /\ at \in Nat
    /\ result \in Results

Init ==
    /\ tr = NewTracker(Self)
    /\ at = 0
    /\ result = "none"

Apply(d) ==
    /\ at = 0
    /\ tr' = ApplyTo(tr, d)
    /\ result' = ApplyOutcome(tr, d)
    /\ UNCHANGED at

BeginFetch ==
    /\ at = 0
    /\ WantsFetch(tr)
    /\ tr' = Fetching(tr, TRUE)
    /\ UNCHANGED <<at, result>>

FetchFailed ==
    /\ at = 0
    /\ tr' = Fetching(tr, FALSE)
    /\ UNCHANGED <<at, result>>

Load(s) ==
    /\ at = 0
    /\ tr' = Anchor(tr, s)
    /\ IF LoadOutcome(tr, s) = "anchored"
       THEN at' = 1 /\ UNCHANGED result
       ELSE result' = LoadOutcome(tr, s) /\ UNCHANGED at

Replay ==
    /\ at # 0
    /\ tr' = ReplayOne(tr, at)
    /\ IF ReplayGoesOn(tr, at)
       THEN at' = at + 1 /\ UNCHANGED result
       ELSE at' = 0 /\ result' = ReplayOutcome(tr, at)

Next ==
    \/ \E d \in Deltas : Apply(d)
    \/ BeginFetch
    \/ FetchFailed
    \/ \E s \in Snapshots : Load(s)
    \/ Replay

Spec == Init /\ [][Next]_vars

-----------------------------------------------------------------------------
(***************************************************************************)
(* Properties.                                                             *)
(***************************************************************************)
\* Tracker.Live: a live book equals the venue's book at LastID, whatever was
\* lost, repeated, reordered or malformed on the way there.
LiveBookIsVenueBook == Live(tr) => Accurate(tr) /\ NoPhantom(tr)

\* Book.Crossed: a live book is never crossed, since a crossed book would
\* mean a lost or misapplied delta and the venue publishes none.
LiveNotCrossed == Live(tr) => ~Crossed(tr.book)

\* A book that Load has left live holds no delta back and has no snapshot
\* request marked outstanding: nothing could roll a held delta forward again.
LiveHoldsNothing == at = 0 /\ Live(tr) => tr.buf = <<>> /\ ~tr.fetching

\* Tracker.Compare and checkOne: a live book compared with a snapshot at its
\* own id, truncated at any limit, never diverges.
NoDivergenceAtZeroSkew ==
    Live(tr) =>
        \A limit \in Limits :
            tr.seq.last > 0 =>
                Agrees(tr.book, tr.bounds,
                       [symbol |-> tr.symbol, last |-> tr.seq.last,
                        limit |-> limit, valid |-> TRUE])

\* Load: the position of a book that is live before and after a step never
\* moves back, so a late snapshot cannot rewind a book.
LiveNeverRewinds ==
    [][Live(tr) /\ Live(tr)' => tr.seq.last' >= tr.seq.last]_vars
=============================================================================
