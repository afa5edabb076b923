--------------------------- MODULE TrackerProofs ---------------------------
(***************************************************************************)
(* Module Tracker, for every venue, buffer capacity and depth limit: type  *)
(* correctness, and that a live book is the venue's book.  Then module     *)
(* TrackerFeed: behind an ordered stream, the tracker implements the       *)
(* abstract book of module ServedBook.                                     *)
(***************************************************************************)
EXTENDS TrackerFeed, TrackerOpsProofs

\* The inductive invariant.  Load runs only over a live, not fetching tracker:
\* it has just anchored it.
IInv ==
    /\ TypeOK
    /\ tr.buf \in Seq(Own(Self))
    /\ at # 0 => Live(tr) /\ ~tr.fetching
    /\ LiveHoldsNothing
    /\ LiveBookIsVenueBook

-----------------------------------------------------------------------------
(***************************************************************************)
(* The invariant.                                                          *)
(***************************************************************************)
\* The inductive invariant gives a sound tracker, and says when it is live.
LEMMA IInvIsSound ==
    ASSUME IInv
    PROVE  /\ Sound(tr) /\ tr.symbol = Self /\ at \in Nat /\ result \in Results
           /\ at # 0 => Live(tr) /\ ~tr.fetching
           /\ at = 0 /\ Live(tr) => tr.buf = <<>> /\ ~tr.fetching
  BY DEF IInv, TypeOK, Sound, LiveHoldsNothing, LiveBookIsVenueBook

\* A sound tracker with the two facts about Load satisfies the invariant.
LEMMA SoundIsIInv ==
    ASSUME Sound(tr)', tr'.symbol = Self, at' \in Nat, result' \in Results,
           (at # 0 => Live(tr) /\ ~tr.fetching)',
           (at = 0 /\ Live(tr) => tr.buf = <<>> /\ ~tr.fetching)'
    PROVE  IInv'
  BY DEF IInv, TypeOK, Sound, LiveHoldsNothing, LiveBookIsVenueBook

\* The invariant holds at first.
LEMMA InitIInv == Init => IInv
<1> SUFFICES ASSUME Init PROVE IInv
  OBVIOUS
<1>1. Sound(tr) /\ tr.symbol = Self /\ ~Live(tr)
  BY NewTrackerSound, SelfAssumption DEF Init
<1>2. at = 0 /\ result = "none"
  BY DEF Init
<1> QED BY <1>1, <1>2 DEF IInv, TypeOK, Sound, LiveHoldsNothing,
                          LiveBookIsVenueBook, Results

\* Every step keeps the invariant, and no step moves a live book back.
LEMMA NextIInv ==
    ASSUME IInv, [Next]_vars
    PROVE  /\ IInv'
           /\ Live(tr) /\ Live(tr)' => tr.seq.last' >= tr.seq.last
<1>0. /\ Sound(tr) /\ tr.symbol = Self /\ at \in Nat /\ result \in Results
      /\ at # 0 => Live(tr) /\ ~tr.fetching
      /\ at = 0 /\ Live(tr) => tr.buf = <<>> /\ ~tr.fetching
  BY IInvIsSound
<1>a. tr.seq.last >= tr.seq.last
  BY <1>0, TrackerFields, VenueAssumption DEF Sound, Positions, Ids
<1>1. ASSUME NEW d \in Deltas, Apply(d)
      PROVE  IInv' /\ (Live(tr) /\ Live(tr)' => tr.seq.last' >= tr.seq.last)
  <2>1. /\ at = 0 /\ at' = 0 /\ tr' = ApplyTo(tr, d)
        /\ result' = ApplyOutcome(tr, d)
    BY <1>1 DEF Apply
  <2>2. /\ Sound(tr') /\ tr'.symbol = Self
        /\ Live(tr') => /\ tr'.buf = <<>> /\ ~tr'.fetching
                        /\ tr'.seq.last >= tr.seq.last
    BY <1>0, <2>1, ApplySound
  <2>3. result' \in Results
    BY <2>1 DEF ApplyOutcome, Results
  <2> QED BY <1>0, <2>1, <2>2, <2>3, SoundIsIInv
<1>2. ASSUME BeginFetch
      PROVE  IInv' /\ (Live(tr) /\ Live(tr)' => tr.seq.last' >= tr.seq.last)
  <2>1. /\ at = 0 /\ at' = 0 /\ tr' = Fetching(tr, TRUE)
        /\ result' = result /\ ~Live(tr)
    BY <1>2 DEF BeginFetch, WantsFetch
  <2>2. Sound(tr') /\ tr'.symbol = Self /\ tr'.seq = tr.seq
    BY <1>0, <2>1, FetchingSound
  <2>3. ~Live(tr')
    BY <2>1, <2>2 DEF Live
  <2> QED BY <1>0, <2>1, <2>2, <2>3, SoundIsIInv
<1>3. ASSUME FetchFailed
      PROVE  IInv' /\ (Live(tr) /\ Live(tr)' => tr.seq.last' >= tr.seq.last)
  <2>1. at = 0 /\ at' = 0 /\ tr' = Fetching(tr, FALSE) /\ result' = result
    BY <1>3 DEF FetchFailed
  <2>2. /\ Sound(tr') /\ tr'.symbol = Self /\ tr'.seq = tr.seq /\ tr'.buf = tr.buf
        /\ tr'.fetching = FALSE
    BY <1>0, <2>1, FetchingSound
  <2>3. Live(tr') => Live(tr)
    BY <2>2 DEF Live
  <2> QED BY <1>0, <1>a, <2>1, <2>2, <2>3, SoundIsIInv
<1>4. ASSUME NEW s \in Snapshots, Load(s)
      PROVE  IInv' /\ (Live(tr) /\ Live(tr)' => tr.seq.last' >= tr.seq.last)
  <2>1. at = 0 /\ tr' = Anchor(tr, s)
    BY <1>4 DEF Load
  <2>2. Sound(tr') /\ tr'.symbol = Self /\ tr'.buf = tr.buf /\ ~tr'.fetching
    BY <1>0, <2>1, AnchorSound
  <2>3. CASE LoadOutcome(tr, s) = "anchored"
    <3>1. at' = 1 /\ result' = result
      BY <1>4, <2>3 DEF Load
    <3>2. /\ Live(tr') /\ tr'.seq.last = s.last
          /\ Live(tr) => s.last >= tr.seq.last
      BY <1>0, <2>1, <2>3, AnchorSound
    <3> QED BY <1>0, <2>2, <3>1, <3>2, SoundIsIInv
  <2>4. CASE LoadOutcome(tr, s) # "anchored"
    <3>1. at' = 0 /\ result' = LoadOutcome(tr, s)
      BY <1>4, <2>1, <2>4 DEF Load
    <3>2. result' \in Results
      BY <2>4, <3>1 DEF LoadOutcome, Results
    <3>3. tr'.seq = tr.seq
      BY <1>0, <2>1, <2>4, AnchorSound
    <3>4. Live(tr') => Live(tr)
      BY <3>3 DEF Live
    <3> QED BY <1>0, <1>a, <2>1, <2>2, <3>1, <3>2, <3>3, <3>4, SoundIsIInv
  <2> QED BY <2>3, <2>4
<1>5. ASSUME Replay
      PROVE  IInv' /\ (Live(tr) /\ Live(tr)' => tr.seq.last' >= tr.seq.last)
  <2>1. at \in Nat \ {0} /\ Live(tr) /\ ~tr.fetching /\ tr' = ReplayOne(tr, at)
    BY <1>0, <1>5 DEF Replay
  <2>2. /\ Sound(tr') /\ tr'.symbol = Self /\ tr'.fetching = tr.fetching
        /\ ReplayGoesOn(tr, at) => Live(tr')
        /\ ~ReplayGoesOn(tr, at) /\ Live(tr') => tr'.buf = <<>>
        /\ Live(tr') => tr'.seq.last >= tr.seq.last
    BY <1>0, <2>1, ReplaySound
  <2>3. CASE ReplayGoesOn(tr, at)
    <3>1. at' = at + 1 /\ result' = result
      BY <1>5, <2>3 DEF Replay
    <3>2. at' \in Nat
      BY <2>1, <3>1
    <3> QED BY <1>0, <2>1, <2>2, <2>3, <3>1, <3>2, SoundIsIInv
  <2>4. CASE ~ReplayGoesOn(tr, at)
    <3>1. at' = 0 /\ result' = ReplayOutcome(tr, at)
      BY <1>5, <2>4 DEF Replay
    <3>2. result' \in Results
      BY <2>4, <3>1 DEF ReplayOutcome, ReplayGoesOn, Results
    <3> QED BY <1>0, <2>1, <2>2, <2>4, <3>1, <3>2, SoundIsIInv
  <2> QED BY <2>3, <2>4
<1>6. CASE UNCHANGED vars
  <2>1. tr' = tr /\ at' = at /\ result' = result
    BY <1>6 DEF vars
  <2> QED BY <1>0, <1>a, <2>1, SoundIsIInv
<1> QED BY <1>1, <1>2, <1>3, <1>4, <1>5, <1>6 DEF Next

\* The invariant holds always.
LEMMA SpecIInv == Spec => []IInv
<1>1. IInv /\ [Next]_vars => IInv'
  BY NextIInv
<1> QED BY InitIInv, <1>1, PTL DEF Spec

-----------------------------------------------------------------------------
\* Type correctness: the buffer never grows past its capacity, whatever the
\* caller offers.
THEOREM TypeCorrect == Spec => []TypeOK
<1>1. IInv => TypeOK
  BY DEF IInv
<1> QED BY SpecIInv, <1>1, PTL

\* A live book is the venue's book at its position: Tracker.Live.
THEOREM LiveBookCorrect == Spec => []LiveBookIsVenueBook
<1>1. IInv => LiveBookIsVenueBook
  BY DEF IInv
<1> QED BY SpecIInv, <1>1, PTL

\* A live book that no call is working on holds no delta back and has no
\* request marked outstanding.
THEOREM LiveHoldsNothingCorrect == Spec => []LiveHoldsNothing
<1>1. IInv => LiveHoldsNothing
  BY DEF IInv
<1> QED BY SpecIInv, <1>1, PTL

\* No snapshot and no delta rewinds a live book: Tracker.Load, ErrSnapshotBehind.
THEOREM LiveNeverRewindsCorrect == Spec => LiveNeverRewinds
<1>1. IInv /\ [Next]_vars =>
        [Live(tr) /\ Live(tr)' => tr.seq.last' >= tr.seq.last]_vars
  BY NextIInv
<1> QED BY SpecIInv, <1>1, PTL DEF Spec, LiveNeverRewinds

\* A live book is never crossed: Book.Crossed.
THEOREM LiveNotCrossedCorrect == Spec => []LiveNotCrossed
<1>1. ASSUME IInv PROVE LiveNotCrossed
  <2> SUFFICES ASSUME Live(tr), Crossed(tr.book) PROVE FALSE
    BY DEF LiveNotCrossed
  <2> DEFINE bids == Held(tr.book, "bid")
             asks == Held(tr.book, "ask")
             b == Top("bid", bids)
             a == Top("ask", asks)
  <2>1. bids # {} /\ asks # {} /\ b >= a
    BY DEF Crossed
  <2>2. bids \in SUBSET Prices /\ asks \in SUBSET Prices
    BY DEF Held
  <2>3. b \in bids /\ a \in asks
    <3>1. "bid" \in Sides /\ "ask" \in Sides
      BY DEF Sides
    <3> QED BY <2>1, <2>2, <3>1, Extremes
  <2>4. Sound(tr) /\ tr.seq.last \in Ids /\ tr.symbol \in Symbols
    BY <1>1, IInvIsSound, TrackerFields DEF Sound, Positions
  <2> DEFINE H == History[tr.symbol][tr.seq.last]
  <2>5. tr.book["bid"][b] \in {0, H["bid"][b]} /\ tr.book["ask"][a] \in {0, H["ask"][a]}
    BY <2>2, <2>3, <2>4 DEF Sound, NoPhantom, Sides
  <2>7. b \in Prices /\ a \in Prices
    BY <2>2, <2>3
  <2> HIDE DEF b, a
  <2>9. tr.book["bid"][b] > 0 /\ tr.book["ask"][a] > 0
    BY <2>3 DEF Held
  <2> HIDE DEF bids, asks, H
  <2>6. H["bid"][b] > 0 /\ H["ask"][a] > 0
    BY <2>5, <2>9
  <2>8. b < a
    BY <2>4, <2>6, <2>7, VenueNeverCrossed DEF H
  <2> QED BY <2>1, <2>7, <2>8 DEF Prices
<1> QED BY SpecIInv, <1>1, PTL

\* A live book compared with the snapshot at its own id agrees with it:
\* Tracker.Compare, given a well-formed snapshot.
THEOREM NoDivergenceCorrect == Spec => []NoDivergenceAtZeroSkew
<1>1. ASSUME IInv PROVE NoDivergenceAtZeroSkew
  <2> SUFFICES ASSUME Live(tr), NEW limit \in Limits, tr.seq.last > 0
               PROVE  Agrees(tr.book, tr.bounds,
                             [symbol |-> tr.symbol, last |-> tr.seq.last,
                              limit |-> limit, valid |-> TRUE])
    BY DEF NoDivergenceAtZeroSkew
  <2> DEFINE s == [symbol |-> tr.symbol, last |-> tr.seq.last,
                   limit |-> limit, valid |-> TRUE]
  <2>1. Sound(tr) /\ tr.seq.last \in Ids /\ tr.symbol \in Symbols
    BY <1>1, IInvIsSound, TrackerFields DEF Sound, Positions
  <2>2. s \in Snapshots /\ s.symbol = tr.symbol /\ s.last = tr.seq.last
    BY <2>1 DEF Snapshots, Ids
  <2> HIDE DEF s
  <2>3. Agrees(tr.book, tr.bounds, s)
    BY <2>1, <2>2, AgreesAtOwnId
  <2> QED BY <2>3 DEF s
<1> QED BY SpecIInv, <1>1, PTL

-----------------------------------------------------------------------------
(***************************************************************************)
(* The tracker behind a stream: module TrackerFeed.                        *)
(***************************************************************************)
\* The inductive invariant.  Until the book is served again, the buffer ends
\* in the newest delta delivered, which is ahead of everything ever served;
\* and a replay that has passed that delta is at or past its id.
FInv ==
    /\ IInv
    /\ hi \in Ids /\ peak \in Ids
    /\ tr.buf = <<>> /\ ~Live(tr) => hi = 0 /\ peak = 0
    /\ tr.buf # <<>> => Newest(tr.buf) = hi /\ hi >= peak
    /\ at # 0 /\ tr.buf = <<>> => tr.seq.last >= hi /\ tr.seq.last >= peak
    /\ at > Len(tr.buf) /\ tr.buf # <<>> => tr.seq.last >= Newest(tr.buf)
    /\ ServedBookIsCurrent

\* A step of the feed is a step of the tracker.
LEMMA FeedNextIsNext == [FeedNext]_feedVars => [Next]_vars
  BY DEF FeedNext, feedVars, vars, Next, Deliver

\* The invariant of the feed holds at first.
LEMMA FeedInitFInv == FeedInit => FInv
<1> SUFFICES ASSUME FeedInit PROVE FInv
  OBVIOUS
<1>1. IInv
  BY InitIInv DEF FeedInit
<1>2. /\ tr.buf = <<>> /\ ~Live(tr) /\ at = 0 /\ hi = 0 /\ peak = 0
  BY NewTrackerSound, SelfAssumption DEF FeedInit, Init, NewTracker
<1>3. 0 \in Ids
  BY VenueAssumption DEF Ids
<1> QED BY <1>1, <1>2, <1>3 DEF FInv, ServedBookIsCurrent, Served

\* A step of the feed leaves a served book current, with the record of what
\* was served; this is all the invariant and the refinement need of Record.
LEMMA FeedNextFInv ==
    ASSUME FInv, [FeedNext]_feedVars
    PROVE  /\ FInv'
           /\ hi' >= hi
           /\ \/ ~Served' /\ peak' = peak
              \/ /\ Served' /\ peak' = tr'.seq.last
                 /\ tr'.seq.last >= peak /\ tr'.seq.last >= hi'
              \/ UNCHANGED feedVars
<1> DEFINE Goal ==
        /\ hi' \in Ids /\ hi' >= hi
        /\ tr'.buf = <<>> /\ ~Live(tr') => hi' = 0 /\ peak = 0
        /\ tr'.buf # <<>> => Newest(tr'.buf) = hi' /\ hi' >= peak
        /\ at' # 0 /\ tr'.buf = <<>> => tr'.seq.last >= hi' /\ tr'.seq.last >= peak
        /\ at' > Len(tr'.buf) /\ tr'.buf # <<>> => tr'.seq.last >= Newest(tr'.buf)
        /\ at' = 0 /\ Live(tr') => tr'.seq.last >= hi' /\ tr'.seq.last >= peak
<1>0. IInv /\ IInv'
  BY FeedNextIsNext, NextIInv DEF FInv
<1>1. /\ Sound(tr) /\ tr.symbol = Self /\ at \in Nat
      /\ at # 0 => Live(tr)
      /\ at = 0 /\ Live(tr) => tr.buf = <<>>
  BY <1>0, IInvIsSound
<1>2. /\ Sound(tr') /\ tr'.symbol = Self /\ at' \in Nat
      /\ (at' = 0 /\ Live(tr') => tr'.buf = <<>>)
  BY <1>0 DEF IInv, TypeOK, Sound, LiveHoldsNothing, LiveBookIsVenueBook
<1>3. /\ hi \in Int /\ peak \in Int /\ hi >= hi
      /\ tr.seq.last \in Int /\ tr'.seq.last \in Int
      /\ tr.buf \in Seq(Own(Self)) /\ Len(tr.buf) \in Nat
      /\ tr'.buf \in Seq(Own(Self)) /\ Len(tr'.buf) \in Nat
  <2>1. tr.seq \in Positions /\ tr'.seq \in Positions
    BY <1>1, <1>2, TrackerFields DEF Sound
  <2> QED BY <1>1, <1>2, <2>1, VenueAssumption DEF FInv, Ids, Positions, Sound
<1>4. ASSUME NEW d \in Deltas, Deliver(d) PROVE Goal
  <2>1. at = 0 /\ at' = 0 /\ tr' = ApplyTo(tr, d)
    BY <1>4 DEF Deliver, Apply
  <2>2. CASE d.symbol # Self
    <3>1. tr' = tr /\ hi' = hi
      BY <1>1, <1>4, <2>1, <2>2, ApplyForeign DEF Deliver, Sound
    <3> QED BY <1>1, <1>3, <2>1, <3>1 DEF FInv, ServedBookIsCurrent, Served
  <2>3. CASE d.symbol = Self
    <3>1. hi' = d.last /\ d.last >= hi /\ d.last \in Ids /\ d.last \in Int /\ d.last > 0
      BY <1>4, <2>3, VenueAssumption DEF Deliver, Deltas, Ids
    <3>2. /\ Live(tr') => tr'.seq.last >= d.last /\ tr'.buf = <<>>
          /\ ~Live(tr') => /\ tr'.buf # <<>>
                           /\ Newest(tr'.buf) = d.last
                           /\ Live(tr) => d.last > tr.seq.last
      BY <1>1, <2>1, <2>3, ApplyOwn DEF Sound
    <3>3. CASE Live(tr')
      <4>1. Live(tr) /\ tr'.seq.last >= tr.seq.last
        <5>1. Live(tr) => tr.buf = <<>> /\ ~tr.fetching
          BY <1>0, <2>1, IInvIsSound
        <5> QED BY <1>1, <2>1, <3>3, <5>1, ApplySound
      <4>2. tr.seq.last >= peak
        BY <2>1, <4>1 DEF FInv, ServedBookIsCurrent, Served
      <4> QED BY <1>3, <2>1, <3>1, <3>2, <3>3, <4>1, <4>2
    <3>4. CASE ~Live(tr')
      <4>1. d.last >= peak
        <5>1. CASE Live(tr)
          <6>1. tr.seq.last >= peak
            BY <2>1, <5>1 DEF FInv, ServedBookIsCurrent, Served
          <6> QED BY <1>3, <3>1, <3>2, <3>4, <5>1, <6>1
        <5>2. CASE ~Live(tr) /\ tr.buf = <<>>
          BY <1>3, <3>1, <5>2 DEF FInv
        <5>3. CASE ~Live(tr) /\ tr.buf # <<>>
          BY <1>3, <3>1, <5>3 DEF FInv
        <5> QED BY <5>1, <5>2, <5>3
      <4>2. ~(at' > Len(tr'.buf))
        BY <1>3, <2>1
      <4> QED BY <2>1, <3>1, <3>2, <3>4, <4>1, <4>2
    <3> QED BY <3>3, <3>4
  <2> QED BY <2>2, <2>3
<1>5. ASSUME (BeginFetch \/ FetchFailed), hi' = hi PROVE Goal
  <2>1. at = 0 /\ at' = 0 /\ \E yes \in BOOLEAN : tr' = Fetching(tr, yes)
    BY <1>5 DEF BeginFetch, FetchFailed
  <2>2. tr'.seq = tr.seq /\ tr'.buf = tr.buf
    BY <1>1, <2>1, FetchingSound
  <2> QED BY <1>3, <1>5, <2>1, <2>2 DEF FInv, ServedBookIsCurrent, Served, Live
<1>6. ASSUME NEW s \in Snapshots, Load(s), hi' = hi PROVE Goal
  <2>1. at = 0 /\ tr' = Anchor(tr, s) /\ tr'.buf = tr.buf
    BY <1>1, <1>6, AnchorSound DEF Load
  <2>2. CASE LoadOutcome(tr, s) = "anchored"
    <3>1. at' = 1
      BY <1>6, <2>2 DEF Load
    <3>2. Live(tr') /\ tr'.seq.last = s.last /\ (Live(tr) => s.last >= tr.seq.last)
      BY <1>1, <2>1, <2>2, AnchorSound
    <3>3. CASE tr.buf = <<>>
      <4>1. CASE Live(tr)
        BY <1>3, <1>6, <2>1, <3>1, <3>2, <3>3, <4>1 DEF FInv, ServedBookIsCurrent, Served
      <4>2. CASE ~Live(tr)
        <5>1. hi = 0 /\ peak = 0
          BY <3>3, <4>2 DEF FInv
        <5>2. s.last >= 0
          BY VenueAssumption DEF Snapshots
        <5> QED BY <1>3, <1>6, <2>1, <3>1, <3>2, <3>3, <5>1, <5>2 DEF FInv
      <4> QED BY <4>1, <4>2
    <3>4. CASE tr.buf # <<>>
      <4>1. ~(at' > Len(tr'.buf))
        BY <1>3, <2>1, <3>1, <3>4
      <4> QED BY <1>3, <1>6, <2>1, <3>1, <3>2, <3>4, <4>1 DEF FInv
    <3> QED BY <3>3, <3>4
  <2>3. CASE LoadOutcome(tr, s) # "anchored"
    <3>1. at' = 0
      BY <1>6, <2>1, <2>3 DEF Load
    <3>2. tr'.seq = tr.seq
      BY <1>1, <2>1, <2>3, AnchorSound
    <3> QED BY <1>3, <1>6, <2>1, <3>1, <3>2 DEF FInv, ServedBookIsCurrent, Served, Live
  <2> QED BY <2>2, <2>3
<1>7. ASSUME Replay, hi' = hi PROVE Goal
  <2>1. at \in Nat \ {0} /\ Live(tr) /\ tr' = ReplayOne(tr, at)
    BY <1>1, <1>7 DEF Replay
  <2>2. /\ ReplayGoesOn(tr, at) =>
             /\ Live(tr') /\ tr'.buf = tr.buf /\ at \in 1 .. Len(tr.buf)
             /\ tr'.seq.last >= tr.buf[at].last
        /\ ~ReplayGoesOn(tr, at) /\ Live(tr') =>
             tr'.buf = <<>> /\ at > Len(tr.buf) /\ tr'.seq = tr.seq
        /\ Live(tr') => tr'.seq.last >= tr.seq.last
        /\ ~Live(tr') => at \in 1 .. Len(tr.buf) /\ tr'.buf = KeepFrom(tr.buf, at)
    BY <1>1, <2>1, ReplaySound
  <2>3. CASE ReplayGoesOn(tr, at)
    <3>1. at' = at + 1 /\ tr.buf # <<>>
      BY <1>7, <2>2, <2>3 DEF Replay
    <3>2. at' > Len(tr'.buf) => tr'.seq.last >= Newest(tr'.buf)
      <4>1. at' > Len(tr'.buf) => at = Len(tr.buf)
        BY <1>3, <2>2, <2>3, <3>1
      <4> QED BY <2>2, <2>3, <4>1 DEF Newest
    <3>3. at' # 0
      BY <2>1, <3>1
    <3> QED BY <1>3, <1>7, <2>2, <2>3, <3>1, <3>2, <3>3 DEF FInv
  <2>4. CASE ~ReplayGoesOn(tr, at) /\ Live(tr')
    <3>1. at' = 0
      BY <1>7, <2>4 DEF Replay
    <3>2. tr.seq.last >= hi /\ tr.seq.last >= peak
      <4>1. CASE tr.buf = <<>>
        BY <2>1, <4>1 DEF FInv
      <4>2. CASE tr.buf # <<>>
        <5>1. tr.seq.last >= Newest(tr.buf) /\ Newest(tr.buf) = hi /\ hi >= peak
          BY <2>2, <2>4, <4>2 DEF FInv
        <5> QED BY <1>3, <5>1
      <4> QED BY <4>1, <4>2
    <3> QED BY <1>3, <1>7, <2>2, <2>4, <3>1, <3>2 DEF FInv
  <2>5. CASE ~ReplayGoesOn(tr, at) /\ ~Live(tr')
    <3>1. at' = 0
      BY <1>7, <2>5 DEF Replay
    <3>2. tr'.buf # <<>> /\ Newest(tr'.buf) = Newest(tr.buf) /\ tr.buf # <<>>
      <4>1. /\ at \in 1 .. Len(tr.buf) /\ tr'.buf = KeepFrom(tr.buf, at)
            /\ Len(tr'.buf) = Len(tr.buf) - at + 1
            /\ tr'.buf[Len(tr'.buf)] = tr.buf[Len(tr.buf)]
        BY <1>3, <2>2, <2>5, KeepFromKeeps
      <4> QED BY <1>3, <4>1 DEF Newest
    <3>3. ~(at' > Len(tr'.buf))
      BY <1>3, <3>1
    <3> QED BY <1>3, <1>7, <2>5, <3>1, <3>2, <3>3 DEF FInv
  <2> QED BY <2>2, <2>3, <2>4, <2>5
<1>8. ASSUME Goal, Record
      PROVE  /\ FInv' /\ hi' >= hi
             /\ \/ ~Served' /\ peak' = peak
                \/ /\ Served' /\ peak' = tr'.seq.last
                   /\ tr'.seq.last >= peak /\ tr'.seq.last >= hi'
  <2>1. tr'.seq.last \in Ids
    BY <1>2, TrackerFields DEF Sound, Positions
  <2>2. CASE Served'
    <3>1. peak' = tr'.seq.last /\ at' = 0 /\ Live(tr') /\ tr'.buf = <<>>
      BY <1>2, <1>8, <2>2 DEF Record, Served
    <3> QED BY <1>0, <1>3, <1>8, <2>1, <2>2, <3>1 DEF FInv, ServedBookIsCurrent
  <2>3. CASE ~Served'
    <3>1. peak' = peak
      BY <1>8, <2>3 DEF Record
    <3> QED BY <1>0, <1>8, <2>3, <3>1 DEF FInv, ServedBookIsCurrent
  <2> QED BY <2>2, <2>3
<1>9. CASE FeedNext
  <2>1. Record
    BY <1>9 DEF FeedNext
  <2>2. Goal
    BY <1>4, <1>5, <1>6, <1>7, <1>9 DEF FeedNext
  <2> QED BY <1>8, <2>1, <2>2
<1>10. CASE UNCHANGED feedVars
  <2>1. tr' = tr /\ at' = at /\ hi' = hi /\ peak' = peak
    BY <1>10 DEF feedVars
  <2> QED BY <1>0, <1>3, <1>10, <2>1 DEF FInv, ServedBookIsCurrent, Served, Live, Newest
<1> QED BY <1>9, <1>10

\* The invariant of the feed holds always.
LEMMA FeedSpecFInv == FeedSpec => []FInv
<1>1. FInv /\ [FeedNext]_feedVars => FInv'
  BY FeedNextFInv
<1> QED BY FeedInitFInv, <1>1, PTL DEF FeedSpec

-----------------------------------------------------------------------------
\* A served book reflects everything delivered and everything served before.
THEOREM ServedBookIsCurrentCorrect == FeedSpec => []ServedBookIsCurrent
<1>1. FInv => ServedBookIsCurrent
  BY DEF FInv
<1> QED BY FeedSpecFInv, <1>1, PTL

\* A tracker that is not live holds the newest delta delivered.
THEOREM NewestIsHeldCorrect == FeedSpec => []NewestIsHeld
<1>1. FInv => NewestIsHeld
  BY DEF FInv, NewestIsHeld, Newest
<1> QED BY FeedSpecFInv, <1>1, PTL

\* The tracker behind an ordered stream implements module ServedBook.
THEOREM FeedImplementsServedBook == FeedSpec => ImplementsServedBook
<1>1. FeedInit => ABS!Init
  <2> SUFFICES ASSUME FeedInit PROVE ABS!Init
    OBVIOUS
  <2>1. ~Served /\ hi = 0 /\ peak = 0
    BY NewTrackerSound, SelfAssumption DEF FeedInit, Init, Served
  <2> QED BY <2>1 DEF ABS!Init, ABS!NotServed
<1>2. FInv /\ FInv' /\ [FeedNext]_feedVars =>
        [ABS!Next]_<<IF Served THEN tr.seq.last ELSE -1, hi, peak>>
  <2> SUFFICES ASSUME FInv, FInv', [FeedNext]_feedVars
               PROVE  [ABS!Next]_<<IF Served THEN tr.seq.last ELSE -1, hi, peak>>
    OBVIOUS
  <2>1. hi' \in hi .. MaxId
    BY FeedNextFInv, VenueAssumption DEF FInv, Ids
  <2>2. CASE ~Served' /\ peak' = peak
    <3>1. ABS!Lose
      BY <2>2 DEF ABS!Lose, ABS!NotServed
    <3> QED BY <2>1, <3>1 DEF ABS!Next
  <2>3. CASE /\ Served' /\ peak' = tr'.seq.last
             /\ tr'.seq.last >= peak /\ tr'.seq.last >= hi'
    <3>1. tr'.seq.last \in 0 .. MaxId
      <4>1. Sound(tr')
        BY DEF FInv, IInv, TypeOK, Sound, LiveBookIsVenueBook
      <4> QED BY <4>1, TrackerFields DEF Sound, Positions, Ids
    <3>2. ABS!Serve(tr'.seq.last)
      BY <2>3 DEF ABS!Serve
    <3> QED BY <2>1, <3>1, <3>2 DEF ABS!Next
  <2>4. CASE UNCHANGED feedVars
    BY <2>4 DEF feedVars, Served, Live
  <2> QED BY <2>2, <2>3, <2>4, FeedNextFInv
<1> QED BY <1>1, <1>2, FeedSpecFInv, PTL DEF FeedSpec, ImplementsServedBook, ABS!Spec
=============================================================================
