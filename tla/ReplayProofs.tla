---------------------------- MODULE ReplayProofs ----------------------------
(***************************************************************************)
(* Module Replay, for every recording, venue, number of shards and         *)
(* capacity: the router inside it keeps the invariant of RouterProofs, a   *)
(* settled stage is final, and what the dump holds.                        *)
(***************************************************************************)
EXTENDS Replay, RouterProofs

\* The record of the main goroutine.
MainSteps ==
    [pc: {"open", "select", "drain", "sample", "depths", "pause", "live", "dump",
          "close", "compare", "done"},
     todo: SUBSET (Shards \cup Symbols), ok: BOOLEAN, held: FrameEvents \cup {None}]

\* The book of sym is live, and its shard is done loading it.
Final(sym) == trk[sym] # None /\ Live(trk[sym]) /\ ~Replaying(sym)

QueuesEmpty == \A sh \in Shards : in[sh] = <<>>

\* An event that is a delta of sym, and a queue that holds one.
IsDeltaOf(ev, sym) == ev.kind = "delta" /\ ev.body.symbol = sym
Holds(q, sym) == \E i \in DOMAIN q : IsDeltaOf(q[i], sym)

OnTape(ev) == \E i \in 1 .. Len(tape) : FrameAt(i) /\ tape[i].body = ev

\* Everything the recording has to say has been routed.
RoutingIsOver == {"sample", "depths", "pause", "live", "dump", "close", "compare"}

-----------------------------------------------------------------------------
(***************************************************************************)
(* The invariant.                                                          *)
(***************************************************************************)
\* A frame is in the hands of the main goroutine only while it routes, and a
\* query of it only while it looks at the books, about one of those left.
MainInv ==
    /\ main \in MainSteps
    /\ main.held # None => main.pc \in {"select", "drain"} /\ OnTape(main.held)
    /\ main.pc \in {"live", "dump"} => main.todo \subseteq known
    /\ caller[Main].pc # "idle" =>
          /\ main.pc \in {"live", "dump"}
          /\ caller[Main].q.symbol \in main.todo
    /\ view \in Views \cup {None}
    /\ view # None => caller[Main].pc = "answered"

\* Until the run is cancelled, a delta the source has read is routed, in the
\* hands of the main goroutine, or in the frames channel.
SourceInv ==
    /\ tape \in Recordings
    /\ src \in [at: Nat \ {0}, returned: {None, "eof", "cancelled"}]
    /\ src.returned = "eof" => src.at > Len(tape)
    /\ src.returned = "cancelled" => ctx
    /\ frames \in Seq(FrameEvents)
    /\ \A j \in DOMAIN frames : OnTape(frames[j])
    /\ main.pc = "drain" => src.returned # None
    /\ ~ctx => \A i \in 1 .. Len(tape), sym \in Symbols :
          i < src.at /\ FrameAt(i) /\ IsDeltaOf(tape[i].body, sym) =>
             \/ sym \in known
             \/ main.held = tape[i].body
             \/ \E j \in DOMAIN frames : frames[j] = tape[i].body

\* The symbols known are those with a tracker or with a delta on its way to one.
KnownInv ==
    /\ known \subseteq Recorded
    /\ main.pc \in RoutingIsOver /\ ~ctx => Recorded \subseteq known
    /\ \A sym \in Symbols : trk[sym] # None => sym \in known
    /\ \A sym \in Symbols : Holds(in[ShardOf[sym]], sym) => sym \in known
    /\ \A sym \in known : trk[sym] # None \/ Holds(in[ShardOf[sym]], sym)

\* What each pass of waitSettled has established so far stays true.
SettleInv ==
    /\ main.pc = "depths" /\ main.ok =>
          \A sh \in Shards \ main.todo : in[sh] = <<>>
    /\ main.pc = "live" => QueuesEmpty /\ \A sym \in known \ main.todo : Final(sym)
    /\ main.pc = "live" /\ view # None /\ view.live => Final(caller[Main].q.symbol)
    /\ settled => /\ QueuesEmpty
                  /\ main.pc \in {"dump", "close", "compare", "done"}
                  /\ \A sym \in known : Final(sym)

DumpInv ==
    /\ main.pc \notin {"dump", "close", "compare", "done"} => dump = <<>>
    /\ DOMAIN dump \subseteq known
    /\ main.pc = "dump" /\ ~ctx =>
          /\ DOMAIN dump = known \ main.todo
          /\ \A sym \in known : trk[sym] # None
          /\ caller[Main].pc = "answered" => view # None
    /\ main.pc \in {"close", "compare"} /\ ~ctx => DOMAIN dump = known
    /\ settled /\ view # None => view = ViewOf(trk[caller[Main].q.symbol])
    /\ settled => \A sym \in DOMAIN dump : dump[sym] = ViewOf(trk[sym])

PInv ==
    /\ RInv /\ streamed = 0
    /\ MainInv
    /\ SourceInv
    /\ KnownInv
    /\ SettleInv
    /\ DumpInv

-----------------------------------------------------------------------------
(***************************************************************************)
(* What the book stage does while nothing is routed.                       *)
(***************************************************************************)
\* Queues are received from, trackers are made for the deltas received, and
\* nothing else; a book that is final when the queues are empty is not touched.
StageMoves ==
    /\ \A sh \in Shards :
          \/ in'[sh] = in[sh]
          \/ /\ in[sh] # <<>> /\ in'[sh] = Tail(in[sh])
             /\ \A sym \in Symbols : IsDeltaOf(Head(in[sh]), sym) => trk'[sym] # None
    /\ \A sym \in Symbols : trk[sym] # None => trk'[sym] # None
    /\ \A sym \in Symbols : trk'[sym] # None =>
          trk[sym] # None \/ Holds(in[ShardOf[sym]], sym)
    /\ QueuesEmpty => \A sym \in Symbols :
          Final(sym) => trk'[sym] = trk[sym] /\ ~Replaying(sym)'

\* A book that is final has no request in flight.
LEMMA FinalHasNoFetch ==
    ASSUME RInv, streamed = 0, NEW sym \in Symbols, Final(sym) \/ trk[sym] = None
    PROVE  \A k \in Slots : fetch[sym][k].pc = "free"
<1>1. BookInv(sym) /\ FlightInv(sym)
  BY DEF RInv
<1>2. InFlight(sym) = {}
  BY <1>1 DEF Final, BookInv, FlightInv, Kept, Unseen
<1> QED BY <1>2 DEF InFlight

\* Steps that leave queues and trackers alone and start no replay.
LEMMA StillMoves ==
    ASSUME in' = in, trk' = trk, \A sym \in Symbols : Replaying(sym)' => Replaying(sym)
    PROVE  StageMoves
  BY DEF StageMoves, Final

\* handle, of a delta.
LEMMA HandleDeltaMoves ==
    ASSUME RInv, NEW sh \in Shards, HandleDelta(sh)
    PROVE  StageMoves
<1>1. /\ in[sh] # <<>> /\ in' = [in EXCEPT ![sh] = Tail(@)]
      /\ Head(in[sh]).kind = "delta"
  BY DEF HandleDelta, Receive
<1>2. /\ in \in [Shards -> Seq(Events)] /\ trk \in [Symbols -> Trackers \cup {None}]
  BY TypesOfState
<1>3. PICK d \in Deltas : d = Head(in[sh]).body
  <2>1. Head(in[sh]) \in Events
    BY <1>1, HeadOfQueue
  <2> QED BY <1>1, <2>1 DEF Events
<1>4. d.symbol \in Symbols /\ ShardOf[d.symbol] = sh
  BY <1>1, <1>3, HeadOfQueue DEF Deltas
<1>5. PICK t : t = IF trk[d.symbol] = None THEN NewTracker(d.symbol) ELSE trk[d.symbol]
  OBVIOUS
<1>6. FetchIfWanted(ApplyTo(t, d), fetch, wg, timing)
  BY <1>3, <1>5 DEF HandleDelta
<1>7. Sound(t) /\ t.symbol = d.symbol /\ (Live(t) => t.buf = <<>> /\ ~t.fetching)
  <2>1. loop[ShardOf[d.symbol]] = Selecting
    BY <1>4 DEF HandleDelta, Receive
  <2> QED BY <1>4, <1>5, <2>1, KeptAtSelect, NewTrackerSound
<1>8. Sound(ApplyTo(t, d)) /\ ApplyTo(t, d).symbol = d.symbol
  BY <1>7, ApplySound
<1>9. PICK u \in Trackers : trk' = [trk EXCEPT ![d.symbol] = u]
  <2>1. PICK v : v = ApplyTo(t, d)
    OBVIOUS
  <2>2. v \in Trackers /\ Fetching(v, TRUE) \in Trackers
    BY <1>8, <2>1, FetchingSound DEF Sound
  <2>3. \/ trk' = [trk EXCEPT ![v.symbol] = v]
        \/ trk' = [trk EXCEPT ![v.symbol] = Fetching(v, TRUE)]
    BY <1>6, <2>1, FetchIfWantedIs
  <2> QED BY ONLY <1>8, <2>1, <2>2, <2>3
<1>10. u # None
  BY <1>9, RouterAssumption
<1>11. Holds(in[ShardOf[d.symbol]], d.symbol)
  <2>1. 1 \in DOMAIN in[sh] /\ in[sh][1] = Head(in[sh])
    BY <1>1, <1>2
  <2> QED BY <1>1, <1>3, <1>4, <2>1 DEF Holds, IsDeltaOf
<1>12. \A s \in Shards :
          \/ in'[s] = in[s]
          \/ /\ in[s] # <<>> /\ in'[s] = Tail(in[s])
             /\ \A sym \in Symbols : IsDeltaOf(Head(in[s]), sym) => trk'[sym] # None
  BY <1>1, <1>2, <1>3, <1>4, <1>9, <1>10 DEF IsDeltaOf
<1>13. ~QueuesEmpty
  BY <1>1 DEF QueuesEmpty
<1> QED BY <1>2, <1>4, <1>9, <1>10, <1>11, <1>12, <1>13 DEF StageMoves

\* One iteration of a replay: another symbol's book is not touched.
LEMMA ReplayStepMoves ==
    ASSUME RInv, NEW sh \in Shards, ReplayStep(sh)
    PROVE  StageMoves
<1>1. PICK z \in Symbols : z = loop[sh].symbol /\ ShardOf[z] = sh
  BY DEF ReplayStep, RInv, LoopInv
<1>2. PICK i \in Nat \ {0} : i = loop[sh].at
  BY DEF ReplayStep, RInv, LoopInv
<1>3. /\ trk \in [Symbols -> Trackers \cup {None}] /\ loop \in [Shards -> Loops]
  BY TypesOfState
<1>4. Replaying(z) /\ BookInv(z)
  BY <1>1 DEF ReplayStep, Replaying, RInv
<1>5. trk[z] # None /\ Sound(trk[z]) /\ trk[z].symbol = z /\ Live(trk[z])
  BY <1>4 DEF BookInv, Unseen, Kept
<1>6. in' = in
  BY DEF ReplayStep
<1>7. PICK t : t = ReplayOne(trk[z], i)
  OBVIOUS
<1>8. t \in Trackers /\ t.symbol = z /\ Fetching(t, TRUE) \in Trackers
  <2>1. Sound(t) /\ t.symbol = z
    BY <1>2, <1>4, <1>5, <1>7, ReplaySound
  <2> QED BY <2>1, FetchingSound DEF Sound
<1>9. /\ \/ trk' = [trk EXCEPT ![z] = t]
         \/ trk' = [trk EXCEPT ![z] = Fetching(t, TRUE)]
      /\ \/ loop' = [loop EXCEPT ![sh].at = @ + 1]
         \/ loop' = [loop EXCEPT ![sh] = Selecting]
  <2>1. CASE ReplayGoesOn(trk[z], i)
    BY <1>1, <1>2, <1>7, <2>1 DEF ReplayStep
  <2>2. CASE ~ReplayGoesOn(trk[z], i)
    <3>1. PICK timed : FetchIfWanted(t, fetch, wg, timed)
      BY <1>1, <1>2, <1>7, <2>2 DEF ReplayStep
    <3>2. loop' = [loop EXCEPT ![sh] = Selecting]
      BY <1>1, <1>2, <1>7, <2>2 DEF ReplayStep
    <3> QED BY <1>8, <3>1, <3>2, FetchIfWantedIs
  <2> QED BY <2>1, <2>2
<1>10. \A sym \in Symbols : sym # z => trk'[sym] = trk[sym]
  BY <1>3, <1>9
<1>11. trk'[z] # None
  BY <1>3, <1>8, <1>9, RouterAssumption
<1>12. \A sym \in Symbols : Replaying(sym)' => Replaying(sym)
  <2> SUFFICES ASSUME NEW sym \in Symbols, Replaying(sym)' PROVE Replaying(sym)
    OBVIOUS
  <2>1. PICK s \in Shards : s = ShardOf[sym]
    BY RouterAssumption
  <2>2. CASE s # sh
    BY <1>3, <1>9, <2>1, <2>2 DEF Replaying
  <2>3. CASE s = sh
    BY <1>3, <1>9, <2>1, <2>3 DEF Replaying, Selecting, Loops
  <2> QED BY <2>2, <2>3
<1>13. \A sym \in Symbols : Final(sym) => sym # z
  BY <1>4 DEF Final
<1> QED BY <1>5, <1>6, <1>10, <1>11, <1>12, <1>13 DEF StageMoves, Final

\* complete: only a book with a request in flight is touched.
LEMMA CompleteMoves ==
    ASSUME RInv, streamed = 0, NEW z \in Symbols, NEW k \in Slots, Complete(z, k)
    PROVE  StageMoves
<1>1. PICK sh \in Shards : sh = ShardOf[z]
  BY RouterAssumption
<1>2. /\ loop[sh] = Selecting /\ fetch[z][k].pc = "deliver" /\ in' = in
  BY <1>1 DEF Complete
<1>3. ~Final(z) /\ trk[z] # None
  BY <1>2, FinalHasNoFetch
<1>4. /\ trk \in [Symbols -> Trackers \cup {None}] /\ loop \in [Shards -> Loops]
  BY TypesOfState
<1>5. Sound(trk[z]) /\ trk[z].symbol = z
  BY <1>1, <1>2, <1>3, KeptAtSelect
<1>6. PICK fs : fs = [fetch EXCEPT ![z][k] = NoFetch]
  OBVIOUS
<1>7. PICK u \in Trackers :
         /\ trk' = [trk EXCEPT ![z] = u]
         /\ loop' = loop \/ loop' = [loop EXCEPT ![sh] = [pc |-> "replay", symbol |-> z, at |-> 1]]
  <2>1. ASSUME NEW t, Sound(t), t.symbol = z, FetchIfWanted(t, fs, wg - 1, timing)
        PROVE  \E u \in Trackers : trk' = [trk EXCEPT ![z] = u]
    <3>1. t \in Trackers /\ Fetching(t, TRUE) \in Trackers
      BY <2>1, FetchingSound DEF Sound
    <3>2. \/ trk' = [trk EXCEPT ![z] = t]
          \/ trk' = [trk EXCEPT ![z] = Fetching(t, TRUE)]
      BY <2>1, FetchIfWantedIs
    <3> QED BY <3>1, <3>2
  <2>2. CASE fetch[z][k].result = Failed
    <3>1. PICK t : t = Fetching(trk[z], FALSE)
      OBVIOUS
    <3>2. Sound(t) /\ t.symbol = z
      BY <1>5, <3>1, FetchingSound
    <3>3. FetchIfWanted(t, fs, wg - 1, timing) /\ loop' = loop
      BY <1>6, <2>2, <3>1 DEF Complete
    <3> QED BY <2>1, <3>2, <3>3
  <2>3. CASE fetch[z][k].result # Failed
    <3>1. PICK s \in Snapshots : s = fetch[z][k].result
      BY <1>2, <2>3 DEF RInv, FlightInv
    <3>2. BeginLoad(sh, trk[z], s, fs, wg - 1, timing)
      BY <1>1, <1>6, <2>3, <3>1 DEF Complete
    <3>3. PICK t : t = Anchor(trk[z], s)
      OBVIOUS
    <3>4. Sound(t) /\ t.symbol = z /\ t \in Trackers
      BY <1>5, <3>3, AnchorSound DEF Sound
    <3>5. CASE LoadOutcome(trk[z], s) = "anchored"
      BY <1>5, <3>2, <3>3, <3>4, <3>5 DEF BeginLoad
    <3>6. CASE LoadOutcome(trk[z], s) # "anchored"
      <4>1. FetchIfWanted(t, fs, wg - 1, timing) /\ loop' = loop
        BY <3>2, <3>3, <3>6 DEF BeginLoad
      <4> QED BY <2>1, <3>4, <4>1
    <3> QED BY <3>5, <3>6
  <2> QED BY <2>2, <2>3
<1>8. u # None
  BY RouterAssumption
<1>9. \A sym \in Symbols : sym # z => trk'[sym] = trk[sym] /\ (Replaying(sym)' => Replaying(sym))
  <2> SUFFICES ASSUME NEW sym \in Symbols, sym # z
               PROVE  trk'[sym] = trk[sym] /\ (Replaying(sym)' => Replaying(sym))
    OBVIOUS
  <2>1. PICK s \in Shards : s = ShardOf[sym]
    BY RouterAssumption
  <2> QED BY <1>4, <1>7, <2>1 DEF Replaying
<1>10. trk'[z] # None
  BY <1>4, <1>7, <1>8
<1> QED BY <1>2, <1>3, <1>9, <1>10 DEF StageMoves, Final

\* A step of the router in which nothing is routed.
QuietStep ==
    \/ UNCHANGED vars
    \/ Start
    \/ \E sh \in Shards :
          CloseInput(sh) \/ HandleDelta(sh) \/ HandleTrade(sh) \/ ReplayStep(sh) \/ Stop(sh)
    \/ CloseReturns
    \/ \E sym \in Symbols, k \in Slots : FetchStep(sym, k) \/ Complete(sym, k)
    \/ \E c \in Callers : CallerStep(c)

\* Such a step keeps the invariant of the router and does what StageMoves says.
LEMMA QuietKeeps ==
    ASSUME RInv, streamed = 0, QuietStep
    PROVE  RInv' /\ streamed' = 0 /\ StageMoves
<1>1. RInv'
  <2>1. [Next]_vars
    BY DEF QuietStep, Next, ShardStep
  <2> QED BY <2>1, NextRInv
<1>2. /\ in \in [Shards -> Seq(Events)] /\ trk \in [Symbols -> Trackers \cup {None}]
      /\ loop \in [Shards -> Loops]
  BY TypesOfState
<1>3. ASSUME in' = in, trk' = trk, streamed' = streamed,
             \A sh \in Shards : loop'[sh] = loop[sh] \/ loop'[sh].pc # "replay"
      PROVE  streamed' = 0 /\ StageMoves
  <2>1. \A sym \in Symbols : ShardOf[sym] \in Shards
    BY RouterAssumption
  <2>2. \A sym \in Symbols : Replaying(sym)' => Replaying(sym)
    BY <1>3, <2>1 DEF Replaying
  <2> QED BY <1>3, <2>2, StillMoves
<1>4. CASE UNCHANGED vars
  <2>1. UNCHANGED <<in, trk, loop, streamed>>
    BY <1>4 DEF vars
  <2> QED BY <1>1, <1>3, <2>1
<1>5. CASE Start
  <2>1. UNCHANGED <<in, trk, streamed>>
    BY <1>5 DEF Start
  <2>2. \A sh \in Shards : loop'[sh].pc # "replay"
    BY <1>5 DEF Start, Selecting
  <2> QED BY <1>1, <1>3, <2>1, <2>2
<1>6. ASSUME NEW sh \in Shards, CloseInput(sh) \/ Stop(sh)
      PROVE  streamed' = 0 /\ StageMoves
  BY <1>2, <1>3, <1>6 DEF CloseInput, Stop, feedVars, Stopped
<1>7. ASSUME NEW sh \in Shards, HandleDelta(sh)
      PROVE  streamed' = 0 /\ StageMoves
  <2>1. streamed' = streamed
    BY <1>7 DEF HandleDelta, Receive, feedVars
  <2> QED BY <1>7, <2>1, HandleDeltaMoves
<1>8. ASSUME NEW sh \in Shards, HandleTrade(sh)
      PROVE  streamed' = 0 /\ StageMoves
  <2>1. /\ streamed' = streamed /\ in[sh] # <<>> /\ in' = [in EXCEPT ![sh] = Tail(@)]
        /\ trk' = trk /\ loop' = loop /\ Head(in[sh]).kind = "trade"
    BY <1>8 DEF HandleTrade, Receive, feedVars
  <2>2. ~QueuesEmpty /\ \A sym : ~IsDeltaOf(Head(in[sh]), sym)
    BY <2>1 DEF QueuesEmpty, IsDeltaOf
  <2> QED BY <1>2, <2>1, <2>2 DEF StageMoves
<1>9. ASSUME NEW sh \in Shards, ReplayStep(sh)
      PROVE  streamed' = 0 /\ StageMoves
  <2>1. streamed' = streamed
    BY <1>9 DEF ReplayStep, feedVars
  <2> QED BY <1>9, <2>1, ReplayStepMoves
<1>10. CASE CloseReturns
  <2>1. UNCHANGED <<in, trk, loop, streamed>>
    BY <1>10 DEF CloseReturns, feedVars, shardVars
  <2> QED BY <1>1, <1>3, <2>1
<1>11. ASSUME NEW sym \in Symbols, NEW k \in Slots, FetchStep(sym, k)
       PROVE  streamed' = 0 /\ StageMoves
  <2>1. UNCHANGED <<in, trk, loop, streamed>>
    BY <1>11 DEF FetchStep, FetchReturns, FetchFails, RetryOver, FetchAbandons, SetFetch,
                 feedVars, shardVars
  <2> QED BY <1>3, <2>1
<1>12. ASSUME NEW sym \in Symbols, NEW k \in Slots, Complete(sym, k)
       PROVE  streamed' = 0 /\ StageMoves
  <2>1. streamed' = streamed
    BY <1>12 DEF Complete, feedVars
  <2> QED BY <1>12, <2>1, CompleteMoves
<1>13. ASSUME NEW c \in Callers, CallerStep(c)
       PROVE  streamed' = 0 /\ StageMoves
  <2>1. UNCHANGED <<in, trk, loop, streamed>>
    BY <1>13 DEF CallerStep, Ask, Answer, AskReturns, GiveUp, SetCaller, feedVars, shardVars
  <2> QED BY <1>3, <2>1
<1> QED BY <1>1, <1>4, <1>5, <1>6, <1>7, <1>8, <1>9, <1>10, <1>11, <1>12, <1>13 DEF QuietStep

-----------------------------------------------------------------------------
(***************************************************************************)
(* What such a step leaves of the invariant.                               *)
(***************************************************************************)
\* Queues that are empty stay so, and final books stay final, and the same.
LEMMA FinalStays ==
    ASSUME StageMoves
    PROVE  /\ \A sh \in Shards : in[sh] = <<>> => in'[sh] = <<>>
           /\ QueuesEmpty => QueuesEmpty'
           /\ QueuesEmpty => \A sym \in Symbols :
                 Final(sym) => Final(sym)' /\ trk'[sym] = trk[sym]
<1>1. \A sh \in Shards : in[sh] = <<>> => in'[sh] = <<>>
  BY DEF StageMoves
<1>2. QueuesEmpty => QueuesEmpty'
  BY <1>1 DEF QueuesEmpty
<1>3. QueuesEmpty => \A sym \in Symbols : Final(sym) => Final(sym)' /\ trk'[sym] = trk[sym]
  BY DEF StageMoves, Final
<1> QED BY <1>1, <1>2, <1>3

\* What a queue holds, after its head is taken.
LEMMA HoldsTail ==
    ASSUME NEW S, NEW q \in Seq(S), q # <<>>, NEW sym
    PROVE  Holds(q, sym) <=> IsDeltaOf(Head(q), sym) \/ Holds(Tail(q), sym)
<1>1. Len(q) \in Nat \ {0} /\ DOMAIN q = 1 .. Len(q) /\ Head(q) = q[1]
  OBVIOUS
<1>2. DOMAIN Tail(q) = 1 .. Len(q) - 1 /\ \A i \in 1 .. Len(q) - 1 : Tail(q)[i] = q[i + 1]
  OBVIOUS
<1>3. ASSUME Holds(q, sym), ~IsDeltaOf(Head(q), sym) PROVE Holds(Tail(q), sym)
  <2>1. PICK i \in DOMAIN q : IsDeltaOf(q[i], sym)
    BY <1>3 DEF Holds
  <2>2. i # 1
    BY <1>1, <1>3, <2>1
  <2>3. i - 1 \in 1 .. Len(q) - 1 /\ (i - 1) + 1 = i
    BY <1>1, <2>1, <2>2
  <2>4. IsDeltaOf(Tail(q)[i - 1], sym)
    BY <1>2, <2>1, <2>3
  <2> QED BY <1>2, <2>3, <2>4 DEF Holds
<1>4. ASSUME IsDeltaOf(Head(q), sym) PROVE Holds(q, sym)
  BY <1>1, <1>4 DEF Holds
<1>5. ASSUME Holds(Tail(q), sym) PROVE Holds(q, sym)
  <2>1. PICK i \in 1 .. Len(q) - 1 : IsDeltaOf(Tail(q)[i], sym)
    BY <1>2, <1>5 DEF Holds
  <2>2. i + 1 \in DOMAIN q
    BY <1>1
  <2> QED BY <1>2, <2>1, <2>2 DEF Holds
<1> QED BY <1>3, <1>4, <1>5

\* While nothing is routed, the symbols known are those of the stage.
LEMMA KnownStays ==
    ASSUME PInv, StageMoves, known' = known, tape' = tape, ctx => ctx',
           main'.pc \in RoutingIsOver => main.pc \in RoutingIsOver \/ ctx'
    PROVE  KnownInv'
<1>1. KnownInv /\ in \in [Shards -> Seq(Events)] /\ known \subseteq Symbols
  BY TypesOfState DEF PInv, KnownInv, Recorded
<1>2. Recorded' = Recorded
  BY DEF Recorded, FrameAt
<1>3. ASSUME NEW sym \in Symbols
      PROVE  /\ Holds(in'[ShardOf[sym]], sym) => Holds(in[ShardOf[sym]], sym)
             /\ Holds(in[ShardOf[sym]], sym) =>
                  Holds(in'[ShardOf[sym]], sym) \/ trk'[sym] # None
  <2>1. PICK sh \in Shards : sh = ShardOf[sym]
    BY RouterAssumption
  <2>2. CASE in'[sh] = in[sh]
    BY <2>1, <2>2
  <2>3. CASE /\ in[sh] # <<>> /\ in'[sh] = Tail(in[sh])
             /\ IsDeltaOf(Head(in[sh]), sym) => trk'[sym] # None
    BY <1>1, <2>1, <2>3, HoldsTail
  <2> QED BY <2>2, <2>3 DEF StageMoves
<1>4. \A sym \in Symbols : /\ trk[sym] # None => trk'[sym] # None
                           /\ trk'[sym] # None => trk[sym] # None \/ Holds(in[ShardOf[sym]], sym)
  BY DEF StageMoves
<1>5. \A sym \in Symbols : trk'[sym] # None => sym \in known
  BY <1>1, <1>4 DEF KnownInv
<1>6. \A sym \in Symbols : Holds(in'[ShardOf[sym]], sym) => sym \in known
  BY <1>1, <1>3 DEF KnownInv
<1>7. \A sym \in known : trk'[sym] # None \/ Holds(in'[ShardOf[sym]], sym)
  BY <1>1, <1>3, <1>4 DEF KnownInv
<1>8. known \subseteq Recorded /\ (main'.pc \in RoutingIsOver /\ ~ctx' => Recorded \subseteq known)
  BY <1>1 DEF KnownInv
<1> QED BY <1>2, <1>5, <1>6, <1>7, <1>8 DEF KnownInv

\* The source and the frames in its hands and the main goroutine's.
LEMMA SourceStays ==
    ASSUME SourceInv, UNCHANGED <<tape, src, frames, known>>, ctx => ctx',
           main'.held = main.held \/ ctx',
           main'.pc = "drain" => main.pc = "drain" \/ src.returned # None
    PROVE  SourceInv'
<1>1. \A ev : OnTape(ev) => OnTape(ev)'
  BY DEF OnTape, FrameAt
<1>2. \A i : FrameAt(i)' <=> FrameAt(i)
  BY DEF FrameAt
<1>3. ~ctx' => \A i \in 1 .. Len(tape'), sym \in Symbols :
          i < src'.at /\ FrameAt(i)' /\ IsDeltaOf(tape'[i].body, sym) =>
             \/ sym \in known'
             \/ main'.held = tape'[i].body
             \/ \E j \in DOMAIN frames' : frames'[j] = tape'[i].body
  BY <1>2 DEF SourceInv
<1>4. \A j \in DOMAIN frames' :
          \E i \in 1 .. Len(tape') : FrameAt(i)' /\ tape'[i].body = frames'[j]
  BY <1>2 DEF SourceInv, OnTape
<1>5. (\A j \in DOMAIN frames : OnTape(frames[j]))'
  BY <1>4 DEF OnTape
<1> QED BY <1>3, <1>5 DEF SourceInv

\* The books that a settled stage shows.
LEMMA DumpStays ==
    ASSUME PInv, StageMoves, UNCHANGED <<known, settled, dump>>, ctx => ctx',
           main'.pc = main.pc, main'.todo = main.todo,
           \/ view' = None
           \/ view' = view /\ caller'[Main].q = caller[Main].q,
           caller'[Main].pc = "answered" => caller[Main].pc = "answered" /\ view' = view
    PROVE  DumpInv'
<1>1. DumpInv /\ SettleInv /\ MainInv /\ known \subseteq Symbols
  BY DEF PInv, KnownInv, Recorded
<1>2. \A sym \in known : trk[sym] # None => trk'[sym] # None
  BY <1>1 DEF StageMoves
<1>3. settled => \A sym \in known : trk'[sym] = trk[sym]
  BY <1>1, FinalStays DEF SettleInv
<1>4. settled /\ view # None => caller[Main].q.symbol \in known
  BY <1>1 DEF MainInv, SettleInv
<1>5. settled' /\ view' # None => view' = ViewOf(trk'[caller'[Main].q.symbol])
  BY <1>1, <1>3, <1>4 DEF DumpInv
<1>6. settled' => \A sym \in DOMAIN dump' : dump'[sym] = ViewOf(trk'[sym])
  BY <1>1, <1>3 DEF DumpInv
<1>7. main'.pc = "dump" /\ ~ctx' =>
          /\ DOMAIN dump' = known' \ main'.todo
          /\ \A sym \in known' : trk'[sym] # None
          /\ caller'[Main].pc = "answered" => view' # None
  BY <1>1, <1>2 DEF DumpInv
<1>8. /\ main'.pc \notin {"dump", "close", "compare", "done"} => dump' = <<>>
      /\ DOMAIN dump' \subseteq known'
      /\ main'.pc \in {"close", "compare"} /\ ~ctx' => DOMAIN dump' = known'
  BY <1>1 DEF DumpInv
<1>9. ViewOf(trk[caller[Main].q.symbol])' = ViewOf(trk'[caller'[Main].q.symbol])
  BY DEF ViewOf, Live
<1>10. \A sym : ViewOf(trk[sym])' = ViewOf(trk'[sym])
  BY DEF ViewOf, Live
<1> QED BY <1>5, <1>6, <1>7, <1>8, <1>9, <1>10 DEF DumpInv

\* The main goroutine, while it stays where it is.
LEMMA MainStays ==
    ASSUME MainInv, UNCHANGED <<tape, main, known, view>>, caller'[Main] = caller[Main]
    PROVE  MainInv'
<1>1. (main.held # None => main.pc \in {"select", "drain"} /\ OnTape(main.held))'
  BY DEF MainInv, OnTape, FrameAt
<1>2. /\ (main \in MainSteps)' /\ (main.pc \in {"live", "dump"} => main.todo \subseteq known)'
      /\ (view \in Views \cup {None})'
  BY DEF MainInv, MainSteps, FrameEvents, Views
<1>3. caller'[Main].pc # "idle" =>
          /\ main'.pc \in {"live", "dump"}
          /\ caller'[Main].q.symbol \in main'.todo
  BY DEF MainInv
<1>4. view' # None => caller'[Main].pc = "answered"
  BY DEF MainInv
<1> QED BY <1>1, <1>2, <1>3, <1>4 DEF MainInv

\* What the passes of waitSettled have seen stays true while nothing is routed.
LEMMA SettleStays ==
    ASSUME PInv, StageMoves, UNCHANGED <<main, known, settled>>,
           \/ view' = None
           \/ view' = view /\ caller'[Main].q = caller[Main].q
    PROVE  SettleInv'
<1>1. SettleInv /\ MainInv /\ known \subseteq Symbols
  BY DEF PInv, KnownInv, Recorded
<1>2. main'.pc = "depths" /\ main'.ok => \A sh \in Shards \ main'.todo : in'[sh] = <<>>
  BY <1>1, FinalStays DEF SettleInv
<1>3. main'.pc = "live" =>
         QueuesEmpty' /\ \A sym \in known' \ main'.todo : Final(sym)'
  BY <1>1, FinalStays DEF SettleInv
<1>4. main'.pc = "live" /\ view' # None /\ view'.live => Final(caller[Main].q.symbol)'
  <2> SUFFICES ASSUME main.pc = "live", view' = view, view # None, view.live,
                      caller'[Main].q = caller[Main].q
               PROVE  Final(caller[Main].q.symbol)'
    OBVIOUS
  <2>1. PICK z \in Symbols : z = caller[Main].q.symbol
    BY <1>1 DEF MainInv
  <2>2. Final(z)'
    BY <1>1, <2>1, FinalStays DEF SettleInv
  <2>3. z = caller'[Main].q.symbol
    BY <2>1
  <2> QED BY <2>2, <2>3 DEF Final, Replaying
<1>5. settled' => /\ QueuesEmpty'
                  /\ main'.pc \in {"dump", "close", "compare", "done"}
                  /\ \A sym \in known' : Final(sym)'
  BY <1>1, FinalStays DEF SettleInv
<1> QED BY <1>2, <1>3, <1>4, <1>5 DEF SettleInv

\* The steps of the book stage, and a signal.
LEMMA StageKeeps ==
    ASSUME PInv, QuietStep,
           UNCHANGED <<src, frames, known, view, settled, dump, main, tape>>,
           caller'[Main] = caller[Main], ctx => ctx'
    PROVE  PInv'
<1>1. RInv' /\ streamed' = 0 /\ StageMoves
  BY QuietKeeps DEF PInv
<1>2. MainInv'
  BY MainStays DEF PInv
<1>3. SourceInv'
  BY SourceStays DEF PInv
<1>4. KnownInv'
  BY <1>1, KnownStays
<1>5. SettleInv'
  BY <1>1, SettleStays
<1>6. DumpInv'
  BY <1>1, DumpStays
<1> QED BY <1>1, <1>2, <1>3, <1>4, <1>5, <1>6 DEF PInv

-----------------------------------------------------------------------------
(***************************************************************************)
(* The source, and the main goroutine up to the last frame.                *)
(***************************************************************************)
\* A step that leaves the book stage alone.
LEMMA StillKeeps ==
    ASSUME PInv, UNCHANGED routerVars
    PROVE  /\ RInv' /\ streamed' = 0 /\ StageMoves
           /\ UNCHANGED <<in, trk, caller>>
           /\ QueuesEmpty' <=> QueuesEmpty
           /\ \A sym : Final(sym)' <=> Final(sym)
<1>1. UNCHANGED vars
  BY DEF routerVars, vars
<1>2. RInv' /\ streamed' = 0 /\ StageMoves
  BY <1>1, QuietKeeps DEF PInv, QuietStep
<1>3. UNCHANGED <<in, trk, caller, loop>>
  BY DEF routerVars
<1> QED BY <1>2, <1>3 DEF Final, Replaying, QueuesEmpty, Live

\* Main, and what waits for it, before it looks at the books.
LEMMA WhileRouting ==
    ASSUME PInv, main.pc \in {"open", "select", "drain", "sample", "depths", "pause"}
    PROVE  ~settled /\ view = None /\ caller[Main].pc = "idle" /\ dump = <<>>
<1>1. MainInv /\ SettleInv /\ DumpInv
  BY DEF PInv
<1>2. ~settled
  BY <1>1 DEF SettleInv
<1>3. caller[Main].pc = "idle"
  BY <1>1 DEF MainInv
<1>4. view = None
  BY <1>1, <1>3 DEF MainInv
<1>5. dump = <<>>
  BY <1>1 DEF DumpInv
<1> QED BY <1>2, <1>3, <1>4, <1>5

\* While main neither has a query out nor looks at the books, and the stage has
\* not settled, little is left to show of it.
LEMMA AwayFromBooks ==
    ASSUME main' \in MainSteps, main'.held = None, main'.pc \notin {"live", "dump"},
           main'.pc = "depths" /\ main'.ok => \A sh \in Shards \ main'.todo : in'[sh] = <<>>,
           view' = None, caller'[Main].pc = "idle", ~settled', dump' = <<>>,
           main'.pc \in {"close", "compare"} => ctx'
    PROVE  MainInv' /\ SettleInv' /\ DumpInv'
<1>1. MainInv'
  BY DEF MainInv
<1>2. SettleInv'
  BY DEF SettleInv
<1>3. DOMAIN dump' = {}
  OBVIOUS
<1>4. DumpInv'
  BY <1>3 DEF DumpInv
<1> QED BY <1>1, <1>2, <1>4

\* The frames of a recording are what the source's frames decode to.
LEMMA FrameIs ==
    ASSUME SourceInv, NEW i \in 1 .. Len(tape), FrameAt(i)
    PROVE  tape[i].body \in FrameEvents /\ OnTape(tape[i].body)
<1>1. tape \in Seq(TapeRecords)
  BY ReplayAssumption DEF SourceInv
<1>2. tape[i] \in TapeRecords /\ tape[i].kind = "frame"
  BY <1>1 DEF FrameAt
<1> QED BY <1>2 DEF TapeRecords, OnTape

\* Run, one record.
LEMMA SourceReadsKeeps == PInv /\ SourceReads => PInv'
<1> SUFFICES ASSUME PInv, SourceReads PROVE PInv'
  OBVIOUS
<1>1. UNCHANGED routerVars /\ UNCHANGED <<known, view, settled, dump, main, tape, ctx>>
  BY DEF SourceReads
<1>2. RInv' /\ streamed' = 0 /\ StageMoves /\ UNCHANGED <<in, trk, caller>>
  BY <1>1, StillKeeps
<1>3. SourceInv'
  <2>1. SourceInv
    BY DEF PInv
  <2>2. tape \in Seq(TapeRecords) /\ Len(tape) \in Nat
    BY <2>1, ReplayAssumption DEF SourceInv
  <2>3. src.at \in Nat \ {0} /\ src.at \in 1 .. Len(tape) /\ src.returned = None
    BY <2>1, <2>2 DEF SourceInv, SourceReads
  <2>4. /\ src' = [at |-> src.at + 1, returned |-> None]
        /\ frames \in Seq(FrameEvents)
        /\ \A j \in DOMAIN frames : OnTape(frames[j])
    BY <2>1, <2>3 DEF SourceInv, SourceReads
  <2>5. /\ frames' \in Seq(FrameEvents)
        /\ \A j \in DOMAIN frames' : OnTape(frames'[j])
        /\ \A j \in DOMAIN frames : \E m \in DOMAIN frames' : frames'[m] = frames[j]
        /\ FrameAt(src.at) => \E m \in DOMAIN frames' : frames'[m] = tape[src.at].body
    <3>1. CASE FrameAt(src.at)
      <4>1. PICK ev \in FrameEvents : ev = tape[src.at].body /\ OnTape(ev)
        BY <2>1, <2>3, <3>1, FrameIs
      <4>2. frames' = Append(frames, ev)
        BY <3>1, <4>1 DEF SourceReads
      <4>3. Len(frames) \in Nat /\ DOMAIN frames = 1 .. Len(frames)
        BY <2>4
      <4>4. DOMAIN frames' = 1 .. Len(frames) + 1 /\ frames' \in Seq(FrameEvents)
        BY <2>4, <4>2
      <4>5. /\ \A j \in 1 .. Len(frames) : frames'[j] = frames[j]
            /\ frames'[Len(frames) + 1] = ev
        BY <2>4, <4>2
      <4> QED BY <2>4, <4>1, <4>3, <4>4, <4>5
    <3>2. CASE ~FrameAt(src.at)
      BY <2>4, <3>2 DEF SourceReads
    <3> QED BY <3>1, <3>2
  <2>6. \A i : FrameAt(i)' <=> FrameAt(i)
    BY <1>1 DEF FrameAt
  <2>7. (\A j \in DOMAIN frames : OnTape(frames[j]))'
    BY <1>1, <2>5, <2>6 DEF OnTape
  <2>8. ASSUME ~ctx', NEW i \in 1 .. Len(tape'), NEW sym \in Symbols,
               i < src'.at, FrameAt(i)', IsDeltaOf(tape'[i].body, sym)
        PROVE  \/ sym \in known'
               \/ main'.held = tape'[i].body
               \/ \E j \in DOMAIN frames' : frames'[j] = tape'[i].body
    <3>1. FrameAt(i) /\ i \in 1 .. Len(tape) /\ (i < src.at \/ i = src.at)
      BY <1>1, <2>2, <2>3, <2>4, <2>6, <2>8
    <3>2. CASE i = src.at
      BY <1>1, <2>5, <3>1, <3>2
    <3>3. CASE i < src.at
      <4>1. \/ sym \in known
            \/ main.held = tape[i].body
            \/ \E j \in DOMAIN frames : frames[j] = tape[i].body
        BY <1>1, <2>1, <2>8, <3>1, <3>3 DEF SourceInv
      <4> QED BY <1>1, <2>5, <4>1
    <3> QED BY <3>1, <3>2, <3>3
  <2>9. main.pc # "drain"
    BY <2>1, <2>3 DEF SourceInv
  <2>10. src' \in [at: Nat \ {0}, returned: {None, "eof", "cancelled"}]
    BY <2>3, <2>4
  <2>11. src'.returned = None /\ None # "eof" /\ None # "cancelled"
    BY <2>4, ReplayAssumption
  <2>12. main'.pc # "drain" /\ tape' \in Recordings
    BY <1>1, <2>1, <2>9 DEF SourceInv
  <2>13. frames' \in Seq(FrameEvents)
    BY <2>5
  <2> QED BY <2>7, <2>8, <2>10, <2>11, <2>12, <2>13 DEF SourceInv
<1>4. MainInv' /\ SettleInv' /\ KnownInv' /\ DumpInv'
  BY <1>1, <1>2, MainStays, SettleStays, KnownStays, DumpStays DEF PInv
<1> QED BY <1>2, <1>3, <1>4 DEF PInv

\* Run returns.
LEMMA SourceReturnsKeeps == PInv /\ SourceReturns => PInv'
<1> SUFFICES ASSUME PInv, SourceReturns PROVE PInv'
  OBVIOUS
<1>1. /\ UNCHANGED routerVars /\ UNCHANGED <<known, view, settled, dump, main, tape, ctx, frames>>
  BY DEF SourceReturns
<1>2. RInv' /\ streamed' = 0 /\ StageMoves /\ UNCHANGED <<in, trk, caller>>
  BY <1>1, StillKeeps
<1>3. SourceInv'
  <2>1. SourceInv /\ None # "eof" /\ None # "cancelled"
    BY ReplayAssumption DEF PInv
  <2>2. \A i : FrameAt(i)' <=> FrameAt(i)
    BY <1>1 DEF FrameAt
  <2>3. (\A j \in DOMAIN frames : OnTape(frames[j]))'
    BY <1>1, <2>1, <2>2 DEF OnTape, SourceInv
  <2>4. /\ src' \in [at: Nat \ {0}, returned: {"eof", "cancelled"}]
        /\ src'.at = src.at
        /\ src'.returned = "eof" => src'.at > Len(tape')
        /\ src'.returned = "cancelled" => ctx'
        /\ src'.returned # None
    BY <1>1, <2>1 DEF SourceInv, SourceReturns
  <2>5. ~ctx' => \A i \in 1 .. Len(tape'), sym \in Symbols :
          i < src'.at /\ FrameAt(i)' /\ IsDeltaOf(tape'[i].body, sym) =>
             \/ sym \in known'
             \/ main'.held = tape'[i].body
             \/ \E j \in DOMAIN frames' : frames'[j] = tape'[i].body
    BY <1>1, <2>1, <2>2, <2>4 DEF SourceInv
  <2>6. tape' \in Recordings /\ (frames \in Seq(FrameEvents))'
    BY <1>1, <2>1 DEF SourceInv, FrameEvents
  <2> QED BY <2>3, <2>4, <2>5, <2>6 DEF SourceInv
<1>4. MainInv' /\ SettleInv' /\ KnownInv' /\ DumpInv'
  BY <1>1, <1>2, MainStays, SettleStays, KnownStays, DumpStays DEF PInv
<1> QED BY <1>2, <1>3, <1>4 DEF PInv

\* A frame goes from the channel into the hands of the main goroutine.
LEMMA TakeFrameKeeps == PInv /\ TakeFrame => PInv'
<1> SUFFICES ASSUME PInv, TakeFrame PROVE PInv'
  OBVIOUS
<1>1. UNCHANGED routerVars /\ UNCHANGED <<known, view, settled, dump, tape, ctx, src>>
  BY DEF TakeFrame, MainOnly
<1>2. RInv' /\ streamed' = 0 /\ StageMoves /\ UNCHANGED <<in, trk, caller>>
  BY <1>1, StillKeeps
<1>3. main \in MainSteps /\ main.pc \in {"select", "drain"} /\ main.held = None
  BY DEF PInv, MainInv, TakeFrame
<1>4. SourceInv /\ frames \in Seq(FrameEvents) /\ frames # <<>> /\ frames' = Tail(frames)
  BY DEF PInv, SourceInv, TakeFrame
<1>5. PICK ev \in FrameEvents : ev = Head(frames) /\ OnTape(ev) /\ ev # None
  <2>1. 1 \in DOMAIN frames /\ Head(frames) = frames[1] /\ Head(frames) \in FrameEvents
    BY <1>4
  <2> QED BY <1>4, <2>1, ReplayAssumption DEF SourceInv
<1>6. main' = [main EXCEPT !.held = ev]
  BY <1>5 DEF TakeFrame
<1>7. main' \in MainSteps /\ main'.pc = main.pc /\ main'.held = ev /\ main'.todo = main.todo
  BY <1>3, <1>6 DEF MainSteps
<1>8. ~settled /\ view = None /\ caller[Main].pc = "idle" /\ dump = <<>>
  BY <1>3, WhileRouting
<1>9. \A i : FrameAt(i)' <=> FrameAt(i)
  BY <1>1 DEF FrameAt
<1>10. MainInv'
  <2>1. OnTape(main.held)'
    BY <1>1, <1>5, <1>7, <1>9 DEF OnTape
  <2> QED BY <1>1, <1>2, <1>3, <1>7, <1>8, <2>1 DEF MainInv
<1>11. KnownInv'
  BY <1>1, <1>2, <1>7, KnownStays
<1>12. SettleInv'
  BY <1>1, <1>3, <1>7, <1>8 DEF SettleInv
<1>13. DumpInv'
  BY <1>1, <1>2, <1>7, DumpStays
<1>14. SourceInv'
  <2>1. Len(frames) \in Nat \ {0} /\ DOMAIN frames = 1 .. Len(frames) /\ frames[1] = ev
    BY <1>4, <1>5
  <2>2. /\ frames' \in Seq(FrameEvents) /\ DOMAIN frames' = 1 .. Len(frames) - 1
        /\ \A j \in 1 .. Len(frames) - 1 : frames'[j] = frames[j + 1]
    BY <1>4
  <2>3. \A j \in DOMAIN frames' : OnTape(frames'[j])
    <3> TAKE j \in DOMAIN frames'
    <3>1. j + 1 \in DOMAIN frames /\ frames'[j] = frames[j + 1]
      BY <2>1, <2>2
    <3>2. OnTape(frames[j + 1])
      BY <1>4, <3>1 DEF SourceInv
    <3> QED BY <3>1, <3>2
  <2>4. (\A j \in DOMAIN frames : OnTape(frames[j]))'
    BY <1>1, <1>9, <2>3 DEF OnTape
  <2>5. ASSUME NEW x, NEW j \in DOMAIN frames, frames[j] = x
        PROVE  x = ev \/ \E m \in DOMAIN frames' : frames'[m] = x
    <3>1. CASE j = 1
      BY <2>1, <2>5, <3>1
    <3>2. CASE j # 1
      <4>1. j - 1 \in DOMAIN frames' /\ (j - 1) + 1 = j
        BY <2>1, <2>2, <3>2
      <4> QED BY <2>2, <2>5, <4>1
    <3> QED BY <3>1, <3>2
  <2>6. ASSUME ~ctx', NEW i \in 1 .. Len(tape'), NEW sym \in Symbols,
               i < src'.at, FrameAt(i)', IsDeltaOf(tape'[i].body, sym)
        PROVE  \/ sym \in known'
               \/ main'.held = tape'[i].body
               \/ \E j \in DOMAIN frames' : frames'[j] = tape'[i].body
    <3>1. /\ ~ctx /\ i \in 1 .. Len(tape) /\ i < src.at /\ FrameAt(i)
          /\ IsDeltaOf(tape[i].body, sym) /\ tape'[i].body = tape[i].body
      BY <1>1, <1>9, <2>6
    <3>2. PICK x : x = tape[i].body
      OBVIOUS
    <3>3. x # None
      BY <1>4, <3>1, <3>2, FrameIs, ReplayAssumption
    <3>4. \/ sym \in known
          \/ main.held = x
          \/ \E j \in DOMAIN frames : frames[j] = x
      BY <1>4, <3>1, <3>2 DEF SourceInv
    <3>5. sym \in known \/ x = ev \/ \E m \in DOMAIN frames' : frames'[m] = x
      BY <1>3, <2>5, <3>3, <3>4
    <3> QED BY <1>1, <1>7, <3>1, <3>2, <3>5
  <2>7. /\ tape' \in Recordings
        /\ (src \in [at: Nat \ {0}, returned: {None, "eof", "cancelled"}])'
        /\ src'.returned = "eof" => src'.at > Len(tape')
        /\ src'.returned = "cancelled" => ctx'
        /\ main'.pc = "drain" => src'.returned # None
    BY <1>1, <1>4, <1>7 DEF SourceInv
  <2> QED BY <2>2, <2>4, <2>6, <2>7 DEF SourceInv
<1> QED BY <1>2, <1>10, <1>11, <1>12, <1>13, <1>14 DEF PInv

\* Route gives up.
LEMMA HandleGivesUpKeeps == PInv /\ HandleGivesUp => PInv'
<1> SUFFICES ASSUME PInv, HandleGivesUp PROVE PInv'
  OBVIOUS
<1>1. UNCHANGED routerVars /\ UNCHANGED <<known, view, settled, dump, tape, ctx, src, frames>>
  BY DEF HandleGivesUp, pipeVars
<1>2. RInv' /\ streamed' = 0 /\ StageMoves /\ UNCHANGED <<in, trk, caller>>
  BY <1>1, StillKeeps
<1>3. main.pc \in {"select", "drain"} /\ ctx /\ main' = Step("close", {})
  BY DEF PInv, MainInv, HandleGivesUp
<1>4. main' \in MainSteps /\ main'.pc = "close" /\ main'.held = None
  BY <1>3 DEF Step, MainSteps
<1>5. MainInv' /\ SettleInv' /\ DumpInv'
  BY <1>1, <1>2, <1>3, <1>4, WhileRouting, AwayFromBooks
<1>6. SourceInv'
  BY <1>1, <1>3, <1>4, SourceStays DEF PInv
<1>7. KnownInv'
  BY <1>1, <1>2, <1>3, KnownStays
<1> QED BY <1>2, <1>5, <1>6, <1>7 DEF PInv

\* The select takes the source's return.
LEMMA SourceIsDoneKeeps == PInv /\ SourceIsDone => PInv'
<1> SUFFICES ASSUME PInv, SourceIsDone PROVE PInv'
  OBVIOUS
<1>1. UNCHANGED routerVars /\ UNCHANGED <<known, view, settled, dump, tape, ctx, src, frames>>
  BY DEF SourceIsDone, pipeVars, MainOnly
<1>2. RInv' /\ streamed' = 0 /\ StageMoves /\ UNCHANGED <<in, trk, caller>>
  BY <1>1, StillKeeps
<1>3. /\ main.pc = "select" /\ main.held = None /\ src.returned # None
      /\ main' = Step("drain", {})
  BY DEF SourceIsDone
<1>4. main' \in MainSteps /\ main'.pc = "drain" /\ main'.held = None
  BY <1>3 DEF Step, MainSteps
<1>5. MainInv' /\ SettleInv' /\ DumpInv'
  BY <1>1, <1>2, <1>3, <1>4, WhileRouting, AwayFromBooks
<1>6. KnownInv'
  BY <1>1, <1>2, <1>4, KnownStays DEF RoutingIsOver
<1>7. SourceInv'
  BY <1>1, <1>3, <1>4, SourceStays DEF PInv
<1> QED BY <1>2, <1>5, <1>6, <1>7 DEF PInv

\* The default case of the drain: the source has sent everything, unless the
\* context is cancelled.
LEMMA DrainedKeeps == PInv /\ Drained => PInv'
<1> SUFFICES ASSUME PInv, Drained PROVE PInv'
  OBVIOUS
<1>1. UNCHANGED routerVars /\ UNCHANGED <<known, view, settled, dump, tape, ctx, src, frames>>
  BY DEF Drained, pipeVars
<1>2. RInv' /\ streamed' = 0 /\ StageMoves /\ UNCHANGED <<in, trk, caller>>
  BY <1>1, StillKeeps
<1>3. /\ main.pc = "drain" /\ main.held = None /\ frames = <<>>
      /\ \/ src.returned = "eof" /\ main' = Step("sample", Shards)
         \/ src.returned # "eof" /\ main' = Step("close", {})
  BY DEF Drained
<1>4. SourceInv /\ KnownInv
  BY DEF PInv
<1>5. /\ main' \in MainSteps /\ main'.held = None /\ main'.pc \in {"sample", "close"}
      /\ main'.pc = "sample" => src.returned = "eof"
      /\ main'.pc = "close" => src.returned # "eof"
  <2>1. CASE src.returned = "eof" /\ main' = Step("sample", Shards)
    BY <2>1 DEF Step, MainSteps
  <2>2. CASE src.returned # "eof" /\ main' = Step("close", {})
    BY <2>2 DEF Step, MainSteps
  <2> QED BY <1>3, <2>1, <2>2
<1>6. main'.pc = "close" => ctx'
  BY <1>1, <1>3, <1>4, <1>5 DEF SourceInv
<1>7. MainInv' /\ SettleInv' /\ DumpInv'
  <2>1. main.pc \in {"open", "select", "drain", "sample", "depths", "pause"}
    BY <1>3
  <2>2. ~settled' /\ view' = None /\ caller'[Main].pc = "idle" /\ dump' = <<>>
    BY <1>1, <1>2, <2>1, WhileRouting
  <2> QED BY <1>5, <1>6, <2>2, AwayFromBooks
<1>8. SourceInv'
  BY <1>1, <1>3, <1>4, <1>5, SourceStays
<1>9. KnownInv'
  <2>1. CASE ctx
    BY <1>1, <1>2, <2>1, KnownStays
  <2>2. CASE ~ctx
    <3>1. Recorded \subseteq known
      <4> SUFFICES ASSUME NEW sym \in Recorded PROVE sym \in known
        OBVIOUS
      <4>1. PICK i \in 1 .. Len(tape) : FrameAt(i) /\ IsDeltaOf(tape[i].body, sym)
        BY DEF Recorded, IsDeltaOf
      <4>2. sym \in Symbols /\ i < src.at /\ Len(tape) \in Nat
        <5>1. tape \in Seq(TapeRecords) /\ src.at \in Nat
          BY <1>4, ReplayAssumption DEF SourceInv
        <5>2. src.at > Len(tape)
          BY <1>4, <1>5, <1>6, <1>1, <2>2 DEF SourceInv
        <5> QED BY <5>1, <5>2 DEF Recorded
      <4>3. tape[i].body # None
        BY <1>4, <4>1, FrameIs, ReplayAssumption
      <4>4. \/ sym \in known
            \/ main.held = tape[i].body
            \/ \E j \in DOMAIN frames : frames[j] = tape[i].body
        BY <1>4, <2>2, <4>1, <4>2 DEF SourceInv
      <4>5. DOMAIN frames = {}
        BY <1>3
      <4> QED BY <1>3, <4>3, <4>4, <4>5
    <3>2. Recorded' = Recorded
      BY <1>1 DEF Recorded, FrameAt
    <3> QED BY <1>1, <1>2, <1>4, <3>1, <3>2 DEF KnownInv
  <2> QED BY <2>1, <2>2
<1> QED BY <1>2, <1>7, <1>8, <1>9 DEF PInv

\* handle: what is in the hands of the main goroutine is routed.
LEMMA HandleKeeps == PInv /\ Handle => PInv'
<1> SUFFICES ASSUME PInv, Handle PROVE PInv'
  OBVIOUS
<1>1. UNCHANGED <<src, frames, view, settled, dump, tape, ctx>>
  BY DEF Handle, MainOnly
<1>2. /\ main \in MainSteps /\ main.pc \in {"select", "drain"}
      /\ main' = [main EXCEPT !.held = None]
      /\ SourceInv /\ KnownInv /\ RInv /\ streamed = 0
  BY DEF PInv, MainInv, Handle
<1>3. PICK ev \in FrameEvents : ev = main.held /\ OnTape(ev)
  BY DEF PInv, MainInv, Handle, MainSteps
<1>4. main' \in MainSteps /\ main'.held = None /\ main'.pc = main.pc
  BY <1>2 DEF MainSteps
<1>5. /\ \A i : FrameAt(i)' <=> FrameAt(i)
      /\ Recorded' = Recorded
  BY <1>1 DEF FrameAt, Recorded
<1>6. ~settled /\ view = None /\ caller[Main].pc = "idle" /\ dump = <<>>
  BY <1>2, WhileRouting
<1>7. caller' = caller
  <2>1. CASE ev.kind = "undecodable"
    BY <1>3, <2>1 DEF Handle, routerVars
  <2>2. CASE ev.kind # "undecodable"
    BY <1>3, <2>2 DEF Handle, Route
  <2> QED BY <2>1, <2>2
<1>8. MainInv' /\ SettleInv' /\ DumpInv'
  BY <1>1, <1>2, <1>4, <1>6, <1>7, AwayFromBooks
<1>9. ASSUME known \subseteq known',
             \A sym \in Symbols : IsDeltaOf(ev, sym) => sym \in known'
      PROVE  SourceInv'
  <2>1. (\A j \in DOMAIN frames : OnTape(frames[j]))'
    BY <1>1, <1>2, <1>5 DEF OnTape, SourceInv
  <2>2. /\ tape' \in Recordings /\ (frames \in Seq(FrameEvents))'
        /\ (src \in [at: Nat \ {0}, returned: {None, "eof", "cancelled"}])'
        /\ src'.returned = "eof" => src'.at > Len(tape')
        /\ src'.returned = "cancelled" => ctx'
        /\ main'.pc = "drain" => src'.returned # None
    BY <1>1, <1>2, <1>4 DEF SourceInv, FrameEvents
  <2>3. ~ctx' => \A i \in 1 .. Len(tape'), sym \in Symbols :
          i < src'.at /\ FrameAt(i)' /\ IsDeltaOf(tape'[i].body, sym) =>
             \/ sym \in known'
             \/ main'.held = tape'[i].body
             \/ \E j \in DOMAIN frames' : frames'[j] = tape'[i].body
    BY <1>1, <1>2, <1>3, <1>5, <1>9 DEF SourceInv
  <2> QED BY <2>1, <2>2, <2>3 DEF SourceInv
<1>10. CASE ev.kind = "undecodable"
  <2>1. UNCHANGED routerVars /\ known' = known
    BY <1>3, <1>10 DEF Handle
  <2>2. RInv' /\ streamed' = 0 /\ StageMoves
    BY <2>1, StillKeeps
  <2>3. KnownInv'
    BY <1>1, <1>4, <2>1, <2>2, KnownStays
  <2>4. SourceInv'
    BY <1>9, <1>10, <2>1 DEF IsDeltaOf
  <2> QED BY <1>8, <2>2, <2>3, <2>4 DEF PInv
<1>11. CASE ev.kind # "undecodable"
  <2>1. ev \in Events /\ ev.kind \in {"delta", "trade"} /\ ev.body.symbol \in Symbols
    BY <1>11 DEF FrameEvents, Events, Deltas
  <2>2. Route(ev) /\ fed' = fed /\ streamed' = 0
    BY <1>2, <1>3, <1>11 DEF Handle, feedVars
  <2>3. known' = IF ev.kind = "delta" THEN known \cup {ev.body.symbol} ELSE known
    BY <1>3, <1>11, <2>1 DEF Handle
  <2>4. RInv'
    <3>1. fed' \in [Symbols -> Ids] /\ streamed' \in 0 .. MaxStreamed
      BY <1>2, <2>2, RouterAssumption DEF RInv, TypeOK
    <3> QED BY <1>2, <2>1, <2>2, <3>1, RouteKeeps
  <2>5. SourceInv'
    BY <1>9, <2>3 DEF IsDeltaOf
  <2>6. PICK z \in Symbols : z = ev.body.symbol
    BY <2>1
  <2>7. /\ in \in [Shards -> Seq(Events)] /\ ShardOf \in [Symbols -> Shards]
        /\ in' = [in EXCEPT ![ShardOf[z]] = Append(@, ev)] /\ trk' = trk
    BY <1>2, <2>2, <2>6, TypesOfState, RouterAssumption DEF Route
  <2>8. ASSUME NEW sym \in Symbols
        PROVE  Holds(in'[ShardOf[sym]], sym) <=>
                  Holds(in[ShardOf[sym]], sym) \/ IsDeltaOf(ev, sym)
    <3>1. CASE ShardOf[sym] # ShardOf[z]
      BY <2>6, <2>7, <3>1 DEF IsDeltaOf
    <3>2. CASE ShardOf[sym] = ShardOf[z]
      <4>1. PICK q \in Seq(Events) : q = in[ShardOf[sym]]
        BY <2>7
      <4>2. in'[ShardOf[sym]] = Append(q, ev)
        BY <2>7, <3>2, <4>1
      <4>3. Len(q) \in Nat /\ DOMAIN q = 1 .. Len(q) /\ DOMAIN Append(q, ev) = 1 .. Len(q) + 1
        OBVIOUS
      <4>4. /\ \A i \in 1 .. Len(q) : Append(q, ev)[i] = q[i]
            /\ Append(q, ev)[Len(q) + 1] = ev
        OBVIOUS
      <4>5. Holds(Append(q, ev), sym) <=> Holds(q, sym) \/ IsDeltaOf(ev, sym)
        BY <4>3, <4>4 DEF Holds
      <4> QED BY <4>1, <4>2, <4>5
    <3> QED BY <3>1, <3>2
  <2>9. IsDeltaOf(ev, z) => z \in Recorded
    <3>1. PICK i \in 1 .. Len(tape) : FrameAt(i) /\ tape[i].body = ev
      BY <1>3 DEF OnTape
    <3> QED BY <3>1 DEF Recorded, IsDeltaOf
  <2>10. \A sym \in Symbols : IsDeltaOf(ev, sym) <=> ev.kind = "delta" /\ sym = z
    BY <2>6 DEF IsDeltaOf
  <2>11. KnownInv'
    <3>1. known' \subseteq Recorded'
      BY <1>2, <1>5, <2>3, <2>6, <2>9, <2>10 DEF KnownInv
    <3>2. main'.pc \notin RoutingIsOver
      BY <1>2, <1>4 DEF RoutingIsOver
    <3>3. known \subseteq Symbols
      BY <1>2 DEF KnownInv, Recorded
    <3>4. /\ \A sym \in Symbols : trk'[sym] # None => sym \in known'
          /\ \A sym \in Symbols : Holds(in'[ShardOf[sym]], sym) => sym \in known'
          /\ \A sym \in known' : trk'[sym] # None \/ Holds(in'[ShardOf[sym]], sym)
      BY <1>2, <2>3, <2>6, <2>7, <2>8, <2>10, <3>3 DEF KnownInv
    <3> QED BY <3>1, <3>2, <3>4 DEF KnownInv
  <2> QED BY <1>8, <2>2, <2>4, <2>5, <2>11 DEF PInv
<1> QED BY <1>10, <1>11

-----------------------------------------------------------------------------
(***************************************************************************)
(* waitSettled and dumpViews.                                              *)
(***************************************************************************)
\* Steps of the main goroutine after the last frame.
LEMMA MainGoesOn ==
    ASSUME PInv, QuietStep, UNCHANGED <<src, frames, known, tape, ctx>>,
           main.pc \in RoutingIsOver, main'.held = None, main'.pc # "drain"
    PROVE  RInv' /\ streamed' = 0 /\ SourceInv' /\ KnownInv' /\ StageMoves
<1>1. main.held = None /\ SourceInv
  BY DEF PInv, MainInv, RoutingIsOver
<1>2. RInv' /\ streamed' = 0 /\ StageMoves
  BY QuietKeeps DEF PInv
<1>3. SourceInv'
  BY <1>1, SourceStays
<1>4. KnownInv'
  BY <1>2, KnownStays
<1> QED BY <1>2, <1>3, <1>4

\* A step that leaves the stage alone is quiet.
LEMMA WaitIsQuiet ==
    ASSUME MainWaits
    PROVE  /\ QuietStep /\ UNCHANGED routerVars
           /\ UNCHANGED <<src, frames, known, served, view, dump, tape, first, rep, ctx>>
  BY DEF MainWaits, MainOnly, QuietStep, vars, routerVars

\* The passes of waitSettled over the counters and the depths.
LEMMA PassKeeps ==
    ASSUME PInv, MainWaits, settled' = settled,
           main.pc \in {"sample", "depths", "pause"},
           main' \in MainSteps, main'.held = None, main'.pc \in {"sample", "depths", "pause"},
           main'.pc = "depths" /\ main'.ok => \A sh \in Shards \ main'.todo : in[sh] = <<>>
    PROVE  PInv'
<1>1. /\ QuietStep /\ UNCHANGED routerVars
      /\ UNCHANGED <<src, frames, known, view, dump, tape, ctx>>
  BY WaitIsQuiet
<1>2. UNCHANGED <<in, trk, caller>>
  BY <1>1 DEF routerVars
<1>3. RInv' /\ streamed' = 0 /\ SourceInv' /\ KnownInv'
  BY <1>1, MainGoesOn DEF RoutingIsOver
<1>4. ~settled /\ view = None /\ caller[Main].pc = "idle" /\ dump = <<>>
  BY WhileRouting
<1>5. MainInv' /\ SettleInv' /\ DumpInv'
  BY <1>1, <1>2, <1>4, AwayFromBooks
<1> QED BY <1>3, <1>5 DEF PInv

\* The loop in a fixed order takes one of those left.
LEMMA NextOfIsLeft ==
    ASSUME NEW todo, todo # {}
    PROVE  NextOf(todo) \in todo
  BY DEF NextOf

\* Router.Stats and queuesEmpty, one shard, and the end of a pass.
LEMMA SampleKeeps == PInv /\ (Sample \/ ReadDepth \/ SampleAgain) => PInv'
<1> SUFFICES ASSUME PInv, Sample \/ ReadDepth \/ SampleAgain PROVE PInv'
  OBVIOUS
<1>1. main \in MainSteps /\ (main.pc \notin {"select", "drain"} => main.held = None)
  BY DEF PInv, MainInv
<1>2. CASE Sample
  <2>1. PICK sh : main' = [main EXCEPT !.todo = @ \ {sh}, !.ok = @ /\ sh \notin moved]
    BY <1>2 DEF Sample
  <2>2. main.pc = "sample" /\ MainWaits /\ settled' = settled
    BY <1>2 DEF Sample
  <2>3. main' \in MainSteps /\ main'.pc = "sample" /\ main'.held = None
    BY <1>1, <2>1, <2>2 DEF MainSteps
  <2> QED BY <2>2, <2>3, PassKeeps
<1>3. CASE ReadDepth
  <2>1. PICK sh \in main.todo :
           main' = [main EXCEPT !.todo = @ \ {sh}, !.ok = @ /\ in[sh] = <<>>]
    BY <1>3, NextOfIsLeft DEF ReadDepth
  <2>2. main.pc = "depths" /\ MainWaits /\ settled' = settled
    BY <1>3 DEF ReadDepth
  <2>3. /\ main' \in MainSteps /\ main'.pc = "depths" /\ main'.held = None
        /\ main'.todo = main.todo \ {sh}
        /\ main'.ok => main.ok /\ in[sh] = <<>>
    BY <1>1, <2>1, <2>2 DEF MainSteps
  <2>4. main'.ok => \A s \in Shards \ main'.todo : in[s] = <<>>
    BY <2>2, <2>3 DEF PInv, SettleInv
  <2> QED BY <2>2, <2>3, <2>4, PassKeeps
<1>4. CASE SampleAgain
  <2>1. main.pc = "pause" /\ MainWaits /\ settled' = settled /\ main' = Step("sample", Shards)
    BY <1>4 DEF SampleAgain
  <2>2. main' \in MainSteps /\ main'.pc = "sample" /\ main'.held = None
    BY <2>1 DEF Step, MainSteps
  <2> QED BY <2>1, <2>2, PassKeeps
<1> QED BY <1>2, <1>3, <1>4

\* The end of a pass: when no counter moved and all queues were empty, the
\* queues are empty still.
LEMMA PassIsOverKeeps == PInv /\ PassIsOver => PInv'
<1> SUFFICES ASSUME PInv, PassIsOver PROVE PInv'
  OBVIOUS
<1>1. /\ main.pc \in {"sample", "depths"} /\ main.todo = {} /\ MainWaits
      /\ settled' = settled
  BY DEF PassIsOver
<1>2. CASE ~main.ok \/ main.pc = "sample"
  <2>1. main' = Step("pause", {}) \/ main' = Step("depths", Shards)
    BY <1>2 DEF PassIsOver
  <2>2. /\ main' \in MainSteps /\ main'.held = None /\ main'.pc \in {"pause", "depths"}
        /\ main'.pc = "depths" => main'.todo = Shards
    <3>1. CASE main' = Step("pause", {})
      BY <3>1 DEF Step, MainSteps
    <3>2. CASE main' = Step("depths", Shards)
      BY <3>2 DEF Step, MainSteps
    <3> QED BY <2>1, <3>1, <3>2
  <2> QED BY <1>1, <2>2, PassKeeps
<1>3. CASE main.ok /\ main.pc = "depths"
  <2>1. main' = Step("live", known)
    BY <1>3 DEF PassIsOver
  <2>2. known \subseteq Symbols
    BY DEF PInv, KnownInv, Recorded
  <2>3. /\ main' \in MainSteps /\ main'.pc = "live" /\ main'.held = None /\ main'.todo = known
    BY <2>1, <2>2 DEF Step, MainSteps
  <2>4. /\ QuietStep /\ UNCHANGED routerVars
        /\ UNCHANGED <<src, frames, known, view, dump, tape, ctx>>
    BY <1>1, WaitIsQuiet
  <2>5. UNCHANGED <<in, trk, caller>>
    BY <2>4 DEF routerVars
  <2>6. RInv' /\ streamed' = 0 /\ SourceInv' /\ KnownInv'
    BY <1>1, <2>3, <2>4, MainGoesOn DEF RoutingIsOver
  <2>7. ~settled /\ view = None /\ caller[Main].pc = "idle" /\ dump = <<>>
    BY <1>1, WhileRouting
  <2>8. QueuesEmpty
    BY <1>1, <1>3 DEF PInv, SettleInv, QueuesEmpty
  <2>9. MainInv'
    BY <2>3, <2>4, <2>5, <2>7 DEF MainInv
  <2>10. QueuesEmpty'
    BY <2>5, <2>8 DEF QueuesEmpty
  <2>11. SettleInv'
    BY <1>1, <2>3, <2>4, <2>7, <2>10 DEF SettleInv
  <2>12. DOMAIN dump' = {} /\ dump' = <<>>
    BY <2>4, <2>7
  <2>13. DumpInv'
    BY <1>1, <2>3, <2>7, <2>12 DEF DumpInv
  <2> QED BY <2>6, <2>9, <2>11, <2>13 DEF PInv
<1> QED BY <1>1, <1>2, <1>3

\* A query is sent.
LEMMA AskBookKeeps ==
    ASSUME PInv, NEW sym \in Symbols, AskBook(sym)
    PROVE  PInv'
<1>1. /\ UNCHANGED <<src, frames, known, view, settled, dump, main, tape, ctx>>
      /\ main.pc \in {"live", "dump"} /\ sym \in main.todo
  BY DEF AskBook, pipeVars, MainOnly
<1>2. PICK q \in Questions : q = [symbol |-> sym, check |-> None] /\ Ask(Main, q)
  BY DEF AskBook, Questions
<1>3. QuietStep /\ Main \in Callers
  BY <1>2, ReplayAssumption DEF QuietStep, CallerStep
<1>4. MainInv /\ main.held = None
  BY <1>1 DEF PInv, MainInv
<1>5. RInv' /\ streamed' = 0 /\ SourceInv' /\ KnownInv' /\ StageMoves
  BY <1>1, <1>3, <1>4, MainGoesOn DEF RoutingIsOver
<1>6. caller[Main].pc = "idle" /\ caller'[Main] = [pc |-> "asking", q |-> q, outcome |-> None]
  <2>1. DOMAIN caller = Callers
    BY DEF PInv, RInv, TypeOK
  <2> QED BY <1>2, <1>3, <2>1 DEF Ask, SetCaller
<1>7. view' = None
  BY <1>1, <1>4, <1>6 DEF MainInv
<1>8. caller'[Main].pc = "asking" /\ caller'[Main].q.symbol = sym
  BY <1>2, <1>6
<1>9. MainInv'
  <2>1. /\ (main \in MainSteps)' /\ (main.pc \in {"live", "dump"} => main.todo \subseteq known)'
    BY <1>1, <1>4 DEF MainInv, MainSteps, FrameEvents
  <2> QED BY <1>1, <1>4, <1>7, <1>8, <2>1 DEF MainInv
<1>10. SettleInv'
  BY <1>1, <1>5, <1>7, SettleStays
<1>11. DumpInv'
  BY <1>1, <1>5, <1>7, <1>8, DumpStays
<1> QED BY <1>5, <1>9, <1>10, <1>11 DEF PInv

\* What a view shows.
LEMMA ViewIs ==
    ASSUME NEW t \in Trackers
    PROVE  ViewOf(t) \in Views /\ ViewOf(t) # None /\ (ViewOf(t).live <=> Live(t))
<1>1. t.seq.last \in Ids /\ t.book \in Books /\ Live(t) \in BOOLEAN
  BY DEF Trackers, Live, Positions
<1>2. ViewOf(t) \in Views /\ (ViewOf(t).live <=> Live(t))
  BY <1>1 DEF ViewOf, Views
<1> QED BY <1>2, ReplayAssumption

\* shard.answer: a view that is live is of a book that is final.
LEMMA AnswerMainKeeps == PInv /\ AnswerMain => PInv'
<1> SUFFICES ASSUME PInv, AnswerMain PROVE PInv'
  OBVIOUS
<1>1. /\ UNCHANGED <<src, frames, known, settled, dump, main, tape, ctx>>
      /\ Answer(Main)
  BY DEF AnswerMain, MainOnly
<1>2. QuietStep /\ Main \in Callers
  BY <1>1, ReplayAssumption DEF QuietStep, CallerStep
<1>3. MainInv /\ SettleInv /\ DumpInv /\ known \subseteq Symbols
  BY DEF PInv, KnownInv, Recorded
<1>4. caller[Main].pc = "asking"
  BY <1>1 DEF Answer
<1>5. PICK z \in Symbols : z = caller[Main].q.symbol /\ z \in main.todo /\ z \in known
  BY <1>3, <1>4 DEF MainInv
<1>6. main.pc \in {"live", "dump"} /\ main.held = None
  BY <1>3, <1>4 DEF MainInv
<1>7. RInv' /\ streamed' = 0 /\ SourceInv' /\ KnownInv' /\ StageMoves
  BY <1>1, <1>2, <1>6, MainGoesOn DEF RoutingIsOver
<1>8. /\ caller'[Main].pc = "answered" /\ caller'[Main].q = caller[Main].q
      /\ UNCHANGED <<in, trk, loop>> /\ loop[ShardOf[z]] = Selecting
  <2>1. caller \in [Callers -> [pc: {"idle", "asking", "answered"},
                                q: Questions \cup {None}, outcome: Outcomes]]
    BY DEF PInv, RInv, TypeOK
  <2> QED BY <1>1, <1>2, <1>5, <2>1 DEF Answer, SetCaller, shardVars
<1>9. view' = IF trk[z] = None THEN None ELSE ViewOf(trk[z])
  BY <1>5 DEF AnswerMain
<1>10. /\ trk[z] # None => view' \in Views /\ view' # None /\ (view'.live <=> Live(trk[z]))
       /\ trk[z] = None => view' = None
  <2>1. trk[z] \in Trackers \cup {None}
    BY TypesOfState DEF PInv
  <2> QED BY <1>9, <2>1, ViewIs
<1>11. caller'[Main].q.symbol = z
  BY <1>5, <1>8
<1>12. \A sym : Final(sym)' <=> Final(sym)
  BY <1>8 DEF Final, Replaying, Live
<1>13. MainInv'
  <2>1. /\ (main \in MainSteps)' /\ (main.pc \in {"live", "dump"} => main.todo \subseteq known)'
    BY <1>1, <1>3 DEF MainInv, MainSteps, FrameEvents
  <2>2. view' \in Views \cup {None}
    BY <1>10
  <2> QED BY <1>1, <1>5, <1>6, <1>8, <1>11, <2>1, <2>2 DEF MainInv
<1>14. SettleInv'
  <2>1. ~Replaying(z)
    BY <1>8 DEF Replaying, Selecting
  <2>2. view' # None /\ view'.live => Final(z)
    BY <1>10, <2>1 DEF Final
  <2>3. (view # None /\ view.live => Final(caller[Main].q.symbol))'
    <3>1. view' # None /\ view'.live => Final(z)'
      BY <1>12, <2>2
    <3> QED BY <1>11, <3>1 DEF Final, Replaying
  <2>4. QueuesEmpty' <=> QueuesEmpty
    BY <1>8 DEF QueuesEmpty
  <2>5. main'.pc = "live" => QueuesEmpty' /\ \A sym \in known' \ main'.todo : Final(sym)'
    BY <1>1, <1>3, <1>12, <2>4 DEF SettleInv
  <2>6. settled' => /\ QueuesEmpty'
                    /\ main'.pc \in {"dump", "close", "compare", "done"}
                    /\ \A sym \in known' : Final(sym)'
    BY <1>1, <1>3, <1>12, <2>4 DEF SettleInv
  <2>7. main'.pc # "depths"
    BY <1>1, <1>6
  <2> QED BY <2>3, <2>5, <2>6, <2>7 DEF SettleInv
<1>15. DumpInv'
  <2>1. \A sym : ViewOf(trk[sym])' = ViewOf(trk'[sym])
    BY DEF ViewOf, Live
  <2>2. (settled /\ view # None => view = ViewOf(trk[caller[Main].q.symbol]))'
    <3>1. settled' /\ view' # None => view' = ViewOf(trk'[z])
      BY <1>8, <1>9
    <3>2. ViewOf(trk[caller[Main].q.symbol])' = ViewOf(trk'[caller'[Main].q.symbol])
      BY DEF ViewOf, Live
    <3> QED BY <1>11, <3>1, <3>2
  <2>3. main'.pc = "dump" /\ ~ctx' =>
          /\ DOMAIN dump' = known' \ main'.todo
          /\ \A sym \in known' : trk'[sym] # None
          /\ view' # None
    BY <1>1, <1>3, <1>5, <1>8, <1>10 DEF DumpInv
  <2>4. settled' => \A sym \in DOMAIN dump' : dump'[sym] = ViewOf(trk'[sym])
    BY <1>1, <1>3, <1>8 DEF DumpInv
  <2>5. /\ main'.pc \notin {"dump", "close", "compare", "done"} => dump' = <<>>
        /\ DOMAIN dump' \subseteq known'
        /\ main'.pc \in {"close", "compare"} /\ ~ctx' => DOMAIN dump' = known'
    BY <1>1, <1>3 DEF DumpInv
  <2> QED BY <2>1, <2>2, <2>3, <2>4, <2>5 DEF DumpInv
<1> QED BY <1>7, <1>13, <1>14, <1>15 DEF PInv

\* ask returns to the main goroutine.
LEMMA AskIsOver ==
    ASSUME PInv, AskReturns(Main) \/ GiveUp(Main)
    PROVE  /\ QuietStep /\ UNCHANGED <<in, trk, loop>> /\ caller'[Main].pc = "idle"
           /\ main.pc \in {"live", "dump"} /\ main.held = None
           /\ QueuesEmpty' <=> QueuesEmpty
           /\ \A sym : Final(sym)' <=> Final(sym)
<1>1. Main \in Callers /\ DOMAIN caller = Callers
  BY ReplayAssumption DEF PInv, RInv, TypeOK
<1>2. QuietStep
  BY <1>1 DEF QuietStep, CallerStep
<1>3. /\ UNCHANGED <<in, trk, loop>> /\ caller'[Main].pc = "idle" /\ caller[Main].pc # "idle"
  BY <1>1 DEF AskReturns, GiveUp, SetCaller, shardVars
<1>4. main.pc \in {"live", "dump"} /\ main.held = None
  BY <1>3 DEF PInv, MainInv
<1> QED BY <1>2, <1>3, <1>4 DEF Final, Replaying, QueuesEmpty, Live

\* The rest of allLive after one answer.
LEMMA LiveReturnsKeeps == PInv /\ LiveReturns => PInv'
<1> SUFFICES ASSUME PInv, LiveReturns PROVE PInv'
  OBVIOUS
<1>1. /\ UNCHANGED <<src, frames, known, settled, dump, tape, ctx>> /\ view' = None
      /\ main.pc = "live" /\ AskReturns(Main)
  BY DEF LiveReturns, MainOnly
<1>2. /\ QuietStep /\ UNCHANGED <<in, trk, loop>> /\ caller'[Main].pc = "idle"
      /\ main.held = None /\ (QueuesEmpty' <=> QueuesEmpty)
      /\ \A sym : Final(sym)' <=> Final(sym)
  BY <1>1, AskIsOver
<1>3. MainInv /\ SettleInv /\ DumpInv
  BY DEF PInv
<1>4. PICK z : z = caller[Main].q.symbol
  OBVIOUS
<1>5. \/ view # None /\ view.live /\ main' = [main EXCEPT !.todo = @ \ {z}]
      \/ main' = Step("pause", {})
  BY <1>4 DEF LiveReturns
<1>6. ~settled' /\ dump' = <<>>
  BY <1>1, <1>3 DEF SettleInv, DumpInv
<1>7. main' \in MainSteps /\ main'.held = None /\ main'.pc \in {"live", "pause"}
  <2>1. CASE main' = [main EXCEPT !.todo = @ \ {z}]
    BY <1>1, <1>2, <1>3, <2>1 DEF MainInv, MainSteps
  <2>2. CASE main' = Step("pause", {})
    BY <2>2 DEF Step, MainSteps
  <2> QED BY <1>5, <2>1, <2>2
<1>8. RInv' /\ streamed' = 0 /\ SourceInv' /\ KnownInv'
  BY <1>1, <1>2, <1>7, MainGoesOn DEF RoutingIsOver
<1>9. CASE main'.pc = "pause"
  <2>1. MainInv' /\ SettleInv' /\ DumpInv'
    BY <1>1, <1>2, <1>6, <1>7, <1>9, AwayFromBooks
  <2> QED BY <1>8, <2>1 DEF PInv
<1>10. CASE main'.pc = "live"
  <2>1. view # None /\ view.live /\ main' = [main EXCEPT !.todo = @ \ {z}]
    BY <1>5, <1>10 DEF Step
  <2>2. Final(z)
    BY <1>1, <1>3, <1>4, <2>1 DEF SettleInv
  <2>3. main'.todo = main.todo \ {z} /\ main.todo \subseteq known
    BY <1>1, <1>3, <2>1 DEF MainInv, MainSteps
  <2>4. MainInv'
    BY <1>1, <1>2, <1>7, <2>3 DEF MainInv
  <2>5. \A sym \in known' \ main'.todo : Final(sym)'
    BY <1>1, <1>2, <1>3, <2>2, <2>3 DEF SettleInv
  <2>6. QueuesEmpty'
    BY <1>1, <1>2, <1>3 DEF SettleInv
  <2>7. SettleInv'
    BY <1>1, <1>6, <1>10, <2>5, <2>6 DEF SettleInv
  <2>8. DOMAIN dump' = {}
    BY <1>6
  <2>9. DumpInv'
    BY <1>6, <1>10, <2>8 DEF DumpInv
  <2> QED BY <1>8, <2>4, <2>7, <2>9 DEF PInv
<1> QED BY <1>7, <1>9, <1>10

\* waitSettled returns, and the dump begins: every known symbol has a tracker.
LEMMA DumpBegins ==
    ASSUME PInv, MainWaits, main.pc \in {"pause", "live"}, main' = Step("dump", known),
           main.pc = "live" => main.todo = {},
           \A sym \in known : trk[sym] # None \/ ctx,
           settled' => QueuesEmpty /\ \A sym \in known : Final(sym)
    PROVE  PInv'
<1>1. /\ QuietStep /\ UNCHANGED routerVars
      /\ UNCHANGED <<src, frames, known, view, dump, tape, ctx>>
  BY WaitIsQuiet
<1>2. /\ UNCHANGED <<in, trk, caller>> /\ (QueuesEmpty' <=> QueuesEmpty)
      /\ \A sym : Final(sym)' <=> Final(sym)
  BY <1>1, StillKeeps
<1>3. MainInv /\ SettleInv /\ DumpInv /\ known \subseteq Symbols
  BY DEF PInv, KnownInv, Recorded
<1>4. main' \in MainSteps /\ main'.held = None /\ main'.pc = "dump" /\ main'.todo = known
  BY <1>3 DEF Step, MainSteps
<1>5. RInv' /\ streamed' = 0 /\ SourceInv' /\ KnownInv'
  BY <1>1, <1>4, MainGoesOn DEF RoutingIsOver
<1>6. caller[Main].pc = "idle"
  BY <1>3 DEF MainInv
<1>7. view = None
  BY <1>3, <1>6 DEF MainInv
<1>8. MainInv'
  BY <1>1, <1>2, <1>4, <1>6, <1>7 DEF MainInv
<1>9. SettleInv'
  BY <1>1, <1>2, <1>4 DEF SettleInv
<1>10. dump' = <<>> /\ DOMAIN dump' = {}
  BY <1>1, <1>3 DEF DumpInv
<1>11. DumpInv'
  <2>1. ~ctx' => \A sym \in known' : trk'[sym] # None
    BY <1>1, <1>2
  <2>2. caller'[Main].pc = "idle" /\ view' = None
    BY <1>1, <1>2, <1>6, <1>7
  <2> QED BY <1>1, <1>4, <1>10, <2>1, <2>2 DEF DumpInv
<1> QED BY <1>5, <1>8, <1>9, <1>11 DEF PInv

\* waitSettled returns true.
LEMMA AllLiveKeeps == PInv /\ AllLive => PInv'
<1> SUFFICES ASSUME PInv, AllLive PROVE PInv'
  OBVIOUS
<1>1. main.pc = "live" /\ main.todo = {} /\ main' = Step("dump", known) /\ MainWaits
  BY DEF AllLive
<1>2. QueuesEmpty /\ \A sym \in known : Final(sym)
  BY <1>1 DEF PInv, SettleInv
<1>3. \A sym \in known : trk[sym] # None
  BY <1>2 DEF Final
<1> QED BY <1>1, <1>2, <1>3, DumpBegins

\* waitSettled returns false.
LEMMA NotSettledKeeps == PInv /\ NotSettled => PInv'
<1> SUFFICES ASSUME PInv, NotSettled PROVE PInv'
  OBVIOUS
<1>1. /\ main.pc = "pause" /\ main' = Step("dump", known) /\ MainWaits /\ settled' = settled
  BY DEF NotSettled
<1>2. ~settled'
  BY <1>1 DEF PInv, SettleInv
<1>3. ASSUME NEW sym \in known, ~ctx PROVE trk[sym] # None
  <2>1. sym \in Symbols /\ ShardOf[sym] \in Shards
    BY RouterAssumption DEF PInv, KnownInv, Recorded
  <2>2. in[ShardOf[sym]] = <<>>
    BY <1>3, <2>1 DEF NotSettled, OnlyRetriesLeft
  <2>3. ~Holds(in[ShardOf[sym]], sym)
    <3>1. DOMAIN in[ShardOf[sym]] = {}
      BY <2>2
    <3> QED BY <3>1 DEF Holds
  <2> QED BY <2>3 DEF PInv, KnownInv
<1> QED BY <1>1, <1>2, <1>3, DumpBegins

\* The dump is over, and what is left is the Close and the comparison.
LEMMA DumpIsOver ==
    ASSUME PInv, QuietStep, UNCHANGED <<src, frames, known, settled, dump, tape, ctx>>,
           main.pc \in {"dump", "close", "compare"}, view' = None, caller'[Main].pc = "idle",
           main' \in MainSteps, main'.held = None, main'.pc \in {"close", "compare", "done"},
           main'.pc \in {"close", "compare"} /\ ~ctx => DOMAIN dump = known
    PROVE  PInv'
<1>1. RInv' /\ streamed' = 0 /\ SourceInv' /\ KnownInv' /\ StageMoves
  BY MainGoesOn DEF RoutingIsOver
<1>2. SettleInv /\ DumpInv /\ known \subseteq Symbols
  BY DEF PInv, KnownInv, Recorded
<1>3. MainInv'
  BY DEF MainInv
<1>4. settled => /\ QueuesEmpty'
                 /\ \A sym \in known : Final(sym)' /\ trk'[sym] = trk[sym]
  BY <1>1, <1>2, FinalStays DEF SettleInv
<1>5. SettleInv'
  BY <1>4 DEF SettleInv
<1>6. settled' => \A sym \in DOMAIN dump' : dump'[sym] = ViewOf(trk'[sym])
  BY <1>2, <1>4 DEF DumpInv
<1>7. \A sym : ViewOf(trk[sym])' = ViewOf(trk'[sym])
  BY DEF ViewOf, Live
<1>8. DOMAIN dump' \subseteq known'
  BY <1>2 DEF DumpInv
<1>9. DumpInv'
  BY <1>6, <1>7, <1>8 DEF DumpInv
<1> QED BY <1>1, <1>3, <1>5, <1>9 DEF PInv

\* dumpViews, after one answer.
LEMMA DumpReturnsKeeps == PInv /\ DumpReturns => PInv'
<1> SUFFICES ASSUME PInv, DumpReturns PROVE PInv'
  OBVIOUS
<1>1. /\ UNCHANGED <<src, frames, known, settled, tape, ctx>> /\ view' = None
      /\ main.pc = "dump" /\ AskReturns(Main) /\ caller[Main].pc = "answered"
  BY DEF DumpReturns
<1>2. /\ QuietStep /\ UNCHANGED <<in, trk, loop>> /\ caller'[Main].pc = "idle"
      /\ main.held = None /\ (QueuesEmpty' <=> QueuesEmpty)
      /\ \A sym : Final(sym)' <=> Final(sym)
  BY <1>1, AskIsOver
<1>3. MainInv /\ SettleInv /\ DumpInv
  BY DEF PInv
<1>4. PICK z : z = caller[Main].q.symbol /\ z \in main.todo /\ z \in known
  BY <1>1, <1>3 DEF MainInv
<1>5. CASE view = None
  <2>1. main' = Step("close", {}) /\ dump' = dump
    BY <1>5 DEF DumpReturns
  <2>2. ctx
    BY <1>1, <1>3, <1>5 DEF DumpInv
  <2>3. main' \in MainSteps /\ main'.held = None /\ main'.pc = "close"
    BY <2>1 DEF Step, MainSteps
  <2> QED BY <1>1, <1>2, <2>1, <2>2, <2>3, DumpIsOver
<1>6. CASE view # None
  <2>1. /\ main' = [main EXCEPT !.todo = @ \ {z}]
        /\ dump' = [x \in DOMAIN dump \cup {z} |-> IF x = z THEN view ELSE dump[x]]
    BY <1>4, <1>6 DEF DumpReturns
  <2>2. /\ main' \in MainSteps /\ main'.held = None /\ main'.pc = "dump"
        /\ main'.todo = main.todo \ {z} /\ main.todo \subseteq known
    BY <1>1, <1>2, <1>3, <2>1 DEF MainInv, MainSteps
  <2>3. RInv' /\ streamed' = 0 /\ SourceInv' /\ KnownInv'
    BY <1>1, <1>2, <2>2, MainGoesOn DEF RoutingIsOver
  <2>4. MainInv'
    BY <1>1, <1>2, <2>2 DEF MainInv
  <2>5. SettleInv'
    BY <1>1, <1>2, <1>3, <2>2 DEF SettleInv
  <2>6. /\ DOMAIN dump' = DOMAIN dump \cup {z}
        /\ \A sym \in DOMAIN dump : sym # z => dump'[sym] = dump[sym]
        /\ dump'[z] = view
    BY <2>1
  <2>7. settled' => \A sym \in DOMAIN dump' : dump'[sym] = ViewOf(trk'[sym])
    <3>1. settled' => view = ViewOf(trk[z]) /\ \A sym \in DOMAIN dump : dump[sym] = ViewOf(trk[sym])
      BY <1>1, <1>3, <1>4, <1>6 DEF DumpInv
    <3> QED BY <1>2, <2>6, <3>1
  <2>8. \A sym : ViewOf(trk[sym])' = ViewOf(trk'[sym])
    BY DEF ViewOf, Live
  <2>9. DOMAIN dump' \subseteq known'
    BY <1>1, <1>3, <1>4, <2>6 DEF DumpInv
  <2>10. ~ctx' => /\ DOMAIN dump' = known' \ main'.todo
                  /\ \A sym \in known' : trk'[sym] # None
    BY <1>1, <1>2, <1>3, <1>4, <2>2, <2>6 DEF DumpInv
  <2>11. DumpInv'
    BY <1>1, <1>2, <2>2, <2>7, <2>8, <2>9, <2>10 DEF DumpInv
  <2> QED BY <2>3, <2>4, <2>5, <2>11 DEF PInv
<1> QED BY <1>5, <1>6

\* The context is cancelled under a query.
LEMMA QueryGivesUpKeeps == PInv /\ QueryGivesUp => PInv'
<1> SUFFICES ASSUME PInv, QueryGivesUp PROVE PInv'
  OBVIOUS
<1>1. /\ UNCHANGED <<src, frames, known, settled, dump, tape, ctx>> /\ view' = None /\ ctx
      /\ GiveUp(Main)
  BY DEF QueryGivesUp
<1>2. /\ QuietStep /\ UNCHANGED <<in, trk, loop>> /\ caller'[Main].pc = "idle"
      /\ main.pc \in {"live", "dump"} /\ main.held = None
  BY <1>1, AskIsOver
<1>3. CASE main.pc = "live"
  <2>1. main' = Step("pause", {})
    BY <1>3 DEF QueryGivesUp
  <2>2. main' \in MainSteps /\ main'.held = None /\ main'.pc = "pause"
    BY <2>1 DEF Step, MainSteps
  <2>3. RInv' /\ streamed' = 0 /\ SourceInv' /\ KnownInv'
    BY <1>1, <1>2, <1>3, <2>2, MainGoesOn DEF RoutingIsOver
  <2>4. ~settled' /\ dump' = <<>>
    BY <1>1, <1>3 DEF PInv, SettleInv, DumpInv
  <2>5. MainInv' /\ SettleInv' /\ DumpInv'
    BY <1>1, <1>2, <2>2, <2>4, AwayFromBooks
  <2> QED BY <2>3, <2>5 DEF PInv
<1>4. CASE main.pc = "dump"
  <2>1. main' = Step("close", {})
    BY <1>4 DEF QueryGivesUp
  <2>2. main' \in MainSteps /\ main'.held = None /\ main'.pc = "close"
    BY <2>1 DEF Step, MainSteps
  <2> QED BY <1>1, <1>2, <1>4, <2>2, DumpIsOver
<1> QED BY <1>2, <1>3, <1>4

\* dumpViews returns, and the Close of the router after it.
LEMMA DumpedKeeps == PInv /\ (Dumped \/ RouterIsClosed) => PInv'
<1> SUFFICES ASSUME PInv, Dumped \/ RouterIsClosed PROVE PInv'
  OBVIOUS
<1>1. MainInv /\ DumpInv
  BY DEF PInv
<1>2. CASE Dumped
  <2>1. main.pc = "dump" /\ main.todo = {} /\ main' = Step("close", {}) /\ MainWaits
        /\ settled' = settled
    BY <1>2 DEF Dumped
  <2>2. /\ QuietStep /\ UNCHANGED routerVars
        /\ UNCHANGED <<src, frames, known, view, dump, tape, ctx>>
    BY <2>1, WaitIsQuiet
  <2>3. main' \in MainSteps /\ main'.held = None /\ main'.pc = "close"
    BY <2>1 DEF Step, MainSteps
  <2>4. caller[Main].pc = "idle"
    BY <1>1, <2>1 DEF MainInv
  <2>5. view' = None /\ caller'[Main].pc = "idle"
    BY <1>1, <2>2, <2>4 DEF MainInv, routerVars
  <2>6. ~ctx => DOMAIN dump = known
    BY <1>1, <2>1 DEF DumpInv
  <2> QED BY <2>1, <2>2, <2>3, <2>5, <2>6, DumpIsOver
<1>3. CASE RouterIsClosed
  <2>1. main.pc = "close" /\ main' = Step("compare", {}) /\ CloseReturns
        /\ UNCHANGED <<src, frames, known, view, settled, dump, tape, ctx>>
    BY <1>3 DEF RouterIsClosed, pipeVars, MainOnly
  <2>2. QuietStep /\ caller' = caller
    BY <2>1 DEF QuietStep, CloseReturns
  <2>3. main' \in MainSteps /\ main'.held = None /\ main'.pc = "compare"
    BY <2>1 DEF Step, MainSteps
  <2>4. caller[Main].pc = "idle"
    BY <1>1, <2>1 DEF MainInv
  <2>5. view' = None /\ caller'[Main].pc = "idle"
    BY <1>1, <2>1, <2>2, <2>4 DEF MainInv
  <2>6. ~ctx => DOMAIN dump = known
    BY <1>1, <2>1 DEF DumpInv
  <2> QED BY <2>1, <2>2, <2>3, <2>5, <2>6, DumpIsOver
<1> QED BY <1>2, <1>3

-----------------------------------------------------------------------------
(***************************************************************************)
(* The ends of replayOnce, and the loop in run.                            *)
(***************************************************************************)
\* The first pass over the recording, and Start.
LEMMA OpenKeeps == PInv /\ Open => PInv'
<1> SUFFICES ASSUME PInv, Open PROVE PInv'
  OBVIOUS
<1>1. /\ UNCHANGED <<src, frames, known, view, settled, dump, tape, ctx>> /\ main.pc = "open"
      /\ \/ Start /\ main' = Step("select", {})
         \/ UNCHANGED routerVars /\ main' = Step("done", {})
  BY DEF Open, pipeVars
<1>2. QuietStep /\ caller' = caller
  BY <1>1 DEF QuietStep, Start, routerVars, vars
<1>3. main' \in MainSteps /\ main'.held = None /\ main'.pc \in {"select", "done"}
  <2>1. CASE main' = Step("select", {})
    BY <2>1 DEF Step, MainSteps
  <2>2. CASE main' = Step("done", {})
    BY <2>2 DEF Step, MainSteps
  <2> QED BY <1>1, <2>1, <2>2
<1>4. RInv' /\ streamed' = 0 /\ StageMoves
  BY <1>2, QuietKeeps DEF PInv
<1>5. main.held = None
  BY <1>1 DEF PInv, MainInv
<1>6. SourceInv'
  BY <1>1, <1>3, <1>5, SourceStays DEF PInv
<1>7. KnownInv'
  BY <1>1, <1>3, <1>4, KnownStays DEF RoutingIsOver
<1>8. ~settled /\ view = None /\ caller[Main].pc = "idle" /\ dump = <<>>
  BY <1>1, WhileRouting
<1>9. MainInv' /\ SettleInv' /\ DumpInv'
  BY <1>1, <1>2, <1>3, <1>8, AwayFromBooks
<1> QED BY <1>4, <1>6, <1>7, <1>9 DEF PInv

\* A new pipeline.
Begun ==
    /\ Init
    /\ src = NewSource /\ frames = <<>> /\ known = {} /\ view = None
    /\ settled = FALSE /\ dump = <<>>
    /\ tape \in Recordings /\ main = Step("open", {})

\* In a new pipeline nothing has happened.
LEMMA BegunPInv == Begun => PInv
<1> SUFFICES ASSUME Begun PROVE PInv
  OBVIOUS
<1>0. /\ Init /\ src = NewSource /\ frames = <<>> /\ known = {} /\ view = None
      /\ settled = FALSE /\ dump = <<>> /\ tape \in Recordings /\ main = Step("open", {})
  BY DEF Begun
<1>1. RInv /\ streamed = 0
  BY <1>0, InitRInv DEF Init
<1>2. main \in MainSteps /\ main.held = None /\ main.pc = "open"
  BY <1>0 DEF Step, MainSteps
<1>3. caller[Main].pc = "idle"
  BY <1>0, ReplayAssumption DEF Init
<1>4. MainInv
  BY <1>0, <1>2, <1>3 DEF MainInv
<1>5. /\ src \in [at: Nat \ {0}, returned: {None, "eof", "cancelled"}]
      /\ src.at = 1 /\ src.returned = None /\ None # "eof" /\ None # "cancelled"
  BY <1>0, ReplayAssumption DEF NewSource
<1>6. DOMAIN frames = {} /\ frames \in Seq(FrameEvents) /\ DOMAIN dump = {}
  BY <1>0
<1>7. \A i \in 1 .. Len(tape) : ~(i < src.at)
  <2>1. Len(tape) \in Nat
    BY <1>0, ReplayAssumption
  <2> QED BY <1>5, <2>1
<1>8. SourceInv
  BY <1>0, <1>2, <1>5, <1>6, <1>7 DEF SourceInv
<1>9. \A sym \in Symbols : trk[sym] = None /\ ~Holds(in[ShardOf[sym]], sym)
  <2> TAKE sym \in Symbols
  <2>1. ShardOf[sym] \in Shards
    BY RouterAssumption
  <2>2. trk[sym] = None /\ in[ShardOf[sym]] = <<>>
    BY <1>0, <2>1 DEF Init
  <2>3. DOMAIN in[ShardOf[sym]] = {}
    BY <2>2
  <2> QED BY <2>2, <2>3 DEF Holds
<1>10. KnownInv
  BY <1>0, <1>2, <1>9 DEF KnownInv, RoutingIsOver
<1>11. SettleInv
  BY <1>0, <1>2 DEF SettleInv
<1>12. DumpInv
  BY <1>0, <1>2, <1>6 DEF DumpInv
<1> QED BY <1>1, <1>4, <1>8, <1>10, <1>11, <1>12 DEF PInv

\* The initial states.
LEMMA InitPInv == RInit => PInv
  BY BegunPInv DEF RInit, Begun

\* The states in which a repeat begins.
LEMMA BegunAgain == Begun' => PInv'
  BY BegunPInv, PTL

\* run: an error ends it, or the next repeat begins with a new pipeline.
LEMMA CompareKeeps == PInv /\ Compare => PInv'
<1> SUFFICES ASSUME PInv, Compare PROVE PInv'
  OBVIOUS
<1>1. main.pc = "compare" /\ tape' = tape /\ ctx' = ctx
  BY DEF Compare
<1>2. CASE main' = Step("done", {}) /\ UNCHANGED routerVars /\ UNCHANGED pipeVars
  <2>1. UNCHANGED <<src, frames, known, view, settled, dump, caller>> /\ QuietStep
    BY <1>2 DEF pipeVars, QuietStep, routerVars, vars
  <2>2. main' \in MainSteps /\ main'.held = None /\ main'.pc = "done"
    BY <1>2 DEF Step, MainSteps
  <2>3. caller[Main].pc = "idle"
    BY <1>1 DEF PInv, MainInv
  <2>4. view' = None /\ caller'[Main].pc = "idle"
    BY <2>1, <2>3 DEF PInv, MainInv
  <2> QED BY <1>1, <2>1, <2>2, <2>4, DumpIsOver
<1>3. CASE NewPipeline /\ main' = Step("open", {})
  <2>1. Init'
    BY <1>3 DEF Init, NewPipeline, Selecting, NoFetch
  <2>2. /\ src' = NewSource /\ frames' = <<>> /\ known' = {} /\ view' = None
        /\ settled' = FALSE /\ dump' = <<>> /\ tape' \in Recordings
    BY <1>1, <1>3 DEF NewPipeline, PInv, SourceInv
  <2>3. Begun'
    BY <1>3, <2>1, <2>2 DEF Begun, Step, NewSource
  <2> QED BY <2>3, BegunAgain
<1> QED BY <1>2, <1>3 DEF Compare

-----------------------------------------------------------------------------
(***************************************************************************)
(* The theorems.                                                           *)
(***************************************************************************)
\* A snapshot the store serves is one the venue gave.
LEMMA FetchRunsIs ==
    ASSUME PInv, NEW sym \in Symbols, NEW k \in Slots, FetchRuns(sym, k)
    PROVE  FetchStep(sym, k)
<1>1. CASE StoreServes(sym, k)
  <2>1. PICK i \in Unserved(sym) : FetchReturns(sym, k, tape[i].body)
    BY <1>1 DEF StoreServes
  <2>2. tape \in Seq(TapeRecords) /\ i \in 1 .. Len(tape) /\ tape[i].kind = "snapshot"
    BY ReplayAssumption DEF PInv, SourceInv, Unserved
  <2>3. tape[i] \in TapeRecords
    BY <2>2
  <2>4. tape[i].body \in Snapshots
    BY <2>2, <2>3 DEF TapeRecords
  <2> QED BY <2>1, <2>4 DEF FetchStep
<1>2. CASE StoreRefuses(sym, k) \/ FetchLeaves(sym, k)
  BY <1>2 DEF StoreRefuses, FetchLeaves, FetchStep
<1> QED BY <1>1, <1>2 DEF FetchRuns

\* The shards and the fetch goroutines.
LEMMA StageRunsKeeps == PInv /\ StageRuns => PInv'
<1> SUFFICES ASSUME PInv, StageRuns PROVE PInv'
  OBVIOUS
<1>1. ASSUME NEW sh \in Shards, ShardRuns(sh) PROVE PInv'
  <2>1. /\ UNCHANGED <<src, frames, known, view, settled, dump, main, tape, ctx>>
        /\ HandleDelta(sh) \/ HandleTrade(sh) \/ ReplayStep(sh)
    BY <1>1 DEF ShardRuns, StageOnly, MainOnly
  <2>2. QuietStep /\ caller' = caller
    BY <2>1 DEF QuietStep, HandleDelta, HandleTrade, ReplayStep, Receive
  <2> QED BY <2>1, <2>2, StageKeeps
<1>2. ASSUME NEW sym \in Symbols, NEW k \in Slots, ShardCompletes(sym, k) PROVE PInv'
  <2>1. /\ UNCHANGED <<src, frames, known, view, settled, dump, main, tape, ctx>>
        /\ Complete(sym, k)
    BY <1>2 DEF ShardCompletes, StageOnly, MainOnly
  <2>2. QuietStep /\ caller' = caller
    BY <2>1 DEF QuietStep, Complete
  <2> QED BY <2>1, <2>2, StageKeeps
<1>3. ASSUME NEW sym \in Symbols, NEW k \in Slots, FetchRuns(sym, k) PROVE PInv'
  <2>1. UNCHANGED <<src, frames, known, view, settled, dump, main, tape, ctx>>
    BY <1>3 DEF FetchRuns, StoreServes, StoreRefuses, FetchLeaves, StageOnly, MainOnly
  <2>2. FetchStep(sym, k)
    BY <1>3, FetchRunsIs
  <2>3. QuietStep /\ caller' = caller
    BY <2>2 DEF QuietStep, FetchStep, FetchReturns, FetchFails, RetryOver, FetchAbandons, SetFetch
  <2> QED BY <2>1, <2>3, StageKeeps
<1> QED BY <1>1, <1>2, <1>3, AnswerMainKeeps DEF StageRuns

\* Every step of a replay keeps the invariant.
LEMMA NextPInv == PInv /\ [RNext]_rvars => PInv'
<1> SUFFICES ASSUME PInv, [RNext]_rvars PROVE PInv'
  OBVIOUS
<1>1. CASE UNCHANGED rvars
  <2>1. UNCHANGED <<src, frames, known, view, settled, dump, main, tape, ctx, caller>>
    BY <1>1 DEF rvars, pipeVars, routerVars
  <2>2. QuietStep
    BY <1>1 DEF rvars, routerVars, vars, QuietStep
  <2> QED BY <2>1, <2>2, StageKeeps
<1>2. CASE Cancel
  <2>1. UNCHANGED <<src, frames, known, view, settled, dump, main, tape, caller>> /\ ctx'
    BY <1>2 DEF Cancel, pipeVars, routerVars
  <2>2. QuietStep
    BY <1>2 DEF Cancel, routerVars, vars, QuietStep
  <2> QED BY <2>1, <2>2, StageKeeps
<1>3. CASE Closing
  <2>1. UNCHANGED <<src, frames, known, view, settled, dump, main, tape, ctx>>
    BY <1>3 DEF Closing, pipeVars, MainOnly
  <2>2. PICK sh \in Shards : CloseInput(sh) \/ Stop(sh)
    BY <1>3 DEF Closing
  <2>3. QuietStep /\ caller' = caller
    BY <2>2 DEF QuietStep, CloseInput, Stop
  <2> QED BY <2>1, <2>3, StageKeeps
<1>4. CASE Source
  BY <1>4, SourceReadsKeeps, SourceReturnsKeeps DEF Source
<1>5. CASE MainRoutes
  BY <1>5, TakeFrameKeeps, HandleKeeps, HandleGivesUpKeeps, SourceIsDoneKeeps, DrainedKeeps
     DEF MainRoutes
<1>6. CASE MainSettles
  BY <1>6, SampleKeeps, PassIsOverKeeps, AskBookKeeps, LiveReturnsKeeps, AllLiveKeeps,
     NotSettledKeeps, DumpReturnsKeeps, QueryGivesUpKeeps, DumpedKeeps DEF MainSettles
<1>7. CASE MainEnds
  BY <1>3, <1>7, OpenKeeps, DumpedKeeps, CompareKeeps DEF MainEnds
<1>8. CASE StageRuns
  BY <1>8, StageRunsKeeps
<1> QED BY <1>1, <1>2, <1>4, <1>5, <1>6, <1>7, <1>8 DEF RNext

\* The invariant of a replay.
LEMMA SpecPInv == RSpec => []PInv
  BY InitPInv, NextPInv, PTL DEF RSpec

\* A replay is one behaviour of the router after the other: each of its steps
\* keeps what RouterProofs shows of every router, so every live book of a replay
\* is the venue's.
THEOREM ReplayedBooksAreVenueBooks == RSpec => []LiveBooksAreVenueBooks
<1>1. PInv => LiveBooksAreVenueBooks
  <2> SUFFICES ASSUME PInv, NEW sym \in Symbols, Tracked(sym), Live(trk[sym])
               PROVE  Accurate(trk[sym]) /\ NoPhantom(trk[sym])
    BY DEF LiveBooksAreVenueBooks
  <2>1. BookInv(sym)
    BY DEF PInv, RInv
  <2> QED BY <2>1 DEF BookInv, Unseen, Kept, Tracked, Sound
<1> QED BY <1>1, SpecPInv, PTL

\* The dump of a replay that is not interrupted shows the symbols of the
\* recording's deltas, and no other.
THEOREM DumpIsCompleteCorrect == RSpec => []DumpIsComplete
<1>1. PInv => DumpIsComplete
  BY DEF PInv, KnownInv, DumpInv, DumpIsComplete, RoutingIsOver
<1> QED BY <1>1, SpecPInv, PTL

\* Once the stage has settled, a dump that was put together book by book is the
\* state of all the books at one moment, all of them live and the venue's.
THEOREM DumpIsConsistentCorrect == RSpec => []DumpIsConsistent
<1>1. PInv => DumpIsConsistent
  <2> SUFFICES ASSUME PInv, settled, NEW sym \in DOMAIN dump
               PROVE  /\ dump[sym] = ViewOf(trk[sym])
                      /\ Live(trk[sym]) /\ Accurate(trk[sym]) /\ NoPhantom(trk[sym])
    BY DEF DumpIsConsistent
  <2>1. dump[sym] = ViewOf(trk[sym]) /\ sym \in known
    BY DEF PInv, DumpInv
  <2>2. Final(sym) /\ sym \in Symbols
    BY <2>1 DEF PInv, SettleInv, KnownInv, Recorded
  <2>3. Sound(trk[sym])
    BY <2>2 DEF PInv, RInv, BookInv, Kept, Final
  <2> QED BY <2>1, <2>2, <2>3 DEF Sound, Final
<1> QED BY <1>1, SpecPInv, PTL

\* After waitSettled has returned true nothing is routed any more, and this
\* pipeline is not replaced by the next one.
LEMMA SettledIsQuiet ==
    ASSUME PInv, RNext, settled, settled'
    PROVE  QuietStep
<1>1. UNCHANGED routerVars => QuietStep
  BY DEF routerVars, vars, QuietStep
<1>2. main.held = None /\ Main \in Callers
  BY ReplayAssumption DEF PInv, MainInv, SettleInv
<1>3. CASE Source \/ Cancel
  BY <1>1, <1>3 DEF Source, SourceReads, SourceReturns, Cancel
<1>4. CASE MainRoutes
  BY <1>1, <1>2, <1>4 DEF MainRoutes, TakeFrame, Handle, HandleGivesUp, SourceIsDone, Drained
<1>5. CASE MainSettles
  <2>1. CASE Sample \/ ReadDepth \/ PassIsOver \/ AllLive \/ SampleAgain \/ NotSettled \/ Dumped
    BY <2>1, WaitIsQuiet DEF Sample, ReadDepth, PassIsOver, AllLive, SampleAgain, NotSettled, Dumped
  <2>2. CASE LiveReturns \/ DumpReturns \/ QueryGivesUp
    BY <2>2, AskIsOver DEF LiveReturns, DumpReturns, QueryGivesUp
  <2>3. ASSUME NEW sym \in Symbols, AskBook(sym) PROVE QuietStep
    <3>1. [symbol |-> sym, check |-> None] \in Questions
      BY DEF Questions
    <3> QED BY <1>2, <2>3, <3>1 DEF AskBook, QuietStep, CallerStep
  <2> QED BY <1>5, <2>1, <2>2, <2>3 DEF MainSettles
<1>6. CASE MainEnds
  BY <1>1, <1>6 DEF MainEnds, Open, Closing, RouterIsClosed, Compare, NewPipeline, QuietStep
<1>7. CASE StageRuns
  <2>1. ASSUME NEW sym \in Symbols, NEW k \in Slots, FetchRuns(sym, k) PROVE QuietStep
    BY <2>1, FetchRunsIs DEF QuietStep
  <2>2. AnswerMain => QuietStep
    BY <1>2 DEF AnswerMain, QuietStep, CallerStep
  <2>3. ASSUME NEW sh \in Shards, ShardRuns(sh) PROVE QuietStep
    BY <2>3 DEF ShardRuns, QuietStep
  <2>4. ASSUME NEW sym \in Symbols, NEW k \in Slots, ShardCompletes(sym, k) PROVE QuietStep
    BY <2>4 DEF ShardCompletes, QuietStep
  <2> QED BY <1>7, <2>1, <2>2, <2>3, <2>4 DEF StageRuns
<1> QED BY <1>3, <1>4, <1>5, <1>6, <1>7 DEF RNext

\* waitSettled: "the stage is idle and its state is final".  The queues were
\* found empty after the last frame was routed, and each book was found live
\* by its own shard after that; neither can change any more.
THEOREM SettledIsFinalCorrect == RSpec => SettledIsFinal
<1>1. PInv /\ PInv' /\ [RNext]_rvars => [settled /\ settled' => trk' = trk]_rvars
  <2> SUFFICES ASSUME PInv, PInv', RNext, settled, settled' PROVE trk' = trk
    OBVIOUS
  <2>1. QuietStep
    BY SettledIsQuiet
  <2>2. StageMoves
    BY <2>1, QuietKeeps DEF PInv
  <2>3. trk \in [Symbols -> Trackers \cup {None}] /\ trk' \in [Symbols -> Trackers \cup {None}]
    BY DEF PInv, RInv, TypeOK
  <2>4. ASSUME NEW sym \in Symbols PROVE trk'[sym] = trk[sym]
    <3>1. CASE sym \in known
      BY <2>2, <3>1, FinalStays DEF PInv, SettleInv
    <3>2. CASE sym \notin known
      <4>1. trk[sym] = None /\ ~Holds(in[ShardOf[sym]], sym)
        BY <3>2 DEF PInv, KnownInv
      <4>2. trk'[sym] = None
        BY <2>2, <4>1 DEF StageMoves
      <4> QED BY <4>1, <4>2
    <3> QED BY <3>1, <3>2
  <2> QED BY <2>3, <2>4
<1> QED BY <1>1, SpecPInv, PTL DEF RSpec, SettledIsFinal
=============================================================================
