---------------------------- MODULE RouterProofs ----------------------------
(***************************************************************************)
(* Module Router, for every venue, any number of symbols, shards, callers  *)
(* and fetch goroutines, and every capacity: the inductive invariant, the  *)
(* safety properties that follow from it, and that every symbol implements *)
(* the abstract book of module ServedBook.                                 *)
(***************************************************************************)
EXTENDS RouterServes, TrackerOpsProofs, WellFoundedInduction, FiniteSetTheorems, TLAPS

\* A symbol no event of which has been handled.
Unseen(sym) ==
    /\ handled[sym] = 0
    /\ InFlight(sym) = {}
    /\ sym \notin timing
    /\ ~Replaying(sym)

\* A tracker is sound and its own symbol's.  What it holds ends with the newest
\* delta handled, so that a replay that runs off its end is current.  It is
\* live and asks for nothing, or it is being fetched and timed.
Kept(sym) ==
    LET t  == trk[sym]
        lp == loop[ShardOf[sym]]
    IN  /\ Sound(t) /\ t.symbol = sym
        /\ Live(t) => ~t.fetching
        /\ ~Live(t) => t.fetching /\ sym \in timing
        /\ ~Live(t) /\ lp # Stopped => InFlight(sym) # {}
        /\ ~Live(t) => ~Replaying(sym)
        /\ Live(t) /\ ~Replaying(sym) => t.buf = <<>> /\ sym \notin timing
        /\ Live(t) /\ (Replaying(sym) => lp.at > Len(t.buf))
              => t.seq.last >= handled[sym]
        /\ t.buf # <<>> => Newest(t.buf) = handled[sym]
        /\ ~Live(t) /\ t.buf = <<>> => handled[sym] = 0

BookInv(sym) ==
    /\ trk[sym] = None => Unseen(sym)
    /\ trk[sym] # None => Kept(sym)

\* A fetch goroutine that delivers has something to deliver.  Until a snapshot
\* comes with the stream there is one request, and only while it is asked for.
FlightInv(sym) ==
    /\ \A k \in Slots :
          fetch[sym][k].pc = "deliver" =>
              fetch[sym][k].result \in Snapshots \cup {Failed}
    /\ streamed = 0 => \A j \in InFlight(sym) :
                          trk[sym].fetching /\ \A k \in InFlight(sym) : j = k

\* The events a shard can find in its queue when n snapshots were streamed.
Inbox(sh, n) ==
    {ev \in Events : /\ ShardOf[ev.body.symbol] = sh
                     /\ ev.kind = "snapshot" => n > 0}

QueueInv == \A sh \in Shards : in[sh] \in Seq(Inbox(sh, streamed))

LoopInv ==
    \A sh \in Shards :
        /\ loop[sh].pc = "select" => loop[sh] = Selecting
        /\ loop[sh].pc = "stopped" =>
              loop[sh] = Stopped /\ sh \in closed /\ in[sh] = <<>>
        /\ loop[sh].pc = "replay" =>
              /\ loop[sh].symbol \in Symbols
              /\ ShardOf[loop[sh].symbol] = sh
              /\ loop[sh].at \in Nat \ {0}
        /\ loop[sh].pc = "new" <=> stage = "new"

StageInv ==
    /\ stage \in {"new", "open"} => closed = {}
    /\ CloseLeavesNothing

\* The goroutines the wait group counts: the shards and the fetches.
Running(lp) == {sh \in Shards : lp[sh].pc \in {"select", "replay"}}
Flights(fs) == {p \in Symbols \X Slots : fs[p[1]][p[2]].pc # "free"}

CountInv == wg = Cardinality(Running(loop)) + Cardinality(Flights(fetch))

CallerInv ==
    \A c \in Callers :
        /\ caller[c].outcome = "diverged" => ~caller[c].q.check.valid
        /\ caller[c].pc = "asking" =>
              /\ caller[c].q \in Questions
              /\ caller[c].q.check # None =>
                    caller[c].q.check.symbol = caller[c].q.symbol

RInv ==
    /\ TypeOK
    /\ StageInv
    /\ QueueInv
    /\ LoopInv
    /\ CountInv
    /\ CallerInv
    /\ \A sym \in Symbols : BookInv(sym) /\ FlightInv(sym)

-----------------------------------------------------------------------------
(***************************************************************************)
(* The fetch goroutines and the wait group.                                *)
(***************************************************************************)
Request == [pc |-> "request", result |-> None]

FetchTable == [Symbols -> [Slots -> Fetches]]

\* shard.fetch puts its request in a free slot.
LEMMA SpawnIs ==
    ASSUME NEW fs, NEW sym, CanSpawn(fs, sym)
    PROVE  \E k \in Slots : /\ fs[sym][k].pc = "free"
                            /\ Spawn(fs, sym) = [fs EXCEPT ![sym][k] = Request]
<1> DEFINE Free == {k \in Slots : fs[sym][k].pc = "free"}
           First(k) == /\ fs[sym][k].pc = "free"
                       /\ \A j \in 1 .. (k - 1) : fs[sym][j].pc # "free"
<1>1. Free # {} /\ Free \subseteq Nat
  BY RouterAssumption DEF CanSpawn, Slots
<1>2. \E k \in Free : \A j \in Free : ~ (<<j, k>> \in OpToRel(<, Nat))
  <2> HIDE DEF Free
  <2> QED BY <1>1, WFMin, NatLessThanWellFounded
<1>3. PICK m \in Free : \A j \in Free : ~ (<<j, m>> \in OpToRel(<, Nat))
  BY <1>2
<1>4. m \in Slots /\ First(m)
  <2> SUFFICES ASSUME NEW j \in 1 .. (m - 1), fs[sym][j].pc = "free" PROVE FALSE
    OBVIOUS
  <2>1. j \in Free /\ j < m /\ j \in Nat /\ m \in Nat
    BY RouterAssumption DEF Slots
  <2> QED BY <1>3, <2>1 DEF OpToRel
<1> DEFINE c == CHOOSE k \in Slots : First(k)
<1>5. c \in Slots /\ First(c)
  BY <1>4
<1>6. Spawn(fs, sym) = [fs EXCEPT ![sym][c] = Request]
  BY DEF Spawn, Request
<1> QED BY <1>5, <1>6

\* The fetches in flight can be counted.
LEMMA FlightsFinite ==
    ASSUME NEW fs
    PROVE  IsFiniteSet(Flights(fs)) /\ Cardinality(Flights(fs)) \in Nat
<1>1. IsFiniteSet(Symbols) /\ IsFiniteSet(Slots)
  BY RouterAssumption, FS_Interval DEF Slots
<1>2. IsFiniteSet(Symbols \X Slots)
  BY <1>1, FS_Product
<1>3. Flights(fs) \subseteq Symbols \X Slots
  BY DEF Flights
<1> QED BY <1>2, <1>3, FS_Subset, FS_CardinalityType

\* The table gs is fs with f in slot k of sym.
Placed(fs, gs, sym, k, f) == gs = [fs EXCEPT ![sym][k] = f]

\* One goroutine more, one less, or one that goes on.
LEMMA FlightsChange ==
    ASSUME NEW fs \in FetchTable, NEW sym \in Symbols, NEW k \in Slots,
           NEW f \in Fetches, NEW gs, Placed(fs, gs, sym, k, f)
    PROVE  /\ gs \in FetchTable
           /\ fs[sym][k].pc = "free" /\ f.pc # "free" =>
                Cardinality(Flights(gs)) = Cardinality(Flights(fs)) + 1
           /\ fs[sym][k].pc # "free" /\ f.pc = "free" =>
                Cardinality(Flights(gs)) = Cardinality(Flights(fs)) - 1
           /\ fs[sym][k].pc # "free" /\ f.pc # "free" =>
                Cardinality(Flights(gs)) = Cardinality(Flights(fs))
<1> DEFINE p == <<sym, k>>
<1>1. /\ gs \in FetchTable
      /\ gs[sym][k] = f
      /\ \A s \in Symbols, j \in Slots : <<s, j>> # p => gs[s][j] = fs[s][j]
  BY DEF FetchTable, Placed
<1>2. ASSUME f.pc # "free"
      PROVE  Flights(gs) = Flights(fs) \cup {p}
  BY <1>1, <1>2 DEF Flights
<1>3. ASSUME f.pc = "free"
      PROVE  Flights(gs) = Flights(fs) \ {p}
  BY <1>1, <1>3 DEF Flights
<1>4. p \in Flights(fs) <=> fs[sym][k].pc # "free"
  BY DEF Flights
<1>5. IsFiniteSet(Flights(fs)) /\ Cardinality(Flights(fs)) \in Nat
  BY FlightsFinite
<1> DEFINE F == Flights(fs)
           G == Flights(gs)
<1> HIDE DEF F, G, p
<1>6. CASE f.pc # "free"
  <2>1. G = F \cup {p}
    BY <1>2, <1>6 DEF F, G
  <2>2. Cardinality(G) = IF p \in F THEN Cardinality(F) ELSE Cardinality(F) + 1
    BY <1>5, <2>1, FS_AddElement DEF F
  <2> QED BY <1>1, <1>4, <1>6, <2>2 DEF F, G
<1>7. CASE f.pc = "free"
  <2>1. G = F \ {p}
    BY <1>3, <1>7 DEF F, G
  <2>2. Cardinality(G) = IF p \in F THEN Cardinality(F) - 1 ELSE Cardinality(F)
    BY <1>5, <2>1, FS_RemoveElement DEF F
  <2> QED BY <1>1, <1>4, <1>7, <2>2 DEF F, G
<1> QED BY <1>6, <1>7

\* A shard that stops, and one that goes on.
LEMMA RunningChange ==
    ASSUME NEW lp \in [Shards -> Loops], NEW sh \in Shards, NEW l \in Loops,
           lp[sh].pc \in {"select", "replay"}
    PROVE  LET R  == Running(lp)
               R2 == Running([lp EXCEPT ![sh] = l])
           IN  /\ IsFiniteSet(R) /\ Cardinality(R) \in Nat
               /\ l.pc \in {"select", "replay"} => R2 = R
               /\ l.pc = "stopped" => Cardinality(R2) = Cardinality(R) - 1
<1> DEFINE R  == Running(lp)
           R2 == Running([lp EXCEPT ![sh] = l])
<1>1. IsFiniteSet(R) /\ Cardinality(R) \in Nat
  <2>1. R \subseteq Shards
    BY DEF Running
  <2> QED BY <2>1, RouterAssumption, FS_Subset, FS_CardinalityType
<1>2. l.pc \in {"select", "replay"} => R2 = R
  BY DEF Running
<1>3. l.pc = "stopped" => R2 = R \ {sh}
  BY DEF Running
<1>4. sh \in R
  BY DEF Running
<1> HIDE DEF R, R2
<1>5. l.pc = "stopped" => Cardinality(R2) = Cardinality(R) - 1
  BY <1>1, <1>3, <1>4, FS_RemoveElement
<1> QED BY <1>1, <1>2, <1>5 DEF R, R2

-----------------------------------------------------------------------------
(***************************************************************************)
(* What a handler does to the books.                                       *)
(***************************************************************************)
\* shard.fetch: the two ways it can go.
LEMMA FetchIfWantedIs ==
    ASSUME NEW t, NEW fs, NEW n, NEW timed, FetchIfWanted(t, fs, n, timed)
    PROVE  \/ /\ ~WantsFetch(t)
              /\ trk' = [trk EXCEPT ![t.symbol] = t]
              /\ fetch' = fs /\ wg' = n /\ timing' = timed
           \/ /\ WantsFetch(t)
              /\ trk' = [trk EXCEPT ![t.symbol] = Fetching(t, TRUE)]
              /\ \E k \in Slots :
                    /\ fs[t.symbol][k].pc = "free"
                    /\ fetch' = [fs EXCEPT ![t.symbol][k] = Request]
              /\ wg' = n + 1 /\ timing' = timed \cup {t.symbol}
<1>1. CASE WantsFetch(t)
  <2>1. /\ CanSpawn(fs, t.symbol) /\ fetch' = Spawn(fs, t.symbol)
        /\ trk' = [trk EXCEPT ![t.symbol] = Fetching(t, TRUE)]
        /\ wg' = n + 1 /\ timing' = timed \cup {t.symbol}
    BY <1>1 DEF FetchIfWanted
  <2>2. PICK k \in Slots :
            /\ fs[t.symbol][k].pc = "free"
            /\ Spawn(fs, t.symbol) = [fs EXCEPT ![t.symbol][k] = Request]
    BY ONLY <2>1, SpawnIs
  <2> QED BY <1>1, <2>1, <2>2
<1>2. CASE ~WantsFetch(t)
  BY <1>2 DEF FetchIfWanted
<1> QED BY <1>1, <1>2

\* A handler of sym that passed these tables to shard.fetch has kept the types
\* and the count of the wait group, and touched no other symbol.
Framed(sym, fs, n, timed) ==
    /\ trk' \in [Symbols -> Trackers \cup {None}]
    /\ fetch' \in FetchTable
    /\ timing' \subseteq Symbols
    /\ wg' \in Int
    /\ wg' - Cardinality(Flights(fetch')) = n - Cardinality(Flights(fs))
    /\ \A other \in Symbols \ {sym} :
          /\ trk'[other] = trk[other] /\ fetch'[other] = fs[other]
          /\ other \in timing' <=> other \in timed

\* shard.fetch keeps the types and the count of the wait group, and touches
\* no other symbol.
LEMMA FetchIfWantedFrame ==
    ASSUME NEW sym \in Symbols, NEW t, NEW fs \in FetchTable, NEW n \in Int,
           NEW timed \in SUBSET Symbols,
           FetchIfWanted(t, fs, n, timed), Sound(t), t.symbol = sym,
           trk \in [Symbols -> Trackers \cup {None}]
    PROVE  Framed(sym, fs, n, timed)
<1>0. t \in Trackers /\ Fetching(t, TRUE) \in Trackers
  BY FetchingSound DEF Sound
<1>a. Cardinality(Flights(fs)) \in Nat
  BY FlightsFinite
<1>1. CASE /\ trk' = [trk EXCEPT ![sym] = t]
           /\ fetch' = fs /\ wg' = n /\ timing' = timed
  BY <1>0, <1>1, <1>a DEF Framed
<1>2. CASE /\ trk' = [trk EXCEPT ![sym] = Fetching(t, TRUE)]
           /\ \E k \in Slots :
                 /\ fs[sym][k].pc = "free"
                 /\ fetch' = [fs EXCEPT ![sym][k] = Request]
           /\ wg' = n + 1 /\ timing' = timed \cup {sym}
  <2>1. PICK k \in Slots : /\ fs[sym][k].pc = "free"
                           /\ fetch' = [fs EXCEPT ![sym][k] = Request]
    BY <1>2
  <2>2. Request \in Fetches /\ Request.pc # "free"
    BY DEF Request, Fetches
  <2>3. /\ fetch' \in FetchTable
        /\ Cardinality(Flights(fetch')) = Cardinality(Flights(fs)) + 1
    <3>1. Placed(fs, fetch', sym, k, Request)
      BY <2>1 DEF Placed
    <3> QED BY <2>1, <2>2, <3>1, FlightsChange
  <2>4. \A other \in Symbols \ {sym} : fetch'[other] = fs[other]
    BY <2>1 DEF FetchTable
  <2>5. trk' \in [Symbols -> Trackers \cup {None}]
    BY <1>0, <1>2
  <2>6. \A other \in Symbols \ {sym} : trk'[other] = trk[other]
    BY <1>2
  <2>7. wg' - Cardinality(Flights(fetch')) = n - Cardinality(Flights(fs))
    BY <1>2, <1>a, <2>3
  <2>8. timing' \subseteq Symbols /\ wg' \in Int
    BY <1>2
  <2>9. \A other \in Symbols \ {sym} : other \in timing' <=> other \in timed
    BY <1>2
  <2> QED BY <2>3, <2>4, <2>5, <2>6, <2>7, <2>8, <2>9 DEF Framed
<1> QED BY <1>1, <1>2, FetchIfWantedIs

\* A sound tracker is not the absence of one.
LEMMA SoundIsSome ==
    ASSUME NEW t, Sound(t)
    PROVE  t # None
  BY RouterAssumption DEF Sound

\* The table of fetches, for one symbol.
InFlightOf(fs, sym) == {k \in Slots : fs[sym][k].pc # "free"}

\* The state of a handler that has dealt with its message and is about to see
\* whether the tracker needs a snapshot.
LEMMA HandlerEnds ==
    ASSUME NEW sym \in Symbols, NEW t, NEW fs \in FetchTable, NEW n,
           NEW timed \in SUBSET Symbols,
           FetchIfWanted(t, fs, n, timed), Sound(t), t.symbol = sym,
           trk \in [Symbols -> Trackers \cup {None}],
           ~Replaying(sym)',
           Live(t) => /\ t.buf = <<>> /\ ~t.fetching /\ sym \notin timed
                      /\ t.seq.last >= handled'[sym],
           ~Live(t) /\ t.fetching => sym \in timed /\ InFlightOf(fs, sym) # {},
           t.buf # <<>> => Newest(t.buf) = handled'[sym],
           ~Live(t) /\ t.buf = <<>> => handled'[sym] = 0,
           \A k \in Slots : fs[sym][k].pc = "deliver" =>
                               fs[sym][k].result \in Snapshots \cup {Failed},
           streamed' = 0 => \A j \in InFlightOf(fs, sym) :
                               t.fetching /\ \A k \in InFlightOf(fs, sym) : j = k
    PROVE  BookInv(sym)' /\ FlightInv(sym)'
<1>1. CASE /\ ~WantsFetch(t)
           /\ trk' = [trk EXCEPT ![sym] = t]
           /\ fetch' = fs /\ wg' = n /\ timing' = timed
  <2>1. trk'[sym] = t /\ t # None /\ (Live(t) \/ t.fetching)
    BY <1>1, SoundIsSome DEF WantsFetch
  <2>2. InFlight(sym)' = InFlightOf(fs, sym)
    BY <1>1 DEF InFlight, InFlightOf
  <2>3. Kept(sym)'
    BY <1>1, <2>1, <2>2 DEF Kept
  <2> QED BY <1>1, <2>1, <2>2, <2>3 DEF BookInv, FlightInv
<1>2. CASE /\ WantsFetch(t)
           /\ trk' = [trk EXCEPT ![sym] = Fetching(t, TRUE)]
           /\ \E k \in Slots :
                 /\ fs[sym][k].pc = "free"
                 /\ fetch' = [fs EXCEPT ![sym][k] = Request]
           /\ wg' = n + 1 /\ timing' = timed \cup {sym}
  <2> DEFINE u == Fetching(t, TRUE)
  <2>1. /\ Sound(u) /\ u.symbol = sym /\ u.seq = t.seq /\ u.buf = t.buf
        /\ u.fetching = TRUE
    BY FetchingSound
  <2>2. ~Live(t) /\ ~t.fetching /\ ~Live(u)
    BY <1>2, <2>1 DEF WantsFetch, Live
  <2>3. PICK k \in Slots : /\ fs[sym][k].pc = "free"
                           /\ fetch' = [fs EXCEPT ![sym][k] = Request]
    BY <1>2
  <2>4. trk'[sym] = u /\ u # None
    BY <1>2, <2>1, SoundIsSome
  <2>5. /\ fetch'[sym][k] = Request
        /\ \A j \in Slots \ {k} : fetch'[sym][j] = fs[sym][j]
    BY <2>3 DEF FetchTable
  <2>6. InFlight(sym)' = InFlightOf(fs, sym) \cup {k}
    BY <2>5 DEF InFlight, InFlightOf, Request
  <2> HIDE DEF u
  <2>7. Kept(sym)'
    BY <1>2, <2>1, <2>2, <2>4, <2>6 DEF Kept
  <2>8. \A j \in Slots : fetch'[sym][j].pc = "deliver" =>
                            fetch'[sym][j].result \in Snapshots \cup {Failed}
    BY <2>5 DEF Request
  <2>9. streamed' = 0 => InFlight(sym)' = {k}
    BY <2>2, <2>6
  <2> QED BY <2>1, <2>4, <2>7, <2>8, <2>9 DEF BookInv, FlightInv
<1> QED BY <1>1, <1>2, FetchIfWantedIs

\* A symbol the handler has nothing to do with.
LEMMA OtherBook ==
    ASSUME NEW sym \in Symbols, BookInv(sym), FlightInv(sym),
           trk'[sym] = trk[sym], fetch'[sym] = fetch[sym],
           handled'[sym] = handled[sym], sym \in timing' <=> sym \in timing,
           streamed' = 0 => streamed = 0,
           \/ loop'[ShardOf[sym]] = loop[ShardOf[sym]]
           \/ /\ ~Replaying(sym) /\ ~Replaying(sym)'
              /\ loop'[ShardOf[sym]] # Stopped => loop[ShardOf[sym]] # Stopped
    PROVE  BookInv(sym)' /\ FlightInv(sym)'
<1>1. InFlight(sym)' = InFlight(sym)
  BY DEF InFlight
<1>2. FlightInv(sym)'
  BY <1>1 DEF FlightInv
<1>3. Replaying(sym)' <=> Replaying(sym)
  BY DEF Replaying
<1>4. CASE trk[sym] = None
  <2>1. Unseen(sym)
    BY <1>4 DEF BookInv
  <2>2. Unseen(sym)'
    BY <1>1, <1>3, <2>1 DEF Unseen
  <2>3. (trk[sym] = None)'
    BY <1>4
  <2> QED BY <1>2, <2>2, <2>3 DEF BookInv
<1>5. CASE trk[sym] # None
  <2>1. Kept(sym)
    BY <1>5 DEF BookInv
  <2>2. Kept(sym)'
    BY <1>1, <1>3, <2>1 DEF Kept, Replaying
  <2>3. (trk[sym] # None)'
    BY <1>5
  <2> QED BY <1>2, <2>2, <2>3 DEF BookInv
<1> QED BY <1>2, <1>4, <1>5

\* A shard that handles something for sym: what is left to show, when nothing
\* else is touched, is that the book of sym is in order.
LEMMA HandlerKeeps ==
    ASSUME RInv,
           NEW sh \in Shards, NEW sym \in Symbols, ShardOf[sym] = sh,
           NEW l \in Loops, loop' = [loop EXCEPT ![sh] = l],
           loop[sh].pc \in {"select", "replay"},
           loop[sh].pc = "replay" => loop[sh].symbol = sym,
           l = Selecting \/ (l.pc = "replay" /\ l.symbol = sym /\ l.at # 0),
           in' = in \/ (in[sh] # <<>> /\ in' = [in EXCEPT ![sh] = Tail(@)]),
           UNCHANGED <<closed, stage, caller, fed, streamed>>,
           trk' \in [Symbols -> Trackers \cup {None}],
           fetch' \in FetchTable, timing' \subseteq Symbols, wg' \in Int,
           wg' - Cardinality(Flights(fetch')) = wg - Cardinality(Flights(fetch)),
           handled' \in [Symbols -> Ids],
           \A other \in Symbols \ {sym} :
              /\ trk'[other] = trk[other] /\ fetch'[other] = fetch[other]
              /\ other \in timing' <=> other \in timing
              /\ handled'[other] = handled[other],
           BookInv(sym)', FlightInv(sym)'
    PROVE  RInv'
<1>0. TypeOK /\ StageInv /\ QueueInv /\ LoopInv /\ CountInv /\ CallerInv
  BY DEF RInv
<1>1. /\ in \in [Shards -> Seq(Events)] /\ loop \in [Shards -> Loops]
      /\ \A x \in Shards : Len(in[x]) <= QueueCap
      /\ wg \in Nat
  BY <1>0 DEF TypeOK
<1>2. /\ in' \in [Shards -> Seq(Events)]
      /\ \A x \in Shards : Len(in'[x]) <= QueueCap
      /\ \A x \in Shards : in'[x] \in Seq(Inbox(x, streamed))
      /\ \A x \in Shards : in[x] = <<>> => in'[x] = <<>>
  <2>1. CASE in' = in
    BY <1>0, <1>1, <2>1 DEF QueueInv
  <2>2. CASE in[sh] # <<>> /\ in' = [in EXCEPT ![sh] = Tail(@)]
    <3>1. /\ Tail(in[sh]) \in Seq(Events)
          /\ Len(Tail(in[sh])) = Len(in[sh]) - 1
      BY <1>1, <2>2, HeadTailProperties
    <3>2. Tail(in[sh]) \in Seq(Inbox(sh, streamed))
      BY <1>0, <2>2, HeadTailProperties DEF QueueInv
    <3>3. Len(Tail(in[sh])) <= QueueCap
      BY <1>1, <3>1, RouterAssumption
    <3> QED BY <1>0, <1>1, <2>2, <3>1, <3>2, <3>3 DEF QueueInv
  <2> QED BY <2>1, <2>2
<1>3. loop' \in [Shards -> Loops] /\ loop'[sh] = l
      /\ \A x \in Shards \ {sh} : loop'[x] = loop[x]
  BY <1>1
<1>4. l.pc \in {"select", "replay"}
  BY DEF Selecting
<1>5. Running(loop') = Running(loop) /\ Cardinality(Running(loop)) \in Nat
  BY ONLY <1>1, <1>4, loop' = [loop EXCEPT ![sh] = l], sh \in Shards, l \in Loops,
          loop[sh].pc \in {"select", "replay"}, RunningChange
<1>6. CountInv' /\ wg' \in Nat
  <2>1. Cardinality(Flights(fetch)) \in Nat /\ Cardinality(Flights(fetch')) \in Nat
    BY FlightsFinite
  <2>2. wg = Cardinality(Running(loop)) + Cardinality(Flights(fetch))
    BY <1>0 DEF CountInv
  <2>3. wg' = Cardinality(Running(loop')) + Cardinality(Flights(fetch'))
    BY <1>5, <2>1, <2>2
  <2> QED BY <1>5, <2>1, <2>3 DEF CountInv
<1>7. TypeOK'
  BY <1>0, <1>2, <1>3, <1>6 DEF TypeOK, FetchTable
<1>8. stage # "returned"
  BY <1>0 DEF StageInv, CloseLeavesNothing, Stopped
<1>9. StageInv'
  BY <1>0, <1>8 DEF StageInv, CloseLeavesNothing
<1>10. QueueInv'
  BY <1>2 DEF QueueInv
<1>11. LoopInv'
  <2> SUFFICES ASSUME NEW x \in Shards
               PROVE  (/\ loop[x].pc = "select" => loop[x] = Selecting
                       /\ loop[x].pc = "stopped" =>
                             loop[x] = Stopped /\ x \in closed /\ in[x] = <<>>
                       /\ loop[x].pc = "replay" =>
                             /\ loop[x].symbol \in Symbols
                             /\ ShardOf[loop[x].symbol] = x
                             /\ loop[x].at \in Nat \ {0}
                       /\ loop[x].pc = "new" <=> stage = "new")'
    BY DEF LoopInv
  <2>1. CASE x = sh
    <3>1. stage # "new"
      BY <1>0 DEF LoopInv
    <3>2. l.at \in Nat
      BY DEF Loops
    <3>3. CASE l = Selecting
      BY <1>3, <2>1, <3>1, <3>3 DEF Selecting
    <3>4. CASE l.pc = "replay" /\ l.symbol = sym /\ l.at # 0
      BY <1>3, <2>1, <3>1, <3>2, <3>4
    <3> QED BY <3>3, <3>4
  <2>2. CASE x # sh
    BY <1>0, <1>2, <1>3, <2>2 DEF LoopInv
  <2> QED BY <2>1, <2>2
<1>12. CallerInv'
  BY <1>0 DEF CallerInv
<1>13. ASSUME NEW other \in Symbols
       PROVE  BookInv(other)' /\ FlightInv(other)'
  <2>1. CASE other = sym
    BY <2>1
  <2>2. CASE other # sym
    <3>1. BookInv(other) /\ FlightInv(other)
      BY DEF RInv
    <3>2. ShardOf[other] \in Shards
      BY RouterAssumption
    <3>3. CASE ShardOf[other] # sh
      <4>1. loop'[ShardOf[other]] = loop[ShardOf[other]]
        BY <1>3, <3>2, <3>3
      <4> QED BY <2>2, <3>1, <4>1, OtherBook
    <3>4. CASE ShardOf[other] = sh
      <4>1. loop[sh] # Stopped
        BY DEF Stopped
      <4>2. ~Replaying(other)
        BY <2>2, <3>4 DEF Replaying
      <4>3. ~Replaying(other)'
        BY <1>3, <2>2, <3>4 DEF Replaying, Selecting
      <4> QED BY <2>2, <3>1, <3>4, <4>1, <4>2, <4>3, OtherBook
    <3> QED BY <3>3, <3>4
  <2> QED BY <2>1, <2>2
<1> QED BY <1>6, <1>7, <1>9, <1>10, <1>11, <1>12, <1>13 DEF RInv

\* The types, unpacked.
LEMMA TypesOfState ==
    ASSUME RInv
    PROVE  /\ in \in [Shards -> Seq(Events)] /\ loop \in [Shards -> Loops]
           /\ trk \in [Symbols -> Trackers \cup {None}]
           /\ fetch \in FetchTable /\ timing \in SUBSET Symbols
           /\ wg \in Nat /\ handled \in [Symbols -> Ids]
           /\ fed \in [Symbols -> Ids] /\ streamed \in Nat
  BY RouterAssumption DEF RInv, TypeOK, FetchTable

\* The head of a shard's queue.
LEMMA HeadOfQueue ==
    ASSUME RInv, NEW sh \in Shards, in[sh] # <<>>
    PROVE  /\ Head(in[sh]) \in Events
           /\ ShardOf[Head(in[sh]).body.symbol] = sh
           /\ Head(in[sh]).kind = "snapshot" => streamed > 0
<1>1. in[sh] \in Seq(Inbox(sh, streamed))
  BY DEF RInv, QueueInv
<1>2. Head(in[sh]) \in Inbox(sh, streamed)
  BY <1>1, HeadTailProperties
<1> QED BY <1>2 DEF Inbox

\* Tracker.Apply leaves the fetching flag alone.
LEMMA ApplyKeepsFetching ==
    ASSUME NEW t \in Trackers, NEW d
    PROVE  ApplyTo(t, d).fetching = t.fetching
<1> DEFINE u == ApplyTo(t, d)
<1>1. \/ u = t
      \/ u = [t EXCEPT !.seq = Advance(t.seq, d), !.book = ApplyLevels(t.book, d)]
      \/ u = [t EXCEPT !.seq = Invalidate(Advance(t.seq, d)), !.buf = Buffer(t.buf, d)]
      \/ u = [t EXCEPT !.seq = Advance(t.seq, d), !.buf = Buffer(t.buf, d)]
  BY DEF ApplyTo
<1> QED BY <1>1 DEF Trackers

\* What the invariant says of a tracker while its shard is in its select.
LEMMA KeptAtSelect ==
    ASSUME RInv, NEW sym \in Symbols, loop[ShardOf[sym]] = Selecting
    PROVE  /\ trk[sym] = None => Unseen(sym)
           /\ trk[sym] # None =>
                /\ Sound(trk[sym]) /\ trk[sym].symbol = sym
                /\ Live(trk[sym]) =>
                     /\ ~trk[sym].fetching /\ trk[sym].buf = <<>>
                     /\ sym \notin timing /\ trk[sym].seq.last >= handled[sym]
                /\ ~Live(trk[sym]) =>
                     trk[sym].fetching /\ sym \in timing /\ InFlight(sym) # {}
                /\ trk[sym].buf # <<>> => Newest(trk[sym].buf) = handled[sym]
                /\ ~Live(trk[sym]) /\ trk[sym].buf = <<>> => handled[sym] = 0
           /\ ~Replaying(sym)
           /\ InFlight(sym) = InFlightOf(fetch, sym)
<1>1. BookInv(sym)
  BY DEF RInv
<1>2. ~Replaying(sym) /\ loop[ShardOf[sym]] # Stopped
  BY DEF Replaying, Selecting, Stopped
<1>3. trk[sym] # None => Kept(sym)
  BY <1>1 DEF BookInv
<1>4. InFlight(sym) = InFlightOf(fetch, sym)
  BY DEF InFlight, InFlightOf
<1> QED BY <1>1, <1>2, <1>3, <1>4 DEF BookInv, Kept

-----------------------------------------------------------------------------
(***************************************************************************)
(* One lemma per action of the shard.                                      *)
(***************************************************************************)
\* shard.handle, of a delta.
LEMMA HandleDeltaKeeps ==
    ASSUME RInv, NEW sh \in Shards, HandleDelta(sh)
    PROVE  RInv'
<1>1. /\ loop[sh] = Selecting /\ in[sh] # <<>> /\ Head(in[sh]).kind = "delta"
      /\ in' = [in EXCEPT ![sh] = Tail(@)]
      /\ UNCHANGED <<closed, stage, caller, fed, streamed, loop>>
  BY DEF HandleDelta, Receive, feedVars
<1>2. PICK d : d = Head(in[sh]).body
  OBVIOUS
<1>3. d \in Deltas /\ ShardOf[d.symbol] = sh
  BY <1>1, <1>2, HeadOfQueue DEF Events
<1>4. PICK sym \in Symbols : sym = d.symbol /\ ShardOf[sym] = sh
  BY <1>3 DEF Deltas
<1>5. PICK t : t = IF trk[sym] = None THEN NewTracker(sym) ELSE trk[sym]
  OBVIOUS
<1>6. PICK u : u = ApplyTo(t, d)
  OBVIOUS
<1>7. /\ FetchIfWanted(u, fetch, wg, timing)
      /\ handled' = [handled EXCEPT ![sym] = d.last]
  BY <1>2, <1>4, <1>5, <1>6 DEF HandleDelta
<1>8. /\ loop \in [Shards -> Loops] /\ trk \in [Symbols -> Trackers \cup {None}]
      /\ fetch \in FetchTable /\ timing \in SUBSET Symbols
      /\ wg \in Nat /\ handled \in [Symbols -> Ids]
  BY TypesOfState
<1>9. /\ Sound(t) /\ t.symbol = sym
      /\ Live(t) => /\ t.buf = <<>> /\ ~t.fetching /\ sym \notin timing
      /\ t.fetching => sym \in timing /\ InFlightOf(fetch, sym) # {}
      /\ trk[sym] = None => InFlightOf(fetch, sym) = {}
      /\ trk[sym] # None => t = trk[sym]
  <2>1. CASE trk[sym] = None
    <3>1. t = NewTracker(sym) /\ ~t.fetching
      BY <1>5, <2>1 DEF NewTracker
    <3>2. Unseen(sym) /\ InFlight(sym) = InFlightOf(fetch, sym)
      BY <1>1, <1>4, <2>1, KeptAtSelect
    <3> QED BY <2>1, <3>1, <3>2, NewTrackerSound DEF Unseen
  <2>2. CASE trk[sym] # None
    <3>1. t = trk[sym]
      BY <1>5, <2>2
    <3> QED BY <1>1, <1>4, <2>2, <3>1, KeptAtSelect
  <2> QED BY <2>1, <2>2
<1>10. /\ Sound(u) /\ u.symbol = sym /\ u.fetching = t.fetching
       /\ Live(u) => /\ u.buf = <<>> /\ ~u.fetching /\ Live(t)
                     /\ u.seq.last >= d.last
       /\ ~Live(u) => u.buf # <<>> /\ Newest(u.buf) = d.last
  BY <1>3, <1>4, <1>6, <1>9, ApplySound, ApplyOwn, ApplyKeepsFetching DEF Sound
<1>11. handled'[sym] = d.last /\ handled' \in [Symbols -> Ids]
       /\ \A other \in Symbols \ {sym} : handled'[other] = handled[other]
  <2>1. d.last \in Ids
    BY <1>3, VenueAssumption DEF Deltas, Ids
  <2> QED BY <1>7, <1>8, <2>1
<1>12. FlightInv(sym) /\ InFlight(sym) = InFlightOf(fetch, sym)
  BY <1>1, <1>4, KeptAtSelect DEF RInv
<1>13. BookInv(sym)' /\ FlightInv(sym)'
  <2>1. ~Replaying(sym)'
    BY <1>1, <1>4 DEF Replaying, Selecting
  <2>2. \A k \in Slots : fetch[sym][k].pc = "deliver" =>
                            fetch[sym][k].result \in Snapshots \cup {Failed}
    BY <1>12 DEF FlightInv
  <2>3. streamed' = 0 => \A j \in InFlightOf(fetch, sym) :
                            u.fetching /\ \A k \in InFlightOf(fetch, sym) : j = k
    BY <1>1, <1>9, <1>10, <1>12 DEF FlightInv
  <2>4. Live(u) => /\ u.buf = <<>> /\ ~u.fetching /\ sym \notin timing
                   /\ u.seq.last >= handled'[sym]
    BY <1>9, <1>10, <1>11
  <2>5. ~Live(u) /\ u.fetching => sym \in timing /\ InFlightOf(fetch, sym) # {}
    BY <1>9, <1>10
  <2>6. /\ u.buf # <<>> => Newest(u.buf) = handled'[sym]
        /\ ~Live(u) /\ u.buf = <<>> => handled'[sym] = 0
    BY <1>10, <1>11
  <2> QED BY <1>7, <1>8, <1>10, <2>1, <2>2, <2>3, <2>4, <2>5, <2>6, HandlerEnds
<1>14. /\ trk' \in [Symbols -> Trackers \cup {None}]
       /\ fetch' \in FetchTable /\ timing' \subseteq Symbols /\ wg' \in Int
       /\ wg' - Cardinality(Flights(fetch')) = wg - Cardinality(Flights(fetch))
       /\ \A other \in Symbols \ {sym} :
             /\ trk'[other] = trk[other] /\ fetch'[other] = fetch[other]
             /\ other \in timing' <=> other \in timing
  <2>1. wg \in Int
    BY <1>8
  <2>2. Framed(sym, fetch, wg, timing)
    BY <1>7, <1>8, <1>10, <2>1, FetchIfWantedFrame
  <2> QED BY <2>2 DEF Framed
<1>15. loop' = [loop EXCEPT ![sh] = Selecting] /\ Selecting \in Loops
  BY <1>1, <1>8 DEF Selecting, Loops
<1>16. loop[sh].pc = "select"
  BY <1>1 DEF Selecting
<1>17. /\ loop[sh].pc \in {"select", "replay"}
       /\ loop[sh].pc = "replay" => loop[sh].symbol = sym
       /\ in' = in \/ (in[sh] # <<>> /\ in' = [in EXCEPT ![sh] = Tail(@)])
       /\ UNCHANGED <<closed, stage, caller, fed, streamed>>
       /\ \A other \in Symbols \ {sym} :
              /\ trk'[other] = trk[other] /\ fetch'[other] = fetch[other]
              /\ other \in timing' <=> other \in timing
              /\ handled'[other] = handled[other]
  BY <1>1, <1>11, <1>14, <1>16
<1> QED BY ONLY RInv, sh \in Shards, sym \in Symbols, <1>4, <1>11, <1>13, <1>14, <1>15,
               <1>17, HandlerKeeps

\* shard.load, from whichever handler.
LEMMA LoadKeeps ==
    ASSUME RInv, NEW sh \in Shards, NEW sym \in Symbols, ShardOf[sym] = sh,
           loop[sh] = Selecting,
           NEW t, NEW s \in Snapshots, NEW fs \in FetchTable, NEW n \in Int,
           NEW timed \in SUBSET Symbols,
           BeginLoad(sh, t, s, fs, n, timed), Sound(t), t.symbol = sym,
           in' = in \/ (in[sh] # <<>> /\ in' = [in EXCEPT ![sh] = Tail(@)]),
           UNCHANGED <<closed, stage, caller, fed, streamed>>, handled' = handled,
           n - Cardinality(Flights(fs)) = wg - Cardinality(Flights(fetch)),
           \A other \in Symbols \ {sym} :
              fs[other] = fetch[other] /\ (other \in timed <=> other \in timing),
           Live(t) => /\ t.buf = <<>> /\ sym \notin timed
                      /\ t.seq.last >= handled[sym],
           t.buf # <<>> => Newest(t.buf) = handled[sym],
           ~Live(t) /\ t.buf = <<>> => handled[sym] = 0,
           \A k \in Slots : fs[sym][k].pc = "deliver" =>
                               fs[sym][k].result \in Snapshots \cup {Failed},
           streamed = 0 => InFlightOf(fs, sym) = {}
    PROVE  RInv'
<1>1. /\ loop \in [Shards -> Loops] /\ trk \in [Symbols -> Trackers \cup {None}]
      /\ handled \in [Symbols -> Ids] /\ handled[sym] \in Nat
  BY TypesOfState, VenueAssumption DEF Ids
<1>2. PICK u : u = Anchor(t, s)
  OBVIOUS
<1>3. /\ Sound(u) /\ u.symbol = sym /\ u.buf = t.buf /\ ~u.fetching
      /\ LoadOutcome(t, s) = "anchored" =>
            Live(u) /\ u.seq.last = s.last /\ (Live(t) => s.last >= t.seq.last)
      /\ LoadOutcome(t, s) # "anchored" => u.seq = t.seq
  BY <1>2, AnchorSound
<1>4. s.last \in Nat /\ (Live(t) => t.seq.last \in Nat) /\ u \in Trackers
  BY <1>3, VenueAssumption, TrackerFields DEF Snapshots, Sound, Positions, Ids
<1>5. /\ loop[sh].pc \in {"select", "replay"}
      /\ loop[sh].pc = "replay" => loop[sh].symbol = sym
  BY DEF Selecting
<1>6. CASE LoadOutcome(t, s) = "anchored"
  <2>1. PICK l : l = [pc |-> "replay", symbol |-> sym, at |-> 1]
    OBVIOUS
  <2>2. /\ trk' = [trk EXCEPT ![sym] = u] /\ loop' = [loop EXCEPT ![sh] = l]
        /\ fetch' = fs /\ wg' = n /\ timing' = timed
    BY <1>2, <1>6, <2>1 DEF BeginLoad
  <2>3. l \in Loops /\ l.pc = "replay" /\ l.symbol = sym /\ l.at = 1
    BY <2>1 DEF Loops
  <2>4. trk'[sym] = u /\ u # None /\ loop'[ShardOf[sym]] = l
    BY <1>1, <1>3, <2>2, SoundIsSome
  <2>5. Replaying(sym)'
    BY <2>3, <2>4 DEF Replaying
  <2>6. l.at > Len(u.buf) => u.seq.last >= handled[sym]
    <3>1. u.buf \in Seq(Deltas)
      BY <1>4, TrackerFields
    <3>2. l.at > Len(u.buf) => u.buf = <<>>
      BY <2>3, <3>1
    <3> QED BY <1>1, <1>3, <1>4, <1>6, <3>2
  <2>7. BookInv(sym)'
    <3>1. Kept(sym)'
      BY <1>3, <1>6, <2>4, <2>5, <2>6 DEF Kept
    <3> QED BY <2>4, <3>1 DEF BookInv
  <2>8. FlightInv(sym)'
    <3>1. InFlight(sym)' = InFlightOf(fs, sym)
      BY <2>2 DEF InFlight, InFlightOf
    <3> QED BY <2>2, <3>1 DEF FlightInv
  <2>9. trk' \in [Symbols -> Trackers \cup {None}]
    BY <1>1, <1>4, <2>2
  <2>10. /\ fetch' \in FetchTable /\ timing' \subseteq Symbols /\ wg' \in Int
         /\ wg' - Cardinality(Flights(fetch')) = wg - Cardinality(Flights(fetch))
         /\ handled' \in [Symbols -> Ids]
         /\ \A other \in Symbols \ {sym} :
              /\ trk'[other] = trk[other] /\ fetch'[other] = fetch[other]
              /\ other \in timing' <=> other \in timing
              /\ handled'[other] = handled[other]
    BY <1>1, <2>2
  <2>11. l = Selecting \/ (l.pc = "replay" /\ l.symbol = sym /\ l.at # 0)
    BY <2>3
  <2>12. /\ ShardOf[sym] = sh /\ UNCHANGED <<closed, stage, caller, fed, streamed>>
         /\ in' = in \/ (in[sh] # <<>> /\ in' = [in EXCEPT ![sh] = Tail(@)])
    OBVIOUS
  <2> QED BY ONLY RInv, sh \in Shards, sym \in Symbols, <1>5, <2>2, <2>3, <2>7, <2>8,
                 <2>9, <2>10, <2>11, <2>12, HandlerKeeps
<1>7. CASE LoadOutcome(t, s) # "anchored"
  <2>1. FetchIfWanted(u, fs, n, timed) /\ loop' = loop
    BY <1>2, <1>7 DEF BeginLoad
  <2>2. ~Replaying(sym)'
    BY <2>1 DEF Replaying, Selecting
  <2>3. Live(u) = Live(t) /\ u.seq = t.seq
    BY <1>3, <1>7 DEF Live
  <2>4. BookInv(sym)' /\ FlightInv(sym)'
    <3>1. Live(u) => /\ u.buf = <<>> /\ ~u.fetching /\ sym \notin timed
                     /\ u.seq.last >= handled'[sym]
      BY <1>3, <2>3
    <3>2. ~Live(u) /\ u.fetching => sym \in timed /\ InFlightOf(fs, sym) # {}
      BY <1>3
    <3>3. /\ u.buf # <<>> => Newest(u.buf) = handled'[sym]
          /\ ~Live(u) /\ u.buf = <<>> => handled'[sym] = 0
      BY <1>3, <2>3
    <3>4. streamed' = 0 => \A j \in InFlightOf(fs, sym) :
                            u.fetching /\ \A k \in InFlightOf(fs, sym) : j = k
      OBVIOUS
    <3> QED BY <1>1, <1>3, <2>1, <2>2, <3>1, <3>2, <3>3, <3>4, HandlerEnds
  <2>5. /\ trk' \in [Symbols -> Trackers \cup {None}]
        /\ fetch' \in FetchTable /\ timing' \subseteq Symbols /\ wg' \in Int
        /\ wg' - Cardinality(Flights(fetch')) = n - Cardinality(Flights(fs))
        /\ \A other \in Symbols \ {sym} :
             /\ trk'[other] = trk[other] /\ fetch'[other] = fs[other]
             /\ other \in timing' <=> other \in timed
    <3>1. Framed(sym, fs, n, timed)
      BY <1>1, <1>3, <2>1, FetchIfWantedFrame
    <3> QED BY <3>1 DEF Framed
  <2>6. loop' = [loop EXCEPT ![sh] = Selecting] /\ Selecting \in Loops
    BY <1>1, <2>1 DEF Selecting, Loops
  <2>7. /\ ShardOf[sym] = sh /\ UNCHANGED <<closed, stage, caller, fed, streamed>>
        /\ in' = in \/ (in[sh] # <<>> /\ in' = [in EXCEPT ![sh] = Tail(@)])
        /\ handled' \in [Symbols -> Ids]
        /\ wg' - Cardinality(Flights(fetch')) = wg - Cardinality(Flights(fetch))
        /\ \A other \in Symbols \ {sym} :
              /\ trk'[other] = trk[other] /\ fetch'[other] = fetch[other]
              /\ other \in timing' <=> other \in timing
              /\ handled'[other] = handled[other]
    BY <1>1, <2>5
  <2> QED BY ONLY RInv, sh \in Shards, sym \in Symbols, <1>5, <2>4, <2>5, <2>6, <2>7,
                 HandlerKeeps
<1> QED BY <1>6, <1>7

\* shard.handle, of a snapshot from the stream.
LEMMA HandleSnapshotKeeps ==
    ASSUME RInv, NEW sh \in Shards, HandleSnapshot(sh)
    PROVE  RInv'
<1>1. /\ loop[sh] = Selecting /\ in[sh] # <<>> /\ Head(in[sh]).kind = "snapshot"
      /\ in' = [in EXCEPT ![sh] = Tail(@)]
      /\ UNCHANGED <<closed, stage, caller, fed, streamed>> /\ handled' = handled
  BY DEF HandleSnapshot, Receive, feedVars
<1>2. PICK s : s = Head(in[sh]).body
  OBVIOUS
<1>3. s \in Snapshots /\ ShardOf[s.symbol] = sh /\ streamed > 0
  BY <1>1, <1>2, HeadOfQueue DEF Events
<1>4. PICK sym \in Symbols : sym = s.symbol /\ ShardOf[sym] = sh
  BY <1>3 DEF Snapshots
<1>5. /\ fetch \in FetchTable /\ timing \in SUBSET Symbols /\ wg \in Nat
      /\ streamed \in Nat
  BY TypesOfState
<1>6. FlightInv(sym)
  BY DEF RInv
<1>7. CASE trk[sym] = None
  <2>1. PICK fs : fs = Spawn(fetch, sym)
    OBVIOUS
  <2>2. PICK t : t = Fetching(NewTracker(sym), TRUE)
    OBVIOUS
  <2>3. /\ CanSpawn(fetch, sym)
        /\ BeginLoad(sh, t, s, fs, wg + 1, timing \cup {sym})
    BY <1>2, <1>4, <1>7, <2>1, <2>2 DEF HandleSnapshot
  <2>4. PICK k \in Slots : /\ fetch[sym][k].pc = "free"
                           /\ fs = [fetch EXCEPT ![sym][k] = Request]
    BY <2>1, <2>3, SpawnIs
  <2>5. Request \in Fetches /\ Request.pc = "request"
    BY DEF Request, Fetches
  <2>6. /\ fs \in FetchTable
        /\ Cardinality(Flights(fs)) = Cardinality(Flights(fetch)) + 1
    <3>1. Placed(fetch, fs, sym, k, Request)
      BY <2>4 DEF Placed
    <3> QED BY <1>5, <2>4, <2>5, <3>1, FlightsChange
  <2>7. /\ fs[sym][k] = Request
        /\ \A j \in Slots \ {k} : fs[sym][j] = fetch[sym][j]
        /\ \A other \in Symbols \ {sym} : fs[other] = fetch[other]
    BY <1>5, <2>4 DEF FetchTable
  <2>8. \A j \in Slots : fs[sym][j].pc = "deliver" =>
                            fs[sym][j].result \in Snapshots \cup {Failed}
    BY <1>6, <2>5, <2>7 DEF FlightInv
  <2>9. Sound(t) /\ t.symbol = sym /\ ~Live(t) /\ t.buf = <<>>
    <3>1. PICK z : z = NewTracker(sym)
      OBVIOUS
    <3>2. Sound(z) /\ z.symbol = sym /\ z.buf = <<>> /\ ~z.seq.synced
      BY <3>1, NewTrackerSound DEF Live
    <3> QED BY <2>2, <3>1, <3>2, FetchingSound DEF Live
  <2>10. handled[sym] = 0
    BY <1>1, <1>4, <1>7, KeptAtSelect DEF Unseen
  <2>11. wg + 1 \in Int /\ timing \cup {sym} \in SUBSET Symbols
    BY <1>5
  <2>12. (wg + 1) - Cardinality(Flights(fs)) = wg - Cardinality(Flights(fetch))
    BY <1>5, <2>6, FlightsFinite
  <2>13. \A other \in Symbols \ {sym} :
            fs[other] = fetch[other]
            /\ (other \in timing \cup {sym} <=> other \in timing)
    BY <2>7
  <2>14. streamed # 0
    BY <1>3, <1>5
  <2>15. PICK n \in Int : n = wg + 1
    BY <2>11
  <2>16. PICK timed \in SUBSET Symbols : timed = timing \cup {sym}
    BY <2>11
  <2> QED BY <1>1, <1>3, <1>4, <2>3, <2>6, <2>8, <2>9, <2>10, <2>12, <2>13, <2>14,
             <2>15, <2>16, LoadKeeps
<1>8. CASE trk[sym] # None
  <2>1. BeginLoad(sh, trk[sym], s, fetch, wg, timing)
    BY <1>2, <1>4, <1>8 DEF HandleSnapshot
  <2>2. wg \in Int /\ streamed # 0
    BY <1>3, <1>5
  <2>3. \A k \in Slots : fetch[sym][k].pc = "deliver" =>
                            fetch[sym][k].result \in Snapshots \cup {Failed}
    BY <1>6 DEF FlightInv
  <2>4. /\ Sound(trk[sym]) /\ trk[sym].symbol = sym
        /\ Live(trk[sym]) =>
             /\ trk[sym].buf = <<>>
             /\ sym \notin timing /\ trk[sym].seq.last >= handled[sym]
        /\ trk[sym].buf # <<>> => Newest(trk[sym].buf) = handled[sym]
        /\ ~Live(trk[sym]) /\ trk[sym].buf = <<>> => handled[sym] = 0
    BY <1>1, <1>4, <1>8, KeptAtSelect
  <2>5. PICK t : t = trk[sym]
    OBVIOUS
  <2> QED BY <1>1, <1>3, <1>4, <1>5, <2>1, <2>2, <2>3, <2>4, <2>5, LoadKeeps
<1> QED BY <1>7, <1>8

\* shard.complete: the answer to a fetch reaches the shard's loop.
LEMMA CompleteKeeps ==
    ASSUME RInv, NEW sym \in Symbols, NEW k \in Slots, Complete(sym, k)
    PROVE  RInv'
<1>1. PICK sh \in Shards : sh = ShardOf[sym]
  BY RouterAssumption
<1>2. PICK fs : fs = [fetch EXCEPT ![sym][k] = NoFetch]
  OBVIOUS
<1>3. PICK t : t = trk[sym]
  OBVIOUS
<1>4. /\ loop[sh] = Selecting /\ fetch[sym][k].pc = "deliver"
      /\ UNCHANGED <<closed, stage, caller, fed, streamed>> /\ handled' = handled
      /\ in' = in
  BY <1>1 DEF Complete, feedVars
<1>5. /\ fetch \in FetchTable /\ timing \in SUBSET Symbols /\ wg \in Int
      /\ loop \in [Shards -> Loops] /\ trk \in [Symbols -> Trackers \cup {None}]
      /\ handled \in [Symbols -> Ids]
  BY TypesOfState
<1>6. FlightInv(sym) /\ k \in InFlight(sym) /\ InFlight(sym) = InFlightOf(fetch, sym)
  BY <1>1, <1>4, KeptAtSelect DEF RInv, InFlight
<1>7. /\ Sound(t) /\ t.symbol = sym /\ trk[sym] # None
      /\ Live(t) => /\ ~t.fetching /\ t.buf = <<>>
                    /\ sym \notin timing /\ t.seq.last >= handled[sym]
      /\ ~Live(t) => t.fetching /\ sym \in timing
      /\ t.buf # <<>> => Newest(t.buf) = handled[sym]
      /\ ~Live(t) /\ t.buf = <<>> => handled[sym] = 0
  BY <1>1, <1>3, <1>4, <1>6, KeptAtSelect DEF Unseen
<1>8. NoFetch \in Fetches /\ NoFetch.pc = "free"
  BY DEF NoFetch, Fetches
<1>9. /\ fs \in FetchTable
      /\ Cardinality(Flights(fs)) = Cardinality(Flights(fetch)) - 1
  <2>1. Placed(fetch, fs, sym, k, NoFetch)
    BY <1>2 DEF Placed
  <2>2. fetch[sym][k].pc # "free"
    BY <1>4
  <2> QED BY <1>5, <1>8, <2>1, <2>2, FlightsChange
<1>10. /\ fs[sym][k] = NoFetch
       /\ \A j \in Slots \ {k} : fs[sym][j] = fetch[sym][j]
       /\ \A other \in Symbols \ {sym} : fs[other] = fetch[other]
  BY <1>2, <1>5 DEF FetchTable
<1>11. \A j \in Slots : fs[sym][j].pc = "deliver" =>
                          fs[sym][j].result \in Snapshots \cup {Failed}
  BY <1>6, <1>8, <1>10 DEF FlightInv
<1>12. streamed = 0 => InFlightOf(fs, sym) = {}
  BY <1>6, <1>8, <1>10 DEF FlightInv, InFlightOf
<1>13. PICK n \in Int : n = wg - 1
  BY <1>5
<1>14. n - Cardinality(Flights(fs)) = wg - Cardinality(Flights(fetch))
  BY <1>5, <1>9, <1>13, FlightsFinite
<1>15. \A other \in Symbols \ {sym} :
          fs[other] = fetch[other] /\ (other \in timing <=> other \in timing)
  BY <1>10
<1>16. CASE fetch[sym][k].result = Failed
  <2>1. PICK u : u = Fetching(t, FALSE)
    OBVIOUS
  <2>2. FetchIfWanted(u, fs, n, timing) /\ loop' = loop
    BY <1>2, <1>3, <1>13, <1>16, <2>1 DEF Complete
  <2>3. /\ Sound(u) /\ u.symbol = sym /\ ~u.fetching
        /\ u.seq = t.seq /\ u.buf = t.buf /\ (Live(u) <=> Live(t))
    BY <1>7, <2>1, FetchingSound DEF Live
  <2>4. BookInv(sym)' /\ FlightInv(sym)'
    <3>1. Live(u) => /\ u.buf = <<>> /\ ~u.fetching /\ sym \notin timing
                     /\ u.seq.last >= handled'[sym]
      BY <1>4, <1>7, <2>3
    <3>2. ~Live(u) /\ u.fetching => sym \in timing /\ InFlightOf(fs, sym) # {}
      BY <2>3
    <3>3. /\ u.buf # <<>> => Newest(u.buf) = handled'[sym]
          /\ ~Live(u) /\ u.buf = <<>> => handled'[sym] = 0
      BY <1>4, <1>7, <2>3
    <3>4. streamed' = 0 => \A j \in InFlightOf(fs, sym) :
                            u.fetching /\ \A m \in InFlightOf(fs, sym) : j = m
      BY <1>4, <1>12
    <3>5. ~Replaying(sym)'
      BY <1>1, <1>4, <2>2 DEF Replaying, Selecting
    <3> QED BY <1>5, <1>9, <1>11, <2>2, <2>3, <3>1, <3>2, <3>3, <3>4, <3>5, HandlerEnds
  <2>5. /\ trk' \in [Symbols -> Trackers \cup {None}]
        /\ fetch' \in FetchTable /\ timing' \subseteq Symbols /\ wg' \in Int
        /\ wg' - Cardinality(Flights(fetch')) = n - Cardinality(Flights(fs))
        /\ \A other \in Symbols \ {sym} :
             /\ trk'[other] = trk[other] /\ fetch'[other] = fs[other]
             /\ other \in timing' <=> other \in timing
    <3>1. Framed(sym, fs, n, timing)
      BY <1>5, <1>9, <2>2, <2>3, FetchIfWantedFrame
    <3> QED BY <3>1 DEF Framed
  <2>6. /\ loop' = [loop EXCEPT ![sh] = Selecting] /\ Selecting \in Loops
        /\ loop[sh].pc = "select"
    BY <1>4, <1>5, <2>2 DEF Selecting, Loops
  <2>7. /\ ShardOf[sym] = sh /\ UNCHANGED <<closed, stage, caller, fed, streamed>>
        /\ in' = in \/ (in[sh] # <<>> /\ in' = [in EXCEPT ![sh] = Tail(@)])
        /\ handled' \in [Symbols -> Ids]
        /\ wg' - Cardinality(Flights(fetch')) = wg - Cardinality(Flights(fetch))
        /\ \A other \in Symbols \ {sym} :
              /\ trk'[other] = trk[other] /\ fetch'[other] = fetch[other]
              /\ other \in timing' <=> other \in timing
              /\ handled'[other] = handled[other]
        /\ loop[sh].pc \in {"select", "replay"}
        /\ loop[sh].pc = "replay" => loop[sh].symbol = sym
    BY <1>1, <1>4, <1>5, <1>14, <1>15, <2>5, <2>6
  <2> QED BY ONLY RInv, sh \in Shards, sym \in Symbols, <2>4, <2>5, <2>6, <2>7,
                 HandlerKeeps
<1>17. CASE fetch[sym][k].result # Failed
  <2>1. PICK s \in Snapshots : s = fetch[sym][k].result
    BY <1>4, <1>6, <1>17 DEF FlightInv
  <2>2. BeginLoad(sh, t, s, fs, n, timing)
    BY <1>1, <1>2, <1>3, <1>13, <1>17, <2>1 DEF Complete
  <2> QED BY <1>1, <1>4, <1>5, <1>7, <1>9, <1>11, <1>12, <1>14, <1>15, <2>2, LoadKeeps
<1> QED BY <1>16, <1>17

\* One buffered delta of the replay that follows a snapshot.
LEMMA ReplayStepKeeps ==
    ASSUME RInv, NEW sh \in Shards, ReplayStep(sh)
    PROVE  RInv'
<1>1. loop[sh].pc = "replay"
  BY DEF ReplayStep
<1>2. PICK sym \in Symbols : /\ sym = loop[sh].symbol /\ ShardOf[sym] = sh
                             /\ loop[sh].at \in Nat \ {0}
  BY <1>1 DEF RInv, LoopInv
<1>3. PICK i \in Nat \ {0} : i = loop[sh].at
  BY <1>2
<1>4. PICK t : t = trk[sym]
  OBVIOUS
<1>5. PICK u : u = ReplayOne(t, i)
  OBVIOUS
<1>6. /\ in' = in /\ handled' = handled
      /\ UNCHANGED <<closed, stage, caller, fed, streamed>>
  BY DEF ReplayStep, feedVars
<1>7. /\ loop \in [Shards -> Loops] /\ trk \in [Symbols -> Trackers \cup {None}]
      /\ fetch \in FetchTable /\ timing \in SUBSET Symbols
      /\ wg \in Int /\ handled \in [Symbols -> Ids]
  BY TypesOfState
<1>8. Replaying(sym) /\ BookInv(sym) /\ FlightInv(sym)
  BY <1>1, <1>2 DEF Replaying, RInv
<1>9. trk[sym] # None /\ Kept(sym)
  BY <1>8 DEF BookInv, Unseen
<1>10. /\ Sound(t) /\ t.symbol = sym /\ Live(t) /\ ~t.fetching
       /\ i > Len(t.buf) => t.seq.last >= handled[sym]
       /\ t.buf # <<>> => Newest(t.buf) = handled[sym]
  BY <1>2, <1>3, <1>4, <1>8, <1>9 DEF Kept
<1>11. /\ Sound(u) /\ u.symbol = sym /\ ~u.fetching
       /\ ReplayGoesOn(t, i) =>
            /\ Live(u) /\ u.buf = t.buf /\ i \in 1 .. Len(t.buf)
            /\ u.seq.last >= t.buf[i].last
       /\ ~ReplayGoesOn(t, i) /\ Live(u) =>
            u.buf = <<>> /\ i > Len(t.buf) /\ u.seq = t.seq
       /\ ~Live(u) => i \in 1 .. Len(t.buf) /\ u.buf = KeepFrom(t.buf, i)
  BY <1>5, <1>10, ReplaySound
<1>12. t.buf \in Seq(Deltas) /\ Len(t.buf) \in Nat /\ u \in Trackers
  BY <1>10, <1>11, TrackerFields DEF Sound
<1>13. \A k \in Slots : fetch[sym][k].pc = "deliver" =>
                          fetch[sym][k].result \in Snapshots \cup {Failed}
  BY <1>8 DEF FlightInv
<1>14. streamed = 0 => InFlightOf(fetch, sym) = {}
  BY <1>4, <1>8, <1>10 DEF FlightInv, InFlight, InFlightOf
<1>15. /\ loop[sh].pc \in {"select", "replay"}
       /\ loop[sh].pc = "replay" => loop[sh].symbol = sym
  BY <1>1, <1>2
<1>16. CASE ReplayGoesOn(t, i)
  <2>1. PICK l : l = [loop[sh] EXCEPT !.at = @ + 1]
    OBVIOUS
  <2>2. /\ trk' = [trk EXCEPT ![sym] = u] /\ loop' = [loop EXCEPT ![sh] = l]
        /\ UNCHANGED <<fetch, wg, timing>>
    BY <1>2, <1>3, <1>4, <1>5, <1>16, <2>1 DEF ReplayStep
  <2>3. l \in Loops /\ l.pc = "replay" /\ l.symbol = sym /\ l.at = i + 1
    BY <1>1, <1>2, <1>3, <1>7, <2>1 DEF Loops
  <2>4. trk'[sym] = u /\ u # None /\ loop'[ShardOf[sym]] = l
    BY <1>2, <1>7, <1>11, <2>2, SoundIsSome
  <2>5. Replaying(sym)'
    BY <2>3, <2>4 DEF Replaying
  <2>6. l.at > Len(u.buf) => u.seq.last >= handled[sym]
    <3>1. l.at > Len(u.buf) => i = Len(t.buf) /\ t.buf # <<>>
      BY <1>11, <1>12, <1>16, <2>3
    <3> QED BY <1>10, <1>11, <1>16, <3>1 DEF Newest
  <2>7. BookInv(sym)'
    <3>1. Kept(sym)'
      BY <1>6, <1>10, <1>11, <1>16, <2>4, <2>5, <2>6 DEF Kept
    <3> QED BY <2>4, <3>1 DEF BookInv
  <2>8. FlightInv(sym)'
    <3>1. InFlight(sym)' = InFlightOf(fetch, sym)
      BY <2>2 DEF InFlight, InFlightOf
    <3> QED BY <1>6, <1>13, <1>14, <2>2, <3>1 DEF FlightInv
  <2>9. trk' \in [Symbols -> Trackers \cup {None}]
    BY <1>7, <1>12, <2>2
  <2>10. /\ fetch' \in FetchTable /\ timing' \subseteq Symbols /\ wg' \in Int
         /\ wg' - Cardinality(Flights(fetch')) = wg - Cardinality(Flights(fetch))
         /\ handled' \in [Symbols -> Ids]
         /\ \A other \in Symbols \ {sym} :
              /\ trk'[other] = trk[other] /\ fetch'[other] = fetch[other]
              /\ other \in timing' <=> other \in timing
              /\ handled'[other] = handled[other]
    BY <1>6, <1>7, <2>2
  <2>11. l = Selecting \/ (l.pc = "replay" /\ l.symbol = sym /\ l.at # 0)
    BY <2>3
  <2>12. /\ ShardOf[sym] = sh /\ UNCHANGED <<closed, stage, caller, fed, streamed>>
         /\ in' = in \/ (in[sh] # <<>> /\ in' = [in EXCEPT ![sh] = Tail(@)])
    BY <1>2, <1>6
  <2> QED BY ONLY RInv, sh \in Shards, sym \in Symbols, <1>15, <2>2, <2>3, <2>7, <2>8,
                 <2>9, <2>10, <2>11, <2>12, HandlerKeeps
<1>17. CASE ~ReplayGoesOn(t, i)
  <2>1. PICK timed \in SUBSET Symbols :
            timed = IF Live(u) THEN timing \ {sym} ELSE timing
    BY <1>7
  <2>2. /\ FetchIfWanted(u, fetch, wg, timed)
        /\ loop' = [loop EXCEPT ![sh] = Selecting]
    BY <1>2, <1>3, <1>4, <1>5, <1>17, <2>1 DEF ReplayStep
  <2>3. ~Replaying(sym)'
    BY <1>2, <1>7, <2>2 DEF Replaying, Selecting
  <2>4. Live(u) => u.seq.last >= handled[sym]
    BY <1>10, <1>11, <1>17
  <2>5. ~Live(u) => u.buf # <<>> /\ Newest(u.buf) = handled[sym]
    <3> SUFFICES ASSUME ~Live(u) PROVE u.buf # <<>> /\ Newest(u.buf) = handled[sym]
      OBVIOUS
    <3>1. i \in 1 .. Len(t.buf) /\ u.buf = KeepFrom(t.buf, i) /\ t.buf # <<>>
      BY <1>11, <1>12
    <3>2. /\ u.buf \in Seq(Deltas) /\ Len(u.buf) = Len(t.buf) - i + 1
          /\ u.buf[Len(u.buf)] = t.buf[Len(t.buf)]
      BY <1>12, <3>1, KeepFromKeeps
    <3> QED BY <1>10, <1>12, <3>1, <3>2 DEF Newest
  <2>6. BookInv(sym)' /\ FlightInv(sym)'
    <3>1. Live(u) => /\ u.buf = <<>> /\ ~u.fetching /\ sym \notin timed
                     /\ u.seq.last >= handled'[sym]
      BY <1>6, <1>11, <1>17, <2>1, <2>4
    <3>2. ~Live(u) /\ u.fetching => sym \in timed /\ InFlightOf(fetch, sym) # {}
      BY <1>11
    <3>3. /\ u.buf # <<>> => Newest(u.buf) = handled'[sym]
          /\ ~Live(u) /\ u.buf = <<>> => handled'[sym] = 0
      BY <1>6, <1>11, <1>17, <2>5
    <3>4. streamed' = 0 => \A j \in InFlightOf(fetch, sym) :
                            u.fetching /\ \A k \in InFlightOf(fetch, sym) : j = k
      BY <1>6, <1>14
    <3> QED BY <1>7, <1>11, <1>13, <2>2, <2>3, <3>1, <3>2, <3>3, <3>4, HandlerEnds
  <2>7. /\ trk' \in [Symbols -> Trackers \cup {None}]
        /\ fetch' \in FetchTable /\ timing' \subseteq Symbols /\ wg' \in Int
        /\ wg' - Cardinality(Flights(fetch')) = wg - Cardinality(Flights(fetch))
        /\ \A other \in Symbols \ {sym} :
             /\ trk'[other] = trk[other] /\ fetch'[other] = fetch[other]
             /\ other \in timing' <=> other \in timed
    <3>1. Sound(u) /\ u.symbol = sym
      BY <1>11
    <3>2. FetchIfWanted(u, fetch, wg, timed)
      BY <2>2
    <3>3. trk \in [Symbols -> Trackers \cup {None}] /\ fetch \in FetchTable /\ wg \in Int
      BY <1>7
    <3>4. Framed(sym, fetch, wg, timed)
      BY <3>1, <3>2, <3>3, FetchIfWantedFrame
    <3> QED BY <3>4 DEF Framed
  <2>8. /\ ShardOf[sym] = sh /\ UNCHANGED <<closed, stage, caller, fed, streamed>>
        /\ in' = in \/ (in[sh] # <<>> /\ in' = [in EXCEPT ![sh] = Tail(@)])
        /\ handled' \in [Symbols -> Ids]
        /\ \A other \in Symbols \ {sym} :
              /\ trk'[other] = trk[other] /\ fetch'[other] = fetch[other]
              /\ other \in timing' <=> other \in timing
              /\ handled'[other] = handled[other]
    BY <1>2, <1>6, <1>7, <2>1, <2>7
  <2>9. Selecting \in Loops
    BY DEF Selecting, Loops
  <2> QED BY ONLY RInv, sh \in Shards, sym \in Symbols, <1>15, <2>2, <2>6, <2>7, <2>8,
                 <2>9, HandlerKeeps
<1> QED BY <1>16, <1>17

\* shard.handle, of a trade.
LEMMA HandleTradeKeeps ==
    ASSUME RInv, NEW sh \in Shards, HandleTrade(sh)
    PROVE  RInv'
<1>1. /\ loop[sh] = Selecting /\ in[sh] # <<>>
      /\ in' = [in EXCEPT ![sh] = Tail(@)]
      /\ UNCHANGED <<closed, stage, caller, fed, streamed>>
      /\ UNCHANGED <<loop, trk, timing, fetch, wg, handled>>
      /\ Head(in[sh]).kind = "trade"
  BY DEF HandleTrade, Receive, feedVars
<1>2. /\ loop \in [Shards -> Loops] /\ trk \in [Symbols -> Trackers \cup {None}]
      /\ fetch \in FetchTable /\ timing \in SUBSET Symbols
      /\ wg \in Int /\ handled \in [Symbols -> Ids]
  BY TypesOfState
<1>3. PICK sym \in Symbols : ShardOf[sym] = sh
  BY <1>1, HeadOfQueue DEF Events
<1>4. BookInv(sym)' /\ FlightInv(sym)'
  <2>1. BookInv(sym) /\ FlightInv(sym)
    BY DEF RInv
  <2> QED BY <1>1, <2>1, OtherBook
<1>5. loop' = [loop EXCEPT ![sh] = Selecting] /\ Selecting \in Loops
  BY <1>1, <1>2 DEF Selecting, Loops
<1>6. /\ loop[sh].pc \in {"select", "replay"}
      /\ loop[sh].pc = "replay" => loop[sh].symbol = sym
      /\ in' = in \/ (in[sh] # <<>> /\ in' = [in EXCEPT ![sh] = Tail(@)])
      /\ UNCHANGED <<closed, stage, caller, fed, streamed>>
      /\ trk' \in [Symbols -> Trackers \cup {None}]
      /\ fetch' \in FetchTable /\ timing' \subseteq Symbols /\ wg' \in Int
      /\ wg' - Cardinality(Flights(fetch')) = wg - Cardinality(Flights(fetch))
      /\ handled' \in [Symbols -> Ids]
      /\ \A other \in Symbols \ {sym} :
            /\ trk'[other] = trk[other] /\ fetch'[other] = fetch[other]
            /\ other \in timing' <=> other \in timing
            /\ handled'[other] = handled[other]
  BY <1>1, <1>2 DEF Selecting
<1> QED BY ONLY RInv, sh \in Shards, sym \in Symbols, <1>3, <1>4, <1>5, <1>6,
               HandlerKeeps

\* The shard's queue is closed and empty, and its loop returns.
LEMMA StopKeeps ==
    ASSUME RInv, NEW sh \in Shards, Stop(sh)
    PROVE  RInv'
<1>1. /\ loop[sh] = Selecting /\ in[sh] = <<>> /\ sh \in closed
      /\ loop' = [loop EXCEPT ![sh] = Stopped] /\ wg' = wg - 1
      /\ UNCHANGED <<in, closed, trk, timing, fetch, stage, caller, fed, streamed, handled>>
  BY DEF Stop, feedVars
<1>2. TypeOK /\ StageInv /\ QueueInv /\ LoopInv /\ CountInv /\ CallerInv
  BY DEF RInv
<1>3. loop \in [Shards -> Loops] /\ wg \in Nat
  BY TypesOfState
<1>4. Stopped \in Loops /\ Stopped.pc = "stopped" /\ Selecting.pc = "select"
  BY DEF Stopped, Loops, Selecting
<1>5. /\ loop' \in [Shards -> Loops] /\ loop'[sh] = Stopped
      /\ \A x \in Shards \ {sh} : loop'[x] = loop[x]
  BY <1>1, <1>3, <1>4
<1>6. /\ Cardinality(Running(loop')) = Cardinality(Running(loop)) - 1
      /\ Cardinality(Running(loop)) \in Nat
  <2>1. loop[sh].pc \in {"select", "replay"}
    BY <1>1, <1>4
  <2> QED BY ONLY sh \in Shards, <1>1, <1>3, <1>4, <2>1, RunningChange
<1>7. CountInv' /\ wg' \in Nat
  <2>1. Cardinality(Flights(fetch)) \in Nat
    BY FlightsFinite
  <2>2. wg = Cardinality(Running(loop)) + Cardinality(Flights(fetch))
    BY <1>2 DEF CountInv
  <2>3. IsFiniteSet(Running(loop')) /\ Cardinality(Running(loop')) \in Nat
    <3>1. Running(loop') \subseteq Shards
      BY DEF Running
    <3> QED BY <3>1, RouterAssumption, FS_Subset, FS_CardinalityType
  <2> QED BY <1>1, <1>6, <2>1, <2>2, <2>3 DEF CountInv
<1>8. TypeOK'
  BY <1>1, <1>2, <1>5, <1>7 DEF TypeOK
<1>9. stage # "returned"
  BY <1>1, <1>2, <1>4 DEF StageInv, CloseLeavesNothing
<1>10. StageInv'
  BY <1>1, <1>2, <1>9 DEF StageInv, CloseLeavesNothing
<1>11. QueueInv' /\ CallerInv'
  BY <1>1, <1>2 DEF QueueInv, CallerInv
<1>12. LoopInv'
  <2>1. stage # "new"
    BY <1>1, <1>2, <1>4 DEF LoopInv
  <2> QED BY <1>1, <1>2, <1>4, <1>5, <2>1 DEF LoopInv
<1>13. ASSUME NEW sym \in Symbols
       PROVE  BookInv(sym)' /\ FlightInv(sym)'
  <2>1. BookInv(sym) /\ FlightInv(sym)
    BY DEF RInv
  <2>2. ShardOf[sym] \in Shards
    BY RouterAssumption
  <2>3. CASE ShardOf[sym] # sh
    <3>1. loop'[ShardOf[sym]] = loop[ShardOf[sym]]
      BY <1>5, <2>2, <2>3
    <3> QED BY <1>1, <2>1, <3>1, OtherBook
  <2>4. CASE ShardOf[sym] = sh
    <3>1. /\ ~Replaying(sym) /\ loop'[ShardOf[sym]] = Stopped
      BY <1>1, <1>4, <1>5, <2>4 DEF Replaying
    <3>2. ~Replaying(sym)'
      BY <1>4, <3>1 DEF Replaying
    <3> QED BY <1>1, <2>1, <3>1, <3>2, OtherBook
  <2> QED BY <2>3, <2>4
<1> QED BY <1>7, <1>8, <1>10, <1>11, <1>12, <1>13 DEF RInv

-----------------------------------------------------------------------------
(***************************************************************************)
(* Lifecycle and the upstream stage.                                       *)
(***************************************************************************)
\* A step that leaves trackers, fetches and loops alone keeps every book in order.
LEMMA BooksUnchanged ==
    ASSUME RInv, UNCHANGED <<loop, trk, timing, fetch, handled>>,
           streamed' = 0 => streamed = 0
    PROVE  \A sym \in Symbols : BookInv(sym)' /\ FlightInv(sym)'
<1> SUFFICES ASSUME NEW sym \in Symbols PROVE BookInv(sym)' /\ FlightInv(sym)'
  OBVIOUS
<1>1. BookInv(sym) /\ FlightInv(sym)
  BY DEF RInv
<1> QED BY <1>1, OtherBook

\* The invariant holds at first.
LEMMA InitRInv == Init => RInv
<1> SUFFICES ASSUME Init PROVE RInv
  OBVIOUS
<1>1. TypeOK
  <2>1. 0 \in Ids
    BY VenueAssumption DEF Ids
  <2>2. [Selecting EXCEPT !.pc = "new"] \in Loops
    BY DEF Selecting, Loops
  <2>3. NoFetch \in Fetches
    BY DEF NoFetch, Fetches
  <2>4. /\ in \in [Shards -> Seq(Events)]
        /\ \A sh \in Shards : Len(in[sh]) <= QueueCap
    <3>1. <<>> \in Seq(Events) /\ Len(<<>>) <= QueueCap
      BY RouterAssumption
    <3> QED BY <3>1 DEF Init
  <2>5. loop \in [Shards -> Loops] /\ trk \in [Symbols -> Trackers \cup {None}]
    BY <2>2 DEF Init
  <2>6. fetch \in [Symbols -> [Slots -> Fetches]]
    BY <2>3 DEF Init
  <2>7. caller \in [Callers -> [pc: {"idle", "asking", "answered"},
                               q: Questions \cup {None}, outcome: Outcomes]]
    BY DEF Init, Outcomes
  <2>8. fed \in [Symbols -> Ids] /\ handled \in [Symbols -> Ids]
    BY <2>1 DEF Init
  <2>9. /\ closed \subseteq Shards /\ timing \subseteq Symbols /\ wg \in Nat
        /\ stage \in {"new", "open", "closing", "returned"}
        /\ streamed \in 0 .. MaxStreamed
    BY RouterAssumption DEF Init
  <2> QED BY <2>4, <2>5, <2>6, <2>7, <2>8, <2>9 DEF TypeOK
<1>2. \A sh \in Shards : loop[sh].pc = "new"
  BY DEF Init, Selecting
<1>3. LoopInv
  BY <1>2 DEF LoopInv, Init
<1>4. QueueInv
  BY DEF QueueInv, Init
<1>5. StageInv /\ CallerInv
  BY RouterAssumption DEF StageInv, CloseLeavesNothing, CallerInv, Init
<1>6. \A sym \in Symbols, k \in Slots : fetch[sym][k].pc = "free"
  BY DEF Init, NoFetch
<1>7. CountInv
  <2>1. Running(loop) = {}
    BY <1>2 DEF Running
  <2>2. Flights(fetch) = {}
    BY <1>6 DEF Flights
  <2>3. Cardinality({}) = 0
    BY FS_EmptySet
  <2>4. wg = 0
    BY DEF Init
  <2> QED BY <2>1, <2>2, <2>3, <2>4 DEF CountInv
<1>8. ASSUME NEW sym \in Symbols
      PROVE  BookInv(sym) /\ FlightInv(sym)
  <2>1. InFlight(sym) = {}
    BY <1>6 DEF InFlight
  <2>2. ~Replaying(sym)
    BY <1>2, RouterAssumption DEF Replaying
  <2>3. FlightInv(sym)
    BY <1>6, <2>1 DEF FlightInv
  <2>4. trk[sym] = None /\ Unseen(sym)
    BY <2>1, <2>2 DEF Init, Unseen
  <2> QED BY <2>3, <2>4 DEF BookInv
<1> QED BY <1>1, <1>3, <1>4, <1>5, <1>7, <1>8 DEF RInv

\* Router.Start.
LEMMA StartKeeps ==
    ASSUME RInv, Start
    PROVE  RInv'
<1>0. TypeOK /\ StageInv /\ QueueInv /\ LoopInv /\ CountInv /\ CallerInv
  BY DEF RInv
<1>1. /\ stage = "new" /\ stage' = "open"
      /\ loop' = [sh \in Shards |-> Selecting]
      /\ wg' = wg + Cardinality(Shards)
      /\ UNCHANGED <<in, closed, trk, timing, fetch, caller, fed, streamed, handled>>
  BY DEF Start
<1>2. \A sh \in Shards : loop[sh].pc = "new"
  BY <1>0, <1>1 DEF LoopInv
<1>3. Cardinality(Shards) \in Nat
  BY RouterAssumption, FS_CardinalityType
<1>4. CountInv'
  <2>1. Running(loop) = {}
    BY <1>2 DEF Running
  <2>2. Running(loop') = Shards
    BY <1>1 DEF Running, Selecting
  <2>3. wg = 0 + Cardinality(Flights(fetch)) /\ Cardinality(Flights(fetch)) \in Nat
    BY <1>0, <2>1, FS_EmptySet, FlightsFinite DEF CountInv
  <2> QED BY <1>1, <1>3, <2>2, <2>3 DEF CountInv
<1>5. TypeOK'
  <2>1. Selecting \in Loops
    BY DEF Selecting, Loops
  <2> QED BY <1>0, <1>1, <1>3, <2>1 DEF TypeOK
<1>6. StageInv' /\ QueueInv' /\ CallerInv'
  BY <1>0, <1>1 DEF StageInv, CloseLeavesNothing, QueueInv, CallerInv
<1>7. LoopInv'
  BY <1>1 DEF LoopInv, Selecting
<1>8. ASSUME NEW sym \in Symbols
      PROVE  BookInv(sym)' /\ FlightInv(sym)'
  <2>1. BookInv(sym) /\ FlightInv(sym) /\ ShardOf[sym] \in Shards
    BY RouterAssumption DEF RInv
  <2>2. ~Replaying(sym) /\ loop[ShardOf[sym]] # Stopped
    BY <1>2, <2>1 DEF Replaying, Stopped
  <2>3. ~Replaying(sym)'
    BY <1>1, <2>1 DEF Replaying, Selecting
  <2> QED BY <1>1, <2>1, <2>2, <2>3, OtherBook
<1> QED BY <1>4, <1>5, <1>6, <1>7, <1>8 DEF RInv

\* Router.Route, of any kind of event.
LEMMA RouteKeeps ==
    ASSUME RInv, NEW ev \in Events, Route(ev), fed' \in [Symbols -> Ids],
           streamed' \in 0 .. MaxStreamed, streamed' >= streamed,
           ev.kind = "snapshot" => streamed' > 0
    PROVE  RInv'
<1>0. TypeOK /\ StageInv /\ QueueInv /\ LoopInv /\ CountInv /\ CallerInv
  BY DEF RInv
<1>1. PICK sh : sh = ShardOf[ev.body.symbol]
  OBVIOUS
<1>2. sh \in Shards
  BY <1>1, RouterAssumption DEF Events, Deltas, Snapshots
<1>3. /\ stage = "open" /\ Len(in[sh]) < QueueCap
      /\ in' = [in EXCEPT ![sh] = Append(@, ev)]
      /\ UNCHANGED <<closed, loop, trk, timing, fetch, wg, stage, caller, handled>>
  BY <1>1 DEF Route
<1>4. in \in [Shards -> Seq(Events)] /\ streamed \in Nat /\ streamed' \in Nat
  BY TypesOfState, RouterAssumption
<1>5. /\ in' \in [Shards -> Seq(Events)] /\ in'[sh] = Append(in[sh], ev)
      /\ \A x \in Shards \ {sh} : in'[x] = in[x]
  BY <1>2, <1>3, <1>4
<1>6. Len(in'[sh]) <= QueueCap
  BY <1>2, <1>3, <1>4, <1>5, RouterAssumption
<1>7. TypeOK'
  BY <1>0, <1>3, <1>5, <1>6 DEF TypeOK
<1>8. QueueInv'
  <2>1. ASSUME NEW x \in Shards
        PROVE  Inbox(x, streamed) \subseteq Inbox(x, streamed')
    BY <1>4 DEF Inbox
  <2>2. ASSUME NEW x \in Shards
        PROVE  in[x] \in Seq(Inbox(x, streamed'))
    BY <1>0, <2>1 DEF QueueInv
  <2>3. ev \in Inbox(sh, streamed')
    BY <1>1 DEF Inbox
  <2>4. in'[sh] \in Seq(Inbox(sh, streamed'))
    BY <1>2, <1>5, <2>2, <2>3
  <2> QED BY <1>5, <2>2, <2>4 DEF QueueInv
<1>9. closed = {}
  BY <1>0, <1>3 DEF StageInv
<1>10. LoopInv'
  BY <1>0, <1>3, <1>9 DEF LoopInv
<1>11. StageInv' /\ CountInv' /\ CallerInv'
  BY <1>0, <1>3 DEF StageInv, CloseLeavesNothing, CountInv, CallerInv
<1>12. streamed' = 0 => streamed = 0
  BY <1>4
<1>13. \A sym \in Symbols : BookInv(sym)' /\ FlightInv(sym)'
  BY <1>3, <1>12, BooksUnchanged
<1> QED BY <1>7, <1>8, <1>10, <1>11, <1>13 DEF RInv

\* The stage that feeds the router.
LEMMA UpstreamKeeps ==
    ASSUME RInv, Upstream
    PROVE  RInv'
<1>0. /\ fed \in [Symbols -> Ids] /\ streamed \in 0 .. MaxStreamed
      /\ TypeOK /\ StageInv /\ QueueInv /\ LoopInv /\ CountInv /\ CallerInv
  BY DEF RInv, TypeOK
<1>a. streamed \in Nat /\ streamed >= streamed
  BY <1>0, RouterAssumption
<1>1. ASSUME NEW d \in Deltas, RouteDelta(d) PROVE RInv'
  <2>1. PICK ev : ev = [kind |-> "delta", body |-> d]
    OBVIOUS
  <2>2. Route(ev) /\ fed' = [fed EXCEPT ![d.symbol] = d.last] /\ streamed' = streamed
    BY <1>1, <2>1 DEF RouteDelta
  <2>3. ev \in Events /\ ev.kind = "delta"
    BY <2>1 DEF Events
  <2>4. d.last \in Ids /\ d.symbol \in Symbols
    BY VenueAssumption DEF Deltas, Ids
  <2>5. fed' \in [Symbols -> Ids]
    BY <1>0, <2>2, <2>4
  <2> QED BY <1>0, <1>a, <2>2, <2>3, <2>5, RouteKeeps
<1>2. ASSUME NEW sym \in Symbols, NEW id \in Ids, Lose(sym, id) PROVE RInv'
  <2>1. /\ fed' = [fed EXCEPT ![sym] = id]
        /\ UNCHANGED <<in, closed, loop, trk, timing, fetch, wg, stage, caller,
                       streamed, handled>>
    BY <1>2 DEF Lose, shardVars
  <2>2. fed' \in [Symbols -> Ids]
    BY <1>0, <2>1
  <2>3. TypeOK'
    BY <1>0, <2>1, <2>2 DEF TypeOK
  <2>4. StageInv' /\ QueueInv' /\ LoopInv' /\ CountInv' /\ CallerInv'
    BY <1>0, <2>1 DEF StageInv, CloseLeavesNothing, InFlight, QueueInv, LoopInv,
                      CountInv, CallerInv
  <2>5. \A x \in Symbols : BookInv(x)' /\ FlightInv(x)'
    BY <2>1, BooksUnchanged
  <2> QED BY <2>3, <2>4, <2>5 DEF RInv
<1>3. ASSUME NEW s \in Snapshots, RouteSnapshot(s) PROVE RInv'
  <2>1. PICK ev : ev = [kind |-> "snapshot", body |-> s]
    OBVIOUS
  <2>2. /\ Route(ev) /\ streamed < MaxStreamed /\ streamed' = streamed + 1
        /\ fed' = fed
    BY <1>3, <2>1 DEF RouteSnapshot
  <2>3. ev \in Events
    BY <2>1 DEF Events
  <2>4. /\ streamed' \in 0 .. MaxStreamed /\ streamed' >= streamed /\ streamed' > 0
    BY <1>a, <2>2, RouterAssumption
  <2> QED BY <1>0, <2>2, <2>3, <2>4, RouteKeeps
<1>4. ASSUME NEW sym \in Symbols, RouteTrade(sym) PROVE RInv'
  <2>1. PICK ev : ev = [kind |-> "trade", body |-> [symbol |-> sym]]
    OBVIOUS
  <2>2. Route(ev) /\ fed' = fed /\ streamed' = streamed
    BY <1>4, <2>1 DEF RouteTrade, feedVars
  <2>3. ev \in Events /\ ev.kind = "trade"
    BY <2>1 DEF Events
  <2> QED BY <1>0, <1>a, <2>2, <2>3, RouteKeeps
<1> QED BY <1>1, <1>2, <1>3, <1>4 DEF Upstream

\* Router.Close and its wait.
LEMMA CloseKeeps ==
    ASSUME RInv, CloseReturns \/ \E sh \in Shards : CloseInput(sh)
    PROVE  RInv'
<1>0. TypeOK /\ StageInv /\ QueueInv /\ LoopInv /\ CountInv /\ CallerInv
  BY DEF RInv
<1>1. UNCHANGED <<in, loop, trk, timing, fetch, wg, caller, fed, streamed, handled>>
  BY DEF CloseReturns, CloseInput, shardVars, feedVars
<1>2. QueueInv' /\ CountInv' /\ CallerInv'
  BY <1>0, <1>1 DEF QueueInv, CountInv, CallerInv
<1>3. \A sym \in Symbols : BookInv(sym)' /\ FlightInv(sym)'
  BY <1>1, BooksUnchanged
<1>4. /\ stage \in {"open", "closing"} /\ stage' \in {"closing", "returned"}
      /\ closed \subseteq closed' /\ closed' \subseteq Shards
  BY <1>0 DEF CloseReturns, CloseInput, shardVars, TypeOK
<1>5. TypeOK'
  BY <1>0, <1>1, <1>4 DEF TypeOK
<1>6. LoopInv'
  BY <1>0, <1>1, <1>4 DEF LoopInv
<1>7. StageInv'
  <2>1. CASE CloseReturns
    <3>1. wg = 0 /\ stage = "closing" /\ stage' = "returned"
      BY <2>1 DEF CloseReturns
    <3>2. /\ IsFiniteSet(Flights(fetch)) /\ Cardinality(Flights(fetch)) \in Nat
          /\ IsFiniteSet(Running(loop)) /\ Cardinality(Running(loop)) \in Nat
      <4>1. Running(loop) \subseteq Shards
        BY DEF Running
      <4> QED BY <4>1, RouterAssumption, FlightsFinite, FS_Subset, FS_CardinalityType
    <3>3. Cardinality(Flights(fetch)) = 0 /\ Cardinality(Running(loop)) = 0
      BY <1>0, <3>1, <3>2 DEF CountInv
    <3>4. Flights(fetch) = {} /\ Running(loop) = {}
      BY <3>2, <3>3, FS_EmptySet
    <3>5. ASSUME NEW sym \in Symbols PROVE InFlight(sym)' = {}
      <4>1. \A k \in Slots : <<sym, k>> \notin Flights(fetch)
        BY <3>4
      <4> QED BY <1>1, <4>1 DEF InFlight, Flights
    <3>6. ASSUME NEW sh \in Shards PROVE loop'[sh] = Stopped /\ in'[sh] = <<>>
      <4>1. sh \notin Running(loop)
        BY <3>4
      <4>2. loop[sh].pc \in {"new", "select", "replay", "stopped"}
        BY <1>0 DEF TypeOK, Loops
      <4>3. loop[sh].pc = "stopped"
        BY <1>0, <3>1, <4>1, <4>2 DEF Running, LoopInv
      <4> QED BY <1>0, <1>1, <4>3 DEF LoopInv
    <3> QED BY <3>1, <3>5, <3>6 DEF StageInv, CloseLeavesNothing
  <2>2. CASE \E sh \in Shards : CloseInput(sh)
    <3>1. stage' = "closing"
      BY <2>2 DEF CloseInput
    <3> QED BY <3>1 DEF StageInv, CloseLeavesNothing
  <2> QED BY <2>1, <2>2
<1> QED BY <1>2, <1>3, <1>5, <1>6, <1>7 DEF RInv

-----------------------------------------------------------------------------
(***************************************************************************)
(* The fetch goroutines and the callers.                                   *)
(***************************************************************************)
\* A fetch goroutine goes on, or leaves after its shard has stopped.
LEMMA SlotKeeps ==
    ASSUME RInv, NEW sym \in Symbols, NEW k \in Slots, NEW f \in Fetches,
           SetFetch(sym, k, f), fetch[sym][k].pc # "free",
           \/ f.pc # "free" /\ wg' = wg
           \/ f.pc = "free" /\ wg' = wg - 1 /\ loop[ShardOf[sym]] = Stopped,
           f.pc = "deliver" => f.result \in Snapshots \cup {Failed}
    PROVE  RInv'
<1>0. TypeOK /\ StageInv /\ QueueInv /\ LoopInv /\ CountInv /\ CallerInv
  BY DEF RInv
<1>1. /\ fetch' = [fetch EXCEPT ![sym][k] = f]
      /\ UNCHANGED <<in, closed, loop, trk, timing, stage, caller, fed, streamed, handled>>
  BY DEF SetFetch, shardVars, feedVars
<1>2. fetch \in FetchTable /\ wg \in Nat
  BY TypesOfState
<1>3. /\ fetch' \in FetchTable
      /\ f.pc = "free" => Cardinality(Flights(fetch')) = Cardinality(Flights(fetch)) - 1
      /\ f.pc # "free" => Cardinality(Flights(fetch')) = Cardinality(Flights(fetch))
  <2>1. Placed(fetch, fetch', sym, k, f)
    BY <1>1 DEF Placed
  <2> QED BY <1>2, <2>1, FlightsChange
<1>4. /\ fetch'[sym][k] = f
      /\ \A j \in Slots \ {k} : fetch'[sym][j] = fetch[sym][j]
      /\ \A other \in Symbols \ {sym} : fetch'[other] = fetch[other]
  BY <1>1, <1>2 DEF FetchTable
<1>5. CountInv' /\ wg' \in Nat
  <2>1. /\ Cardinality(Flights(fetch)) \in Nat /\ Cardinality(Flights(fetch')) \in Nat
        /\ Cardinality(Running(loop)) \in Nat
    <3>1. Running(loop) \subseteq Shards
      BY DEF Running
    <3> QED BY <3>1, RouterAssumption, FlightsFinite, FS_Subset, FS_CardinalityType
  <2>2. wg = Cardinality(Running(loop)) + Cardinality(Flights(fetch))
    BY <1>0 DEF CountInv
  <2>3. wg' = Cardinality(Running(loop)) + Cardinality(Flights(fetch'))
    BY <1>2, <1>3, <2>1, <2>2
  <2> QED BY <1>1, <2>1, <2>3 DEF CountInv
<1>6. TypeOK'
  BY <1>0, <1>1, <1>3, <1>5 DEF TypeOK, FetchTable
<1>7. QueueInv' /\ LoopInv' /\ CallerInv'
  BY <1>0, <1>1 DEF QueueInv, LoopInv, CallerInv
<1>8. k \in InFlight(sym)
  BY DEF InFlight
<1>9. stage # "returned"
  BY <1>0, <1>8 DEF StageInv, CloseLeavesNothing
<1>10. StageInv'
  BY <1>0, <1>1, <1>9 DEF StageInv, CloseLeavesNothing
<1>11. /\ InFlight(sym)' \subseteq InFlight(sym)
       /\ f.pc # "free" => InFlight(sym)' = InFlight(sym)
  BY <1>4, <1>8 DEF InFlight
<1>12. BookInv(sym)' /\ FlightInv(sym)'
  <2>1. BookInv(sym) /\ FlightInv(sym)
    BY DEF RInv
  <2>2. trk[sym] # None /\ Kept(sym)
    BY <1>8, <2>1 DEF BookInv, Unseen
  <2>3. Replaying(sym)' <=> Replaying(sym)
    BY <1>1 DEF Replaying
  <2>4. loop[ShardOf[sym]] # Stopped => InFlight(sym)' = InFlight(sym)
    BY <1>11
  <2>5. Kept(sym)'
    BY <1>1, <2>2, <2>3, <2>4 DEF Kept
  <2>6. trk'[sym] # None
    BY <1>1, <2>2
  <2>7. FlightInv(sym)'
    BY <1>1, <1>4, <1>11, <2>1 DEF FlightInv
  <2> QED BY <2>5, <2>6, <2>7 DEF BookInv
<1>13. ASSUME NEW other \in Symbols
       PROVE  BookInv(other)' /\ FlightInv(other)'
  <2>1. CASE other = sym
    BY <1>12, <2>1
  <2>2. CASE other # sym
    <3>1. BookInv(other) /\ FlightInv(other)
      BY DEF RInv
    <3>2. fetch'[other] = fetch[other]
      BY <1>4, <2>2
    <3> QED BY <1>1, <3>1, <3>2, OtherBook
  <2> QED BY <2>1, <2>2
<1> QED BY <1>5, <1>6, <1>7, <1>10, <1>13 DEF RInv

\* A step of a fetch goroutine.
LEMMA FetchStepKeeps ==
    ASSUME RInv, NEW sym \in Symbols, NEW k \in Slots, FetchStep(sym, k)
    PROVE  RInv'
<1>1. ASSUME NEW s \in Snapshots, FetchReturns(sym, k, s) PROVE RInv'
  <2>1. PICK f : f = [pc |-> "deliver", result |-> s]
    OBVIOUS
  <2>2. f \in Fetches /\ f.pc = "deliver" /\ f.result = s
    BY <2>1 DEF Fetches
  <2>3. SetFetch(sym, k, f) /\ fetch[sym][k].pc = "request" /\ wg' = wg
    BY <1>1, <2>1 DEF FetchReturns
  <2> QED BY <2>2, <2>3, SlotKeeps
<1>2. ASSUME FetchFails(sym, k) PROVE RInv'
  <2>1. PICK f : f = [pc |-> "retry", result |-> None]
    OBVIOUS
  <2>2. f \in Fetches /\ f.pc = "retry"
    BY <2>1 DEF Fetches
  <2>3. SetFetch(sym, k, f) /\ fetch[sym][k].pc = "request" /\ wg' = wg
    BY <1>2, <2>1 DEF FetchFails
  <2> QED BY <2>2, <2>3, SlotKeeps
<1>3. ASSUME RetryOver(sym, k) PROVE RInv'
  <2>1. PICK f : f = [pc |-> "deliver", result |-> Failed]
    OBVIOUS
  <2>2. f \in Fetches /\ f.pc = "deliver" /\ f.result = Failed
    BY <2>1 DEF Fetches
  <2>3. SetFetch(sym, k, f) /\ fetch[sym][k].pc = "retry" /\ wg' = wg
    BY <1>3, <2>1 DEF RetryOver
  <2> QED BY <2>2, <2>3, SlotKeeps
<1>4. ASSUME FetchAbandons(sym, k) PROVE RInv'
  <2>1. NoFetch \in Fetches /\ NoFetch.pc = "free"
    BY DEF NoFetch, Fetches
  <2>2. /\ SetFetch(sym, k, NoFetch) /\ fetch[sym][k].pc = "deliver"
        /\ wg' = wg - 1 /\ loop[ShardOf[sym]] = Stopped
    BY <1>4 DEF FetchAbandons
  <2> QED BY <2>1, <2>2, SlotKeeps
<1> QED BY <1>1, <1>2, <1>3, <1>4 DEF FetchStep

\* shard.answer and checkOne: a difference at the book's own id is reported of
\* a malformed snapshot only.
LEMMA AnswersDivergeOnMalformed ==
    ASSUME RInv, NEW q \in Questions, q.check # None => q.check.symbol = q.symbol,
           NEW o \in Answers(q)
    PROVE  o \in Outcomes /\ (o = "diverged" => ~q.check.valid)
<1>1. PICK sym \in Symbols : sym = q.symbol
  BY DEF Questions
<1>2. PICK t : t = trk[sym]
  OBVIOUS
<1>3. CASE t = None
  <2>1. o = "unknown"
    BY <1>1, <1>2, <1>3 DEF Answers
  <2> QED BY <2>1 DEF Outcomes
<1>4. CASE t # None /\ q.check = None
  <2>1. o = "view"
    BY <1>1, <1>2, <1>4 DEF Answers
  <2> QED BY <2>1 DEF Outcomes
<1>5. CASE t # None /\ q.check # None
  <2>1. PICK s \in Snapshots : s = q.check /\ s.symbol = sym
    BY <1>1, <1>5 DEF Questions
  <2>2. Sound(t) /\ t.symbol = sym
    BY <1>2, <1>5 DEF RInv, BookInv, Kept
  <2>3. Live(t) /\ s.last = t.seq.last => Agrees(t.book, t.bounds, s)
    BY <2>1, <2>2, AgreesAtOwnId
  <2>4. o \in Verdicts(t, s)
    BY <1>1, <1>2, <1>5, <2>1 DEF Answers
  <2>5. /\ o \in {"refused", "not live", "ok", "skewed", "diverged"}
        /\ o = "diverged" => ~s.valid
    BY <2>3, <2>4 DEF Verdicts
  <2> QED BY <2>1, <2>5 DEF Outcomes
<1> QED BY <1>3, <1>4, <1>5

\* A step of a caller changes that caller alone, and a caller is told of a
\* divergence from a malformed snapshot only.
LEMMA CallerKeeps ==
    ASSUME RInv, NEW c \in Callers, NEW r, SetCaller(c, r),
           r \in [pc: {"idle", "asking", "answered"},
                  q: Questions \cup {None}, outcome: Outcomes],
           r.outcome = "diverged" => ~r.q.check.valid,
           r.pc = "asking" =>
              /\ r.q \in Questions
              /\ r.q.check # None => r.q.check.symbol = r.q.symbol
    PROVE  RInv'
<1>0. TypeOK /\ StageInv /\ QueueInv /\ LoopInv /\ CountInv /\ CallerInv
  BY DEF RInv
<1>1. /\ caller' = [caller EXCEPT ![c] = r]
      /\ UNCHANGED <<in, closed, loop, trk, timing, fetch, wg, stage, fed, streamed, handled>>
  BY DEF SetCaller, shardVars, feedVars
<1>2. /\ caller' \in [Callers -> [pc: {"idle", "asking", "answered"},
                                 q: Questions \cup {None}, outcome: Outcomes]]
      /\ caller'[c] = r /\ \A x \in Callers \ {c} : caller'[x] = caller[x]
  BY <1>0, <1>1 DEF TypeOK
<1>3. TypeOK'
  BY <1>0, <1>1, <1>2 DEF TypeOK
<1>4. CallerInv'
  BY <1>0, <1>2 DEF CallerInv
<1>5. StageInv' /\ QueueInv' /\ LoopInv' /\ CountInv'
  BY <1>0, <1>1 DEF StageInv, CloseLeavesNothing, InFlight, QueueInv, LoopInv, CountInv
<1>6. \A sym \in Symbols : BookInv(sym)' /\ FlightInv(sym)'
  BY <1>1, BooksUnchanged
<1> QED BY <1>3, <1>4, <1>5, <1>6 DEF RInv

\* A query or a check: asked, answered, returned or given up.
LEMMA CallerStepKeeps ==
    ASSUME RInv, NEW c \in Callers, CallerStep(c)
    PROVE  RInv'
<1>1. ASSUME NEW q \in Questions, Ask(c, q) PROVE RInv'
  <2>1. PICK r : r = [pc |-> "asking", q |-> q, outcome |-> None]
    OBVIOUS
  <2>2. SetCaller(c, r) /\ (q.check # None => q.check.symbol = q.symbol)
    BY <1>1, <2>1 DEF Ask
  <2>3. /\ r \in [pc: {"idle", "asking", "answered"},
                  q: Questions \cup {None}, outcome: Outcomes]
        /\ r.outcome = None /\ r.q = q
    BY <2>1 DEF Outcomes
  <2> QED BY <2>2, <2>3, CallerKeeps, RouterAssumption
<1>2. ASSUME Answer(c) PROVE RInv'
  <2>1. PICK o \in Answers(caller[c].q) :
            SetCaller(c, [caller[c] EXCEPT !.pc = "answered", !.outcome = o])
    BY <1>2 DEF Answer
  <2>2. PICK r : r = [caller[c] EXCEPT !.pc = "answered", !.outcome = o]
    OBVIOUS
  <2>3. SetCaller(c, r) /\ caller[c].pc = "asking"
    BY <1>2, <2>1, <2>2 DEF Answer
  <2>4. o \in Outcomes /\ (o = "diverged" => ~caller[c].q.check.valid)
    <3>1. CallerInv
      BY DEF RInv
    <3>2. PICK q \in Questions : /\ q = caller[c].q
                                 /\ q.check # None => q.check.symbol = q.symbol
      BY <2>3, <3>1 DEF CallerInv
    <3>3. o \in Answers(q)
      BY <2>1, <3>2
    <3> QED BY <3>2, <3>3, AnswersDivergeOnMalformed
  <2>5. caller[c] \in [pc: {"idle", "asking", "answered"},
                       q: Questions \cup {None}, outcome: Outcomes]
    BY DEF RInv, TypeOK
  <2>6. /\ r \in [pc: {"idle", "asking", "answered"},
                  q: Questions \cup {None}, outcome: Outcomes]
        /\ r.outcome = o /\ r.q = caller[c].q /\ r.pc = "answered"
    BY <2>2, <2>4, <2>5
  <2> QED BY <2>3, <2>4, <2>6, CallerKeeps
<1>3. ASSUME AskReturns(c) \/ GiveUp(c) PROVE RInv'
  <2>1. PICK r : r = [pc |-> "idle", q |-> None, outcome |-> None]
    OBVIOUS
  <2>2. SetCaller(c, r)
    BY <1>3, <2>1 DEF AskReturns, GiveUp
  <2>3. /\ r \in [pc: {"idle", "asking", "answered"},
                  q: Questions \cup {None}, outcome: Outcomes]
        /\ r.outcome = None /\ r.pc = "idle"
    BY <2>1 DEF Outcomes
  <2> QED BY <2>2, <2>3, CallerKeeps, RouterAssumption
<1> QED BY <1>1, <1>2, <1>3 DEF CallerStep

-----------------------------------------------------------------------------
\* Every step keeps the invariant.
LEMMA NextRInv == RInv /\ [Next]_vars => RInv'
<1> SUFFICES ASSUME RInv, [Next]_vars PROVE RInv'
  OBVIOUS
<1>1. ASSUME UNCHANGED vars PROVE RInv'
  <2>1. UNCHANGED <<in, closed, loop, trk, timing, fetch, wg, stage, caller, fed,
                    streamed, handled>>
    BY <1>1 DEF vars
  <2>2. TypeOK /\ StageInv /\ QueueInv /\ LoopInv /\ CountInv /\ CallerInv
    BY DEF RInv
  <2>3. TypeOK'
    BY <2>1, <2>2 DEF TypeOK
  <2>4. StageInv' /\ QueueInv' /\ LoopInv' /\ CountInv' /\ CallerInv'
    BY <2>1, <2>2 DEF StageInv, CloseLeavesNothing, InFlight, QueueInv, LoopInv,
                      CountInv, CallerInv
  <2>5. \A sym \in Symbols : BookInv(sym)' /\ FlightInv(sym)'
    BY <2>1, BooksUnchanged
  <2> QED BY <2>3, <2>4, <2>5 DEF RInv
<1>2. CASE Start
  BY <1>2, StartKeeps
<1>3. CASE Upstream
  BY <1>3, UpstreamKeeps
<1>4. ASSUME NEW sh \in Shards, CloseInput(sh) \/ ShardStep(sh) PROVE RInv'
  BY <1>4, CloseKeeps, HandleDeltaKeeps, HandleSnapshotKeeps, HandleTradeKeeps,
     ReplayStepKeeps, StopKeeps DEF ShardStep
<1>5. CASE CloseReturns
  BY <1>5, CloseKeeps
<1>6. ASSUME NEW sym \in Symbols, NEW k \in Slots, FetchStep(sym, k) \/ Complete(sym, k)
      PROVE  RInv'
  BY <1>6, FetchStepKeeps, CompleteKeeps
<1>7. ASSUME NEW c \in Callers, CallerStep(c) PROVE RInv'
  BY <1>7, CallerStepKeeps
<1> QED BY <1>1, <1>2, <1>3, <1>4, <1>5, <1>6, <1>7 DEF Next

\* The invariant holds in every reachable state.
LEMMA SpecRInv == Spec => []RInv
  BY InitRInv, NextRInv, PTL DEF Spec

-----------------------------------------------------------------------------
\* The state of the router is always of its type: no queue of a shard grows
\* past its capacity, and the wait group never goes below zero.
THEOREM TypeCorrect == Spec => []TypeOK
<1>1. RInv => TypeOK
  BY DEF RInv
<1> QED BY <1>1, SpecRInv, PTL

\* Whichever snapshots, deltas and results raced in the shards, a live book
\* is the venue's book of its own symbol.
THEOREM LiveBooksAreVenueBooksCorrect == Spec => []LiveBooksAreVenueBooks
<1>1. RInv => LiveBooksAreVenueBooks
  <2> SUFFICES ASSUME RInv, NEW sym \in Symbols, trk[sym] # None, Live(trk[sym])
               PROVE  Accurate(trk[sym]) /\ NoPhantom(trk[sym])
    BY DEF LiveBooksAreVenueBooks, Tracked
  <2>1. Sound(trk[sym])
    BY DEF RInv, BookInv, Kept
  <2> QED BY <2>1 DEF Sound
<1> QED BY <1>1, SpecRInv, PTL

\* No late result takes a live book back behind a delta its shard has handled.
THEOREM LiveBooksAreCurrentCorrect == Spec => []LiveBooksAreCurrent
<1>1. RInv => LiveBooksAreCurrent
  <2> SUFFICES ASSUME RInv, NEW sym \in Symbols, trk[sym] # None, Live(trk[sym]),
                      Settled(sym)
               PROVE  trk[sym].seq.last >= handled[sym]
    BY DEF LiveBooksAreCurrent, Tracked
  <2>1. Kept(sym) /\ ~Replaying(sym)
    BY DEF RInv, BookInv, Settled, Replaying
  <2> QED BY <2>1 DEF Kept
<1> QED BY <1>1, SpecRInv, PTL

\* A book that is not live has a request in flight that comes back to its
\* shard; without streamed snapshots a symbol has one request, and only while
\* its book is not live.
THEOREM FetchesFollowTheBookCorrect == Spec => []FetchesFollowTheBook
<1>1. RInv => FetchesFollowTheBook
  <2> SUFFICES ASSUME RInv PROVE FetchesFollowTheBook
    OBVIOUS
  <2>1. ASSUME NEW sym \in Symbols, trk[sym] # None, Settled(sym), ~Live(trk[sym])
        PROVE  trk[sym].fetching /\ (stage = "open" => InFlight(sym) # {})
    <3>1. Kept(sym)
      BY <2>1 DEF RInv, BookInv
    <3>2. ASSUME stage = "open" PROVE loop[ShardOf[sym]] # Stopped
      <4>1. closed = {} /\ ShardOf[sym] \in Shards
        BY <3>2, RouterAssumption DEF RInv, StageInv
      <4> QED BY <4>1 DEF RInv, LoopInv, Stopped
    <3> QED BY <2>1, <3>1, <3>2 DEF Kept
  <2>2. ASSUME streamed = 0, NEW sym \in Symbols
        PROVE  Cardinality(InFlight(sym)) <= 1
    <3>1. \A j, k \in InFlight(sym) : j = k
      BY <2>2 DEF RInv, FlightInv
    <3>2. CASE InFlight(sym) = {}
      BY <3>2, FS_EmptySet
    <3>3. CASE InFlight(sym) # {}
      <4>1. PICK j : InFlight(sym) = {j}
        BY <3>1, <3>3
      <4>2. Cardinality({j}) = 1
        BY FS_Singleton
      <4> QED BY <4>1, <4>2
    <3> QED BY <3>2, <3>3
  <2>3. ASSUME streamed = 0, NEW sym \in Symbols, trk[sym] # None, Live(trk[sym])
        PROVE  InFlight(sym) = {}
    <3>1. Kept(sym) /\ FlightInv(sym)
      BY <2>3 DEF RInv, BookInv
    <3> QED BY <2>3, <3>1 DEF Kept, FlightInv
  <2> QED BY <2>1, <2>2, <2>3 DEF FetchesFollowTheBook, StaleBookIsBeingFetched,
                OneFetchPerSymbol, LiveBookHasNoFetch, Tracked
<1> QED BY <1>1, SpecRInv, PTL

\* A resync is timed exactly while a book is not live.
THEOREM TimedWhileStaleCorrect == Spec => []TimedWhileStale
<1>1. RInv => TimedWhileStale
  <2> SUFFICES ASSUME RInv, NEW sym \in Symbols, Settled(sym)
               PROVE  sym \in timing <=> trk[sym] # None /\ ~Live(trk[sym])
    BY DEF TimedWhileStale, Tracked
  <2>1. ~Replaying(sym) /\ BookInv(sym)
    BY DEF RInv, Settled, Replaying
  <2>2. CASE trk[sym] = None
    BY <2>1, <2>2 DEF BookInv, Unseen
  <2>3. CASE trk[sym] # None
    <3>1. Kept(sym)
      BY <2>1, <2>3 DEF BookInv
    <3> QED BY <2>1, <2>3, <3>1 DEF Kept
  <2> QED BY <2>2, <2>3
<1> QED BY <1>1, SpecRInv, PTL

\* A check that finds a live book different from a snapshot taken at its own id
\* has been given a malformed snapshot.
THEOREM NoCheckDivergesCorrect == Spec => []NoCheckDiverges
<1>1. RInv => NoCheckDiverges
  BY DEF RInv, CallerInv, NoCheckDiverges
<1> QED BY <1>1, SpecRInv, PTL

\* Close returns only when every shard has drained and every fetch has gone.
THEOREM CloseLeavesNothingCorrect == Spec => []CloseLeavesNothing
<1>1. RInv => CloseLeavesNothing
  BY DEF RInv, StageInv
<1> QED BY <1>1, SpecRInv, PTL

-----------------------------------------------------------------------------
(***************************************************************************)
(* The book of one symbol behind its shard: module RouterServes.           *)
(***************************************************************************)
Mine(ev) == ev.kind = "delta" /\ ev.body.symbol = Watched

\* The deltas of the symbol in a queue come in the order of their ids, between
\* what the shard has handled and what the stream has delivered.
InOrder(q, lo, hi) ==
    /\ lo <= hi
    /\ \A i \in 1 .. Len(q) : Mine(q[i]) => lo <= q[i].body.last /\ q[i].body.last <= hi
    /\ \A i, j \in 1 .. Len(q) :
          i < j /\ Mine(q[i]) /\ Mine(q[j]) => q[i].body.last <= q[j].body.last

OrderInv == InOrder(in[ShardOf[Watched]], handled[Watched], fed[Watched])

\* The book cannot be served at a position behind p: it is at or past p, or it
\* holds a delta that is and that stops every replay from an older snapshot.
Past(p) ==
    LET t  == trk[Watched]
        lp == loop[ShardOf[Watched]]
    IN  /\ t = None => p = 0
        /\ t # None =>
              /\ t.buf # <<>> => handled[Watched] >= p
              /\ ~Live(t) /\ t.buf = <<>> => p = 0
              /\ Live(t) /\ (Replaying(Watched) => lp.at > Len(t.buf)) => t.seq.last >= p

WInv == RInv /\ OrderInv /\ peak \in Ids /\ Past(peak)

\* An event of the symbol carries a delta.
LEMMA MineIs ==
    ASSUME NEW ev \in Events, Mine(ev)
    PROVE  ev.body \in Deltas /\ ev.body.last \in Int /\ ev.body.last \in Ids
<1>1. ev.body \in Deltas
  BY DEF Events, Mine
<1> QED BY <1>1, VenueAssumption DEF Deltas, Ids

\* Router.Route: a delta that is newer goes behind the others.
LEMMA InOrderAppend ==
    ASSUME NEW q \in Seq(Events), NEW ev \in Events, NEW lo \in Int, NEW hi \in Int,
           NEW to \in Int, InOrder(q, lo, hi), hi <= to,
           Mine(ev) => hi <= ev.body.last /\ ev.body.last <= to
    PROVE  InOrder(Append(q, ev), lo, to)
<1> DEFINE r == Append(q, ev)
<1>1. /\ Len(r) = Len(q) + 1 /\ Len(q) \in Nat
      /\ \A i \in 1 .. Len(r) : r[i] = IF i <= Len(q) THEN q[i] ELSE ev
  OBVIOUS
<1>2. \A i \in 1 .. Len(q) : q[i] \in Events
  OBVIOUS
<1>3. \A i \in 1 .. Len(r) :
        /\ r[i] \in Events
        /\ i \in 1 .. Len(q) => r[i] = q[i]
        /\ i \notin 1 .. Len(q) => r[i] = ev /\ i = Len(q) + 1
  BY <1>1, <1>2
<1> HIDE DEF r
<1>4. lo <= to
  BY DEF InOrder
<1>5. ASSUME NEW i \in 1 .. Len(r), Mine(r[i])
      PROVE  lo <= r[i].body.last /\ r[i].body.last <= to
  <2>1. r[i].body.last \in Int
    BY <1>3, <1>5, MineIs
  <2>2. CASE i \in 1 .. Len(q)
    BY <1>3, <1>5, <2>1, <2>2 DEF InOrder
  <2>3. CASE i \notin 1 .. Len(q)
    BY <1>3, <1>5, <2>1, <2>3 DEF InOrder
  <2> QED BY <2>2, <2>3
<1>6. ASSUME NEW i \in 1 .. Len(r), NEW j \in 1 .. Len(r), i < j, Mine(r[i]), Mine(r[j])
      PROVE  r[i].body.last <= r[j].body.last
  <2>1. i \in 1 .. Len(q)
    BY <1>1, <1>6
  <2>2. CASE j \in 1 .. Len(q)
    BY <1>3, <1>6, <2>1, <2>2 DEF InOrder
  <2>3. CASE j \notin 1 .. Len(q)
    <3>1. /\ Mine(q[i]) /\ q[i] = r[i] /\ r[j] = ev /\ Mine(ev)
      BY <1>3, <1>6, <2>1, <2>3
    <3>2. r[i].body.last <= hi /\ hi <= r[j].body.last
      BY <2>1, <3>1 DEF InOrder
    <3>3. r[i].body.last \in Int /\ r[j].body.last \in Int
      BY <1>3, <1>6, MineIs
    <3> QED BY <3>2, <3>3
  <2> QED BY <2>2, <2>3
<1>7. InOrder(r, lo, to)
  BY <1>4, <1>5, <1>6 DEF InOrder
<1> QED BY <1>7 DEF r

\* A shard's receive: what is left of the queue is not older than its head.
LEMMA InOrderTail ==
    ASSUME NEW q \in Seq(Events), q # <<>>, NEW lo, NEW hi, InOrder(q, lo, hi),
           NEW next, next = IF Mine(Head(q)) THEN Head(q).body.last ELSE lo
    PROVE  InOrder(Tail(q), next, hi) /\ (Mine(Head(q)) => lo <= next)
<1> DEFINE r == Tail(q)
<1>1. /\ Len(r) = Len(q) - 1 /\ Len(q) \in Nat \ {0} /\ Head(q) = q[1]
      /\ \A i \in 1 .. Len(r) : r[i] = q[i + 1] /\ i + 1 \in 1 .. Len(q)
  OBVIOUS
<1> HIDE DEF r
<1>2. 1 \in 1 .. Len(q)
  BY <1>1
<1>3. next <= hi /\ (Mine(Head(q)) => lo <= next)
  BY <1>1, <1>2 DEF InOrder
<1>4. ASSUME NEW i \in 1 .. Len(r), Mine(r[i])
      PROVE  next <= r[i].body.last /\ r[i].body.last <= hi
  <2>1. r[i] = q[i + 1] /\ i + 1 \in 1 .. Len(q) /\ 1 < i + 1
    BY <1>1
  <2> QED BY <1>1, <1>2, <1>4, <2>1 DEF InOrder
<1>5. ASSUME NEW i \in 1 .. Len(r), NEW j \in 1 .. Len(r), i < j, Mine(r[i]), Mine(r[j])
      PROVE  r[i].body.last <= r[j].body.last
  <2>1. /\ r[i] = q[i + 1] /\ i + 1 \in 1 .. Len(q)
        /\ r[j] = q[j + 1] /\ j + 1 \in 1 .. Len(q) /\ i + 1 < j + 1
    BY <1>1, <1>5
  <2> QED BY <1>5, <2>1 DEF InOrder
<1>6. InOrder(r, next, hi)
  BY <1>3, <1>4, <1>5 DEF InOrder
<1> QED BY <1>3, <1>6 DEF r

-----------------------------------------------------------------------------
\* Router.Route and a shard's receive keep the deltas of a symbol in order.
LEMMA OrderKeeps ==
    ASSUME RInv, OrderInv, [Next]_vars
    PROVE  OrderInv' /\ handled'[Watched] >= handled[Watched]
<1> DEFINE home == ShardOf[Watched]
<1>1. /\ in \in [Shards -> Seq(Events)] /\ handled \in [Symbols -> Ids]
      /\ fed \in [Symbols -> Ids] /\ home \in Shards /\ Watched \in Symbols
      /\ handled[Watched] \in Int /\ fed[Watched] \in Int /\ in[home] \in Seq(Events)
  BY TypesOfState, WatchedAssumption, RouterAssumption, VenueAssumption DEF Ids
<1> HIDE DEF home
<1>2. InOrder(in[home], handled[Watched], fed[Watched])
  BY DEF OrderInv, home
<1>3. SUFFICES /\ InOrder(in'[home], handled'[Watched], fed'[Watched])
               /\ handled'[Watched] >= handled[Watched]
  BY DEF OrderInv, home
<1>4. CASE UNCHANGED <<in, handled, fed>>
  BY <1>1, <1>2, <1>4
<1>5. ASSUME NEW ev \in Events, Route(ev), NEW to \in Int, fed'[Watched] = to,
             fed[Watched] <= to,
             Mine(ev) => fed[Watched] <= ev.body.last /\ ev.body.last <= to
      PROVE  /\ InOrder(in'[home], handled'[Watched], fed'[Watched])
             /\ handled'[Watched] >= handled[Watched]
  <2>1. /\ in' = [in EXCEPT ![ShardOf[ev.body.symbol]] = Append(@, ev)]
        /\ handled' = handled
    BY <1>5 DEF Route
  <2>2. CASE ShardOf[ev.body.symbol] = home
    <3>1. in'[home] = Append(in[home], ev)
      BY <1>1, <2>1, <2>2
    <3>2. InOrder(Append(in[home], ev), handled[Watched], to)
      BY <1>1, <1>2, <1>5, InOrderAppend
    <3> QED BY <1>1, <1>5, <2>1, <3>1, <3>2
  <2>3. CASE ShardOf[ev.body.symbol] # home
    <3>1. in'[home] = in[home]
      BY <1>1, <2>1, <2>3
    <3>2. ~Mine(ev)
      BY <2>3 DEF Mine, home
    <3>3. InOrder(in[home], handled[Watched], to)
      <4>1. ASSUME NEW i \in 1 .. Len(in[home]), Mine(in[home][i])
            PROVE  in[home][i].body.last <= to
        <5>1. in[home][i] \in Events
          BY <1>1
        <5>2. in[home][i].body.last \in Int /\ in[home][i].body.last <= fed[Watched]
          BY <1>2, <4>1, <5>1, MineIs DEF InOrder
        <5> QED BY <1>1, <1>5, <5>2
      <4> QED BY <1>1, <1>2, <1>5, <4>1 DEF InOrder
    <3> QED BY <1>1, <1>5, <2>1, <3>1, <3>3
  <2> QED BY <2>2, <2>3
<1>6. ASSUME NEW d \in Deltas, RouteDelta(d)
      PROVE  /\ InOrder(in'[home], handled'[Watched], fed'[Watched])
             /\ handled'[Watched] >= handled[Watched]
  <2>1. PICK ev : ev = [kind |-> "delta", body |-> d]
    OBVIOUS
  <2>2. /\ Route(ev) /\ ev \in Events /\ ev.body = d
        /\ d.first = fed[d.symbol] + 1 /\ d.first <= d.last
        /\ fed' = [fed EXCEPT ![d.symbol] = d.last]
    BY <1>6, <2>1 DEF RouteDelta, Events
  <2>3. d.first \in Int /\ d.last \in Int /\ d.symbol \in Symbols
    BY VenueAssumption DEF Deltas, Ids
  <2>4. fed'[Watched] \in Int /\ fed[Watched] <= fed'[Watched]
    BY <1>1, <2>2, <2>3
  <2>5. Mine(ev) => fed[Watched] <= ev.body.last /\ ev.body.last <= fed'[Watched]
    BY <1>1, <2>2, <2>3 DEF Mine
  <2>6. PICK to \in Int : to = fed'[Watched]
    BY <2>4
  <2> QED BY <1>5, <2>2, <2>4, <2>5, <2>6
<1>7. ASSUME NEW ev \in Events, Route(ev), ev.kind # "delta", fed' = fed
      PROVE  /\ InOrder(in'[home], handled'[Watched], fed'[Watched])
             /\ handled'[Watched] >= handled[Watched]
  <2>1. ~Mine(ev) /\ fed'[Watched] = fed[Watched] /\ fed[Watched] <= fed[Watched]
    BY <1>1, <1>7 DEF Mine
  <2> QED BY <1>1, <1>5, <1>7, <2>1
<1>8. ASSUME NEW sym \in Symbols, NEW id \in Ids, Lose(sym, id)
      PROVE  /\ InOrder(in'[home], handled'[Watched], fed'[Watched])
             /\ handled'[Watched] >= handled[Watched]
  <2>1. /\ in' = in /\ handled' = handled /\ fed[sym] < id
        /\ fed' = [fed EXCEPT ![sym] = id]
    BY <1>8 DEF Lose, shardVars
  <2>2. id \in Int
    BY VenueAssumption DEF Ids
  <2>3. fed'[Watched] \in Int /\ fed[Watched] <= fed'[Watched]
    BY <1>1, <2>1, <2>2
  <2>4. ASSUME NEW i \in 1 .. Len(in[home]), Mine(in[home][i])
        PROVE  in[home][i].body.last <= fed'[Watched]
    <3>1. in[home][i] \in Events
      BY <1>1
    <3>2. in[home][i].body.last \in Int /\ in[home][i].body.last <= fed[Watched]
      BY <1>2, <2>4, <3>1, MineIs DEF InOrder
    <3> QED BY <1>1, <2>3, <3>2
  <2>5. handled[Watched] <= fed'[Watched]
    BY <1>1, <1>2, <2>3 DEF InOrder
  <2>6. InOrder(in[home], handled[Watched], fed'[Watched])
    BY <1>2, <2>4, <2>5 DEF InOrder
  <2> QED BY <1>1, <2>1, <2>6
<1>9. ASSUME NEW sh \in Shards, NEW kind, Receive(sh, kind),
             handled' = IF kind = "delta"
                        THEN [handled EXCEPT ![Head(in[sh]).body.symbol] = Head(in[sh]).body.last]
                        ELSE handled
      PROVE  /\ InOrder(in'[home], handled'[Watched], fed'[Watched])
             /\ handled'[Watched] >= handled[Watched]
  <2>1. /\ in[sh] # <<>> /\ Head(in[sh]).kind = kind
        /\ in' = [in EXCEPT ![sh] = Tail(@)] /\ fed' = fed
    BY <1>9 DEF Receive, feedVars
  <2>2. Head(in[sh]) \in Events /\ ShardOf[Head(in[sh]).body.symbol] = sh
    BY <2>1, HeadOfQueue
  <2>3. CASE Mine(Head(in[sh]))
    <3>1. /\ sh = home /\ handled'[Watched] = Head(in[sh]).body.last
          /\ handled'[Watched] \in Int
      BY <1>1, <1>9, <2>1, <2>2, <2>3, MineIs DEF Mine, home
    <3>2. PICK next : next = handled'[Watched]
      OBVIOUS
    <3>3. InOrder(Tail(in[home]), next, fed[Watched]) /\ handled[Watched] <= next
      BY <1>1, <1>2, <2>1, <2>3, <3>1, <3>2, InOrderTail
    <3> QED BY <1>1, <2>1, <3>1, <3>2, <3>3
  <2>4. CASE ~Mine(Head(in[sh]))
    <3>1. handled'[Watched] = handled[Watched]
      BY <1>1, <1>9, <2>1, <2>4 DEF Mine
    <3>2. CASE sh = home
      <4>1. InOrder(Tail(in[home]), handled[Watched], fed[Watched])
        BY <1>1, <1>2, <2>1, <2>4, <3>2, InOrderTail
      <4> QED BY <1>1, <2>1, <3>1, <3>2, <4>1
    <3>3. CASE sh # home
      BY <1>1, <1>2, <2>1, <3>1, <3>3
    <3> QED BY <3>2, <3>3
  <2> QED BY <2>3, <2>4
<1>10. CASE UNCHANGED vars
  BY <1>4, <1>10 DEF vars
<1>11. CASE Upstream
  <2>1. ASSUME NEW s \in Snapshots, RouteSnapshot(s)
        PROVE  UNCHANGED fed /\ \E ev \in Events : Route(ev) /\ ev.kind # "delta"
    BY <2>1 DEF RouteSnapshot, Events
  <2>2. ASSUME NEW sym \in Symbols, RouteTrade(sym)
        PROVE  UNCHANGED fed /\ \E ev \in Events : Route(ev) /\ ev.kind # "delta"
    BY <2>2 DEF RouteTrade, Events, feedVars
  <2> QED BY <1>6, <1>7, <1>8, <1>11, <2>1, <2>2 DEF Upstream
<1>12. ASSUME NEW sh \in Shards, HandleDelta(sh) \/ HandleSnapshot(sh) \/ HandleTrade(sh)
       PROVE  /\ InOrder(in'[home], handled'[Watched], fed'[Watched])
              /\ handled'[Watched] >= handled[Watched]
  <2>1. CASE HandleDelta(sh)
    BY <1>9, <2>1 DEF HandleDelta
  <2>2. CASE HandleSnapshot(sh)
    BY <1>9, <2>2 DEF HandleSnapshot
  <2>3. CASE HandleTrade(sh)
    BY <1>9, <2>3 DEF HandleTrade
  <2> QED BY <1>12, <2>1, <2>2, <2>3
<1>13. ASSUME NEW sh \in Shards, CloseInput(sh) \/ ReplayStep(sh) \/ Stop(sh)
       PROVE  UNCHANGED <<in, handled, fed>>
  BY <1>13 DEF CloseInput, ReplayStep, Stop, feedVars
<1>14. CASE Start \/ CloseReturns
  BY <1>4, <1>14 DEF Start, CloseReturns, shardVars, feedVars
<1>15. ASSUME NEW sym \in Symbols, NEW k \in Slots, FetchStep(sym, k) \/ Complete(sym, k)
       PROVE  UNCHANGED <<in, handled, fed>>
  BY <1>15 DEF FetchStep, FetchReturns, FetchFails, RetryOver, FetchAbandons, SetFetch,
               Complete, shardVars, feedVars
<1>16. ASSUME NEW c \in Callers, CallerStep(c) PROVE UNCHANGED <<in, handled, fed>>
  BY <1>16 DEF CallerStep, Ask, Answer, AskReturns, GiveUp, SetCaller, shardVars, feedVars
<1> QED BY <1>4, <1>10, <1>11, <1>12, <1>13, <1>14, <1>15, <1>16 DEF Next, ShardStep

-----------------------------------------------------------------------------
\* A step that leaves the book alone leaves it past p.
LEMMA PastUnchanged ==
    ASSUME NEW p, Past(p),
           trk'[Watched] = trk[Watched], handled'[Watched] = handled[Watched],
           Replaying(Watched)' <=> Replaying(Watched),
           Replaying(Watched) =>
              loop'[ShardOf[Watched]].at = loop[ShardOf[Watched]].at
    PROVE  Past(p)'
<1>1. Live(trk[Watched])' <=> Live(trk[Watched])
  BY DEF Live
<1> QED BY <1>1 DEF Past

\* A handler ends with the tracker t, asked for or not.
LEMMA PastAfterHandler ==
    ASSUME NEW p, NEW t, Sound(t), ~Replaying(Watched)',
           trk'[Watched] = t \/ trk'[Watched] = Fetching(t, TRUE),
           Live(t) => t.seq.last >= p,
           t.buf # <<>> => handled'[Watched] >= p,
           ~Live(t) /\ t.buf = <<>> => p = 0
    PROVE  Past(p)'
<1>1. PICK u : u = trk'[Watched]
  OBVIOUS
<1>2. Sound(u) /\ u.seq = t.seq /\ u.buf = t.buf /\ u # None
  BY <1>1, FetchingSound, SoundIsSome
<1> QED BY <1>1, <1>2 DEF Past, Live

\* shard.handle, of a delta.
LEMMA HandleDeltaPast ==
    ASSUME RInv, OrderInv, NEW p \in Ids, Past(p), NEW sh \in Shards, HandleDelta(sh)
    PROVE  Past(p)'
<1>1. /\ loop[sh] = Selecting /\ in[sh] # <<>> /\ Head(in[sh]).kind = "delta"
      /\ loop' = loop
  BY DEF HandleDelta, Receive
<1>2. PICK d : d = Head(in[sh]).body
  OBVIOUS
<1>3. d \in Deltas /\ ShardOf[d.symbol] = sh
  BY <1>1, <1>2, HeadOfQueue DEF Events
<1>4. PICK sym \in Symbols : sym = d.symbol /\ ShardOf[sym] = sh
  BY <1>3 DEF Deltas
<1>5. PICK t : t = IF trk[sym] = None THEN NewTracker(sym) ELSE trk[sym]
  OBVIOUS
<1>6. PICK u : u = ApplyTo(t, d)
  OBVIOUS
<1>7. /\ FetchIfWanted(u, fetch, wg, timing)
      /\ handled' = [handled EXCEPT ![sym] = d.last]
  BY <1>2, <1>4, <1>5, <1>6 DEF HandleDelta
<1>8. /\ trk \in [Symbols -> Trackers \cup {None}] /\ handled \in [Symbols -> Ids]
      /\ fetch \in FetchTable /\ timing \in SUBSET Symbols /\ wg \in Nat /\ wg \in Int
      /\ in \in [Shards -> Seq(Events)]
  BY TypesOfState
<1>9. /\ Sound(t) /\ t.symbol = sym
      /\ Live(t) => t.buf = <<>> /\ ~t.fetching
      /\ trk[sym] # None => t = trk[sym]
      /\ trk[sym] = None => ~Live(t) /\ t.buf = <<>>
  <2>1. CASE trk[sym] = None
    BY <1>5, <2>1, NewTrackerSound
  <2>2. CASE trk[sym] # None
    <3>1. t = trk[sym]
      BY <1>5, <2>2
    <3> QED BY <1>1, <1>4, <2>2, <3>1, KeptAtSelect
  <2> QED BY <2>1, <2>2
<1>10. /\ Sound(u) /\ u.symbol = sym
       /\ Live(u) => u.buf = <<>> /\ Live(t) /\ u.seq.last >= t.seq.last
       /\ ~Live(u) => u.buf # <<>> /\ (Live(t) => d.last > t.seq.last)
  BY <1>3, <1>4, <1>6, <1>9, ApplySound, ApplyOwn DEF Sound
<1>11. CASE sym # Watched
  <2>1. trk'[Watched] = trk[Watched]
    <3>1. Framed(sym, fetch, wg, timing)
      BY <1>7, <1>8, <1>10, FetchIfWantedFrame
    <3> QED BY <1>11, <3>1, WatchedAssumption DEF Framed
  <2>2. handled'[Watched] = handled[Watched] /\ (Replaying(Watched)' <=> Replaying(Watched))
    BY <1>1, <1>7, <1>8, <1>11, WatchedAssumption DEF Replaying
  <2> QED BY <1>1, <2>1, <2>2, PastUnchanged
<1>12. CASE sym = Watched
  <2>1. ~Replaying(Watched) /\ ~Replaying(Watched)'
    BY <1>1, <1>4, <1>12 DEF Replaying, Selecting
  <2>2. trk'[Watched] = u \/ trk'[Watched] = Fetching(u, TRUE)
    <3>1. \/ trk' = [trk EXCEPT ![u.symbol] = u]
          \/ trk' = [trk EXCEPT ![u.symbol] = Fetching(u, TRUE)]
      BY ONLY <1>7, FetchIfWantedIs
    <3> QED BY <1>8, <1>10, <1>12, <3>1
  <2>3. /\ handled'[Watched] = d.last /\ d.last \in Int /\ d.last >= 0 /\ p \in Int
        /\ handled[Watched] \in Int /\ t.seq.last \in Int /\ u.seq.last \in Int
    <3>1. t.seq.last \in Ids /\ u.seq.last \in Ids
      BY <1>9, <1>10, TrackerFields DEF Sound, Positions
    <3>2. d.last \in Ids
      BY <1>3, VenueAssumption DEF Deltas, Ids
    <3> QED BY <1>7, <1>8, <1>12, <3>1, <3>2, VenueAssumption DEF Ids
  <2>4. handled[Watched] <= d.last
    <3>1. Mine(Head(in[sh])) /\ in[sh] \in Seq(Events)
      BY <1>1, <1>2, <1>4, <1>8, <1>12 DEF Mine
    <3>2. 1 \in 1 .. Len(in[sh]) /\ Head(in[sh]) = in[sh][1]
      BY <1>1, <3>1
    <3> QED BY <1>2, <1>4, <1>12, <3>1, <3>2 DEF OrderInv, InOrder
  <2>5. CASE trk[sym] = None
    <3>1. p = 0
      BY <1>12, <2>5 DEF Past
    <3> QED BY <1>9, <1>10, <2>1, <2>2, <2>3, <2>5, <3>1, PastAfterHandler
  <2>6. CASE trk[sym] # None
    <3>1. /\ t.buf # <<>> => handled[Watched] >= p
          /\ ~Live(t) /\ t.buf = <<>> => p = 0
          /\ Live(t) => t.seq.last >= p
      BY <1>9, <1>12, <2>1, <2>6 DEF Past
    <3>2. Live(u) => u.seq.last >= p
      BY <1>10, <2>3, <3>1
    <3>3. ~Live(u) => d.last >= p
      BY <1>10, <2>3, <2>4, <3>1
    <3> QED BY <1>10, <2>1, <2>2, <2>3, <3>2, <3>3, PastAfterHandler
  <2> QED BY <2>5, <2>6
<1> QED BY <1>11, <1>12

\* shard.load, up to the replay.
LEMMA BeginLoadPast ==
    ASSUME RInv, NEW p \in Ids, Past(p), NEW sh \in Shards, NEW sym \in Symbols,
           ShardOf[sym] = sh, loop[sh] = Selecting, NEW t, NEW s \in Snapshots,
           NEW fs \in FetchTable, NEW n \in Int, NEW timed \in SUBSET Symbols,
           BeginLoad(sh, t, s, fs, n, timed), Sound(t), t.symbol = sym,
           handled' = handled,
           trk[sym] = None => ~Live(t) /\ t.buf = <<>>,
           trk[sym] # None => t = trk[sym]
    PROVE  Past(p)'
<1>1. /\ loop \in [Shards -> Loops] /\ trk \in [Symbols -> Trackers \cup {None}]
      /\ handled \in [Symbols -> Ids] /\ p \in Int /\ p >= 0
      /\ handled[Watched] \in Int
  BY TypesOfState, VenueAssumption, WatchedAssumption DEF Ids
<1>2. PICK u : u = Anchor(t, s)
  OBVIOUS
<1>3. /\ Sound(u) /\ u.symbol = sym /\ u.buf = t.buf
      /\ LoadOutcome(t, s) = "anchored" =>
            Live(u) /\ u.seq.last = s.last /\ (Live(t) => s.last >= t.seq.last)
      /\ LoadOutcome(t, s) # "anchored" => u.seq = t.seq
  BY <1>2, AnchorSound
<1>4. /\ s.last \in Int /\ s.last >= 0 /\ t.seq.last \in Int
      /\ u \in Trackers /\ u.buf \in Seq(Deltas)
  <2>1. t.seq.last \in Ids /\ u \in Trackers /\ u.buf \in Seq(Deltas)
    BY <1>3, TrackerFields DEF Sound, Positions
  <2> QED BY <2>1, VenueAssumption DEF Snapshots, Ids
<1>5. ~Replaying(sym)
  BY DEF Replaying, Selecting
<1>6. CASE sym # Watched
  <2>1. ~Replaying(Watched) \/ ShardOf[Watched] # sh
    BY DEF Replaying, Selecting
  <2>2. CASE LoadOutcome(t, s) = "anchored"
    <3>1. /\ trk' = [trk EXCEPT ![sym] = u]
          /\ loop' = [loop EXCEPT ![sh] = [pc |-> "replay", symbol |-> sym, at |-> 1]]
      BY <1>2, <2>2 DEF BeginLoad
    <3>2. trk'[Watched] = trk[Watched]
      BY <1>1, <1>6, <3>1, WatchedAssumption
    <3>3. CASE ShardOf[Watched] = sh
      <4>1. ~Replaying(Watched)' /\ ~Replaying(Watched)
        BY <1>1, <1>6, <2>1, <3>1, <3>3 DEF Replaying
      <4> QED BY <3>2, <4>1, PastUnchanged
    <3>4. CASE ShardOf[Watched] # sh
      <4>1. loop'[ShardOf[Watched]] = loop[ShardOf[Watched]]
        BY <1>1, <3>1, <3>4, WatchedAssumption, RouterAssumption
      <4>2. Replaying(Watched)' <=> Replaying(Watched)
        BY <4>1 DEF Replaying
      <4> QED BY <3>2, <4>1, <4>2, PastUnchanged
    <3> QED BY <3>3, <3>4
  <2>3. CASE LoadOutcome(t, s) # "anchored"
    <3>1. FetchIfWanted(u, fs, n, timed) /\ loop' = loop
      BY <1>2, <2>3 DEF BeginLoad
    <3>2. trk'[Watched] = trk[Watched]
      <4>1. \/ trk' = [trk EXCEPT ![u.symbol] = u]
            \/ trk' = [trk EXCEPT ![u.symbol] = Fetching(u, TRUE)]
        BY ONLY <3>1, FetchIfWantedIs
      <4> QED BY <1>1, <1>3, <1>6, <4>1, WatchedAssumption
    <3>3. Replaying(Watched)' <=> Replaying(Watched)
      BY <3>1 DEF Replaying
    <3> QED BY <3>1, <3>2, <3>3, PastUnchanged
  <2> QED BY <2>2, <2>3
<1>7. CASE sym = Watched
  <2>1. /\ t.buf # <<>> => handled[Watched] >= p
        /\ ~Live(t) /\ t.buf = <<>> => p = 0
        /\ Live(t) => t.seq.last >= p
    <3>1. CASE trk[sym] = None
      BY <1>7, <3>1 DEF Past
    <3>2. CASE trk[sym] # None
      BY <1>5, <1>7, <3>2 DEF Past
    <3> QED BY <3>1, <3>2
  <2>2. CASE LoadOutcome(t, s) = "anchored"
    <3>1. /\ trk' = [trk EXCEPT ![sym] = u]
          /\ loop' = [loop EXCEPT ![sh] = [pc |-> "replay", symbol |-> sym, at |-> 1]]
      BY <1>2, <2>2 DEF BeginLoad
    <3>2. /\ trk'[Watched] = u /\ u # None /\ loop'[ShardOf[Watched]].at = 1
          /\ Replaying(Watched)'
      BY <1>1, <1>3, <1>7, <3>1, SoundIsSome DEF Replaying
    <3>3. 1 > Len(u.buf) => u.buf = <<>>
      BY <1>4
    <3>4. u.buf = <<>> => u.seq.last >= p
      <4>1. CASE Live(t)
        BY <1>1, <1>3, <1>4, <2>1, <2>2, <4>1
      <4>2. CASE ~Live(t)
        BY <1>1, <1>3, <1>4, <2>1, <2>2, <4>2
      <4> QED BY <4>1, <4>2
    <3> QED BY <1>3, <2>1, <2>2, <3>2, <3>3, <3>4 DEF Past
  <2>3. CASE LoadOutcome(t, s) # "anchored"
    <3>1. FetchIfWanted(u, fs, n, timed) /\ loop' = loop
      BY <1>2, <2>3 DEF BeginLoad
    <3>2. trk'[Watched] = u \/ trk'[Watched] = Fetching(u, TRUE)
      <4>1. \/ trk' = [trk EXCEPT ![u.symbol] = u]
            \/ trk' = [trk EXCEPT ![u.symbol] = Fetching(u, TRUE)]
        BY ONLY <3>1, FetchIfWantedIs
      <4> QED BY <1>1, <1>3, <1>7, <4>1
    <3>3. ~Replaying(Watched)'
      BY <1>5, <1>7, <3>1 DEF Replaying
    <3>4. Live(u) = Live(t)
      BY <1>3, <2>3 DEF Live
    <3> QED BY <1>3, <2>1, <2>3, <3>2, <3>3, <3>4, PastAfterHandler
  <2> QED BY <2>2, <2>3
<1> QED BY <1>6, <1>7

\* One iteration of the replay: past the last delta held, the book is past what
\* was handled, and so past p.
LEMMA ReplayStepPast ==
    ASSUME RInv, NEW p \in Ids, Past(p), NEW sh \in Shards, ReplayStep(sh)
    PROVE  Past(p)'
<1>1. loop[sh].pc = "replay" /\ handled' = handled
  BY DEF ReplayStep
<1>2. PICK sym \in Symbols : /\ sym = loop[sh].symbol /\ ShardOf[sym] = sh
                             /\ loop[sh].at \in Nat \ {0}
  BY <1>1 DEF RInv, LoopInv
<1>3. PICK i \in Nat \ {0} : i = loop[sh].at
  BY <1>2
<1>4. PICK t : t = trk[sym]
  OBVIOUS
<1>5. PICK u : u = ReplayOne(t, i)
  OBVIOUS
<1>6. /\ loop \in [Shards -> Loops] /\ trk \in [Symbols -> Trackers \cup {None}]
      /\ handled \in [Symbols -> Ids] /\ p \in Int /\ handled[Watched] \in Int
  BY TypesOfState, VenueAssumption, WatchedAssumption DEF Ids
<1>7. Replaying(sym) /\ BookInv(sym)
  BY <1>1, <1>2 DEF Replaying, RInv
<1>8. trk[sym] # None /\ Kept(sym)
  BY <1>7 DEF BookInv, Unseen
<1>9. /\ Sound(t) /\ t.symbol = sym /\ Live(t)
      /\ i > Len(t.buf) => t.seq.last >= handled[sym]
      /\ t.buf # <<>> => Newest(t.buf) = handled[sym]
  BY <1>2, <1>3, <1>4, <1>7, <1>8 DEF Kept
<1>10. /\ Sound(u) /\ u.symbol = sym
       /\ ReplayGoesOn(t, i) =>
            /\ Live(u) /\ u.buf = t.buf /\ i \in 1 .. Len(t.buf)
            /\ u.seq.last >= t.buf[i].last
       /\ ~ReplayGoesOn(t, i) /\ Live(u) =>
            u.buf = <<>> /\ i > Len(t.buf) /\ u.seq = t.seq
       /\ ~Live(u) => i \in 1 .. Len(t.buf) /\ u.buf = KeepFrom(t.buf, i)
  BY <1>5, <1>9, ReplaySound
<1>11. /\ t.buf \in Seq(Deltas) /\ Len(t.buf) \in Nat
       /\ t.seq.last \in Int /\ u.seq.last \in Int
  <2>1. t.buf \in Seq(Deltas) /\ t.seq.last \in Ids /\ u.seq.last \in Ids
    BY <1>9, <1>10, TrackerFields DEF Sound, Positions
  <2> QED BY <2>1, VenueAssumption DEF Ids
<1>12. CASE ReplayGoesOn(t, i)
  <2>1. PICK l : l = [loop[sh] EXCEPT !.at = @ + 1]
    OBVIOUS
  <2>2. trk' = [trk EXCEPT ![sym] = u] /\ loop' = [loop EXCEPT ![sh] = l]
    BY <1>2, <1>3, <1>4, <1>5, <1>12, <2>1 DEF ReplayStep
  <2>3. l.pc = "replay" /\ l.symbol = sym /\ l.at = i + 1
    BY <1>1, <1>2, <1>3, <1>6, <2>1 DEF Loops
  <2>4. CASE sym = Watched
    <3>1. /\ trk'[Watched] = u /\ u # None /\ loop'[ShardOf[Watched]] = l
          /\ Replaying(Watched)'
      BY <1>2, <1>6, <1>10, <2>2, <2>3, <2>4, SoundIsSome DEF Replaying
    <3>2. u.buf # <<>> /\ handled[Watched] >= p
      <4>1. t.buf # <<>>
        BY <1>10, <1>11, <1>12
      <4> QED BY <1>4, <1>8, <1>10, <1>12, <2>4, <4>1 DEF Past
    <3>3. l.at > Len(u.buf) => u.seq.last >= p
      <4>1. l.at > Len(u.buf) => i = Len(t.buf) /\ t.buf # <<>>
        BY <1>10, <1>11, <1>12, <2>3
      <4>2. l.at > Len(u.buf) => u.seq.last >= handled[Watched]
        BY <1>9, <1>10, <1>12, <2>4, <4>1 DEF Newest
      <4> QED BY <1>6, <1>11, <3>2, <4>2
    <3> QED BY <1>1, <1>10, <1>12, <3>1, <3>2, <3>3 DEF Past
  <2>5. CASE sym # Watched
    <3>1. trk'[Watched] = trk[Watched]
      BY <1>6, <2>2, <2>5, WatchedAssumption
    <3>2. CASE ShardOf[Watched] = sh
      <4>1. ~Replaying(Watched)' /\ ~Replaying(Watched)
        BY <1>2, <1>6, <2>2, <2>3, <2>5, <3>2 DEF Replaying
      <4> QED BY <1>1, <3>1, <4>1, PastUnchanged
    <3>3. CASE ShardOf[Watched] # sh
      <4>1. loop'[ShardOf[Watched]] = loop[ShardOf[Watched]]
        BY <1>6, <2>2, <3>3, WatchedAssumption, RouterAssumption
      <4>2. Replaying(Watched)' <=> Replaying(Watched)
        BY <4>1 DEF Replaying
      <4> QED BY <1>1, <3>1, <4>1, <4>2, PastUnchanged
    <3> QED BY <3>2, <3>3
  <2> QED BY <2>4, <2>5
<1>13. CASE ~ReplayGoesOn(t, i)
  <2>1. PICK timed : timed = IF Live(u) THEN timing \ {sym} ELSE timing
    OBVIOUS
  <2>2. FetchIfWanted(u, fetch, wg, timed) /\ loop' = [loop EXCEPT ![sh] = Selecting]
    BY <1>2, <1>3, <1>4, <1>5, <1>13, <2>1 DEF ReplayStep
  <2>3. \/ trk' = [trk EXCEPT ![u.symbol] = u]
        \/ trk' = [trk EXCEPT ![u.symbol] = Fetching(u, TRUE)]
    BY ONLY <2>2, FetchIfWantedIs
  <2>4. CASE sym = Watched
    <3>1. trk'[Watched] = u \/ trk'[Watched] = Fetching(u, TRUE)
      BY <1>6, <1>10, <2>3, <2>4
    <3>2. ~Replaying(Watched)'
      BY <1>2, <1>6, <2>2, <2>4 DEF Replaying, Selecting
    <3>3. Live(u) => u.seq.last >= p /\ u.buf = <<>>
      <4>1. Live(u) => t.seq.last >= p
        BY <1>2, <1>3, <1>4, <1>8, <1>9, <1>10, <1>13, <2>4 DEF Past
      <4> QED BY <1>10, <1>13, <4>1
    <3>4. ~Live(u) => handled'[Watched] >= p /\ u.buf # <<>>
      <4> SUFFICES ASSUME ~Live(u) PROVE handled[Watched] >= p /\ u.buf # <<>>
        BY <1>1
      <4>1. i \in 1 .. Len(t.buf) /\ u.buf = KeepFrom(t.buf, i) /\ t.buf # <<>>
        BY <1>10, <1>11
      <4>2. u.buf \in Seq(Deltas) /\ Len(u.buf) = Len(t.buf) - i + 1
        BY <1>11, <4>1, KeepFromKeeps
      <4> QED BY <1>4, <1>8, <1>11, <2>4, <4>1, <4>2 DEF Past
    <3> QED BY <1>10, <3>1, <3>2, <3>3, <3>4, PastAfterHandler
  <2>5. CASE sym # Watched
    <3>1. trk'[Watched] = trk[Watched]
      BY <1>6, <1>10, <2>3, <2>5, WatchedAssumption
    <3>2. CASE ShardOf[Watched] = sh
      <4>1. ~Replaying(Watched)' /\ ~Replaying(Watched)
        BY <1>2, <1>6, <2>2, <2>5, <3>2 DEF Replaying, Selecting
      <4> QED BY <1>1, <3>1, <4>1, PastUnchanged
    <3>3. CASE ShardOf[Watched] # sh
      <4>1. loop'[ShardOf[Watched]] = loop[ShardOf[Watched]]
        BY <1>6, <2>2, <3>3, WatchedAssumption, RouterAssumption
      <4>2. Replaying(Watched)' <=> Replaying(Watched)
        BY <4>1 DEF Replaying
      <4> QED BY <1>1, <3>1, <4>1, <4>2, PastUnchanged
    <3> QED BY <3>2, <3>3
  <2> QED BY <2>4, <2>5
<1> QED BY <1>12, <1>13

\* shard.handle, of a snapshot from the stream.
LEMMA SnapshotPast ==
    ASSUME RInv, NEW p \in Ids, Past(p), NEW sh \in Shards, HandleSnapshot(sh)
    PROVE  Past(p)'
<1>1. /\ loop[sh] = Selecting /\ in[sh] # <<>> /\ Head(in[sh]).kind = "snapshot"
      /\ handled' = handled
  BY DEF HandleSnapshot, Receive
<1>2. PICK s : s = Head(in[sh]).body
  OBVIOUS
<1>3. s \in Snapshots /\ ShardOf[s.symbol] = sh
  BY <1>1, <1>2, HeadOfQueue DEF Events
<1>4. PICK sym \in Symbols : sym = s.symbol /\ ShardOf[sym] = sh
  BY <1>3 DEF Snapshots
<1>5. fetch \in FetchTable /\ timing \in SUBSET Symbols /\ wg \in Int
  BY TypesOfState
<1>6. CASE trk[sym] = None
  <2>1. PICK fs : fs = Spawn(fetch, sym)
    OBVIOUS
  <2>2. PICK t : t = Fetching(NewTracker(sym), TRUE)
    OBVIOUS
  <2>3. PICK n \in Int : n = wg + 1
    BY <1>5
  <2>4. PICK timed \in SUBSET Symbols : timed = timing \cup {sym}
    BY <1>5
  <2>5. CanSpawn(fetch, sym) /\ BeginLoad(sh, t, s, fs, n, timed)
    BY <1>2, <1>4, <1>6, <2>1, <2>2, <2>3, <2>4 DEF HandleSnapshot
  <2>6. fs \in FetchTable
    <3>1. PICK k \in Slots : fs = [fetch EXCEPT ![sym][k] = Request]
      BY <2>1, <2>5, SpawnIs
    <3>2. Request \in Fetches
      BY DEF Request, Fetches
    <3> QED BY <1>5, <3>1, <3>2 DEF FetchTable
  <2>7. Sound(t) /\ t.symbol = sym /\ ~Live(t) /\ t.buf = <<>>
    <3>1. PICK z : z = NewTracker(sym)
      OBVIOUS
    <3>2. Sound(z) /\ z.symbol = sym /\ z.buf = <<>> /\ ~z.seq.synced
      BY <3>1, NewTrackerSound DEF Live
    <3> QED BY <2>2, <3>1, <3>2, FetchingSound DEF Live
  <2> QED BY <1>1, <1>3, <1>4, <1>6, <2>5, <2>6, <2>7, BeginLoadPast
<1>7. CASE trk[sym] # None
  <2>1. BeginLoad(sh, trk[sym], s, fetch, wg, timing)
    BY <1>2, <1>4, <1>7 DEF HandleSnapshot
  <2>2. Sound(trk[sym]) /\ trk[sym].symbol = sym
    BY <1>1, <1>4, <1>7, KeptAtSelect
  <2>3. PICK t : t = trk[sym]
    OBVIOUS
  <2> QED BY <1>1, <1>3, <1>4, <1>5, <1>7, <2>1, <2>2, <2>3, BeginLoadPast
<1> QED BY <1>6, <1>7

\* shard.complete: the answer to a fetch reaches the shard's loop.
LEMMA CompletePast ==
    ASSUME RInv, NEW p \in Ids, Past(p), NEW sym \in Symbols, NEW k \in Slots,
           Complete(sym, k)
    PROVE  Past(p)'
<1>1. PICK sh \in Shards : sh = ShardOf[sym]
  BY RouterAssumption
<1>2. PICK fs : fs = [fetch EXCEPT ![sym][k] = NoFetch]
  OBVIOUS
<1>3. PICK t : t = trk[sym]
  OBVIOUS
<1>4. /\ loop[sh] = Selecting /\ fetch[sym][k].pc = "deliver" /\ handled' = handled
  BY <1>1 DEF Complete
<1>5. /\ fetch \in FetchTable /\ timing \in SUBSET Symbols /\ wg \in Int
      /\ trk \in [Symbols -> Trackers \cup {None}]
  BY TypesOfState
<1>6. FlightInv(sym) /\ k \in InFlight(sym)
  BY <1>4 DEF RInv, InFlight
<1>7. Sound(t) /\ t.symbol = sym /\ trk[sym] # None
  BY <1>1, <1>3, <1>4, <1>6, KeptAtSelect DEF Unseen
<1>8. fs \in FetchTable
  <2>1. NoFetch \in Fetches
    BY DEF NoFetch, Fetches
  <2> QED BY <1>2, <1>5, <2>1 DEF FetchTable
<1>9. PICK n \in Int : n = wg - 1
  BY <1>5
<1>10. CASE fetch[sym][k].result = Failed
  <2>1. PICK u : u = Fetching(t, FALSE)
    OBVIOUS
  <2>2. FetchIfWanted(u, fs, n, timing) /\ loop' = loop
    BY <1>2, <1>3, <1>9, <1>10, <2>1 DEF Complete
  <2>3. /\ Sound(u) /\ u.symbol = sym
        /\ u.seq = t.seq /\ u.buf = t.buf /\ (Live(u) <=> Live(t))
    BY <1>7, <2>1, FetchingSound DEF Live
  <2>4. \/ trk' = [trk EXCEPT ![u.symbol] = u]
        \/ trk' = [trk EXCEPT ![u.symbol] = Fetching(u, TRUE)]
    BY ONLY <2>2, FetchIfWantedIs
  <2>5. CASE sym = Watched
    <3>1. ~Replaying(Watched) /\ ~Replaying(Watched)'
      BY <1>1, <1>4, <2>2, <2>5 DEF Replaying, Selecting
    <3>2. trk'[Watched] = u \/ trk'[Watched] = Fetching(u, TRUE)
      BY <1>5, <2>3, <2>4, <2>5
    <3>3. /\ u.buf # <<>> => handled'[Watched] >= p
          /\ ~Live(u) /\ u.buf = <<>> => p = 0
          /\ Live(u) => u.seq.last >= p
      BY <1>3, <1>4, <1>7, <2>3, <2>5, <3>1 DEF Past
    <3> QED BY <2>3, <3>1, <3>2, <3>3, PastAfterHandler
  <2>6. CASE sym # Watched
    <3>1. trk'[Watched] = trk[Watched] /\ (Replaying(Watched)' <=> Replaying(Watched))
      BY <1>5, <2>2, <2>3, <2>4, <2>6, WatchedAssumption DEF Replaying
    <3> QED BY <1>4, <2>2, <3>1, PastUnchanged
  <2> QED BY <2>5, <2>6
<1>11. CASE fetch[sym][k].result # Failed
  <2>1. PICK s \in Snapshots : s = fetch[sym][k].result
    BY <1>4, <1>6, <1>11 DEF FlightInv
  <2>2. BeginLoad(sh, t, s, fs, n, timing)
    BY <1>1, <1>2, <1>3, <1>9, <1>11, <2>1 DEF Complete
  <2> QED BY <1>1, <1>3, <1>4, <1>5, <1>7, <1>8, <2>2, BeginLoadPast
<1> QED BY <1>10, <1>11

\* No step of the router takes the book back behind p.
LEMMA NextPast ==
    ASSUME RInv, OrderInv, NEW p \in Ids, Past(p), [Next]_vars
    PROVE  Past(p)'
<1>1. CASE UNCHANGED <<trk, loop, handled>>
  <2>1. Replaying(Watched)' <=> Replaying(Watched)
    BY <1>1 DEF Replaying
  <2> QED BY <1>1, <2>1, PastUnchanged
<1>2. CASE Start
  <2>1. loop' = [sh \in Shards |-> Selecting] /\ trk' = trk /\ handled' = handled
    BY <1>2 DEF Start
  <2>2. loop[ShardOf[Watched]].pc = "new"
    BY <1>2, WatchedAssumption, RouterAssumption DEF Start, RInv, LoopInv
  <2>3. ~Replaying(Watched)' /\ ~Replaying(Watched)
    BY <2>1, <2>2, WatchedAssumption, RouterAssumption DEF Replaying, Selecting
  <2> QED BY <2>1, <2>3, PastUnchanged
<1>3. ASSUME NEW sh \in Shards, Stop(sh) PROVE Past(p)'
  <2>1. /\ loop[sh] = Selecting /\ loop' = [loop EXCEPT ![sh] = Stopped]
        /\ trk' = trk /\ handled' = handled /\ loop \in [Shards -> Loops]
    BY <1>3, TypesOfState DEF Stop
  <2>2. CASE ShardOf[Watched] = sh
    <3>1. ~Replaying(Watched)' /\ ~Replaying(Watched)
      BY <2>1, <2>2 DEF Replaying, Selecting, Stopped
    <3> QED BY <2>1, <3>1, PastUnchanged
  <2>3. CASE ShardOf[Watched] # sh
    <3>1. loop'[ShardOf[Watched]] = loop[ShardOf[Watched]]
      BY <2>1, <2>3, WatchedAssumption, RouterAssumption
    <3>2. Replaying(Watched)' <=> Replaying(Watched)
      BY <3>1 DEF Replaying
    <3> QED BY <2>1, <3>1, <3>2, PastUnchanged
  <2> QED BY <2>2, <2>3
<1>4. CASE Upstream \/ CloseReturns \/ UNCHANGED vars
  BY <1>1, <1>4 DEF Upstream, RouteDelta, Lose, RouteSnapshot, RouteTrade, Route,
                    CloseReturns, shardVars, vars
<1>5. ASSUME NEW sh \in Shards, CloseInput(sh) \/ HandleTrade(sh)
      PROVE  UNCHANGED <<trk, loop, handled>>
  BY <1>5 DEF CloseInput, HandleTrade
<1>6. ASSUME NEW sym \in Symbols, NEW k \in Slots, FetchStep(sym, k)
      PROVE  UNCHANGED <<trk, loop, handled>>
  BY <1>6 DEF FetchStep, FetchReturns, FetchFails, RetryOver, FetchAbandons, SetFetch,
              shardVars
<1>7. ASSUME NEW c \in Callers, CallerStep(c) PROVE UNCHANGED <<trk, loop, handled>>
  BY <1>7 DEF CallerStep, Ask, Answer, AskReturns, GiveUp, SetCaller, shardVars
<1> QED BY <1>1, <1>2, <1>3, <1>4, <1>5, <1>6, <1>7, HandleDeltaPast, SnapshotPast,
           ReplayStepPast, CompletePast DEF Next, ShardStep

\* A step of the router leaves the book served past everything that was handled
\* or served before, or not served.
LEMMA ServesNextWInv ==
    ASSUME WInv, [ServesNext]_<<vars, peak>>
    PROVE  /\ WInv'
           /\ handled'[Watched] >= handled[Watched]
           /\ \/ ~Serving' /\ peak' = peak
              \/ /\ Serving' /\ peak' = trk'[Watched].seq.last
                 /\ trk'[Watched].seq.last \in Ids
                 /\ trk'[Watched].seq.last >= peak
                 /\ trk'[Watched].seq.last >= handled'[Watched]
              \/ UNCHANGED <<vars, peak>>
<1>1. [Next]_vars
  BY DEF ServesNext
<1>2. RInv /\ OrderInv /\ peak \in Ids /\ Past(peak)
  BY DEF WInv
<1>3. RInv' /\ OrderInv' /\ handled'[Watched] >= handled[Watched]
  BY <1>1, <1>2, NextRInv, OrderKeeps
<1>4. PICK p \in Ids : p = peak
  BY <1>2
<1>5. Past(p)
  BY <1>2, <1>4 DEF Past
<1>6. Past(p)'
  BY <1>1, <1>2, <1>5, NextPast
<1>7. CASE ~Serving' /\ peak' = peak
  <2>1. peak' = p
    BY <1>4, <1>7
  <2>2. Past(peak)'
    BY <1>6, <2>1 DEF Past
  <2> QED BY <1>3, <1>4, <1>7, <2>1, <2>2 DEF WInv
<1>8. CASE Serving' /\ peak' = trk'[Watched].seq.last
  <2>1. PICK t : t = trk'[Watched]
    OBVIOUS
  <2>2. t # None /\ Live(t) /\ ~Replaying(Watched)'
    BY <1>8, <2>1 DEF Serving, Tracked, Live
  <2>3. BookInv(Watched)'
    BY <1>3, WatchedAssumption DEF RInv
  <2>4. Kept(Watched)'
    BY <2>1, <2>2, <2>3 DEF BookInv
  <2>5. Sound(t) /\ t.buf = <<>> /\ t.seq.last >= handled'[Watched]
    BY <2>1, <2>2, <2>4 DEF Kept
  <2>6. t.seq.last >= p
    BY <1>6, <2>1, <2>2 DEF Past
  <2>7. t.seq.last \in Ids /\ t.seq.last >= t.seq.last
    BY <2>5, TrackerFields, VenueAssumption DEF Sound, Positions, Ids
  <2>8. peak' = t.seq.last
    BY <1>8, <2>1
  <2>9. Past(peak)'
    BY <2>1, <2>2, <2>5, <2>7, <2>8 DEF Past
  <2> QED BY <1>3, <1>4, <1>8, <2>1, <2>5, <2>6, <2>7, <2>8, <2>9 DEF WInv
<1>9. CASE UNCHANGED <<vars, peak>>
  <2>1. peak' = p /\ peak' = peak
    BY <1>4, <1>9
  <2>2. Past(peak)'
    BY <1>6, <2>1 DEF Past
  <2> QED BY <1>3, <1>4, <1>9, <2>1, <2>2 DEF WInv
<1> QED BY <1>7, <1>8, <1>9 DEF ServesNext

\* The invariant holds at first.
LEMMA ServesInitWInv == ServesInit => WInv /\ ~Serving /\ handled[Watched] = 0 /\ peak = 0
<1> SUFFICES ASSUME ServesInit
             PROVE  WInv /\ ~Serving /\ handled[Watched] = 0 /\ peak = 0
  OBVIOUS
<1>1. Init /\ peak = 0 /\ 0 \in Ids
  BY VenueAssumption DEF ServesInit, Ids
<1>2. RInv
  BY <1>1, InitRInv
<1>3. /\ trk[Watched] = None /\ handled[Watched] = 0 /\ fed[Watched] = 0
      /\ in[ShardOf[Watched]] = <<>>
  BY <1>1, WatchedAssumption, RouterAssumption DEF Init
<1>4. OrderInv
  BY <1>3 DEF OrderInv, InOrder
<1>5. Past(peak) /\ ~Serving
  BY <1>1, <1>3 DEF Past, Serving, Tracked
<1> QED BY <1>1, <1>2, <1>3, <1>4, <1>5 DEF WInv

\* The invariant holds always.
LEMMA ServesSpecWInv == ServesSpec => []WInv
<1>1. WInv /\ [ServesNext]_<<vars, peak>> => WInv'
  BY ServesNextWInv
<1> QED BY ServesInitWInv, <1>1, PTL DEF ServesSpec

\* Every symbol of the router implements module ServedBook: a book that is
\* served is never behind what its shard has handled, nor behind a position at
\* which it was served before.
THEOREM RouterImplementsServedBook == ServesSpec => RouterServesBook
<1>1. ServesInit => ABS!Init
  BY ServesInitWInv DEF ABS!Init, ABS!NotServed
<1>2. WInv /\ WInv' /\ [ServesNext]_<<vars, peak>> =>
        [ABS!Next]_<<IF Serving THEN trk[Watched].seq.last ELSE -1, handled[Watched], peak>>
  <2> SUFFICES ASSUME WInv, WInv', [ServesNext]_<<vars, peak>>
               PROVE  [ABS!Next]_<<IF Serving THEN trk[Watched].seq.last ELSE -1,
                                   handled[Watched], peak>>
    OBVIOUS
  <2>1. handled'[Watched] \in handled[Watched] .. MaxId
    <3>1. handled[Watched] \in Ids /\ handled'[Watched] \in Ids
      BY WatchedAssumption DEF WInv, RInv, TypeOK
    <3> QED BY <3>1, ServesNextWInv, VenueAssumption DEF Ids
  <2>2. CASE ~Serving' /\ peak' = peak
    <3>1. ABS!Lose
      BY <2>2 DEF ABS!Lose, ABS!NotServed
    <3> QED BY <2>1, <3>1 DEF ABS!Next
  <2>3. CASE /\ Serving' /\ peak' = trk'[Watched].seq.last
             /\ trk'[Watched].seq.last \in Ids
             /\ trk'[Watched].seq.last >= peak
             /\ trk'[Watched].seq.last >= handled'[Watched]
    <3>1. ABS!Serve(trk'[Watched].seq.last)
      BY <2>3 DEF ABS!Serve
    <3> QED BY <2>1, <2>3, <3>1 DEF ABS!Next, Ids
  <2>4. CASE UNCHANGED <<vars, peak>>
    BY <2>4 DEF vars, Serving, Tracked, Live, Replaying
  <2> QED BY <2>2, <2>3, <2>4, ServesNextWInv
<1> QED BY <1>1, <1>2, ServesSpecWInv, PTL DEF ServesSpec, RouterServesBook, ABS!Spec
=============================================================================
