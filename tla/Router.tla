------------------------------- MODULE Router -------------------------------
(***************************************************************************)
(* internal/pipeline/shard.go and query.go: the book stage.  Every shard   *)
(* is one goroutine that owns the trackers of its symbols and selects over *)
(* its input queue, the results of snapshot requests and queries; every    *)
(* snapshot request is a goroutine of its own; callers read books through  *)
(* the owning shard; Close drains and joins everything.                    *)
(*                                                                         *)
(* A shard goroutine never blocks outside its select, so one iteration of  *)
(* its loop is one step, except that the replay inside Load takes a step   *)
(* per buffered delta (module TrackerOps).                                 *)
(***************************************************************************)
EXTENDS TrackerOps

CONSTANTS
    Shards,       \* the shard goroutines
    ShardOf,      \* shardIndex: the shard that owns a symbol
    QueueCap,     \* RouterConfig.QueueCap
    Kinds,        \* the kinds of event the upstream stage routes
    MaxStreamed,  \* bound: snapshots routed as events
    MaxFetch,     \* bound: snapshot requests in flight for one symbol
    Callers,      \* goroutines calling Query and Check
    None,         \* no tracker, no symbol, no snapshot
    Failed        \* a snapshot request that returned an error

ASSUME RouterAssumption ==
    /\ ShardOf \in [Symbols -> Shards]
    /\ QueueCap \in Nat \ {0}
    /\ Kinds \subseteq {"delta", "snapshot", "trade"}
    /\ MaxStreamed \in Nat
    /\ MaxFetch \in Nat \ {0}
    /\ IsFiniteSet(Shards) /\ IsFiniteSet(Symbols)
    /\ None \notin Trackers /\ None # "diverged"

Slots == 1 .. MaxFetch

Events ==
    [kind: {"delta"}, body: Deltas]
        \cup [kind: {"snapshot"}, body: Snapshots]
        \cup [kind: {"trade"}, body: [symbol: Symbols]]

\* A fetch goroutine: not there, requesting, holding an error back for the
\* retry delay, or parked on the send of its result.
Fetches == [pc: {"free", "request", "retry", "deliver"},
            result: Snapshots \cup {Failed, None}]

NoFetch == [pc |-> "free", result |-> None]

\* A shard goroutine: not started, in its select, in the replay loop of Load,
\* or returned, with its quit channel closed.
Loops == [pc: {"new", "select", "replay", "stopped"},
          symbol: Symbols \cup {None}, at: Nat]

Selecting == [pc |-> "select", symbol |-> None, at |-> 0]
Stopped   == [pc |-> "stopped", symbol |-> None, at |-> 0]

\* What a caller asks for, a view (None) or a check, and what came of it:
\* the outcomes of Query, and those of Check as checkOne tells them apart.
Questions == [symbol: Symbols, check: Snapshots \cup {None}]

Outcomes ==
    {None, "unknown", "view", "refused", "not live", "ok", "skewed", "diverged"}

VARIABLES
    in,         \* in[sh]: the input queue of a shard
    closed,     \* the shards whose input channel is closed
    loop,       \* loop[sh]: the shard goroutine
    trk,        \* s.books: the tracker of a symbol, or None
    timing,     \* s.fetchedAt: the symbols whose resync is being timed
    fetch,      \* fetch[sym][k]: the fetch goroutines
    wg,         \* Router.wg
    stage,      \* the lifecycle of the router
    caller,     \* caller[c]: the callers
    fed,        \* the newest update id of the stream, delivered or lost
    streamed,   \* the number of snapshots routed as events
    handled     \* history: the newest update id a shard has handled

shardVars  == <<in, closed, loop, trk, timing>>
feedVars   == <<fed, streamed>>
vars == <<in, closed, loop, trk, timing, fetch, wg, stage, caller, fed,
          streamed, handled>>

TypeOK ==
    /\ in \in [Shards -> Seq(Events)]
    /\ \A sh \in Shards : Len(in[sh]) <= QueueCap
    /\ closed \subseteq Shards
    /\ loop \in [Shards -> Loops]
    /\ trk \in [Symbols -> Trackers \cup {None}]
    /\ timing \subseteq Symbols
    /\ fetch \in [Symbols -> [Slots -> Fetches]]
    /\ wg \in Nat
    /\ stage \in {"new", "open", "closing", "returned"}
    /\ caller \in [Callers -> [pc: {"idle", "asking", "answered"},
                               q: Questions \cup {None}, outcome: Outcomes]]
    /\ fed \in [Symbols -> Ids] /\ handled \in [Symbols -> Ids]
    /\ streamed \in 0 .. MaxStreamed

Init ==
    /\ in = [sh \in Shards |-> <<>>]
    /\ closed = {}
    /\ loop = [sh \in Shards |-> [Selecting EXCEPT !.pc = "new"]]
    /\ trk = [sym \in Symbols |-> None]
    /\ timing = {}
    /\ fetch = [sym \in Symbols |-> [k \in Slots |-> NoFetch]]
    /\ wg = 0
    /\ stage = "new"
    /\ caller = [c \in Callers |-> [pc |-> "idle", q |-> None, outcome |-> None]]
    /\ fed = [sym \in Symbols |-> 0]
    /\ streamed = 0
    /\ handled = [sym \in Symbols |-> 0]

-----------------------------------------------------------------------------
(***************************************************************************)
(* Lifecycle and the upstream stage.                                       *)
(***************************************************************************)
\* Router.Start
Start ==
    /\ stage = "new"
    /\ stage' = "open"
    /\ loop' = [sh \in Shards |-> Selecting]
    /\ wg' = wg + Cardinality(Shards)
    /\ UNCHANGED <<in, closed, trk, timing, fetch, caller, fed, streamed, handled>>

\* Mutant: the queue has no capacity.
RouteUnbounded(ev) ==
    /\ stage = "open"
    /\ in' = [in EXCEPT ![ShardOf[ev.body.symbol]] = Append(@, ev)]
    /\ UNCHANGED <<closed, loop, trk, timing, fetch, wg, stage, caller, handled>>

\* Router.Route: it blocks while the queue of the shard is full.
Route(ev) ==
    /\ stage = "open"
    /\ Len(in[ShardOf[ev.body.symbol]]) < QueueCap
    /\ in' = [in EXCEPT ![ShardOf[ev.body.symbol]] = Append(@, ev)]
    /\ UNCHANGED <<closed, loop, trk, timing, fetch, wg, stage, caller, handled>>

\* The stream delivers deltas in the order of their ids.
RouteDelta(d) ==
    /\ "delta" \in Kinds
    /\ d.first = fed[d.symbol] + 1
    /\ d.first <= d.last
    /\ Route([kind |-> "delta", body |-> d])
    /\ fed' = [fed EXCEPT ![d.symbol] = d.last]
    /\ UNCHANGED streamed

\* Updates that never arrive: lost upstream, or Route gave up on them because
\* its context was cancelled.
Lose(sym, id) ==
    /\ stage = "open"
    /\ fed[sym] < id
    /\ fed' = [fed EXCEPT ![sym] = id]
    /\ UNCHANGED <<shardVars, fetch, wg, stage, caller, streamed, handled>>

RouteSnapshot(s) ==
    /\ "snapshot" \in Kinds
    /\ streamed < MaxStreamed
    /\ Route([kind |-> "snapshot", body |-> s])
    /\ streamed' = streamed + 1
    /\ UNCHANGED fed

RouteTrade(sym) ==
    /\ "trade" \in Kinds
    /\ Route([kind |-> "trade", body |-> [symbol |-> sym]])
    /\ UNCHANGED feedVars

\* Router.Close, which must not overlap with Route: it closes the inputs one
\* by one and returns when the wait group is at zero.
CloseInput(sh) ==
    /\ stage \in {"open", "closing"}
    /\ sh \notin closed
    /\ stage' = "closing"
    /\ closed' = closed \cup {sh}
    /\ UNCHANGED <<in, loop, trk, timing, fetch, wg, caller, feedVars, handled>>

CloseReturns ==
    /\ stage = "closing"
    /\ closed = Shards
    /\ wg = 0
    /\ stage' = "returned"
    /\ UNCHANGED <<shardVars, fetch, wg, caller, feedVars, handled>>

-----------------------------------------------------------------------------
(***************************************************************************)
(* The fetch goroutines, outside the shard.                                *)
(***************************************************************************)
\* shard.fetch: start a request in a free slot, with the wait group counted
\* up before the goroutine runs.
CanSpawn(fs, sym) == \E k \in Slots : fs[sym][k].pc = "free"

Spawn(fs, sym) ==
    LET k == CHOOSE k \in Slots :
                /\ fs[sym][k].pc = "free"
                /\ \A j \in 1 .. (k - 1) : fs[sym][j].pc # "free"
    IN  [fs EXCEPT ![sym][k] = [pc |-> "request", result |-> None]]

InFlight(sym) == {k \in Slots : fetch[sym][k].pc # "free"}

SetFetch(sym, k, f) ==
    /\ fetch' = [fetch EXCEPT ![sym][k] = f]
    /\ UNCHANGED <<shardVars, stage, caller, feedVars, handled>>

\* Snapshotter.Snapshot returns a snapshot, of any age,
FetchReturns(sym, k, s) ==
    /\ fetch[sym][k].pc = "request"
    /\ s.symbol = sym
    /\ SetFetch(sym, k, [pc |-> "deliver", result |-> s])
    /\ UNCHANGED wg

\* or an error, which the goroutine holds for the retry delay.
FetchFails(sym, k) ==
    /\ fetch[sym][k].pc = "request"
    /\ SetFetch(sym, k, [pc |-> "retry", result |-> None])
    /\ UNCHANGED wg

\* The delay is over, the context cancelled, or the shard has stopped.
RetryOver(sym, k) ==
    /\ fetch[sym][k].pc = "retry"
    /\ SetFetch(sym, k, [pc |-> "deliver", result |-> Failed])
    /\ UNCHANGED wg

\* Mutant: the goroutine leaves without wg.Done.
FetchForgetsDone(sym, k) ==
    /\ fetch[sym][k].pc = "deliver"
    /\ loop[ShardOf[sym]] = Stopped
    /\ SetFetch(sym, k, NoFetch)
    /\ UNCHANGED wg

\* The shard has closed quit: nobody takes the result.
FetchAbandons(sym, k) ==
    /\ fetch[sym][k].pc = "deliver"
    /\ loop[ShardOf[sym]] = Stopped
    /\ SetFetch(sym, k, NoFetch)
    /\ wg' = wg - 1

-----------------------------------------------------------------------------
(***************************************************************************)
(* The shard goroutine.  FetchIfWanted and BeginLoad take the state that   *)
(* the handler has built up so far: the tracker, the fetch goroutines, the *)
(* wait group and the timings.                                             *)
(***************************************************************************)
\* Mutant: the request is not timed.
FetchUntimed(t, fs, n, timed) ==
    /\ WantsFetch(t) => CanSpawn(fs, t.symbol)
    /\ trk' = [trk EXCEPT ![t.symbol] = IF WantsFetch(t) THEN Fetching(t, TRUE) ELSE t]
    /\ fetch' = IF WantsFetch(t) THEN Spawn(fs, t.symbol) ELSE fs
    /\ wg' = IF WantsFetch(t) THEN n + 1 ELSE n
    /\ timing' = timed

\* Mutant: wg.Add is missing.
FetchUncounted(t, fs, n, timed) ==
    /\ WantsFetch(t) => CanSpawn(fs, t.symbol)
    /\ trk' = [trk EXCEPT ![t.symbol] = IF WantsFetch(t) THEN Fetching(t, TRUE) ELSE t]
    /\ fetch' = IF WantsFetch(t) THEN Spawn(fs, t.symbol) ELSE fs
    /\ wg' = n
    /\ timing' = IF WantsFetch(t) THEN timed \cup {t.symbol} ELSE timed

\* shard.fetch
FetchIfWanted(t, fs, n, timed) ==
    IF WantsFetch(t)
    THEN /\ CanSpawn(fs, t.symbol)
         /\ trk' = [trk EXCEPT ![t.symbol] = Fetching(t, TRUE)]
         /\ fetch' = Spawn(fs, t.symbol)
         /\ wg' = n + 1
         /\ timing' = timed \cup {t.symbol}
    ELSE /\ trk' = [trk EXCEPT ![t.symbol] = t]
         /\ fetch' = fs
         /\ wg' = n
         /\ timing' = timed

\* shard.load, up to the replay or to its end.
BeginLoad(sh, t, s, fs, n, timed) ==
    IF LoadOutcome(t, s) = "anchored"
    THEN /\ trk' = [trk EXCEPT ![t.symbol] = Anchor(t, s)]
         /\ loop' = [loop EXCEPT ![sh] =
                        [pc |-> "replay", symbol |-> t.symbol, at |-> 1]]
         /\ fetch' = fs
         /\ wg' = n
         /\ timing' = timed
    ELSE /\ FetchIfWanted(Anchor(t, s), fs, n, timed)
         /\ UNCHANGED loop

\* The receive of the head of the input queue.
Receive(sh, kind) ==
    /\ loop[sh] = Selecting
    /\ in[sh] # <<>>
    /\ Head(in[sh]).kind = kind
    /\ in' = [in EXCEPT ![sh] = Tail(@)]
    /\ UNCHANGED <<closed, stage, caller, feedVars>>

\* handle, KindBookDelta.  A symbol seen for the first time gets a tracker
\* and a request before Apply; Apply does not look at the request, so that
\* is the request the handler ends with.
HandleDelta(sh) ==
    /\ Receive(sh, "delta")
    /\ LET d == Head(in[sh]).body
           t == IF trk[d.symbol] = None THEN NewTracker(d.symbol) ELSE trk[d.symbol]
       IN  /\ FetchIfWanted(ApplyTo(t, d), fetch, wg, timing)
           /\ handled' = [handled EXCEPT ![d.symbol] = d.last]
    /\ UNCHANGED loop

\* handle, KindSnapshot: the request of a new tracker is in flight when Load
\* runs.
HandleSnapshot(sh) ==
    /\ Receive(sh, "snapshot")
    /\ LET s == Head(in[sh]).body
           sym == s.symbol
       IN  IF trk[sym] = None
           THEN /\ CanSpawn(fetch, sym)
                /\ BeginLoad(sh, Fetching(NewTracker(sym), TRUE), s,
                             Spawn(fetch, sym), wg + 1, timing \cup {sym})
           ELSE BeginLoad(sh, trk[sym], s, fetch, wg, timing)
    /\ UNCHANGED handled

\* handle, KindTrade: a trade touches no book.
HandleTrade(sh) ==
    /\ Receive(sh, "trade")
    /\ UNCHANGED <<loop, trk, timing, fetch, wg, handled>>

\* The receive of a result, after which the fetch goroutine is gone, and
\* shard.complete.
Complete(sym, k) ==
    LET sh  == ShardOf[sym]
        res == fetch[sym][k].result
        fs  == [fetch EXCEPT ![sym][k] = NoFetch]
    IN  /\ loop[sh] = Selecting
        /\ fetch[sym][k].pc = "deliver"
        /\ IF res = Failed
           THEN /\ FetchIfWanted(Fetching(trk[sym], FALSE), fs, wg - 1, timing)
                /\ UNCHANGED loop
           ELSE BeginLoad(sh, trk[sym], res, fs, wg - 1, timing)
        /\ UNCHANGED <<in, closed, stage, caller, feedVars, handled>>

\* One iteration of Load's replay; the last one is followed by the rest of
\* shard.load.
ReplayStep(sh) ==
    LET sym == loop[sh].symbol
        i   == loop[sh].at
        t   == ReplayOne(trk[sym], i)
    IN  /\ loop[sh].pc = "replay"
        /\ IF ReplayGoesOn(trk[sym], i)
           THEN /\ trk' = [trk EXCEPT ![sym] = t]
                /\ loop' = [loop EXCEPT ![sh].at = @ + 1]
                /\ UNCHANGED <<fetch, wg, timing>>
           ELSE /\ FetchIfWanted(t, fetch, wg,
                                 IF Live(t) THEN timing \ {sym} ELSE timing)
                /\ loop' = [loop EXCEPT ![sh] = Selecting]
        /\ UNCHANGED <<in, closed, stage, caller, feedVars, handled>>

\* The input is closed and drained: run returns and closes quit.
Stop(sh) ==
    /\ loop[sh] = Selecting
    /\ in[sh] = <<>>
    /\ sh \in closed
    /\ loop' = [loop EXCEPT ![sh] = Stopped]
    /\ wg' = wg - 1
    /\ UNCHANGED <<in, closed, trk, timing, fetch, stage, caller, feedVars, handled>>

-----------------------------------------------------------------------------
(***************************************************************************)
(* Queries.                                                                *)
(***************************************************************************)
SetCaller(c, r) ==
    /\ caller' = [caller EXCEPT ![c] = r]
    /\ UNCHANGED <<shardVars, fetch, wg, stage, feedVars, handled>>

\* Router.Query and Router.Check up to the send in ask.
Ask(c, q) ==
    /\ stage \in {"open", "closing"}
    /\ caller[c].pc = "idle"
    /\ q.check # None => q.check.symbol = q.symbol
    /\ SetCaller(c, [pc |-> "asking", q |-> q, outcome |-> None])

\* Mutant: a difference counts although the snapshot is of another moment.
VerdictsIgnoreSkew(t, s) ==
    IF Live(t) THEN IF Agrees(t.book, t.bounds, s) THEN {"ok"} ELSE {"diverged"}
    ELSE {"not live"}

\* What checkOne may make of the comparison of a tracker with a snapshot.
\* Compare does not validate: of the levels Reset would refuse it refuses one
\* price given twice, and compares the others like any level, so that what it
\* finds then is whatever they say, unless they lie outside the bounds.
Verdicts(t, s) ==
    LET differs == IF s.last # t.seq.last THEN "skewed" ELSE "diverged"
    IN  (IF s.valid THEN {} ELSE {"refused"}) \cup
        (CASE ~Live(t) -> {"not live"}
           [] Live(t) /\ ~s.valid -> {"ok", differs}
           [] Live(t) /\ s.valid ->
                IF Agrees(t.book, t.bounds, s) THEN {"ok"} ELSE {differs})

\* shard.answer, and checkOne's verdict when the request is a check.
Answers(q) ==
    LET t == trk[q.symbol]
    IN  CASE t = None -> {"unknown"}
          [] t # None /\ q.check = None -> {"view"}
          [] t # None /\ q.check # None -> Verdicts(t, q.check)

\* The shard takes the request and answers into the reply buffer.
Answer(c) ==
    /\ caller[c].pc = "asking"
    /\ loop[ShardOf[caller[c].q.symbol]] = Selecting
    /\ \E o \in Answers(caller[c].q) :
          SetCaller(c, [caller[c] EXCEPT !.pc = "answered", !.outcome = o])

\* Mutant: ask does not watch the quit channel of the shard.
AskReturnsAnswered(c) ==
    /\ caller[c].pc = "answered"
    /\ SetCaller(c, [pc |-> "idle", q |-> None, outcome |-> None])

\* ask returns: with the answer, because the shard has stopped without taking
\* the request, or because the caller's context is cancelled.
AskReturns(c) ==
    /\ \/ caller[c].pc = "answered"
       \/ /\ caller[c].pc = "asking"
          /\ loop[ShardOf[caller[c].q.symbol]] = Stopped
    /\ SetCaller(c, [pc |-> "idle", q |-> None, outcome |-> None])

GiveUp(c) ==
    /\ caller[c].pc \in {"asking", "answered"}
    /\ SetCaller(c, [pc |-> "idle", q |-> None, outcome |-> None])

-----------------------------------------------------------------------------
ShardStep(sh) ==
    \/ HandleDelta(sh)
    \/ HandleSnapshot(sh)
    \/ HandleTrade(sh)
    \/ ReplayStep(sh)
    \/ Stop(sh)

Upstream ==
    \/ \E d \in Deltas : RouteDelta(d)
    \/ \E sym \in Symbols, id \in Ids : Lose(sym, id)
    \/ \E s \in Snapshots : RouteSnapshot(s)
    \/ \E sym \in Symbols : RouteTrade(sym)

FetchStep(sym, k) ==
    \/ \E s \in Snapshots : FetchReturns(sym, k, s)
    \/ FetchFails(sym, k)
    \/ RetryOver(sym, k)
    \/ FetchAbandons(sym, k)

CallerStep(c) ==
    \/ \E q \in Questions : Ask(c, q)
    \/ Answer(c)
    \/ AskReturns(c)
    \/ GiveUp(c)

Next ==
    \/ Start
    \/ Upstream
    \/ \E sh \in Shards : CloseInput(sh) \/ ShardStep(sh)
    \/ CloseReturns
    \/ \E sym \in Symbols, k \in Slots : FetchStep(sym, k) \/ Complete(sym, k)
    \/ \E c \in Callers : CallerStep(c)

Spec == Init /\ [][Next]_vars

\* The scheduling the code can count on.  A goroutine that can run does; Go's
\* select chooses at random among the ready cases, so a case that is ready
\* again and again is chosen (strong fairness); a request returns, since it
\* runs under a context; and a venue that is asked again and again gives, in
\* the end, a snapshot as new as the stream.
Fresh(sym, k) ==
    \E s \in Snapshots :
        s.valid /\ s.last >= fed[sym] /\ FetchReturns(sym, k, s)

Fairness ==
    /\ \A sh \in Shards :
        /\ WF_vars(HandleDelta(sh) \/ HandleSnapshot(sh) \/ HandleTrade(sh))
        /\ WF_vars(ReplayStep(sh))
        /\ SF_vars(Stop(sh))
        /\ WF_vars(stage = "closing" /\ CloseInput(sh))
    /\ \A sym \in Symbols, k \in Slots :
        /\ WF_vars(FetchStep(sym, k))
        /\ SF_vars(Fresh(sym, k))
        /\ SF_vars(Complete(sym, k))
    /\ \A c \in Callers : SF_vars(Answer(c)) /\ WF_vars(AskReturns(c))
    /\ WF_vars(CloseReturns)

-----------------------------------------------------------------------------
(***************************************************************************)
(* Properties.                                                             *)
(***************************************************************************)
Tracked(sym) == trk[sym] # None

\* The shard that owns sym is between two iterations of its loop, or done.
Settled(sym) == loop[ShardOf[sym]].pc \in {"select", "stopped"}

\* Tracker.Live behind a router: every live book is the venue's book of its
\* own symbol at its own position, whichever snapshots and deltas raced.
LiveBooksAreVenueBooks ==
    \A sym \in Symbols :
        Tracked(sym) /\ Live(trk[sym]) => Accurate(trk[sym]) /\ NoPhantom(trk[sym])

\* shard.load and complete: a live book reflects every delta its shard has
\* handled, so no late result takes it back behind one.
LiveBooksAreCurrent ==
    \A sym \in Symbols :
        Tracked(sym) /\ Settled(sym) /\ Live(trk[sym])
            => trk[sym].seq.last >= handled[sym]

StaleBookIsBeingFetched ==
    \A sym \in Symbols :
        Tracked(sym) /\ Settled(sym) /\ ~Live(trk[sym])
            => trk[sym].fetching /\ (stage = "open" => InFlight(sym) # {})

OneFetchPerSymbol ==
    \A sym \in Symbols : Cardinality(InFlight(sym)) <= 1

LiveBookHasNoFetch ==
    \A sym \in Symbols :
        Tracked(sym) /\ Settled(sym) /\ Live(trk[sym]) => InFlight(sym) = {}

\* BeginFetch: "or the tracker will never ask again".  A book that is not live
\* always has a request in flight that will come back to its shard.  While no
\* snapshot has come in with the stream there is one request per symbol, and
\* none for a live book, which is what waitSettled of cmd/replay counts on.
FetchesFollowTheBook ==
    /\ StaleBookIsBeingFetched
    /\ streamed = 0 => OneFetchPerSymbol /\ LiveBookHasNoFetch

\* fetchedAt: a resync is being timed exactly while a book is not live, so
\* every resync is observed, and no timing is left behind for the next one.
TimedWhileStale ==
    \A sym \in Symbols :
        Settled(sym) => (sym \in timing <=> Tracked(sym) /\ ~Live(trk[sym]))

\* checkOne: a check that finds a live book different from a snapshot taken at
\* the book's own update id has been given a malformed snapshot.  The counter
\* of divergences never moves for a snapshot a book could be loaded from.
NoCheckDiverges ==
    \A c \in Callers :
        caller[c].outcome = "diverged" => ~caller[c].q.check.valid

\* Close: once it has returned, every shard has stopped with its queue drained
\* and no fetch goroutine is left behind.
CloseLeavesNothing ==
    stage = "returned" =>
        /\ \A sh \in Shards : loop[sh] = Stopped /\ in[sh] = <<>>
        /\ \A sym \in Symbols : InFlight(sym) = {}

\* Close returns, however many requests, queries and events are in flight.
CloseTerminates == stage = "closing" ~> stage = "returned"

\* A tracked book becomes live, and becomes live again after every gap, unless
\* the router is closed first.
StaleBooksRecover ==
    \A sym \in Symbols :
        (Tracked(sym) /\ stage = "open")
            ~> (stage # "open" \/ (Tracked(sym) /\ Settled(sym) /\ Live(trk[sym])))

\* ask: a query returns, answered or refused, also when the shard stops while
\* the request is parked on it.
QueriesReturn ==
    \A c \in Callers : caller[c].pc # "idle" ~> caller[c].pc = "idle"
=============================================================================
