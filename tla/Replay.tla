------------------------------- MODULE Replay -------------------------------
(***************************************************************************)
(* cmd/replay/main.go with internal/record/source.go and reader.go: a      *)
(* recording is run through the book stage of module Router, with the      *)
(* recorded snapshots in place of the venue, until the stage has settled;  *)
(* the books are then dumped.  The recording may be replayed several times *)
(* and the dumps compared.                                                 *)
(*                                                                         *)
(* The goroutines are the source, the main goroutine, and the shards and   *)
(* fetch goroutines of Router.  The main goroutine is the only caller of   *)
(* queries.                                                                *)
(***************************************************************************)
EXTENDS Router, SequencesExt

CONSTANTS
    Recordings,   \* the recordings: sequences of records, files in order
    FrameCap,     \* frameCap: the capacity of the frames channel
    Repeats,      \* cfg.repeat
    Main          \* the main goroutine, as a caller of queries

\* What a frame decodes to.  The venue's stream carries no snapshots; those of
\* a recording are the answers to the requests of the process that made it.
FrameEvents ==
    [kind: {"delta"}, body: Deltas]
        \cup [kind: {"trade"}, body: [symbol: Symbols]]
        \cup {[kind |-> "undecodable"]}

TapeRecords ==
    [kind: {"meta", "drop", "corrupt"}]
        \cup [kind: {"frame"}, body: FrameEvents]
        \cup [kind: {"snapshot"}, body: Snapshots]

\* BookView, as far as a dump shows it.
Views == [live: BOOLEAN, last: Ids, book: Books]

ASSUME ReplayAssumption ==
    /\ Callers = {Main}
    /\ FrameCap \in Nat \ {0} /\ Repeats \in Nat \ {0}
    /\ \A tp \in Recordings : tp \in Seq(TapeRecords)
    /\ None \notin FrameEvents \cup Views \cup {"eof", "cancelled"}

VARIABLES
    tape,     \* the recording
    src,      \* the source: the record it is at, and how its Run returned
    frames,   \* the frames channel
    main,     \* where the main goroutine is, see Step
    known,    \* symbols: those of the deltas and snapshots routed so far
    served,   \* store.next: where in the recording the last snapshot served is
    moved,    \* the shards with a counter that moved since it was sampled
    view,     \* the view the last query returned
    settled,  \* waitSettled returned true
    dump,     \* the views dumped so far
    first,    \* the dump of the first repeat, or None
    rep,      \* the repeat, from 1
    ctx,      \* the context is cancelled
    result    \* what run returned, or None

routerVars == <<in, closed, loop, trk, timing, fetch, wg, stage, caller, fed,
                streamed, handled>>
pipeVars   == <<src, frames, known, served, moved, view, settled, dump>>
rvars      == <<routerVars, pipeVars, tape, main, first, rep, ctx, result>>

\* The main goroutine: `pc' and, in a loop over the shards or the symbols,
\* what is left of it and whether all of it was well so far; `held' is the
\* frame in its hands.
Step(pc, todo) == [pc |-> pc, todo |-> todo, ok |-> TRUE, held |-> None]

-----------------------------------------------------------------------------
(***************************************************************************)
(* The recording.                                                          *)
(***************************************************************************)
\* ReplaySource.scan and SnapshotStore: the snapshots of a symbol that were
\* not served yet, as their places in the recording.
Unserved(sym) ==
    {i \in 1 .. Len(tape) : /\ i > served[sym]
                            /\ tape[i].kind = "snapshot"
                            /\ tape[i].body.symbol = sym}

\* NewReplaySource: a record that does not read back, in any file, fails the
\* first pass, and so does a recording without metadata.
Readable ==
    /\ \A i \in 1 .. Len(tape) : tape[i].kind # "corrupt"
    /\ \E i \in 1 .. Len(tape) : tape[i].kind = "meta"

\* ReplaySource.Run sends the frames and skips every other record.
FrameAt(i) == i <= Len(tape) /\ tape[i].kind = "frame"

NewSource == [at |-> 1, returned |-> None]

-----------------------------------------------------------------------------
(***************************************************************************)
(* replayOnce, from the new pipeline to its Close, and the loop in run.    *)
(***************************************************************************)
RInit ==
    /\ Init
    /\ src = NewSource /\ frames = <<>> /\ known = {} /\ moved = {}
    /\ served = [sym \in Symbols |-> 0]
    /\ view = None /\ settled = FALSE /\ dump = <<>>
    /\ tape \in Recordings
    /\ main = Step("open", {})
    /\ first = None /\ rep = 1
    /\ ctx = FALSE
    /\ result = None

\* The pipeline of the next repeat, as RInit has it.
NewPipeline ==
    /\ in' = [sh \in Shards |-> <<>>]
    /\ closed' = {}
    /\ loop' = [sh \in Shards |-> [Selecting EXCEPT !.pc = "new"]]
    /\ trk' = [sym \in Symbols |-> None]
    /\ timing' = {} /\ wg' = 0 /\ stage' = "new"
    /\ fetch' = [sym \in Symbols |-> [k \in Slots |-> NoFetch]]
    /\ caller' = [c \in Callers |-> [pc |-> "idle", q |-> None, outcome |-> None]]
    /\ fed' = [sym \in Symbols |-> 0] /\ streamed' = 0
    /\ handled' = [sym \in Symbols |-> 0]
    /\ src' = NewSource /\ frames' = <<>> /\ known' = {} /\ moved' = {}
    /\ served' = [sym \in Symbols |-> 0]
    /\ view' = None /\ settled' = FALSE /\ dump' = <<>>

\* NewReplaySource and the router's Start, or the error of the first pass.
Open ==
    /\ main.pc = "open"
    /\ IF Readable
       THEN /\ Start
            /\ main' = Step("select", {})
            /\ UNCHANGED result
       ELSE /\ main' = Step("done", {})
            /\ result' = "unreadable"
            /\ UNCHANGED routerVars
    /\ UNCHANGED <<pipeVars, tape, first, rep, ctx>>

\* SIGINT or SIGTERM.
Cancel ==
    /\ main.pc # "done"
    /\ ~ctx
    /\ ctx' = TRUE
    /\ UNCHANGED <<routerVars, pipeVars, tape, main, first, rep, result>>

\* The source goroutine: one record, or the end of Run.
SourceReads ==
    /\ stage = "open"
    /\ src.returned = None
    /\ src.at <= Len(tape)
    /\ FrameAt(src.at) => Len(frames) < FrameCap
    /\ frames' = IF FrameAt(src.at) THEN Append(frames, tape[src.at].body) ELSE frames
    /\ src' = [src EXCEPT !.at = @ + 1]
    /\ UNCHANGED <<routerVars, known, served, moved, view, settled, dump, tape,
                   main, first, rep, ctx, result>>

SourceReturns ==
    /\ stage = "open"
    /\ src.returned = None
    /\ \/ src.at > Len(tape) /\ src' = [src EXCEPT !.returned = "eof"]
       \/ ctx /\ FrameAt(src.at) /\ src' = [src EXCEPT !.returned = "cancelled"]
    /\ UNCHANGED <<routerVars, frames, known, served, moved, view, settled, dump,
                   tape, main, first, rep, ctx, result>>

-----------------------------------------------------------------------------
(***************************************************************************)
(* The main goroutine up to the last frame.                                *)
(***************************************************************************)
MainOnly == UNCHANGED <<tape, first, rep, ctx, result>>

\* Both selects receive a frame when there is one.
TakeFrame ==
    /\ main.pc \in {"select", "drain"}
    /\ main.held = None
    /\ frames # <<>>
    /\ main' = [main EXCEPT !.held = Head(frames)]
    /\ frames' = Tail(frames)
    /\ UNCHANGED <<routerVars, src, known, served, moved, view, settled, dump>>
    /\ MainOnly

\* handle: a frame that does not decode is skipped, any other is routed.
Handle ==
    LET ev == main.held
    IN  /\ main.held # None
        /\ main' = [main EXCEPT !.held = None]
        /\ IF ev.kind = "undecodable" THEN UNCHANGED <<routerVars, known>>
           ELSE /\ Route(ev)
                /\ UNCHANGED feedVars
                /\ known' = IF ev.kind \in {"delta", "snapshot"}
                            THEN known \cup {ev.body.symbol} ELSE known
        /\ UNCHANGED <<src, frames, served, moved, view, settled, dump>>
        /\ MainOnly

\* Route gives up because the context is cancelled: replayOnce returns.
HandleGivesUp ==
    /\ main.held # None
    /\ main.held.kind # "undecodable"
    /\ ctx
    /\ main' = Step("close", {})
    /\ result' = "cancelled"
    /\ UNCHANGED <<routerVars, pipeVars, tape, first, rep, ctx>>

\* The select takes the source's return although frames may still be queued.
SourceIsDone ==
    /\ main.pc = "select"
    /\ main.held = None
    /\ src.returned # None
    /\ main' = Step("drain", {})
    /\ UNCHANGED <<routerVars, pipeVars>>
    /\ MainOnly

\* Mutant: the frames still queued are not drained.
Undrained ==
    /\ main.pc = "drain"
    /\ main.held = None
    /\ IF src.returned = "eof"
       THEN main' = Step("sample", Shards) /\ UNCHANGED result
       ELSE main' = Step("close", {}) /\ result' = "cancelled"
    /\ UNCHANGED <<routerVars, pipeVars, tape, first, rep, ctx>>

\* The default case of the drain.
Drained ==
    /\ main.pc = "drain"
    /\ main.held = None
    /\ frames = <<>>
    /\ IF src.returned = "eof"
       THEN main' = Step("sample", Shards) /\ UNCHANGED result
       ELSE main' = Step("close", {}) /\ result' = "cancelled"
    /\ UNCHANGED <<routerVars, pipeVars, tape, first, rep, ctx>>

-----------------------------------------------------------------------------
(***************************************************************************)
(* waitSettled and dumpViews.  The counters only ever go up, so two        *)
(* samples are equal exactly when no counter moved between them; the sums  *)
(* are read shard by shard while the shards run.                           *)
(***************************************************************************)
\* The shard or the symbol a loop in a fixed order comes to next.
NextOf(todo) == CHOOSE x \in todo : TRUE

MainWaits ==
    /\ UNCHANGED <<routerVars, src, frames, known, served, view, dump>>
    /\ MainOnly

\* Router.Stats, one shard, compared with the last sample.
Sample ==
    LET sh == NextOf(main.todo)
    IN  /\ main.pc = "sample"
        /\ main.todo # {}
        /\ main' = [main EXCEPT !.todo = @ \ {sh}, !.ok = @ /\ sh \notin moved]
        /\ moved' = moved \ {sh}
        /\ UNCHANGED settled
        /\ MainWaits

\* Mutant: the depth of the queue is not looked at.
SkipDepth ==
    LET sh == NextOf(main.todo)
    IN  /\ main.pc = "depths"
        /\ main.todo # {}
        /\ main' = [main EXCEPT !.todo = @ \ {sh}]
        /\ UNCHANGED <<settled, moved>>
        /\ MainWaits

\* queuesEmpty, one shard.
ReadDepth ==
    LET sh == NextOf(main.todo)
    IN  /\ main.pc = "depths"
        /\ main.todo # {}
        /\ main' = [main EXCEPT !.todo = @ \ {sh}, !.ok = @ /\ in[sh] = <<>>]
        /\ UNCHANGED <<settled, moved>>
        /\ MainWaits

\* The condition of waitSettled, up to the queries of allLive.
PassIsOver ==
    /\ main.pc \in {"sample", "depths"}
    /\ main.todo = {}
    /\ main' = IF ~main.ok THEN Step("pause", {})
               ELSE IF main.pc = "sample" THEN Step("depths", Shards)
               ELSE Step("live", known)
    /\ UNCHANGED <<settled, moved>>
    /\ MainWaits

\* Router.Query for one symbol: a map is read in any order, the dump in one.
AskBook(sym) ==
    /\ main.pc \in {"live", "dump"}
    /\ sym \in main.todo
    /\ main.pc = "dump" => sym = NextOf(main.todo)
    /\ Ask(Main, [symbol |-> sym, check |-> None])
    /\ UNCHANGED <<pipeVars, main>>
    /\ MainOnly

ViewOf(t) == [live |-> Live(t), last |-> t.seq.last, book |-> t.book]

\* shard.answer
AnswerMain ==
    LET sym == caller[Main].q.symbol
    IN  /\ Answer(Main)
        /\ view' = IF trk[sym] = None THEN None ELSE ViewOf(trk[sym])
        /\ moved' = moved \cup {ShardOf[sym]}
        /\ UNCHANGED <<src, frames, known, served, settled, dump, main>>
        /\ MainOnly

\* The rest of allLive after one answer: it stops at the first book that is
\* not live or not known.
LiveReturns ==
    LET sym == caller[Main].q.symbol
    IN  /\ main.pc = "live"
        /\ caller[Main].pc = "answered"
        /\ AskReturns(Main)
        /\ main' = IF view # None /\ view.live
                   THEN [main EXCEPT !.todo = @ \ {sym}] ELSE Step("pause", {})
        /\ view' = None
        /\ UNCHANGED <<src, frames, known, served, moved, settled, dump>>
        /\ MainOnly

\* waitSettled returns true.
AllLive ==
    /\ main.pc = "live"
    /\ main.todo = {}
    /\ main' = Step("dump", known)
    /\ settled' = TRUE
    /\ UNCHANGED moved
    /\ MainWaits

\* The pause between two samples.
SampleAgain ==
    /\ main.pc = "pause"
    /\ main' = Step("sample", Shards)
    /\ UNCHANGED <<settled, moved>>
    /\ MainWaits

\* Nothing is left to do but requests the recording has no snapshot for.
OnlyRetriesLeft ==
    /\ \A sh \in Shards : in[sh] = <<>> /\ loop[sh] = Selecting
    /\ \A sym \in Symbols, k \in Slots : fetch[sym][k].pc # "free" =>
          fetch[sym][k].result \in {None, Failed} /\ Unserved(sym) = {}
    /\ \E sym \in Symbols : InFlight(sym) # {}

\* Mutant: the wait has no deadline.
NoDeadline ==
    /\ main.pc = "pause"
    /\ ctx
    /\ main' = Step("dump", known)
    /\ UNCHANGED <<settled, moved>>
    /\ MainWaits

\* waitSettled returns false: the deadline is past or the context cancelled.
\* Thirty seconds are taken to be more than the queues and a snapshot that is
\* in memory ever need.
NotSettled ==
    /\ main.pc = "pause"
    /\ ctx \/ OnlyRetriesLeft
    /\ main' = Step("dump", known)
    /\ UNCHANGED <<settled, moved>>
    /\ MainWaits

\* dumpViews, after one answer.
DumpReturns ==
    LET sym == caller[Main].q.symbol
    IN  /\ main.pc = "dump"
        /\ caller[Main].pc = "answered"
        /\ AskReturns(Main)
        /\ IF view = None
           THEN main' = Step("close", {}) /\ result' = "unknown symbol" /\ UNCHANGED dump
           ELSE /\ main' = [main EXCEPT !.todo = @ \ {sym}]
                /\ dump' = [x \in DOMAIN dump \cup {sym} |->
                                IF x = sym THEN view ELSE dump[x]]
                /\ UNCHANGED result
        /\ view' = None
        /\ UNCHANGED <<src, frames, known, served, moved, settled, tape, first, rep, ctx>>

\* The context is cancelled under a query: allLive is false, dumpViews fails.
QueryGivesUp ==
    /\ ctx
    /\ GiveUp(Main)
    /\ view' = None
    /\ IF main.pc = "live" THEN main' = Step("pause", {}) /\ UNCHANGED result
       ELSE main' = Step("close", {}) /\ result' = "cancelled"
    /\ UNCHANGED <<src, frames, known, served, moved, settled, dump, tape, first, rep, ctx>>

Dumped ==
    /\ main.pc = "dump"
    /\ main.todo = {}
    /\ main' = Step("close", {})
    /\ UNCHANGED <<settled, moved>>
    /\ MainWaits

-----------------------------------------------------------------------------
(***************************************************************************)
(* The book stage.                                                         *)
(***************************************************************************)
\* A counter moves when an iteration of the shard's loop is through.
Counted(sh) ==
    moved' = IF loop'[sh] = Selecting THEN moved \cup {sh} ELSE moved

StageOnly ==
    /\ UNCHANGED <<src, frames, known, view, settled, dump, main>>
    /\ MainOnly

ShardRuns(sh) ==
    /\ HandleDelta(sh) \/ HandleTrade(sh) \/ ReplayStep(sh)
    /\ Counted(sh)
    /\ UNCHANGED served
    /\ StageOnly

ShardCompletes(sym, k) ==
    /\ Complete(sym, k)
    /\ Counted(ShardOf[sym])
    /\ UNCHANGED served
    /\ StageOnly

\* SnapshotStore.Snapshot: the next one that was not served,
StoreServes(sym, k) ==
    /\ \E i \in Unserved(sym) :
          /\ \A j \in Unserved(sym) : i <= j
          /\ FetchReturns(sym, k, tape[i].body)
          /\ served' = [served EXCEPT ![sym] = i]
    /\ UNCHANGED moved
    /\ StageOnly

\* or ErrNoSnapshot, or the context's error.
StoreRefuses(sym, k) ==
    /\ Unserved(sym) = {} \/ ctx
    /\ FetchFails(sym, k)
    /\ UNCHANGED <<served, moved>>
    /\ StageOnly

FetchLeaves(sym, k) ==
    /\ RetryOver(sym, k) \/ FetchAbandons(sym, k)
    /\ UNCHANGED <<served, moved>>
    /\ StageOnly

-----------------------------------------------------------------------------
(***************************************************************************)
(* The deferred Close, and the comparison of the dumps in run.             *)
(***************************************************************************)
Closing ==
    /\ main.pc = "close"
    /\ \/ \E sh \in Shards : CloseInput(sh)
       \/ \E sh \in Shards : Stop(sh)
    /\ UNCHANGED <<pipeVars, main>>
    /\ MainOnly

RouterIsClosed ==
    /\ main.pc = "close"
    /\ CloseReturns
    /\ main' = Step("compare", {})
    /\ UNCHANGED pipeVars
    /\ MainOnly

\* run: an error ends it, a first dump is kept, another one must be equal.
Compare ==
    /\ main.pc = "compare"
    /\ IF result # None \/ (first # None /\ first # dump) \/ rep = Repeats
       THEN /\ main' = Step("done", {})
            /\ first' = IF first = None THEN dump ELSE first
            /\ result' = IF result # None THEN result
                         ELSE IF first # None /\ first # dump THEN "different"
                         ELSE "written"
            /\ UNCHANGED <<routerVars, pipeVars, rep>>
       ELSE /\ NewPipeline
            /\ main' = Step("open", {})
            /\ first' = dump
            /\ rep' = rep + 1
            /\ UNCHANGED result
    /\ UNCHANGED <<tape, ctx>>

-----------------------------------------------------------------------------
Source == SourceReads \/ SourceReturns

MainRoutes == TakeFrame \/ Handle \/ HandleGivesUp \/ SourceIsDone \/ Drained

MainSettles ==
    \/ Sample
    \/ ReadDepth
    \/ PassIsOver
    \/ \E sym \in Symbols : AskBook(sym)
    \/ LiveReturns
    \/ AllLive
    \/ SampleAgain
    \/ NotSettled
    \/ DumpReturns
    \/ QueryGivesUp
    \/ Dumped

MainEnds == Open \/ Closing \/ RouterIsClosed \/ Compare

FetchRuns(sym, k) ==
    \/ StoreServes(sym, k)
    \/ StoreRefuses(sym, k)
    \/ FetchLeaves(sym, k)

StageRuns ==
    \/ \E sh \in Shards : ShardRuns(sh)
    \/ \E sym \in Symbols, k \in Slots : ShardCompletes(sym, k) \/ FetchRuns(sym, k)
    \/ AnswerMain

RNext == Source \/ MainRoutes \/ MainSettles \/ MainEnds \/ StageRuns \/ Cancel

RSpec == RInit /\ [][RNext]_rvars

MainRuns == MainRoutes \/ MainSettles \/ MainEnds

\* Goroutines that can run do; a query or a result that waits at a shard's
\* select is taken, since events run out.  The deadline comes: a wait that is
\* past it again and again ends.  Nothing is assumed of the signal.
RFairness ==
    /\ WF_rvars(Source)
    /\ WF_rvars(MainRuns)
    /\ SF_rvars(NotSettled)
    /\ WF_rvars(AnswerMain)
    /\ WF_rvars(\E sh \in Shards : ShardRuns(sh))
    /\ \A sym \in Symbols, k \in Slots :
        WF_rvars(FetchRuns(sym, k)) /\ WF_rvars(ShardCompletes(sym, k))

RFairSpec == RSpec /\ RFairness

-----------------------------------------------------------------------------
(***************************************************************************)
(* What a recording says: every request is answered at once, so that the   *)
(* books are a function of the recording alone.                            *)
(***************************************************************************)
\* All snapshots of sym, in the order recorded.
Stored(sym) ==
    LET ofSym(rec) == rec.kind = "snapshot" /\ rec.body.symbol = sym
        hits == SelectSeq(tape, ofSym)
    IN  [i \in DOMAIN hits |-> hits[i].body]

\* Tracker.Load in one go.
Loaded(t, s) ==
    LET one(st, i) ==
            IF st.done THEN st
            ELSE [t |-> ReplayOne(st.t, i), done |-> ~ReplayGoesOn(st.t, i)]
        all == [i \in 1 .. Len(t.buf) + 1 |-> i]
    IN  FoldLeft(one, [t |-> Anchor(t, s), done |-> LoadOutcome(t, s) # "anchored"], all).t

\* One snapshot after the other until one anchors the book.
Anchored(st) ==
    LET one(r, s) ==
            IF Live(r.t) THEN r ELSE [t |-> Loaded(r.t, s), rest |-> Tail(r.rest)]
    IN  FoldLeft(one, st, st.rest)

\* The book of sym at the end of the recording.
Expected(sym) ==
    LET ofSym(rec) == /\ rec.kind = "frame"
                      /\ rec.body.kind = "delta"
                      /\ rec.body.body.symbol = sym
        one(st, rec) == Anchored([st EXCEPT !.t = ApplyTo(st.t, rec.body.body)])
        start == [t |-> NewTracker(sym), rest |-> Stored(sym)]
    IN  ViewOf(FoldLeft(one, start, SelectSeq(tape, ofSym)).t)

Recorded ==
    {sym \in Symbols : \E i \in 1 .. Len(tape) :
        FrameAt(i) /\ tape[i].body.kind = "delta" /\ tape[i].body.body.symbol = sym}

-----------------------------------------------------------------------------
(***************************************************************************)
(* Properties.                                                             *)
(***************************************************************************)
\* waitSettled: "the stage is idle and its state is final".  Once it has
\* returned true, no book of this pipeline changes again, although the three
\* conditions were looked at one after the other.
SettledIsFinal == [][settled /\ settled' => trk' = trk]_rvars

\* run: the dump of a replay that is not interrupted shows every symbol of
\* which the recording holds a delta, and no other, although frames are still
\* queued when the source returns and books may never become live.
DumpIsComplete ==
    main.pc \in {"close", "compare"} /\ ~ctx => DOMAIN dump = Recorded

\* dumpViews asks for one book after the other while the shards run.  Once the
\* stage has settled the dump is nevertheless the state of all of them at one
\* moment, and every book in it is live and the venue's.
DumpIsConsistent ==
    settled => \A sym \in DOMAIN dump :
        /\ dump[sym] = ViewOf(trk[sym])
        /\ Live(trk[sym]) /\ Accurate(trk[sym]) /\ NoPhantom(trk[sym])

\* cmd/replay: "two runs of one recording must produce the same bytes".  Unless
\* it is interrupted, a replay that fits its buffers dumps the books that the
\* recording alone determines, also those the recording cannot anchor.
DumpIsOfTheRecording ==
    main.pc \in {"close", "compare"} /\ ~ctx =>
        \A sym \in DOMAIN dump : dump[sym] = Expected(sym)

\* run: "two repeats that dumped different books would mean the replay is not
\* deterministic after all".
RepeatsAgree == result = "different" => ctx

\* settleTimeout: "A book that never anchors ... would otherwise hold the run
\* open forever".  Every replay ends.
ReplayEnds == <>(main.pc = "done")
=============================================================================
