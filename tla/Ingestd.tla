------------------------------ MODULE Ingestd ------------------------------
(***************************************************************************)
(* cmd/ingestd: run wires transport, recorder, publisher and router, pumps *)
(* frames through them, and takes them down again with deferred calls.     *)
(* The transport is module Transport.  A stage is what modules Router,     *)
(* Publisher and Recorder show of it: a bounded queue and a goroutine that *)
(* empties it, which Close drains and joins; the book stage also has fetch *)
(* goroutines, whose snapshots pass through the recorder first.            *)
(*                                                                         *)
(* The background workers are the checker, which queries the router, and   *)
(* the metrics server.  Recording and checking are on.  Events and frames  *)
(* are counted, not told apart.                                            *)
(***************************************************************************)
EXTENDS Transport, SequencesExt

CONSTANTS
    StageCap,    \* the capacity of every stage's queue
    Fetchers     \* the fetch goroutines there can be at a time

ASSUME IngestdAssumption == StageCap \in Nat \ {0}

Stages == {"recorder", "publisher", "router"}

VARIABLES
    stage,     \* stage[s]: "open"; "closing", its queue closed; "drained",
               \* its goroutine gone; "closed", Close has returned
    queue,     \* queue[s]: how much waits in a stage
    fetch,     \* fetch[k]: "free", "request", "record", "deliver"
    main,      \* where run is; the name of a stage while it closes it
    working,   \* stopWorkers has not been called
    checker,   \* "idle", "request", "asking", "gone"
    server,    \* the server goroutine: "serving", "gone"
    late       \* history: stages called after their Close was

workerVars == <<working, checker, server>>
ivars == <<tvars, ctx, stage, queue, fetch, main, workerVars, late>>

\* Everything is started; what runs from here is the loop of run.
IInit ==
    /\ TInit
    /\ stage = [s \in Stages |-> "open"]
    /\ queue = [s \in Stages |-> 0]
    /\ fetch = [k \in Fetchers |-> "free"]
    /\ main = "select"
    /\ working = TRUE /\ checker = "idle" /\ server = "serving"
    /\ late = {}

\* SIGINT or SIGTERM.
Cancel ==
    /\ ~ctx
    /\ ctx' = TRUE
    /\ UNCHANGED <<tvars, stage, queue, fetch, main, workerVars, late>>

TransportStep ==
    /\ TransportRuns
    /\ UNCHANGED <<stage, queue, fetch, main, workerVars, late>>

\* A call into a stage, which must come before its Close.
Calls(s) == late' = IF stage[s] = "open" THEN late ELSE late \cup {s}

\* A send that drops when the queue is full.
Offer(s) ==
    /\ Calls(s)
    /\ queue' = [queue EXCEPT ![s] = Min({@ + 1, StageCap})]

-----------------------------------------------------------------------------
(***************************************************************************)
(* The loop of run.                                                        *)
(***************************************************************************)
LoopOnly == UNCHANGED <<ctx, conn, delivered, wait, failures, stage, fetch, workerVars>>

\* A frame is taken off the channel and recorded; it may not decode.
TakeFrame ==
    /\ main = "select"
    /\ frames > 0
    /\ frames' = frames - 1
    /\ Offer("recorder")
    /\ main' \in {"select", "route"}
    /\ LoopOnly

\* Route waits for room in the queue, or returns the context's error.
Route ==
    /\ main = "route"
    /\ \/ /\ queue["router"] < StageCap
          /\ Offer("router")
          /\ main' = "publish"
       \/ /\ ctx
          /\ main' = "summary"
          /\ UNCHANGED <<queue, late>>
    /\ UNCHANGED frames
    /\ LoopOnly

\* Publish drops the oldest event of a full subscriber.
Publish ==
    /\ main = "publish"
    /\ Offer("publisher")
    /\ main' = "select"
    /\ UNCHANGED frames
    /\ LoopOnly

\* errc: the transport has returned, with frames perhaps still queued.
TransportIsDone ==
    /\ main = "select"
    /\ conn = "returned"
    /\ main' = "summary"
    /\ UNCHANGED <<frames, queue, late>>
    /\ LoopOnly

-----------------------------------------------------------------------------
(***************************************************************************)
(* The deferred calls, last registered first.                              *)
(***************************************************************************)
MainOnly == UNCHANGED <<tvars, ctx, queue, fetch, checker, server, late>>

\* logFinal, and then stopWorkers.
StopWorkers ==
    /\ main = "summary"
    /\ working' = FALSE
    /\ main' = "join"
    /\ UNCHANGED stage
    /\ MainOnly

\* Mutant: the stages are closed in the order they were started in.
DeferredAsStarted == <<"recorder", "publisher", "router">>

\* The deferred closes, in the order they run.
Deferred == <<"router", "publisher", "recorder">>

JoinWorkers ==
    /\ main = "join"
    /\ checker = "gone" /\ server = "gone"
    /\ main' = Head(Deferred)
    /\ UNCHANGED <<stage, working>>
    /\ MainOnly

\* close of the stage's queue.
Close(s) ==
    /\ main = s
    /\ stage[s] = "open"
    /\ stage' = [stage EXCEPT ![s] = "closing"]
    /\ UNCHANGED <<main, working>>
    /\ MainOnly

\* wg.Wait returns: every goroutine of the stage is gone.
CloseReturns(s) ==
    /\ main = s
    /\ stage[s] = "drained"
    /\ s = "router" => \A k \in Fetchers : fetch[k] = "free"
    /\ stage' = [stage EXCEPT ![s] = "closed"]
    /\ main' = IF s = Last(Deferred) THEN "returned"
               ELSE Deferred[CHOOSE i \in 2 .. Len(Deferred) : Deferred[i - 1] = s]
    /\ UNCHANGED working
    /\ MainOnly

Main ==
    \/ TakeFrame
    \/ Route
    \/ Publish
    \/ TransportIsDone
    \/ StopWorkers
    \/ JoinWorkers
    \/ \E s \in Stages : Close(s) \/ CloseReturns(s)

-----------------------------------------------------------------------------
(***************************************************************************)
(* The stages' goroutines.                                                 *)
(***************************************************************************)
StageOnly == UNCHANGED <<tvars, ctx, main, workerVars>>

\* A stage handles what it took; a delta may make the book stage ask for a
\* snapshot.
Handle(s) ==
    /\ stage[s] \in {"open", "closing"}
    /\ queue[s] > 0
    /\ queue' = [queue EXCEPT ![s] = @ - 1]
    /\ \/ UNCHANGED fetch
       \/ /\ s = "router"
          /\ \E k \in Fetchers : fetch[k] = "free" /\ fetch' = [fetch EXCEPT ![k] = "request"]
    /\ UNCHANGED <<stage, late>>
    /\ StageOnly

\* Mutant: the loop selects on the context as well.
LeaveOnCancel(s) ==
    /\ stage[s] = "closing"
    /\ queue[s] = 0 \/ ctx
    /\ stage' = [stage EXCEPT ![s] = "drained"]
    /\ UNCHANGED <<queue, fetch, late>>
    /\ StageOnly

\* The range over the queue ends, and the shard closes quit.
Leave(s) ==
    /\ stage[s] = "closing"
    /\ queue[s] = 0
    /\ stage' = [stage EXCEPT ![s] = "drained"]
    /\ UNCHANGED <<queue, fetch, late>>
    /\ StageOnly

\* The request returns: with a snapshot, or with an error that is held for
\* the retry delay, the context or quit.
Answer(k) ==
    /\ fetch[k] = "request"
    /\ fetch' \in {[fetch EXCEPT ![k] = "deliver"], [fetch EXCEPT ![k] = "record"]}
    /\ UNCHANGED <<stage, queue, late>>
    /\ StageOnly

\* The tee: the snapshot is recorded, if the recorder has room.
Record(k) ==
    /\ fetch[k] = "record"
    /\ Offer("recorder")
    /\ fetch' = [fetch EXCEPT ![k] = "deliver"]
    /\ UNCHANGED stage
    /\ StageOnly

\* Mutant: the goroutine waits for the shard and for nothing else.
DeliverWithoutQuit(k) ==
    /\ fetch[k] = "deliver"
    /\ stage["router"] \in {"open", "closing"}
    /\ fetch' \in {[fetch EXCEPT ![k] = "free"], [fetch EXCEPT ![k] = "request"]}
    /\ UNCHANGED <<stage, queue, late>>
    /\ StageOnly

\* The shard takes the result and may ask again; once it has left, the fetch
\* goroutine sees quit.
Deliver(k) ==
    /\ fetch[k] = "deliver"
    /\ \/ fetch' = [fetch EXCEPT ![k] = "free"]
       \/ /\ stage["router"] \in {"open", "closing"}
          /\ fetch' = [fetch EXCEPT ![k] = "request"]
    /\ UNCHANGED <<stage, queue, late>>
    /\ StageOnly

StageStep ==
    \/ \E s \in Stages : Handle(s) \/ Leave(s)
    \/ \E k \in Fetchers : Answer(k) \/ Record(k) \/ Deliver(k)

-----------------------------------------------------------------------------
(***************************************************************************)
(* The background workers.  Their context is a child of the process's.     *)
(***************************************************************************)
WorkerOnly == UNCHANGED <<tvars, ctx, stage, queue, fetch, main, working>>

Stopped == ctx \/ ~working

\* The ticker, or the next symbol of the round.
CheckBegins ==
    /\ checker = "idle"
    /\ checker' = "request"
    /\ UNCHANGED <<server, late>>
    /\ WorkerOnly

\* The venue's snapshot has arrived and the router is asked, or the request
\* failed.
CheckAsks ==
    /\ checker = "request"
    /\ \/ checker' = "asking" /\ Calls("router")
       \/ checker' = "idle" /\ UNCHANGED late
    /\ UNCHANGED server
    /\ WorkerOnly

\* The shard answers, it has left, or the context ends.
CheckReturns ==
    /\ checker = "asking"
    /\ checker' = "idle"
    /\ UNCHANGED <<server, late>>
    /\ WorkerOnly

CheckerLeaves ==
    /\ checker = "idle"
    /\ Stopped
    /\ checker' = "gone"
    /\ UNCHANGED <<server, late>>
    /\ WorkerOnly

\* Serve returns: the listener failed, or Shutdown was called.
ServerLeaves ==
    /\ server = "serving"
    /\ server' = "gone"
    /\ UNCHANGED <<checker, late>>
    /\ WorkerOnly

Worker == CheckBegins \/ CheckAsks \/ CheckReturns \/ CheckerLeaves \/ ServerLeaves

-----------------------------------------------------------------------------
INext == Cancel \/ TransportStep \/ Main \/ StageStep \/ Worker

ISpec == IInit /\ [][INext]_ivars

\* Every goroutine runs.  The select of a checker that is stopped and whose
\* ticker is due, and a read of a socket that its watcher is closing, do not
\* go the wrong way for ever; a shard does not always prefer a result to its
\* queue.
IFairness ==
    /\ WF_ivars(TransportStep)
    /\ SF_ivars(ctx /\ ReadFails /\ UNCHANGED <<stage, queue, fetch, main, workerVars, late>>)
    /\ WF_ivars(Main)
    /\ \A s \in Stages : WF_ivars(Handle(s) \/ Leave(s))
    /\ \A k \in Fetchers : WF_ivars(Answer(k) \/ Record(k) \/ Deliver(k))
    /\ WF_ivars(CheckAsks \/ CheckReturns)
    /\ SF_ivars(CheckerLeaves)
    /\ WF_ivars(Stopped /\ ServerLeaves)

IFairSpec == ISpec /\ IFairness

-----------------------------------------------------------------------------
\* run's deferred calls: no stage is called once its Close has begun.  A send
\* of run, or of a fetch goroutine through the recorder's tee, would panic on
\* the closed channel, and the workers are to stop before the stages they
\* read from.
NothingEntersAClosedStage == late = {}

\* A process whose context is cancelled returns from run: the transport, a
\* Route into a full queue, the workers and three Closes all let go.  The
\* transport returns as well, though run does not wait for it when it was
\* Route that gave up.
ShutdownEnds == ctx ~> (main = "returned" /\ conn = "returned")

\* What run waits for is gone when it returns: queues drained, no fetch, no
\* checker, no goroutine serving metrics.  (Serve may leave a Shutdown and a
\* scrape behind, which run does not wait for.)
ReturnLeavesNothing ==
    main = "returned" =>
        /\ \A s \in Stages : stage[s] = "closed" /\ queue[s] = 0
        /\ \A k \in Fetchers : fetch[k] = "free"
        /\ checker = "gone" /\ server = "gone"

\* docs/operations.md: ingestd "shuts down on SIGINT or SIGTERM, drains every
\* bounded queue".  The frames channel is a bounded queue too.
ShutdownDrains == main = "returned" => frames = 0
=============================================================================
