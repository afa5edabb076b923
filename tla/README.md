# TLA+ models of market-stream

`market-stream` keeps order books of crypto markets up to date from a websocket
feed, repairs them after gaps with REST snapshots, checks them against the
venue, fans events out to subscribers and records everything for replay. This
directory holds TLA+ modules for it, the TLC runs that check them and TLAPS
proofs of their safety properties. `PROJECT.json` lists runs, mutants, the
map from definitions to source lines, findings, hazards and theorems.

## The system

```
 transport --frames--> ingest loop --Route--> shard goroutines (trackers, books)
     |                    |   |                  |   ^            ^
     |                    |   +--Publish--> subscribers  results  queries
     |                    v                      v   |            |
     |                 recorder <--snapshots-- fetch goroutines   checker, metrics
     +-- reconnects, loses updates
```

| Component | State | Operations | What makes it hard |
|---|---|---|---|
| Sequencer (`internal/book/sequence.go`) | last id, synced | Reset, Next, Invalidate | off-by-one at the gap test; the position advances before the levels are accepted |
| Book (`book.go`, `compare.go`) | levels per side | Apply, Reset, Crossed, Compare | two truncated depths meeting in one comparison |
| Tracker (`tracker.go`) | book, sequencer, buffer, fetching flag, bounds | Apply, BeginFetch, FetchFailed, Load | lost, repeated, late deltas and snapshots; overflow; a refused delta half way through a replay |
| Router and shards (`internal/pipeline/shard.go`) | queues, trackers, resync timings, wait group | Start, Route, Close, handle, fetch, complete, load | fetch goroutines, late results, shutdown while everything is in flight |
| Queries (`query.go`), checker (`cmd/ingestd/check.go`) | a request, a reply channel | Query, Check, ask, answer, checkOne | the shard stops under a parked query; comparing two different moments |
| Publisher (`publisher.go`) | subscriptions, channels, drop counters | Subscribe, Start, Publish, Close | three non-blocking channel operations with a consumer between them |
| Recorder (`internal/record/recorder.go`, `writer.go`) | queue, drop counter, open file, the directory | Frame, Snapshot, Close, the writer loop | stamps crossing an hour; markers for drops; failed opens; kills and restarts |
| Replay source, snapshot store (`source.go`), `cmd/replay` | snapshots per symbol and the next one; the dumps | Run, Snapshot, waitSettled, dumpViews, the repeats | sampling "settled" while goroutines run; a result that must not depend on their timing |
| Transport (`internal/exchange/binance/transport.go`) | connection, backoff | Run, runOnce | reconnects, backoff with jitter, cancellation in every blocking call |
| Fixed point (`internal/model/fixed.go`), field scanner (`jsonscan.go`) | none | ParseFixed, FormatFixed, Notional, fieldValue | integers at their limits, escapes and nesting |
| Histogram (`internal/metrics/histogram.go`) | atomic counters | Observe, Quantile | a read that tears |
| Decoder, exchange info, log subscriber | none | pure functions | – |
| ingestd (`cmd/ingestd/main.go`, `check.go`, `metrics.go`) | wiring | run, runChecker, serveMetrics | order of shutdown, everything in flight when the signal comes |

`cmd/loadgen`, `internal/aggregate` and `internal/sink` are stubs.

Correctness, in a line each: a live book *is* the venue's book at its position;
it never goes back; it is as new as anything its stream delivered; a book that
is not live is being fetched and recovers; a check of a well-formed
snapshot at the same id finds no difference; Close joins everything and returns; a subscriber sees an ordered
stream with every loss counted; a recording is ordered, self-contained and says
what it lacks; a replay's books are those its recording determines; a signal
takes the daemon down from any state without a call into a closed stage; text is
parsed exactly or refused.

## Modules

| Module | Models | Notes |
|---|---|---|
| `Venue` | the exchange (external) | a history of books per symbol; deltas and snapshots carry only ids, since the history determines their contents |
| `Sequencer`, `Book` | `sequence.go`; `book.go`, `compare.go` | operators |
| `TrackerOps` | `tracker.go` | every method as an operator on a tracker record, used by `Tracker` and by `Router` |
| `Tracker` | one tracker and any caller | actions `Apply`, `BeginFetch`, `FetchFailed`, `Load`, `Replay` |
| `TrackerFeed` | the tracker behind an ordered, lossy stream | adds `hi`, the newest id delivered, and `peak`, a history variable |
| `ServedBook` | abstract specification | served at a position or not served; refined by `TrackerFeed` and by `RouterServes` |
| `Router` | `shard.go`, `query.go`, `checkOne` | composes trackers, shard loops, fetch goroutines, callers, shutdown |
| `RouterServes` | one symbol of `Router`, as its readers see it | adds `peak`, a history variable; `Watched` is any symbol |
| `Publisher` | `publisher.go` | one action per channel operation of `Publish` |
| `Recorder` | `recorder.go`, `writer.go` | producers, writer loop, disk, processes following one another |
| `Replay` | `cmd/replay/main.go`, `source.go` | extends `Router`, whose upstream is the recording and whose snapshots are the recorded ones; the main goroutine is its only caller |
| `Transport` | `transport.go` | frames are counted, waits are numbers |
| `Ingestd` | `cmd/ingestd` | extends `Transport`; a stage is the queue and the goroutine that `Router`, `Publisher` and `Recorder` show it to be |
| `FixedPoint`, `JsonScan` | `fixed.go`, `sizeDecimals`; `jsonscan.go`, the routing of `Decode` | operators, as recursive functions and folds |
| `Histogram` | `histogram.go` | one step per atomic operation |
| `TrackerOpsProofs`, `TrackerProofs`, `RouterProofs`, `ReplayProofs`, `PublisherProofs`, `RecorderProofs`, `IngestdProofs` | – | theorems, checked by TLAPS; those about `Book` are in `TrackerOpsProofs`, those about `Histogram` in `IngestdProofs` |
| `InductionProofs` | – | induction and sums over finite sets, for the other proofs |
| `MC*` | – | small venues and constants for TLC |

How state and steps correspond to the code:

* **Levels.** A side is a function from price to quantity, zero meaning absent.
  `valid` in a message is the verdict of the code's validation of its levels.
  `bidFloor`/`askCeil` are `bounds`, zero meaning no bound, as in the code.
* **A delta** names the levels that changed in its id range, with their absolute
  quantities at its last id, as the Binance stream does. It may be malformed:
  nothing says `first <= last` in `Tracker`.
* **Load** is one call of the code and one step per replayed delta here. No other
  action of that tracker is enabled meanwhile, since one goroutine owns it; in
  `Router` the other goroutines do run between the steps.
* **A shard's select iteration** is one step, as nothing in it blocks. A fetch
  goroutine has a step for the answer, one for the end of the retry delay and
  one for leaving; the delivery of a result is a rendezvous, so the receive
  and `complete` are one step of the shard.
* **Timers** are choices: a retry delay ends at any time.
* **Publish** is up to three steps per subscriber.
* **The recorder's writer** takes a record (with rotation) in one step and loads
  the drop counter and writes in another, since only the queue and the counter
  are shared. What `closeFile` does is part of the step that closes: a flush or a
  close that fails leaves a prefix of the file (`AfterClose`). `intact` remembers that
  one process has written the directory, that no file was opened twice and that no
  write, flush or close has failed. What a second opening destroys is a finding; a
  failed write or flush (`recorder.go:242-245` and `193-198`) loses records with a line
  in the log and without a count, so `NothingLostSilently` and `DropsAreMarked` speak
  of intact directories only. `FileOpensWithMeta`, `FileInOrder` and `CloseTerminates`
  hold under every failure.
* **A check** compares without validating. `Compare` refuses a wrong symbol and one
  price given twice; a snapshot with a price or a quantity that `Reset` would refuse
  is compared like any other, and `checkOne` may count it as a divergence. What such
  a comparison finds is a choice (`Verdicts`), and `NoCheckDiverges` says that a
  divergence is never counted for anything else.
* **waitSettled** reads counters shard by shard, then depths shard by shard, then
  asks for one book after the other, with the shards running in between. Counters
  only go up, so `moved`, the shards with a counter that changed since it was last
  read, stands for the two samples. The dump is the view of every book (position,
  live, levels), which is what `renderDump` prints.
* **The settle deadline** passes only when nothing but requests for snapshots that
  the recording does not have is left (`OnlyRetriesLeft`): thirty seconds are taken
  to be ample for work in memory. An interrupt may come at any time.
* **Deferred calls** of `run` are the sequence `Deferred`, run in order; a call into a
  stage whose queue is closed is remembered in `late`.
* **Decimal text** is a sequence of digits and signs, an integer has `Width` bits,
  and **JSON** is a sequence of characters: here the conversions are the subject.

Counters that only report (`Stats`) are left out, except where a property is
about them (`dropped` of the publisher, `written` and `dropped` of the recorder).

## Runs

Every bound is a named constant. Types are checked for `Tracker` and `Router`; those of
`Publisher` and `Recorder`, whose channel and queue they bound, are proved only.
`CHECK_DEADLOCK FALSE` appears where the system may stop: after `Close`, and when the bounds of a feed are used up.

| Run | Question | Bounds and why they suffice |
|---|---|---|
| `tracker` | is a live book always the venue's, whatever is lost, repeated, reordered, malformed or misrouted? | 5 ids, 5 prices with levels appearing, changing and vanishing on both sides, depth limits 1 (truncated) and 3 (truncated or not, depending on the id), buffer of 2, so overflow, gaps and replays that stop half way all happen; a second symbol for misrouting |
| `tracker_feed` | is a served book as new as the stream, and does the tracker implement `ServedBook`? | 6 ids and one level per side: the properties are about positions |
| `router` | the same behind a shard, with requests, checks and shutdown interleaved, and a snapshot that comes as an event: right, current, fetched exactly when stale, timed, joined by Close? | 3 ids, queue of 1, 1 streamed snapshot, 2 request slots: a streamed snapshot frees the flag at most once, so the slots never run out; one caller. Two shards are in `replay` |
| `router_live` | does everything that must happen happen, and does a symbol behind its shard implement `ServedBook`? | 3 ids, so that a book can be served, lost by a gap, and offered an older snapshot while deltas wait; 1 slot (freed before the next request in the same step), one caller |
| `publisher` | order, accounting, freshest-event policy, drain, no blocking | 2 subscribers, channels of 2, 5 events: channels overflow twice over |
| `recorder` | is every record on disk or counted, every drop reported, and does every file stand on its own, under faults, kills and restarts? | 2 producers whose stamps cross, 2 hours, queue of 1, 4 records, 2 processes, every kind of failure |
| `replay` | does the dump hold every symbol, is it of one moment, are its books those of the recording, is a settled stage final, does every replay end? | 2 shards, five recordings: a gap repaired by a second snapshot beside a clean symbol, a gap that is not, snapshots too old and a refused delta, and two that do not open; channel of 1 and queues of 2, so every send blocks at times; a buffer that holds the recording (see the findings) |
| `ingestd` | is the order of shutdown safe, does it end and leave nothing; does the backoff follow the failures? | every queue and channel of 1, one fetch goroutine, a backoff that reaches its cap after two doublings, with jitter |
| `units` | is decimal text exact, does the scanner find the value, is a quantile bracketed? | 5-bit integers with every text of up to 5 characters (15, 16 and -16, and 31 and 32, the ends of the signed and of the unsigned range, are reached); which error text gets is checked for decimal text, other text is only refused; objects of up to 2 members with every awkward string and nesting, and every prefix of them; 2 observers, 4 observations, 3 buckets |
| `recorder_reopen`, `replay_overflow`, `ingestd_drain` | see Findings | violated |

What the less obvious properties say:

* `FetchesFollowTheBook` is the invariant behind recovery: no path through errors,
  late results and refetches leaves a book stale with nobody asking, and while all
  snapshots come from requests, as they do today, a symbol has one request at most
  and a live book none.
* `RouterServesBook` is what `BookView.Live` promises a reader: "the book was anchored
  and current". `LiveBooksAreCurrent` compares a book with what its shard has handled;
  this one also compares it with every earlier answer, across resyncs. For the bare
  tracker `ImplementsServedBook` contains both.
* `DumpIsOfTheRecording` compares a dump with the books one gets by answering every
  request at once, for books that cannot be anchored too: the result does not
  depend on how the goroutines were scheduled. Which symbols a dump holds is
  `DumpIsComplete`, for every recording; that a settled dump is of one moment although
  it is read book by book is `DumpIsConsistent`.
* `SettledIsFinal` says that no book changes after `waitSettled` has returned true,
  although its conditions were read one after the other. (It holds without the
  comparison of the counters as well: what carries it is that `allLive` asks through
  the shards, behind an empty queue. The proof does not use the counters.)
* `QuantileIsBracketed`: a quantile read while observations go on lies between the
  one of what was counted before and the one of what is counted after. It depends
  on `Observe` counting the bucket before the total.
* `DropsAreMarked` (for a writer that ends with a file open) is not obvious from the code, whose marker waits for a next
  record: a drop only happens when the queue is full, so a record that will be
  written after the drop is always queued already, and its marker reports it.
* `NewestIsHeld` is why an old snapshot cannot bring a book back behind its
  stream: the newest delta is always in the buffer and stops the replay.

### Fairness

`router_live`: shard handlers and goroutines that can run do (weak fairness).
Go's `select` picks at random among ready cases, so a case that is ready again
and again is taken: strong fairness of `Complete`, `Stop` and `Answer`. A request
returns, since it runs under a context and an HTTP timeout, and a venue that is
asked again and again in the end serves a valid snapshot as new as its stream
(`Fresh`); without this assumption no book could ever recover. Nothing is assumed of
the upstream stage or of callers giving up.

`publisher`: the publishing goroutine runs on. Of `Consume` nothing is assumed
until `Close`, so `PublishReturns` holds with a subscriber that is stuck for ever.
`Close` needs `Consume` to return, as the interface demands.

`recorder`: the writer goroutine runs; the disk may fail every time.

`replay`: goroutines that can run do, and the deadline comes. Nothing is assumed of
the signal.

`ingestd`: every goroutine runs (weak fairness). Strong fairness where Go's `select` or
the scheduler would otherwise have to choose one way for ever: a stopped checker
whose ticker is also due, and a read that goes on succeeding although the watcher
is closing the socket. Nothing is assumed of the signal: `ShutdownEnds` starts at it.

## Findings

1. `recorder_reopen`: the rotation goes backwards as well as forwards and `openFile`
   truncates. A frame stamped just before the hour that is queued behind a
   snapshot stamped just after it takes the rotation back: it reopens and empties the
   file of the hour before, if there was one, and the next record of the new hour
   reopens and empties the file of the new hour (this is the trace TLC prints, hours
   2, 1, 2). A restart within an hour does the same to the earlier process's file.
2. `replay_overflow`: a replay hands a shard up to 4096 deltas before the goroutine
   that fetches the recorded snapshot has run, and a book buffers 2048. If the
   buffer overflows, the snapshot no longer bridges to what is left, the store has
   no other, and the book ends stale; scheduled otherwise it ends live. Two
   repeats of one recording can so differ, against "two runs of one recording must
   produce the same bytes". The instance scales the two capacities down to 2 and 1;
   `replay` shows that with a buffer that holds the backlog the claim is true.
3. `ingestd_drain`: "drains every bounded queue" is true of the stages, which
   `ReturnLeavesNothing` shows, and not of the frames channel: `run` may take the
   transport's return first and leave frames unrecorded.

Remarks that need no run:

* The comment on `Tracker.Apply` says both of its error cases "leave the book stale and
  awaiting a resync", while a delta of another symbol returns before anything
  changes and a live book stays live. The code and its test are the sensible ones.
* "A tracker allows one outstanding fetch per symbol" (`shard.go`, D30) is true while
  snapshots only come from requests: `Load` clears the flag for any snapshot, so one
  routed as an event would let the next gap start a second request. The decoder
  emits none. The books stay right regardless (`router`).
* A drop marker is written before the *oldest* queued record while the hole is behind
  the *newest*: up to a whole queue ahead of "where the hole is" (`recorder.go`).
  Replay only uses the sum of the markers.
* `format.go` says "a truncated file loses its tail rather than becoming unreadable";
  `NewReplaySource` refuses a recording with any record that does not read back.
* `WithMaxWait` "caps the reconnect backoff"; the jitter comes after the cap, so a wait
  can be up to a quarter longer (`BackoffFollowsFailures` states the true bound).
* `logFinal` is the first deferred call to run: its figures lack what the stages still
  drain. And `Serve` returns as soon as `Shutdown` is called, so a scrape in flight
  can outlive `wg.Wait` and read a stage that is closing, which only reads counters.
* When `Route` gives up, `run` returns without joining the transport goroutine, which
  returns by itself (`ShutdownEnds`).
* `docs/architecture.md` speaks of a full resnapshot on every reconnect; the code relies
  on the gap that follows one.
* `Quantile(0)` is the first bound even when the first bucket is empty, and `ParseFixed`
  takes "." and "-." for zero.

## Proofs

Every safety invariant of the runs of `Tracker`, `TrackerFeed`, `Router`, `Publisher`,
`Recorder`, `Transport`, `Ingestd` and `Histogram` is a theorem, and so are those of
`Replay` except `DumpIsOfTheRecording`: they hold for every number of
symbols, shards, subscribers, producers, observers and callers, every history, recording,
capacity and bound, not just for those of a run. What the constants have to satisfy is in the
named assumptions: types; capacities, hours, processes, repeats and failures of at least one;
finite sets of symbols and shards, since the wait group counts goroutines
(`RouterAssumption`), and of bounds and observers (`HistogramAssumption`); `None` being none
of the values it stands apart from; recordings that are sequences of records, in which a
frame decodes to a delta, a trade or nothing, since the decoder emits no snapshots
(`ReplayAssumption`); an initial wait not above the cap (`TransportAssumption`); and
`VenueNeverCrossed`, used only for `LiveNotCrossed`. TLC evaluates them all on the runs'
instances. Every inductive invariant below was checked by TLC on its run's instance before
it was proved.

* `TrackerOpsProofs` begins with what a truncated snapshot shows. The key lemma is that a
  side with fewer levels than the limit is whole, so that within `BoundsOf` a snapshot
  equals the venue's book, and that a book without crossed levels in the venue
  is not crossed itself. Then: every method keeps a tracker `Sound`: typed, buffer within
  its cap and holding only the tracker's own deltas, and, when live, accurate within
  its bounds with no phantom level beyond them. The two cases that carry the
  weight are a contiguous delta (levels it does not touch did not change between
  the book's position and its last id) and the anchor.
* `TrackerProofs`: the inductive invariant `IInv` is `TypeOK`,
  `LiveBookIsVenueBook`, `LiveHoldsNothing`, the buffer holding own deltas only, and
  the state of a running `Load` (live, no request outstanding). `LiveBookIsVenueBook`
  alone is not inductive: a replay applies buffered deltas, which must be of
  the tracker's symbol. From it: `TypeCorrect`, `LiveBookCorrect`,
  `LiveHoldsNothingCorrect`, `LiveNeverRewindsCorrect`, `LiveNotCrossedCorrect`,
  `NoDivergenceCorrect`.
  For the feed, `FInv` adds what the buffer holds relative to the stream:
  its last delta is at `hi`, which is not behind `peak`, and a replay that has
  passed that delta is at or past its id. From it `ServedBookIsCurrentCorrect`,
  `NewestIsHeldCorrect` and the refinement `FeedImplementsServedBook`.
* `RouterProofs`: `RInv` says of every symbol that it is `Unseen` or its tracker is
  `Kept`: sound, of its own symbol, and either live with nothing outstanding or
  being fetched and timed, with a request in flight as long as its shard runs.
  `LiveBooksAreCurrent` needs to know what a book that is not live holds: its buffer
  ends with the newest delta handled, so a replay can only end live past it.
  `CloseLeavesNothing` needs `CountInv`, the wait group being exactly the running shards
  and the requests in flight; a snapshot in the stream can free the request flag
  while a request is out, so one request per symbol holds only while
  `streamed = 0`, which `QueueInv` ties to the queues. Every handler ends in `shard.fetch`,
  so one lemma (`HandlerEnds`) restores the book of its symbol and one
  (`HandlerKeeps`) everything else. The seven invariants of the run follow.
  For the refinement, `RouterImplementsServedBook`, `WInv` adds two things. `OrderInv`: the
  deltas of a symbol wait in its shard's queue in the order of their ids, between what was
  handled and what the stream has delivered, so that `handled` never goes back. And
  `Past(peak)`: the book is at or past every position served, or it holds a delta that is,
  which stops every replay from an older snapshot. The symbol is a constant, so the
  theorem is about all of them.
* `ReplayProofs`: the steps of the book stage are steps of `Router`, so `RInv` holds in every
  repeat, and `ReplayedBooksAreVenueBooks` with it. `PInv` adds the main goroutine. A frame that was
  read is in the channel, in its hands or handled; `known` is the set of the symbols that have a tracker
  or a delta in a queue, and after the drain it is `Recorded`. Each pass of `waitSettled` leaves
  something behind that stays true because nothing is routed any more: a queue that was read empty
  remains empty, and a book that answered live behind an empty queue has no request
  in flight (`FetchesFollowTheBook`) and so remains as it is. From it
  `DumpIsCompleteCorrect`, `DumpIsConsistentCorrect` and the action property `SettledIsFinalCorrect`.
* `PublisherProofs`: `StreamInv`, for each subscriber: what it has consumed, holds and
  finds in its channel is increasing, ends with the newest event offered to it and,
  with the drops, adds up to the number offered. Publish's second attempt to send
  needs that there is room after an eviction, since nobody else sends. From it
  `TypeCorrect`, with the bound on every channel, `StreamInOrderCorrect`,
  `DropsAreCountedCorrect`, `NewestIsKeptCorrect`, and
  `CloseKeepsTheTail`: after Close every event was consumed or counted.
* `RecorderProofs`: entries leave the queue in the order of their numbers, so the open
  file is older than the record the writer is at, and that is older than the queue;
  while the directory is intact the same holds of every file, which keeps files
  disjoint. A failed flush or a kill leaves a prefix of a file, and a prefix of a file that
  is in order and opens with its metadata is one (`TruncatedOk`). That the markers add up to the drops is a sum over the files: writing
  a marker changes one term. From it `TypeCorrect`, `FileOpensWithMetaCorrect`, `FileInOrderCorrect`,
  `NothingLostSilentlyCorrect`, `DropsAreMarkedCorrect`.
* `IngestdProofs`: `ShutdownInv` ties `main` to the states of the stages along `Deferred`:
  everything that calls a stage is gone before that stage begins to close.
  `BackoffInv` keeps the wait level with `Doubled` of the failures, or at the cap.
  The histograms are here too. `HInv`: a bucket is ahead of the finished observations by
  exactly the observers that have yet to count the total; what `Quantile` saw in the
  total is in the buckets it goes on to read; and its running sum lies between the sums of what
  was there before and of what is there now, without having reached the rank. So it
  stops inside the buckets, at one that is right for both, and interpolates within it:
  `QuantileIsBracketedCorrect`.
* `InductionProofs`: no prover here instantiates a predicate, so induction over the
  naturals is stated on the set where the predicate holds. From it: functions defined
  by iteration exist (used for `Doubled`), and the laws of `SumFunctionOnSet`
  (one more term, one term changed), which the markers' sum and the buckets need.

Of the proved invariants, `LiveHoldsNothing` is a lemma of the others and `CloseKeepsTheTail`
follows from `DropsAreCounted`; no run repeats them.

Only model-checked:

* all liveness (`StaleBooksRecover`, `QueriesReturn`, `CloseTerminates`, `PublishReturns`, `ReplayEnds`,
  `ShutdownEnds`), since TLAPS does not prove liveness under fairness or reason about ENABLED
  here;
* `DumpIsOfTheRecording`, which compares a dump with a fold over the recording. A proof would be an
  induction over the recording, and it would need a bound on the backlog as a
  hypothesis: without one it is false (`replay_overflow`);
* `FixedPointIsExact` and `ScanFindsTheValue`: what recursive functions and folds compute
  from a text, which is induction over data, with powers of ten and of two for which the
  provers have no theory.

No module declares a RECURSIVE operator.

## Not modelled

* What `encoding/json`, HTTP, zstd and the websocket library do: the decoding of
  payloads, exchange info and depth responses, the byte layout of a recording. The
  models take their results as inputs, failures included.
* The log subscriber, the text of metrics and summaries, profiles: output only.
* The start-up errors of `run`, and `Close` before `Start` or a second `Start`, which
  neither binary does; a `Route` that overlaps `Close`, which the code's contract
  excludes and `NothingEntersAClosedStage` shows the daemon never does.
* Time, so rates are not bounded: a rejected snapshot, and one that is too old, is
  asked for again without a delay (`shard.go`, `load`).
* The sorted slices of a book side and the two-pointer merge of `compareSide`, which
  `Book` replaces by functions from price to quantity.
* Past the edge of a truncated snapshot a book may miss levels (D25); the properties
  speak of what a book claims to know, and say that it invents nothing beyond.
* `cmd/loadgen`, `internal/aggregate`, `internal/sink`: stubs.

## Plan

What could be proved next, should the code or the provers change:

1. `DumpIsOfTheRecording` for recordings whose backlog fits the buffer, from the laws of `FoldLeft`
   that `InductionProofs` would have to supply.
2. `Notional` and `ParseFixed` for every width, once powers can be reasoned about.
