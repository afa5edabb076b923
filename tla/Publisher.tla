----------------------------- MODULE Publisher -----------------------------
(***************************************************************************)
(* internal/pipeline/publisher.go: the fan-out of one event stream to      *)
(* subscribers, each behind a bounded channel that drops its oldest event  *)
(* when it is full.  Publish makes up to three non-blocking channel        *)
(* operations per subscriber, and the subscriber's delivery goroutine runs *)
(* between any two of them.                                                *)
(***************************************************************************)
EXTENDS Integers, Sequences, FiniteSets

CONSTANTS
    Names,       \* the names subscribers may be registered under
    Cap,         \* the capacity of each delivery channel
    MaxEvents    \* bound: events published

ASSUME PublisherAssumption == Cap \in Nat \ {0} /\ MaxEvents \in Nat

\* Publish is not running.
Idle == "idle"

VARIABLES
    stage,      \* the lifecycle: "new", "open", "closing", "returned"
    subs,       \* p.subs: the registered names, in order
    ch,         \* ch[s]: the events queued for s
    dropped,    \* dropped[s]: the counter of s
    n,          \* the events published so far; event i is the number i
    pub,        \* where Publish is: the index in subs and the next operation
    taken,      \* taken[s]: the event Consume is running on, 0 for none
    seen,       \* seen[s]: the events Consume has returned from, in order
    gone,       \* the subscribers whose delivery goroutine has returned
    wg          \* Publisher.wg

vars == <<stage, subs, ch, dropped, n, pub, taken, seen, gone, wg>>

Registered == {subs[i] : i \in 1 .. Len(subs)}
Resting    == [at |-> 0, op |-> Idle]

TypeOK ==
    /\ stage \in {"new", "open", "closing", "returned"}
    /\ subs \in Seq(Names)
    /\ ch \in [Names -> Seq(1 .. MaxEvents)]
    /\ \A s \in Names : Len(ch[s]) <= Cap
    /\ dropped \in [Names -> Nat]
    /\ n \in 0 .. MaxEvents
    /\ pub \in [at: 0 .. Len(subs), op: {Idle, "send", "evict", "retry"}]
    /\ taken \in [Names -> 0 .. MaxEvents]
    /\ seen \in [Names -> Seq(1 .. MaxEvents)]
    /\ gone \subseteq Names
    /\ wg \in Nat

Init ==
    /\ stage = "new"
    /\ subs = <<>>
    /\ ch = [s \in Names |-> <<>>]
    /\ dropped = [s \in Names |-> 0]
    /\ n = 0
    /\ pub = Resting
    /\ taken = [s \in Names |-> 0]
    /\ seen = [s \in Names |-> <<>>]
    /\ gone = {}
    /\ wg = 0

\* Subscribe refuses a started publisher and a name that is taken.
Subscribe(s) ==
    /\ stage = "new"
    /\ s \notin Registered
    /\ subs' = Append(subs, s)
    /\ UNCHANGED <<stage, ch, dropped, n, pub, taken, seen, gone, wg>>

Start ==
    /\ stage = "new"
    /\ stage' = "open"
    /\ wg' = Len(subs)
    /\ UNCHANGED <<subs, ch, dropped, n, pub, taken, seen, gone>>

-----------------------------------------------------------------------------
\* Publish goes through the subscribers in order; after the last it returns.
From(i) == IF i > Len(subs) THEN Resting ELSE [at |-> i, op |-> "send"]

Publish ==
    /\ stage = "open"
    /\ pub = Resting
    /\ n < MaxEvents
    /\ n' = n + 1
    /\ pub' = From(1)
    /\ UNCHANGED <<stage, subs, ch, dropped, taken, seen, gone, wg>>

\* Mutant: the send waits for room.
TrySendBlocks ==
    /\ pub.op = "send"
    /\ Len(ch[subs[pub.at]]) < Cap
    /\ ch' = [ch EXCEPT ![subs[pub.at]] = Append(@, n)]
    /\ pub' = From(pub.at + 1)
    /\ UNCHANGED <<stage, subs, dropped, n, taken, seen, gone, wg>>

\* Mutant: the event that was sent is sent again, by the second send.
TrySendFallsThrough ==
    LET s == subs[pub.at]
    IN  /\ pub.op = "send"
        /\ ch' = [ch EXCEPT ![s] = IF Len(@) < Cap THEN Append(@, n) ELSE @]
        /\ pub' = [pub EXCEPT !.op = "evict"]
        /\ UNCHANGED <<stage, subs, dropped, n, taken, seen, gone, wg>>

\* The first send, or the news that the channel is full.
TrySend ==
    LET s == subs[pub.at]
    IN  /\ pub.op = "send"
        /\ IF Len(ch[s]) < Cap
           THEN /\ ch' = [ch EXCEPT ![s] = Append(@, n)]
                /\ pub' = From(pub.at + 1)
           ELSE /\ pub' = [pub EXCEPT !.op = "evict"]
                /\ UNCHANGED ch
        /\ UNCHANGED <<stage, subs, dropped, n, taken, seen, gone, wg>>

\* Mutant: the discarded event is not counted.
EvictUncounted ==
    LET s == subs[pub.at]
    IN  /\ pub.op = "evict"
        /\ pub' = [pub EXCEPT !.op = "retry"]
        /\ ch' = [ch EXCEPT ![s] = IF @ # <<>> THEN Tail(@) ELSE @]
        /\ UNCHANGED <<stage, subs, dropped, n, taken, seen, gone, wg>>

\* Mutant: nothing is discarded, so the newest event is the one dropped.
EvictNothing ==
    /\ pub.op = "evict"
    /\ pub' = [pub EXCEPT !.op = "retry"]
    /\ UNCHANGED <<stage, subs, ch, dropped, n, taken, seen, gone, wg>>

\* Discard the oldest queued event, if the subscriber has not emptied the
\* channel in the meantime.
Evict ==
    LET s == subs[pub.at]
    IN  /\ pub.op = "evict"
        /\ pub' = [pub EXCEPT !.op = "retry"]
        /\ IF ch[s] # <<>>
           THEN /\ ch' = [ch EXCEPT ![s] = Tail(@)]
                /\ dropped' = [dropped EXCEPT ![s] = @ + 1]
           ELSE UNCHANGED <<ch, dropped>>
        /\ UNCHANGED <<stage, subs, n, taken, seen, gone, wg>>

\* The second send; the event itself is dropped if it fails.
Retry ==
    LET s == subs[pub.at]
    IN  /\ pub.op = "retry"
        /\ pub' = From(pub.at + 1)
        /\ IF Len(ch[s]) < Cap
           THEN /\ ch' = [ch EXCEPT ![s] = Append(@, n)]
                /\ UNCHANGED dropped
           ELSE /\ dropped' = [dropped EXCEPT ![s] = @ + 1]
                /\ UNCHANGED ch
        /\ UNCHANGED <<stage, subs, n, taken, seen, gone, wg>>

-----------------------------------------------------------------------------
\* The delivery goroutine of s: receive, Consume, and return when the channel
\* is closed and drained.
Deliver(s) ==
    /\ stage # "new"
    /\ s \in Registered
    /\ taken[s] = 0
    /\ ch[s] # <<>>
    /\ taken' = [taken EXCEPT ![s] = Head(ch[s])]
    /\ ch' = [ch EXCEPT ![s] = Tail(@)]
    /\ UNCHANGED <<stage, subs, dropped, n, pub, seen, gone, wg>>

ConsumeReturns(s) ==
    /\ taken[s] # 0
    /\ seen' = [seen EXCEPT ![s] = Append(@, taken[s])]
    /\ taken' = [taken EXCEPT ![s] = 0]
    /\ UNCHANGED <<stage, subs, ch, dropped, n, pub, gone, wg>>

\* Mutant: the goroutine leaves with events still queued.
DeliveryEndsAtOnce(s) ==
    /\ stage = "closing"
    /\ s \in Registered \ gone
    /\ taken[s] = 0
    /\ gone' = gone \cup {s}
    /\ wg' = wg - 1
    /\ UNCHANGED <<stage, subs, ch, dropped, n, pub, taken, seen>>

DeliveryEnds(s) ==
    /\ stage = "closing"
    /\ s \in Registered \ gone
    /\ taken[s] = 0
    /\ ch[s] = <<>>
    /\ gone' = gone \cup {s}
    /\ wg' = wg - 1
    /\ UNCHANGED <<stage, subs, ch, dropped, n, pub, taken, seen>>

\* Close is called by the goroutine that publishes, so not during Publish: it
\* closes the channels, then waits for the delivery goroutines.
Close ==
    /\ stage = "open"
    /\ pub = Resting
    /\ stage' = "closing"
    /\ UNCHANGED <<subs, ch, dropped, n, pub, taken, seen, gone, wg>>

CloseReturns ==
    /\ stage = "closing"
    /\ wg = 0
    /\ stage' = "returned"
    /\ UNCHANGED <<subs, ch, dropped, n, pub, taken, seen, gone, wg>>

Next ==
    \/ \E s \in Names : Subscribe(s)
    \/ Start
    \/ Publish
    \/ TrySend
    \/ Evict
    \/ Retry
    \/ \E s \in Names : Deliver(s)
    \/ \E s \in Names : ConsumeReturns(s)
    \/ \E s \in Names : DeliveryEnds(s)
    \/ Close
    \/ CloseReturns

Spec == Init /\ [][Next]_vars

\* The publishing goroutine runs on; nothing is assumed of a subscriber that
\* is inside Consume until Close waits for it, as Consume "must still return
\* promptly".
Fairness ==
    /\ WF_vars(TrySend \/ Evict \/ Retry)
    /\ WF_vars(CloseReturns)
    /\ \A s \in Names :
        /\ WF_vars(stage = "closing" /\ Deliver(s))
        /\ WF_vars(stage = "closing" /\ ConsumeReturns(s))
        /\ WF_vars(DeliveryEnds(s))

FairSpec == Spec /\ Fairness

-----------------------------------------------------------------------------
(***************************************************************************)
(* Properties.                                                             *)
(***************************************************************************)
\* What a subscriber has seen, is seeing and will see.
Stream(s) ==
    seen[s] \o (IF taken[s] = 0 THEN <<>> ELSE <<taken[s]>>) \o ch[s]

\* The events Publish is done with for subscriber s.
Offered(s) ==
    IF \E i \in 1 .. Len(subs) : subs[i] = s /\ pub.at # 0 /\ i >= pub.at
    THEN n - 1 ELSE n

\* Subscriber: events arrive in publication order, none twice, whatever the
\* delivery goroutine does between the operations of Publish.
StreamInOrder ==
    \A s \in Registered : \A i \in 1 .. Len(Stream(s)) - 1 :
        Stream(s)[i] < Stream(s)[i + 1]

\* Publish: every event is delivered or counted as dropped, exactly once,
\* while the discarded event is in nobody's hands too.
DropsAreCounted ==
    \A s \in Registered : Len(Stream(s)) + dropped[s] = Offered(s)

\* Publish: "Discard the oldest queued event to make room for the newest".
\* The newest event is never the one that is lost.
NewestIsKept ==
    \A s \in Registered :
        pub = Resting /\ n > 0 =>
            /\ Stream(s) # <<>>
            /\ Stream(s)[Len(Stream(s))] = n

\* Publish never blocks: it comes back even if no subscriber ever returns
\* from Consume.
PublishReturns == pub # Resting ~> pub = Resting

\* Close returns once the subscribers do, and "a clean shutdown does not
\* discard the tail of the stream".
CloseTerminates ==
    stage = "closing" ~>
        (stage = "returned" /\ \A s \in Registered : Len(seen[s]) + dropped[s] = n)
=============================================================================
