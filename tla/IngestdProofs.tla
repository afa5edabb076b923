--------------------------- MODULE IngestdProofs ---------------------------
(***************************************************************************)
(* The shutdown of ingestd and the backoff of its transport, for every     *)
(* number of fetch goroutines, every queue capacity and every backoff; and *)
(* the latency histograms ingestd reports, for any bounds and any number   *)
(* of observers.                                                           *)
(***************************************************************************)
EXTENDS Ingestd, Histogram, InductionProofs

-----------------------------------------------------------------------------
(***************************************************************************)
(* The inductive invariant.                                                *)
(***************************************************************************)
CapWithJitter == MaxWait + MaxWait \div 4

TransportTypeOK ==
    /\ conn \in {"dial", "read", "send", "wait", "returned"}
    /\ delivered \in BOOLEAN
    /\ wait \in InitialWait .. CapWithJitter
    /\ frames \in 0 .. FrameCap
    /\ ctx \in BOOLEAN
    /\ failures \in 0 .. MaxFailures

IngestdTypeOK ==
    /\ stage \in [Stages -> {"open", "closing", "drained", "closed"}]
    /\ queue \in [Stages -> 0 .. StageCap]
    /\ fetch \in [Fetchers -> {"free", "request", "record", "deliver"}]
    /\ main \in {"select", "route", "publish", "summary", "join", "router",
                 "publisher", "recorder", "returned"}
    /\ working \in BOOLEAN
    /\ checker \in {"idle", "request", "asking", "gone"}
    /\ server \in {"serving", "gone"}

\* run has not come to its first deferred close.
Pumping == main \in {"select", "route", "publish", "summary", "join"}

\* The stages are closed one after another, in the order of run's deferred
\* calls, and not before the workers are gone.
StagesFollowMain ==
    /\ Pumping \/ main = "router" =>
        stage["publisher"] = "open" /\ stage["recorder"] = "open"
    /\ Pumping => stage["router"] = "open"
    /\ main = "publisher" => stage["router"] = "closed" /\ stage["recorder"] = "open"
    /\ main = "recorder" => stage["router"] = "closed" /\ stage["publisher"] = "closed"
    /\ main = "router" => stage["router"] # "closed"
    /\ main = "returned" => \A s \in Stages : stage[s] = "closed"
    /\ ~Pumping => checker = "gone" /\ server = "gone"

\* What a stage has left behind it when it is gone.
ClosedIsEmpty ==
    /\ \A s \in Stages : stage[s] \in {"drained", "closed"} => queue[s] = 0
    /\ stage["router"] = "closed" => \A k \in Fetchers : fetch[k] = "free"

ShutdownInv ==
    /\ IngestdTypeOK
    /\ StagesFollowMain
    /\ ClosedIsEmpty
    /\ late = {}

\* The wait against the failures so far: one doubling behind while the
\* transport waits, level with them once the wait is over.
BackoffInv ==
    /\ TransportTypeOK
    /\ conn = "wait" =>
        /\ failures = 0 => wait = InitialWait
        /\ failures > 0 => wait >= MaxWait \/ wait >= Doubled[failures - 1]
    /\ conn \in {"dial", "read", "send"} => wait >= MaxWait \/ wait >= Doubled[failures]

-----------------------------------------------------------------------------
(***************************************************************************)
(* Operators.                                                              *)
(***************************************************************************)
\* Min of two numbers.
LEMMA MinOfTwo ==
    ASSUME NEW a \in Int, NEW b \in Int
    PROVE  Min({a, b}) = IF a <= b THEN a ELSE b
BY DEF Min

\* The jitter is on top of the cap.
LEMMA CapOfWait == CapWithJitter \in Nat /\ CapWithJitter >= MaxWait /\ InitialWait \in Nat
BY TransportAssumption DEF CapWithJitter

\* The stage that is closed after s.
LEMMA DeferredOrder ==
    /\ Head(Deferred) = "router"
    /\ Last(Deferred) = "recorder"
    /\ \A s \in {"router", "publisher"} :
        Deferred[CHOOSE i \in 2 .. Len(Deferred) : Deferred[i - 1] = s]
            = IF s = "router" THEN "publisher" ELSE "recorder"
<1>1. Head(Deferred) = "router" /\ Last(Deferred) = "recorder"
  BY DEF Deferred, Last
<1>2. ASSUME NEW s \in {"router", "publisher"}
      PROVE  Deferred[CHOOSE i \in 2 .. Len(Deferred) : Deferred[i - 1] = s]
                 = IF s = "router" THEN "publisher" ELSE "recorder"
  BY DEF Deferred
<1> QED BY <1>1, <1>2

\* Doubled is what its equation says, which is to say that it exists.
LEMMA DoubledIs ==
    /\ Doubled[0] = InitialWait
    /\ \A i \in Nat : Doubled[i] \in Nat /\ Doubled[i + 1] = 2 * Doubled[i]
<1> DEFINE F == [v \in Nat |-> 2 * v]
           Eq(d) == d = [i \in Nat |-> IF i = 0 THEN InitialWait ELSE 2 * d[i - 1]]
<1>1. PICK d \in [Nat -> Nat] : d[0] = InitialWait /\ \A i \in Nat : d[i + 1] = F[d[i]]
  <2> DEFINE V == Nat
  <2>1. F \in [V -> V] /\ InitialWait \in V
    BY TransportAssumption
  <2>2. \E d \in [Nat -> V] : d[0] = InitialWait /\ \A i \in Nat : d[i + 1] = F[d[i]]
    <3> HIDE DEF V, F, Eq
    <3> QED BY <2>1, Iteration
  <2> QED BY <2>2
<1>2. Eq(d)
  <2> SUFFICES ASSUME NEW i \in Nat
               PROVE  d[i] = IF i = 0 THEN InitialWait ELSE 2 * d[i - 1]
    OBVIOUS
  <2>1. CASE i = 0
    BY <2>1, <1>1
  <2>2. CASE i # 0
    <3>1. i - 1 \in Nat /\ (i - 1) + 1 = i
      BY <2>2
    <3>2. d[(i - 1) + 1] = F[d[i - 1]]
      BY <3>1, <1>1
    <3> QED BY <3>1, <3>2, <2>2
  <2> QED BY <2>1, <2>2
<1>3. Eq(Doubled)
  <2>1. Doubled = CHOOSE e : Eq(e)
    BY DEF Doubled
  <2> HIDE DEF Eq
  <2> QED BY <1>2, <2>1
<1>4. Doubled[0] = InitialWait
  BY <1>3
<1>5. \A i \in Nat : Doubled[i + 1] = 2 * Doubled[i]
  <2> SUFFICES ASSUME NEW i \in Nat PROVE Doubled[i + 1] = 2 * Doubled[i]
    OBVIOUS
  <2>1. i + 1 \in Nat /\ i + 1 # 0 /\ (i + 1) - 1 = i
    OBVIOUS
  <2> QED BY <1>3, <2>1
<1> DEFINE H == {i \in Nat : Doubled[i] \in Nat}
<1>6. Nat \subseteq H
  <2>1. 0 \in H
    BY <1>4, TransportAssumption
  <2>2. \A i \in Nat : i \in H => i + 1 \in H
    BY <1>5
  <2> HIDE DEF H
  <2> QED BY <2>1, <2>2, SetInduction
<1> QED BY <1>4, <1>5, <1>6

\* nextWait at least doubles the wait or reaches the cap, and its jitter adds
\* less than a quarter of the cap.
LEMMA NextWaitsBounds ==
    ASSUME NEW w \in Nat, w >= InitialWait, NEW v \in NextWaits(w)
    PROVE  /\ v \in InitialWait .. CapWithJitter
           /\ v >= MaxWait \/ v >= 2 * w
<1> DEFINE next == IF 2 * w > MaxWait THEN MaxWait ELSE 2 * w
<1>1. next \in Nat /\ next <= MaxWait /\ next >= InitialWait
  BY TransportAssumption
<1>2. next = MaxWait \/ next = 2 * w
  OBVIOUS
<1> DEFINE r == next \div 4
<1>3. r \in Nat /\ r <= MaxWait \div 4 /\ MaxWait \div 4 \in Nat
  <2> HIDE DEF next
  <2> QED BY <1>1, TransportAssumption
<1>4. v = next \/ v \in next .. (next + r - 1)
  BY DEF NextWaits
<1> HIDE DEF next, r
<1> QED BY <1>1, <1>2, <1>3, <1>4, TransportAssumption DEF CapWithJitter

-----------------------------------------------------------------------------
(***************************************************************************)
(* The transport.                                                          *)
(***************************************************************************)
\* One more failure in a row, counted up to the bound, is a doubling owed.
LEMMA OneMoreFailure ==
    ASSUME failures \in 0 .. MaxFailures, wait \in Nat,
           wait >= MaxWait \/ wait >= Doubled[failures],
           NEW f, f = Min({failures + 1, MaxFailures})
    PROVE  /\ f \in 1 .. MaxFailures
           /\ wait >= MaxWait \/ wait >= Doubled[f - 1]
<1>1. failures + 1 \in Int /\ MaxFailures \in Int /\ MaxFailures >= 1
  BY TransportAssumption
<1>2. f = IF failures + 1 <= MaxFailures THEN failures + 1 ELSE MaxFailures
  BY <1>1, MinOfTwo
<1>3. CASE failures < MaxFailures
  BY <1>1, <1>2, <1>3
<1>4. CASE failures = MaxFailures
  <2>1. f = failures /\ f - 1 \in Nat /\ (f - 1) + 1 = f
    BY <1>1, <1>2, <1>4
  <2>2. Doubled[f - 1] \in Nat /\ Doubled[failures] = 2 * Doubled[f - 1]
    BY <2>1, DoubledIs
  <2> QED BY <1>1, <2>1, <2>2, TransportAssumption
<1> QED BY <1>3, <1>4, TransportAssumption

\* The transport starts in step: no failure yet, and the initial wait.
LEMMA InitBackoffInv == IInit => BackoffInv
<1> SUFFICES ASSUME IInit PROVE BackoffInv
  OBVIOUS
<1>1. TInit
  BY DEF IInit
<1>2. TransportTypeOK
  <2>1. conn = "dial" /\ delivered \in BOOLEAN /\ ctx \in BOOLEAN
    BY <1>1, Zenon DEF TInit
  <2>2. /\ wait \in InitialWait .. CapWithJitter
        /\ frames \in 0 .. FrameCap /\ failures \in 0 .. MaxFailures
    BY <1>1, CapOfWait, TransportAssumption DEF TInit
  <2> QED BY <2>1, <2>2 DEF TransportTypeOK
<1> QED BY <1>1, <1>2, DoubledIs, TransportAssumption DEF TInit, BackoffInv

\* What follows a connection that ended keeps the backoff in step: a failure
\* more is a doubling owed, and data or a planned restart start over.
LEMMA RunOnceReturnsBackoff ==
    ASSUME BackoffInv, conn \in {"read", "send"},
           NEW how \in {"broken", "shutdown", "cancelled"}, RunOnceReturns(how)
    PROVE  BackoffInv'
<1> DEFINE f == Min({failures + 1, MaxFailures})
<1>1. /\ f \in 1 .. MaxFailures
      /\ wait >= MaxWait \/ wait >= Doubled[f - 1]
  <2>1. /\ failures \in 0 .. MaxFailures /\ wait \in Nat
        /\ wait >= MaxWait \/ wait >= Doubled[failures]
    BY CapOfWait DEF BackoffInv, TransportTypeOK
  <2> QED BY <2>1, OneMoreFailure
<1> HIDE DEF f
<1> USE DEF BackoffInv, TransportTypeOK, RunOnceReturns
<1>2. TransportTypeOK'
  BY <1>1, CapOfWait, TransportAssumption DEF f
<1>3. CASE ctx
  BY <1>2, <1>3
<1>4. CASE ~ctx /\ (delivered \/ how = "shutdown")
  BY <1>2, <1>4, DoubledIs, TransportAssumption
<1>5. CASE ~ctx /\ ~(delivered \/ how = "shutdown")
  BY <1>1, <1>2, <1>5 DEF f
<1> QED BY <1>3, <1>4, <1>5

\* Every step of the process keeps the backoff in step with the failures.
LEMMA NextBackoffInv ==
    ASSUME BackoffInv, [INext]_ivars
    PROVE  BackoffInv'
<1> USE DEF BackoffInv, TransportTypeOK
<1>1. CASE Cancel
  BY <1>1 DEF Cancel, tvars
<1>2. CASE TransportStep
  <2>1. CASE Dial
    BY <2>1 DEF Dial
  <2>2. CASE DialFails
    BY <2>2, OneMoreFailure, CapOfWait DEF DialFails
  <2>3. CASE ReadMessage
    BY <2>3 DEF ReadMessage
  <2>4. CASE ReadFails
    BY <2>4, RunOnceReturnsBackoff DEF ReadFails
  <2>5. CASE ReadShutdown
    BY <2>5, RunOnceReturnsBackoff DEF ReadShutdown
  <2>6. CASE Send
    BY <2>6, TransportAssumption DEF Send
  <2>7. CASE SendGivesUp
    BY <2>7, RunOnceReturnsBackoff DEF SendGivesUp
  <2>8. CASE WaitIsOver
    <3>1. wait \in Nat /\ wait >= InitialWait
      BY CapOfWait
    <3>2. /\ wait' \in InitialWait .. CapWithJitter
          /\ wait' >= MaxWait \/ wait' >= 2 * wait
      BY <2>8, <3>1, NextWaitsBounds DEF WaitIsOver
    <3>3. wait' >= MaxWait \/ wait' >= Doubled[failures]
      <4>1. CASE failures = 0
        BY <2>8, <3>1, <3>2, <4>1, DoubledIs, TransportAssumption DEF WaitIsOver
      <4>2. CASE failures # 0
        <5>1. failures - 1 \in Nat /\ (failures - 1) + 1 = failures
          BY <4>2
        <5>2. Doubled[failures - 1] \in Nat /\ Doubled[failures] = 2 * Doubled[failures - 1]
          BY <5>1, DoubledIs
        <5> QED BY <2>8, <3>1, <3>2, <5>1, <5>2, CapOfWait, TransportAssumption DEF WaitIsOver
      <4> QED BY <4>1, <4>2
    <3> QED BY <2>8, <3>2, <3>3 DEF WaitIsOver
  <2>9. CASE WaitGivesUp
    BY <2>9 DEF WaitGivesUp
  <2> QED BY <1>2, <2>1, <2>2, <2>3, <2>4, <2>5, <2>6, <2>7, <2>8, <2>9
          DEF TransportStep, TransportRuns
<1>3. CASE Main
  <2>1. CASE TakeFrame
    BY <2>1, TransportAssumption DEF TakeFrame, LoopOnly
  <2>2. CASE Route
    BY <2>2 DEF Route, LoopOnly
  <2>3. CASE Publish
    BY <2>3 DEF Publish, LoopOnly
  <2>4. CASE TransportIsDone
    BY <2>4 DEF TransportIsDone, LoopOnly
  <2>5. CASE StopWorkers
    BY <2>5 DEF StopWorkers, MainOnly, tvars
  <2>6. CASE JoinWorkers
    BY <2>6 DEF JoinWorkers, MainOnly, tvars
  <2>7. ASSUME NEW s \in Stages, Close(s) \/ CloseReturns(s) PROVE BackoffInv'
    BY <2>7 DEF Close, CloseReturns, MainOnly, tvars
  <2> QED BY <1>3, <2>1, <2>2, <2>3, <2>4, <2>5, <2>6, <2>7 DEF Main
<1>4. CASE StageStep
  BY <1>4 DEF StageStep, Handle, Leave, Answer, Record, Deliver, StageOnly, tvars
<1>5. CASE Worker
  BY <1>5 DEF Worker, CheckBegins, CheckAsks, CheckReturns, CheckerLeaves,
              ServerLeaves, WorkerOnly, tvars
<1>6. CASE UNCHANGED ivars
  BY <1>6 DEF ivars, tvars
<1> QED BY <1>1, <1>2, <1>3, <1>4, <1>5, <1>6 DEF INext

-----------------------------------------------------------------------------
(***************************************************************************)
(* The shutdown.                                                           *)
(***************************************************************************)
\* A stage that is open may be called, and its queue stays within bounds.
LEMMA OfferInOrder ==
    ASSUME NEW s \in Stages, ShutdownInv, stage[s] = "open", Offer(s)
    PROVE  /\ late' = {}
           /\ queue' \in [Stages -> 0 .. StageCap]
           /\ \A z \in Stages \ {s} : queue'[z] = queue[z]
<1>1. late' = {}
  BY DEF Offer, Calls, ShutdownInv
<1>2. Min({queue[s] + 1, StageCap}) \in 0 .. StageCap
  <2>1. queue[s] \in 0 .. StageCap /\ queue[s] + 1 \in Int /\ StageCap \in Int
    BY IngestdAssumption DEF ShutdownInv, IngestdTypeOK
  <2> QED BY <2>1, MinOfTwo, IngestdAssumption
<1> QED BY <1>1, <1>2 DEF Offer, ShutdownInv, IngestdTypeOK

\* Everything is open when the loop of run begins.
LEMMA InitShutdownInv == IInit => ShutdownInv
<1> SUFFICES ASSUME IInit PROVE ShutdownInv
  OBVIOUS
<1>1. IngestdTypeOK
  <2>1. working \in BOOLEAN
    BY Zenon DEF IInit
  <2> QED BY <2>1, IngestdAssumption DEF IInit, IngestdTypeOK
<1> QED BY <1>1 DEF IInit, ShutdownInv, StagesFollowMain, ClosedIsEmpty, Pumping, Stages

\* Every step of the process keeps the order of the shutdown.
LEMMA NextShutdownInv ==
    ASSUME ShutdownInv, [INext]_ivars
    PROVE  ShutdownInv'
<1> USE DEF ShutdownInv, StagesFollowMain, ClosedIsEmpty, Pumping
<1>t. IngestdTypeOK
  OBVIOUS
<1>1. CASE Cancel
  BY <1>1 DEF Cancel, IngestdTypeOK, workerVars
<1>2. CASE TransportStep
  BY <1>2 DEF TransportStep, IngestdTypeOK, workerVars
<1>3. CASE TakeFrame
  <2>1. Offer("recorder") /\ "recorder" \in Stages /\ stage["recorder"] = "open"
    BY <1>3 DEF TakeFrame, Stages
  <2> QED BY <1>3, <2>1, OfferInOrder DEF TakeFrame, LoopOnly, workerVars, IngestdTypeOK
<1>4. CASE Route
  <2>1. CASE Offer("router")
    <3>1. "router" \in Stages /\ stage["router"] = "open"
      BY <1>4 DEF Route, Stages
    <3> QED BY <1>4, <2>1, <3>1, OfferInOrder DEF Route, LoopOnly, workerVars, IngestdTypeOK
  <2>2. CASE UNCHANGED <<queue, late>>
    BY <1>4, <2>2 DEF Route, LoopOnly, workerVars, IngestdTypeOK
  <2> QED BY <1>4, <2>1, <2>2 DEF Route
<1>5. CASE Publish
  <2>1. Offer("publisher") /\ "publisher" \in Stages /\ stage["publisher"] = "open"
    BY <1>5 DEF Publish, Stages
  <2> QED BY <1>5, <2>1, OfferInOrder DEF Publish, LoopOnly, workerVars, IngestdTypeOK
<1>6. CASE TransportIsDone
  BY <1>6 DEF TransportIsDone, LoopOnly, workerVars, IngestdTypeOK
<1>7. CASE StopWorkers
  <2>1. working' \in BOOLEAN
    BY <1>7, Zenon DEF StopWorkers
  <2> QED BY <1>7, <2>1 DEF StopWorkers, MainOnly, IngestdTypeOK
<1>8. CASE JoinWorkers
  BY <1>8, DeferredOrder DEF JoinWorkers, MainOnly, IngestdTypeOK
<1>9. ASSUME NEW s \in Stages, Close(s) PROVE ShutdownInv'
  BY <1>9 DEF Close, MainOnly, IngestdTypeOK, Stages
<1>10. ASSUME NEW s \in Stages, CloseReturns(s) PROVE ShutdownInv'
  <2>1. main' = CASE s = "router" -> "publisher"
                  [] s = "publisher" -> "recorder"
                  [] s = "recorder" -> "returned"
    BY <1>10, DeferredOrder DEF CloseReturns, Stages
  <2>2. IngestdTypeOK'
    BY <1>10, <2>1 DEF CloseReturns, MainOnly, IngestdTypeOK, Stages
  <2> QED BY <1>10, <2>1, <2>2 DEF CloseReturns, MainOnly, IngestdTypeOK, Stages
<1>11. ASSUME NEW s \in Stages, Handle(s) PROVE ShutdownInv'
  <2>1. queue' \in [Stages -> 0 .. StageCap]
    BY <1>11, IngestdAssumption DEF Handle, IngestdTypeOK
  <2>2. fetch' \in [Fetchers -> {"free", "request", "record", "deliver"}]
    BY <1>11 DEF Handle, IngestdTypeOK
  <2>3. \A z \in Stages : stage[z] \in {"drained", "closed"} => queue'[z] = queue[z]
    BY <1>11 DEF Handle, IngestdTypeOK
  <2>4. stage["router"] = "closed" => fetch' = fetch
    BY <1>11 DEF Handle
  <2> QED BY <1>11, <2>1, <2>2, <2>3, <2>4 DEF Handle, StageOnly, workerVars, IngestdTypeOK
<1>12. ASSUME NEW s \in Stages, Leave(s) PROVE ShutdownInv'
  BY <1>12 DEF Leave, StageOnly, workerVars, IngestdTypeOK, Stages
<1>13. ASSUME NEW k \in Fetchers, Answer(k) PROVE ShutdownInv'
  BY <1>13 DEF Answer, StageOnly, workerVars, IngestdTypeOK
<1>14. ASSUME NEW k \in Fetchers, Record(k) PROVE ShutdownInv'
  \* The router is not closed, so the recorder is open.
  <2>1. Offer("recorder") /\ "recorder" \in Stages /\ stage["recorder"] = "open"
    BY <1>14 DEF Record, Stages, IngestdTypeOK
  <2> QED BY <1>14, <2>1, OfferInOrder DEF Record, StageOnly, workerVars, IngestdTypeOK
<1>15. ASSUME NEW k \in Fetchers, Deliver(k) PROVE ShutdownInv'
  BY <1>15 DEF Deliver, StageOnly, workerVars, IngestdTypeOK
<1>16. CASE Worker
  <2>1. late' = late
    \* A checker that asks is not gone, so run still pumps.
    <3>1. CASE CheckAsks
      BY <3>1 DEF CheckAsks, Calls
    <3> QED BY <1>16, <3>1 DEF Worker, CheckBegins, CheckReturns, CheckerLeaves, ServerLeaves
  <2> QED BY <1>16, <2>1 DEF Worker, CheckBegins, CheckAsks, CheckReturns,
             CheckerLeaves, ServerLeaves, WorkerOnly, IngestdTypeOK
<1>17. CASE UNCHANGED ivars
  BY <1>17 DEF ivars, workerVars, IngestdTypeOK
<1> QED BY <1>1, <1>2, <1>3, <1>4, <1>5, <1>6, <1>7, <1>8, <1>9, <1>10, <1>11,
           <1>12, <1>13, <1>14, <1>15, <1>16, <1>17 DEF INext, Main, StageStep

-----------------------------------------------------------------------------
(***************************************************************************)
(* The theorems.                                                           *)
(***************************************************************************)
\* The shutdown invariant holds throughout main's run.
LEMMA SpecShutdownInv == ISpec => []ShutdownInv
<1>1. IInit => ShutdownInv
  BY InitShutdownInv
<1>2. ShutdownInv /\ [INext]_ivars => ShutdownInv'
  BY NextShutdownInv
<1> QED BY <1>1, <1>2, PTL DEF ISpec

\* run's deferred calls: no stage is called once its Close has begun, by the
\* loop, by a fetch goroutine through the tee or by the checker, however many
\* requests are in flight.
THEOREM NothingEntersAClosedStageCorrect == ISpec => []NothingEntersAClosedStage
<1>1. ShutdownInv => NothingEntersAClosedStage
  BY DEF ShutdownInv, NothingEntersAClosedStage
<1> QED BY <1>1, SpecShutdownInv, PTL

\* run: when it returns, every stage is closed with its queue drained, and no
\* fetch goroutine, checker or server is left.
THEOREM ReturnLeavesNothingCorrect == ISpec => []ReturnLeavesNothing
<1>1. ShutdownInv => ReturnLeavesNothing
  BY DEF ShutdownInv, StagesFollowMain, ClosedIsEmpty, Pumping, ReturnLeavesNothing, Stages
<1> QED BY <1>1, SpecShutdownInv, PTL

\* Transport.Run: the wait starts over after a connection that carried data,
\* doubles at least with each one since that did not, and stays within the cap
\* and its jitter, for every initial wait and every cap.
THEOREM BackoffFollowsFailuresCorrect == ISpec => []BackoffFollowsFailures
<1>1. IInit => BackoffInv
  BY InitBackoffInv
<1>2. BackoffInv /\ [INext]_ivars => BackoffInv'
  BY NextBackoffInv
<1>3. BackoffInv => BackoffFollowsFailures
  <2> SUFFICES ASSUME BackoffInv PROVE BackoffFollowsFailures
    OBVIOUS
  <2> DEFINE i == IF failures = 0 THEN 0 ELSE failures - 1
  <2>1. /\ wait \in InitialWait .. CapWithJitter
        /\ failures \in 0 .. MaxFailures
    BY DEF BackoffInv, TransportTypeOK
  <2>2. Doubled[i] \in Int /\ MaxWait \in Int /\ wait \in Int
    BY <2>1, DoubledIs, CapOfWait, TransportAssumption
  <2>3. Min({Doubled[i], MaxWait}) = IF Doubled[i] <= MaxWait THEN Doubled[i] ELSE MaxWait
    BY <2>2, MinOfTwo
  <2>4. conn = "wait" => wait >= MaxWait \/ wait >= Doubled[i]
    BY <2>1, <2>2, DoubledIs DEF BackoffInv
  <2>5. conn = "wait" => wait >= Min({Doubled[i], MaxWait})
    <3> HIDE DEF i
    <3> QED BY <2>2, <2>3, <2>4
  <2>6. wait <= MaxWait + MaxWait \div 4
    BY <2>1, CapOfWait DEF CapWithJitter
  <2> QED BY <2>5, <2>6 DEF BackoffFollowsFailures, BackoffInv
<1> QED BY <1>1, <1>2, <1>3, PTL DEF ISpec

-----------------------------------------------------------------------------
(***************************************************************************)
(* The metrics of the process: module Histogram, for any bounds and any    *)
(* number of goroutines that observe.                                      *)
(***************************************************************************)
Upto(f, i) == SumFunctionOnSet(f, 1 .. i)

\* A larger function has a larger sum.
LEMMA SumIsMonotone ==
    ASSUME NEW S, IsFiniteSet(S), NEW f, NEW g,
           \A x \in S : f[x] \in Nat /\ g[x] \in Nat /\ f[x] <= g[x]
    PROVE  SumFunctionOnSet(f, S) <= SumFunctionOnSet(g, S)
<1> DEFINE G == {s \in SUBSET S : SumFunctionOnSet(f, s) <= SumFunctionOnSet(g, s)}
<1>1. {} \in G
  BY SumOnEmpty
<1>2. ASSUME NEW s \in SUBSET S, s # {}, s \ {Pick(s)} \in G PROVE s \in G
  <2>1. IsFiniteSet(s)
    BY FS_Subset
  <2>2. /\ SumFunctionOnSet(f, s) = f[Pick(s)] + SumFunctionOnSet(f, s \ {Pick(s)})
        /\ SumFunctionOnSet(g, s) = g[Pick(s)] + SumFunctionOnSet(g, s \ {Pick(s)})
        /\ Pick(s) \in s
    BY <1>2, <2>1, SumStep
  <2>3. IsFiniteSet(s \ {Pick(s)})
    BY <2>1, FS_Subset
  <2>4. /\ SumFunctionOnSet(f, s \ {Pick(s)}) \in Nat
        /\ SumFunctionOnSet(g, s \ {Pick(s)}) \in Nat
    BY <2>3, SumIsNatural
  <2> QED BY <1>2, <2>2, <2>4
<1>3. SUBSET S \subseteq G
  <2> HIDE DEF G
  <2> QED BY <1>1, <1>2, SubsetInduction
<1> QED BY <1>3

\* The sums over the first buckets.
LEMMA UptoStep ==
    ASSUME NEW n \in Nat, NEW f, \A x \in 1 .. n + 1 : f[x] \in Nat
    PROVE  /\ Upto(f, n + 1) = Upto(f, n) + f[n + 1]
           /\ Upto(f, n) \in Nat /\ Upto(f, n + 1) \in Nat
           /\ Upto(f, 0) = 0
<1>1. IsFiniteSet(1 .. n) /\ IsFiniteSet(1 .. n + 1)
  BY FS_Interval
<1>2. (1 .. n + 1) \ {n + 1} = 1 .. n /\ n + 1 \in 1 .. n + 1
  OBVIOUS
<1>3. Upto(f, n) \in Nat /\ Upto(f, n + 1) \in Nat
  BY <1>1, SumIsNatural DEF Upto
<1>4. PICK S : S = 1 .. n + 1
  OBVIOUS
<1>5. SumFunctionOnSet(f, S) = f[n + 1] + SumFunctionOnSet(f, S \ {n + 1})
  BY <1>1, <1>2, <1>4, SumOnRemove
<1>6. Upto(f, n + 1) = f[n + 1] + Upto(f, n)
  BY <1>2, <1>4, <1>5 DEF Upto
<1>7. 1 .. 0 = {}
  OBVIOUS
<1>8. Upto(f, 0) = 0
  BY <1>7, SumOnEmpty DEF Upto
<1> QED BY <1>3, <1>6, <1>8

\* A set of naturals has a least element.
LEMMA MinOfNat ==
    ASSUME NEW S \in SUBSET Nat, S # {}
    PROVE  Min(S) \in S /\ \A y \in S : Min(S) <= y
<1> DEFINE R == OpToRel(<, Nat)
<1>1. IsWellFoundedOn(R, Nat)
  BY NatLessThanWellFounded
<1>2. PICK x \in S : \A y \in S : ~ (<<y, x>> \in R)
  <2> HIDE DEF R
  <2> QED BY <1>1, WFMin
<1>3. ASSUME NEW y \in S PROVE x <= y
  <2>1. x \in Nat /\ y \in Nat
    OBVIOUS
  <2>2. y < x => <<y, x>> \in R
    BY <2>1 DEF OpToRel
  <2> HIDE DEF R
  <2> QED BY <1>2, <2>1, <2>2
<1> QED BY <1>3 DEF Min

\* A finite set of naturals has a largest element.
LEMMA GreatestOfNat ==
    ASSUME NEW S \in SUBSET Nat, IsFiniteSet(S), S # {}
    PROVE  \E m \in S : \A y \in S : y <= m
<1> DEFINE G == {s \in SUBSET S : s # {} => \E m \in s : \A y \in s : y <= m}
<1>1. {} \in G
  OBVIOUS
<1>2. ASSUME NEW s \in SUBSET S, s # {}, s \ {Pick(s)} \in G PROVE s \in G
  <2>1. PICK p \in s : p = Pick(s)
    BY <1>2 DEF Pick
  <2>2. CASE s \ {p} = {}
    BY <2>1, <2>2
  <2>3. CASE s \ {p} # {}
    <3>1. PICK m \in s \ {p} : \A y \in s \ {p} : y <= m
      BY <1>2, <2>1, <2>3
    <3>2. m \in Nat /\ p \in Nat
      OBVIOUS
    <3>3. CASE p <= m
      BY <3>1, <3>3
    <3>4. CASE m < p
      <4>1. \A y \in s : y <= p
        BY <3>1, <3>2, <3>4
      <4> QED BY <4>1
    <3> QED BY <3>2, <3>3, <3>4
  <2> QED BY <2>2, <2>3
<1>3. SUBSET S \subseteq G
  <2> HIDE DEF G
  <2> QED BY <1>1, <1>2, SubsetInduction
<1> QED BY <1>3

Increasing(s) == \A i, j \in DOMAIN s : i < j => s[i] < s[j]

\* A finite set of naturals can be sorted.
LEMMA Sortable ==
    ASSUME NEW S \in SUBSET Nat, IsFiniteSet(S)
    PROVE  \E s \in [1 .. Cardinality(S) -> S] : Increasing(s)
<1> DEFINE H == {n \in Nat : \A T \in SUBSET S : Cardinality(T) = n =>
                                \E s \in [1 .. n -> T] : Increasing(s)}
<1>1. \A T \in SUBSET S : IsFiniteSet(T) /\ Cardinality(T) \in Nat
  BY FS_Subset, FS_CardinalityType
<1>2. 0 \in H
  <2> SUFFICES ASSUME NEW T \in SUBSET S, Cardinality(T) = 0
               PROVE  \E s \in [1 .. 0 -> T] : Increasing(s)
    OBVIOUS
  <2>1. 1 .. 0 = {}
    OBVIOUS
  <2>2. PICK s : s = [i \in {} |-> 0]
    OBVIOUS
  <2>3. s \in [{} -> T] /\ Increasing(s)
    BY <2>2 DEF Increasing
  <2> QED BY <2>1, <2>3
<1>3. ASSUME NEW n \in Nat, n \in H PROVE n + 1 \in H
  <2> SUFFICES ASSUME NEW T \in SUBSET S, Cardinality(T) = n + 1
               PROVE  \E s \in [1 .. n + 1 -> T] : Increasing(s)
    OBVIOUS
  <2>1. T # {} /\ IsFiniteSet(T)
    BY <1>1, FS_EmptySet
  <2>2. PICK m \in T : \A y \in T : y <= m
    BY <2>1, GreatestOfNat
  <2>3. PICK U : U = T \ {m}
    OBVIOUS
  <2>4. U \in SUBSET S /\ Cardinality(U) = n
    <3>1. Cardinality(T \ {m}) = Cardinality(T) - 1
      BY <2>1, FS_RemoveElement
    <3> QED BY <2>3, <3>1
  <2>5. PICK u \in [1 .. n -> U] : Increasing(u)
    BY <1>3, <2>4
  <2>6. PICK s : s = [i \in 1 .. n + 1 |-> IF i = n + 1 THEN m ELSE u[i]]
    OBVIOUS
  <2>7. /\ DOMAIN s = 1 .. n + 1 /\ s[n + 1] = m
        /\ \A i \in 1 .. n : s[i] = u[i] /\ s[i] \in U
    BY <2>5, <2>6
  <2>8. s \in [1 .. n + 1 -> T]
    BY <2>3, <2>5, <2>6
  <2>9. ASSUME NEW i \in 1 .. n + 1, NEW j \in 1 .. n + 1, i < j PROVE s[i] < s[j]
    <3>1. i \in 1 .. n
      BY <2>9
    <3>2. CASE j = n + 1
      <4>1. s[i] \in T /\ s[i] # m /\ s[i] \in Nat /\ m \in Nat /\ s[j] = m
        BY <2>3, <2>7, <3>1, <3>2
      <4> QED BY <2>2, <4>1
    <3>3. CASE j # n + 1
      <4>1. j \in 1 .. n /\ DOMAIN u = 1 .. n
        BY <3>3
      <4> QED BY <2>5, <2>7, <2>9, <3>1, <4>1 DEF Increasing
    <3> QED BY <3>2, <3>3
  <2>10. Increasing(s)
    BY <2>7, <2>9 DEF Increasing
  <2> QED BY <2>8, <2>10
<1>4. Nat \subseteq H
  <2> HIDE DEF H
  <2> QED BY <1>2, <1>3, SetInduction
<1> QED BY <1>1, <1>4

\* NewHistogram: the bounds are increasing, and there is at least one.
LEMMA BoundsAreSorted ==
    /\ Len(bounds) \in Nat \ {0} /\ DOMAIN bounds = 1 .. Len(bounds)
    /\ \A i \in 1 .. Len(bounds) : bounds[i] \in Nat
    /\ \A i, j \in 1 .. Len(bounds) : i < j => bounds[i] < bounds[j]
<1>1. Bounds \in SUBSET Nat /\ IsFiniteSet(Bounds) /\ Bounds # {}
  BY HistogramAssumption
<1>2. PICK n \in Nat : n = Cardinality(Bounds)
  BY <1>1, FS_CardinalityType
<1>3. n # 0
  BY <1>1, <1>2, FS_EmptySet
<1>4. \E s \in [1 .. n -> Bounds] : \A i, j \in DOMAIN s : i < j => s[i] < s[j]
  BY <1>1, <1>2, Sortable DEF Increasing
<1>5. bounds \in [1 .. n -> Bounds] /\ \A i, j \in DOMAIN bounds : i < j => bounds[i] < bounds[j]
  BY <1>2, <1>4 DEF bounds
<1>6. DOMAIN bounds = 1 .. n /\ Len(bounds) = n
  BY <1>5
<1> QED BY <1>1, <1>3, <1>5, <1>6

\* An observation has a bucket.
LEMMA BucketIs ==
    ASSUME NEW d
    PROVE  BucketOf(d) \in Buckets
<1> DEFINE S == {i \in Buckets : i = Len(bounds) + 1 \/ d <= bounds[i]}
<1>1. Len(bounds) \in Nat
  BY BoundsAreSorted
<1>2. S \in SUBSET Nat /\ Len(bounds) + 1 \in S
  BY <1>1 DEF Buckets
<1>3. Min(S) \in S
  <2> HIDE DEF S
  <2> QED BY <1>2, MinOfNat
<1> QED BY <1>3 DEF BucketOf

\* A part of a width is inside it.
LEMMA PartOfWidth ==
    ASSUME NEW w \in Nat, NEW x \in Nat, NEW y \in Nat \ {0}, x <= y
    PROVE  (w * x) \div y \in 0 .. w
<1>1. PICK q \in Int : q = (w * x) \div y
  OBVIOUS
<1>2. w * x \in Nat /\ w * y \in Nat /\ w * x <= w * y
  <2>1. PICK z \in Nat : y = x + z
    <3>1. y - x \in Nat /\ y = x + (y - x)
      OBVIOUS
    <3> QED BY <3>1
  <2>2. w * y = w * x + w * z /\ w * x \in Nat /\ w * z \in Nat
    BY <2>1
  <2> QED BY <2>2
<1>3. y * q <= w * x /\ w * x < y * q + y
  BY <1>1, <1>2
<1>4. q >= 0
  <2> SUFFICES ASSUME q <= -1 PROVE FALSE
    OBVIOUS
  <2>1. y * q <= y * (-1)
    OBVIOUS
  <2> QED BY <1>2, <1>3, <2>1
<1>5. q <= w
  <2> SUFFICES ASSUME q >= w + 1 PROVE FALSE
    OBVIOUS
  <2>1. PICK z \in Nat : q = w + 1 + z
    <3>1. q - (w + 1) \in Nat /\ q = w + 1 + (q - (w + 1))
      OBVIOUS
    <3> QED BY <3>1
  <2>2. y * q = w * y + y + y * z /\ y * z \in Nat
    BY <2>1
  <2> QED BY <1>2, <1>3, <2>2
<1> QED BY <1>1, <1>4, <1>5

\* The estimate lies between the bounds of its bucket.
LEMMA InterpolateIsInside ==
    ASSUME NEW i \in 1 .. Len(bounds), NEW want \in Nat, NEW prev \in Nat, NEW cum \in Nat,
           100 * prev <= want, want <= 100 * cum
    PROVE  /\ Interpolate(i, want, prev, cum) <= bounds[i]
           /\ i > 1 => Interpolate(i, want, prev, cum) >= bounds[i - 1]
<1>1. PICK n \in Nat \ {0} : n = Len(bounds)
  BY BoundsAreSorted
<1>2. PICK hi \in Nat : hi = bounds[i]
  BY BoundsAreSorted
<1>3. PICK lo \in Nat : lo = (IF i = 1 THEN 0 ELSE bounds[i - 1]) /\ lo <= hi
  <2>1. CASE i = 1
    BY <1>2, <2>1
  <2>2. CASE i # 1
    <3>1. i - 1 \in 1 .. Len(bounds) /\ i - 1 < i
      BY <1>1, <2>2
    <3>2. bounds[i - 1] \in Nat /\ bounds[i - 1] < bounds[i]
      BY <3>1, BoundsAreSorted
    <3> QED BY <1>2, <2>2, <3>2
  <2> QED BY <2>1, <2>2
<1>4. ~(i > Len(bounds))
  BY <1>1
<1>5. CASE cum = prev
  BY <1>2, <1>3, <1>4, <1>5 DEF Interpolate
<1>6. CASE cum # prev
  <2>1. /\ hi - lo \in Nat /\ want - 100 * prev \in Nat /\ 100 * (cum - prev) \in Nat \ {0}
        /\ want - 100 * prev <= 100 * (cum - prev)
    BY <1>6, <1>3
  <2>2. PICK part \in 0 .. hi - lo :
           part = ((hi - lo) * (want - 100 * prev)) \div (100 * (cum - prev))
    BY <2>1, PartOfWidth
  <2>3. Interpolate(i, want, prev, cum) = lo + part
    BY <1>2, <1>3, <1>4, <1>6, <2>2 DEF Interpolate
  <2> QED BY <1>2, <1>3, <2>2, <2>3
<1> QED BY <1>5, <1>6

-----------------------------------------------------------------------------
(***************************************************************************)
(* The invariant of the histogram.                                         *)
(***************************************************************************)
\* What Observe can have left to add, and what it has left after the bucket.
AfterBucket == {<<"sum", "total">>, <<"total">>}
Lefts == {<<>>, Adds} \cup AfterBucket

\* The observations that are in bucket b and not in the total.
Pending(b) ==
    {o \in Observers : observer[o].left \in AfterBucket /\ BucketOf(observer[o].d) = b}

Below(f, g) == \A b \in Buckets : f[b] <= g[b]

HistogramTypeOK ==
    /\ counts \in [Buckets -> Nat] /\ finished \in [Buckets -> Nat] /\ total \in Nat
    /\ observer \in [Observers -> [left: Lefts, d: Int]]

\* Every bucket is ahead of the total by the observations between the two.
CountsInv ==
    /\ \A b \in Buckets : counts[b] = finished[b] + Cardinality(Pending(b))
    /\ total = SumFunctionOnSet(finished, Buckets)

\* What the total counted when Quantile read it is in the buckets it reads.
ReadInv ==
    /\ reader.at \in {"idle", "walk", "done"}
    /\ reader.at # "idle" =>
          /\ reader.before \in [Buckets -> Nat] /\ Below(reader.before, finished)
          /\ reader.want \in Nat
          /\ reader.want <= 100 * SumFunctionOnSet(reader.before, Buckets)

\* The walk has read at least what was there before and at most what is there
\* now, and has not reached the rank.
WalkInv ==
    reader.at = "walk" =>
        /\ reader.i \in Buckets /\ reader.cum \in Nat
        /\ Upto(reader.before, reader.i - 1) <= reader.cum
        /\ reader.cum <= Upto(counts, reader.i - 1)
        /\ 100 * reader.cum <= reader.want
        /\ \A j \in 1 .. reader.i - 1 : 100 * Upto(reader.before, j) < reader.want

DoneInv ==
    reader.at = "done" =>
        /\ reader.bucket \in Buckets
        /\ reader.want <= 100 * Upto(counts, reader.bucket)
        /\ \A j \in 1 .. reader.bucket - 1 : 100 * Upto(reader.before, j) < reader.want
        /\ reader.bucket \in 1 .. Len(bounds) =>
              /\ reader.estimate <= bounds[reader.bucket]
              /\ reader.bucket > 1 => reader.estimate >= bounds[reader.bucket - 1]

HInv == HistogramTypeOK /\ CountsInv /\ ReadInv /\ WalkInv /\ DoneInv

\* The buckets are an interval.
LEMMA BucketsAre ==
    /\ Len(bounds) \in Nat \ {0} /\ Buckets = 1 .. Len(bounds) + 1 /\ IsFiniteSet(Buckets)
<1>1. Len(bounds) \in Nat \ {0}
  BY BoundsAreSorted
<1>2. IsFiniteSet(1 .. Len(bounds) + 1)
  BY <1>1, FS_Interval
<1> QED BY <1>1, <1>2 DEF Buckets

\* Smaller counts have smaller sums.
LEMMA UptoIsMonotone ==
    ASSUME NEW f \in [Buckets -> Nat], NEW g \in [Buckets -> Nat], Below(f, g),
           NEW i \in 0 .. Len(bounds) + 1
    PROVE  Upto(f, i) <= Upto(g, i) /\ Upto(f, i) \in Nat /\ Upto(g, i) \in Nat
<1>1. IsFiniteSet(1 .. i)
  BY FS_Interval
<1>2. \A x \in 1 .. i : x \in Buckets
  BY BucketsAre
<1>3. \A x \in 1 .. i : f[x] \in Nat /\ g[x] \in Nat /\ f[x] <= g[x]
  BY <1>2 DEF Below
<1>4. SumFunctionOnSet(f, 1 .. i) <= SumFunctionOnSet(g, 1 .. i)
  BY <1>1, <1>3, SumIsMonotone
<1>5. SumFunctionOnSet(f, 1 .. i) \in Nat /\ SumFunctionOnSet(g, 1 .. i) \in Nat
  BY <1>1, <1>3, SumIsNatural
<1> QED BY <1>4, <1>5 DEF Upto

\* What the total counts is in the buckets.
LEMMA FinishedBelowCounts ==
    ASSUME HistogramTypeOK, CountsInv
    PROVE  Below(finished, counts)
<1> SUFFICES ASSUME NEW b \in Buckets PROVE finished[b] <= counts[b]
  BY DEF Below
<1>1. IsFiniteSet(Pending(b))
  BY HistogramAssumption, FS_Subset DEF Pending
<1>2. Cardinality(Pending(b)) \in Nat
  BY <1>1, FS_CardinalityType
<1> QED BY <1>2 DEF HistogramTypeOK, CountsInv

\* Quantile, while the buckets and the total grow.
LEMMA ReaderStays ==
    ASSUME ReadInv, WalkInv, DoneInv, HistogramTypeOK, HistogramTypeOK',
           reader' = reader, Below(counts, counts'), Below(finished, finished')
    PROVE  ReadInv' /\ WalkInv' /\ DoneInv'
<1>1. /\ counts \in [Buckets -> Nat] /\ counts' \in [Buckets -> Nat]
      /\ finished \in [Buckets -> Nat] /\ finished' \in [Buckets -> Nat]
  BY DEF HistogramTypeOK
<1>2. Len(bounds) \in Nat \ {0} /\ Buckets = 1 .. Len(bounds) + 1
  BY BucketsAre
<1>3. ReadInv'
  <2>1. ASSUME reader.at # "idle" PROVE Below(reader.before, finished')
    BY <1>1, <2>1 DEF ReadInv, Below
  <2>2. (reader.at # "idle" => Below(reader.before, finished))'
    BY <2>1 DEF Below
  <2> QED BY <2>2 DEF ReadInv
<1>4. WalkInv'
  <2> SUFFICES ASSUME reader.at = "walk"
               PROVE  reader.cum <= Upto(counts', reader.i - 1)
    BY DEF WalkInv, Upto
  <2>1. reader.i - 1 \in 0 .. Len(bounds) + 1 /\ reader.cum \in Nat
    BY <1>2 DEF WalkInv
  <2>2. PICK i \in 0 .. Len(bounds) + 1 : i = reader.i - 1
    BY <2>1
  <2>3. Upto(counts, i) <= Upto(counts', i) /\ Upto(counts, i) \in Nat /\ Upto(counts', i) \in Nat
    BY <1>1, <2>2, UptoIsMonotone
  <2> QED BY <2>1, <2>2, <2>3 DEF WalkInv
<1>5. DoneInv'
  <2> SUFFICES ASSUME reader.at = "done"
               PROVE  reader.want <= 100 * Upto(counts', reader.bucket)
    BY DEF DoneInv, Upto
  <2>1. PICK i \in 0 .. Len(bounds) + 1 : i = reader.bucket
    BY <1>2 DEF DoneInv
  <2>2. Upto(counts, i) <= Upto(counts', i) /\ Upto(counts, i) \in Nat /\ Upto(counts', i) \in Nat
    BY <1>1, <2>1, UptoIsMonotone
  <2>3. reader.want \in Nat
    BY DEF ReadInv
  <2> QED BY <2>1, <2>2, <2>3 DEF DoneInv
<1> QED BY <1>3, <1>4, <1>5

\* The initial state.
LEMMA InitHInv == HInit => HInv
<1> SUFFICES ASSUME HInit PROVE HInv
  OBVIOUS
<1>1. HistogramTypeOK
  BY DEF HInit, HistogramTypeOK, Nothing, Lefts
<1>2. \A b \in Buckets : Pending(b) = {}
  <2>1. <<>> \notin AfterBucket
    BY DEF AfterBucket
  <2> QED BY <2>1 DEF Pending, HInit
<1>3. SumFunctionOnSet(finished, Buckets) = 0
  <2> DEFINE G == {s \in SUBSET Buckets : SumFunctionOnSet(finished, s) = 0}
  <2>1. {} \in G
    BY SumOnEmpty
  <2>2. ASSUME NEW s \in SUBSET Buckets, s # {}, s \ {Pick(s)} \in G PROVE s \in G
    <3>1. IsFiniteSet(s)
      BY BucketsAre, FS_Subset
    <3>2. /\ SumFunctionOnSet(finished, s) = finished[Pick(s)] + SumFunctionOnSet(finished, s \ {Pick(s)})
          /\ Pick(s) \in s
      BY <2>2, <3>1, SumStep
    <3> QED BY <2>2, <3>2 DEF HInit, Nothing
  <2>3. SUBSET Buckets \subseteq G
    <3>1. IsFiniteSet(Buckets)
      BY BucketsAre
    <3> HIDE DEF G
    <3> QED BY <2>1, <2>2, <3>1, SubsetInduction
  <2> QED BY <2>3
<1>4. CountsInv
  <2>1. Cardinality({}) = 0
    BY FS_EmptySet
  <2>2. \A b \in Buckets : counts[b] = 0 /\ finished[b] = 0
    BY DEF HInit, Nothing
  <2>3. total = 0
    BY DEF HInit
  <2>4. \A b \in Buckets : Cardinality(Pending(b)) = 0
    BY <1>2, <2>1
  <2> QED BY <1>3, <2>2, <2>3, <2>4 DEF CountsInv
<1>5. reader.at = "idle"
  BY DEF HInit, Idle
<1> QED BY <1>1, <1>4, <1>5 DEF HInv, ReadInv, WalkInv, DoneInv

\* What Observe has left.
LEMMA LeftIs ==
    ASSUME HistogramTypeOK, NEW o \in Observers, observer[o].left # <<>>
    PROVE  /\ Head(observer[o].left) = "bucket" =>
                  observer[o].left = Adds /\ Tail(observer[o].left) = <<"sum", "total">>
           /\ Head(observer[o].left) = "sum" =>
                  observer[o].left = <<"sum", "total">> /\ Tail(observer[o].left) = <<"total">>
           /\ Head(observer[o].left) = "total" =>
                  observer[o].left = <<"total">> /\ Tail(observer[o].left) = <<>>
           /\ Adds \notin AfterBucket /\ <<>> \notin AfterBucket
<1>1. PICK l \in Lefts : l = observer[o].left
  BY DEF HistogramTypeOK
<1>2. Adds \notin AfterBucket /\ <<>> \notin AfterBucket
  BY DEF Adds, AfterBucket
<1>3. CASE l = Adds
  BY <1>1, <1>2, <1>3 DEF Adds
<1>4. CASE l = <<"sum", "total">>
  BY <1>1, <1>2, <1>4
<1>5. CASE l = <<"total">>
  BY <1>1, <1>2, <1>5
<1> QED BY <1>1, <1>3, <1>4, <1>5 DEF Lefts, AfterBucket

\* The call of Observe, and its add to the sum.
LEMMA ObserveKeeps ==
    ASSUME HInv, NEW o \in Observers,
           (\E d \in Durations : Observe(o, d)) \/ AddToSum(o)
    PROVE  HInv'
<1>1. /\ UNCHANGED <<counts, total, finished, reader>>
      /\ HistogramTypeOK /\ CountsInv /\ ReadInv /\ WalkInv /\ DoneInv
  BY DEF HInv, Observe, AddToSum, Add
<1>2. /\ observer' \in [Observers -> [left: Lefts, d: Int]]
      /\ \A p \in Observers :
            /\ observer'[p].left \in AfterBucket <=> observer[p].left \in AfterBucket
            /\ observer[p].left \in AfterBucket => observer'[p].d = observer[p].d
  <2>1. observer \in [Observers -> [left: Lefts, d: Int]]
    BY <1>1 DEF HistogramTypeOK
  <2>2. ASSUME NEW d \in Durations, Observe(o, d)
        PROVE  \/ observer' = observer
               \/ /\ observer' = [observer EXCEPT ![o] = [left |-> Adds, d |-> d]]
                  /\ observer[o].left = <<>> /\ d \in Int
    BY <2>2, HistogramAssumption DEF Observe
  <2>3. Adds \notin AfterBucket /\ <<>> \notin AfterBucket /\ Adds \in Lefts
    BY DEF Adds, AfterBucket, Lefts
  <2>4. ASSUME NEW d \in Int, observer[o].left = <<>>,
               observer' = [observer EXCEPT ![o] = [left |-> Adds, d |-> d]]
        PROVE  <1>2!1 /\ <1>2!2
    BY <2>1, <2>3, <2>4
  <2>5. CASE AddToSum(o)
    <3>1. /\ observer' = [observer EXCEPT ![o].left = Tail(@)]
          /\ observer[o].left = <<"sum", "total">> /\ Tail(observer[o].left) = <<"total">>
      BY <1>1, <2>5, LeftIs DEF AddToSum, Add
    <3>2. <<"total">> \in AfterBucket /\ <<"sum", "total">> \in AfterBucket /\ <<"total">> \in Lefts
      BY DEF AfterBucket, Lefts
    <3>3. observer' = [observer EXCEPT ![o].left = <<"total">>]
      BY <2>1, <3>1
    <3> QED BY <2>1, <3>1, <3>2, <3>3
  <2>6. CASE observer' = observer
    BY <2>1, <2>6
  <2> QED BY <2>2, <2>4, <2>5, <2>6
<1>3. HistogramTypeOK'
  BY <1>1, <1>2 DEF HistogramTypeOK
<1>4. \A b \in Buckets : Pending(b)' = Pending(b)
  BY <1>2 DEF Pending
<1>5. CountsInv'
  BY <1>1, <1>4 DEF CountsInv
<1>6. Below(counts, counts') /\ Below(finished, finished')
  BY <1>1 DEF Below, HistogramTypeOK
<1>7. ReadInv' /\ WalkInv' /\ DoneInv'
  BY <1>1, <1>3, <1>6, ReaderStays
<1> QED BY <1>3, <1>5, <1>7 DEF HInv

\* The add to a bucket: the observation is pending from here on.
LEMMA AddToBucketKeeps ==
    ASSUME HInv, NEW o \in Observers, AddToBucket(o)
    PROVE  HInv'
<1>1. /\ UNCHANGED <<total, finished, reader>>
      /\ HistogramTypeOK /\ CountsInv /\ ReadInv /\ WalkInv /\ DoneInv
  BY DEF HInv, AddToBucket, Add
<1>2. PICK b \in Buckets : b = BucketOf(observer[o].d)
  BY BucketIs
<1>3. /\ counts' = [counts EXCEPT ![b] = @ + 1]
      /\ observer' = [observer EXCEPT ![o].left = Tail(@)]
      /\ observer[o].left = Adds /\ Tail(observer[o].left) = <<"sum", "total">>
      /\ observer[o].left \notin AfterBucket
  BY <1>1, <1>2, LeftIs DEF AddToBucket, Add
<1>4. /\ observer \in [Observers -> [left: Lefts, d: Int]]
      /\ counts \in [Buckets -> Nat] /\ finished \in [Buckets -> Nat]
  BY <1>1 DEF HistogramTypeOK
<1>5. <<"sum", "total">> \in AfterBucket /\ <<"sum", "total">> \in Lefts
  BY DEF AfterBucket, Lefts
<1>6. /\ observer' \in [Observers -> [left: Lefts, d: Int]]
      /\ observer'[o].left = <<"sum", "total">> /\ observer'[o].d = observer[o].d
      /\ \A p \in Observers : p # o => observer'[p] = observer[p]
  BY <1>3, <1>4, <1>5
<1>7. HistogramTypeOK'
  BY <1>1, <1>3, <1>4, <1>6 DEF HistogramTypeOK
<1>8. /\ o \notin Pending(b) /\ Pending(b)' = Pending(b) \cup {o}
      /\ \A x \in Buckets : x # b => Pending(x)' = Pending(x)
  BY <1>2, <1>3, <1>5, <1>6 DEF Pending
<1>9. IsFiniteSet(Pending(b)) /\ Cardinality(Pending(b)) \in Nat
  BY HistogramAssumption, FS_Subset, FS_CardinalityType DEF Pending
<1>10. Cardinality(Pending(b)') = Cardinality(Pending(b)) + 1
  BY <1>8, <1>9, FS_AddElement
<1>11. ASSUME NEW x \in Buckets PROVE counts'[x] = finished'[x] + Cardinality(Pending(x)')
  <2>1. counts[x] = finished[x] + Cardinality(Pending(x))
    BY <1>1 DEF CountsInv
  <2>2. CASE x = b
    <3>1. counts'[x] = counts[x] + 1 /\ finished'[x] = finished[x] /\ finished[x] \in Nat
      BY <1>1, <1>3, <1>4, <2>2
    <3> QED BY <1>9, <1>10, <2>1, <2>2, <3>1
  <2>3. CASE x # b
    BY <1>1, <1>3, <1>4, <1>8, <2>1, <2>3
  <2> QED BY <2>2, <2>3
<1>12. CountsInv'
  BY <1>1, <1>11 DEF CountsInv
<1>13. Below(counts, counts') /\ Below(finished, finished')
  BY <1>1, <1>3, <1>4 DEF Below
<1>14. ReadInv' /\ WalkInv' /\ DoneInv'
  BY <1>1, <1>7, <1>13, ReaderStays
<1> QED BY <1>7, <1>12, <1>14 DEF HInv

\* The add to the total: the observation is counted and no longer pending.
LEMMA AddToTotalKeeps ==
    ASSUME HInv, NEW o \in Observers, AddToTotal(o)
    PROVE  HInv'
<1>1. /\ UNCHANGED <<counts, reader>> /\ total' = total + 1
      /\ HistogramTypeOK /\ CountsInv /\ ReadInv /\ WalkInv /\ DoneInv
  BY DEF HInv, AddToTotal, Add
<1>2. PICK b \in Buckets : b = BucketOf(observer[o].d)
  BY BucketIs
<1>3. /\ finished' = [finished EXCEPT ![b] = @ + 1]
      /\ observer' = [observer EXCEPT ![o].left = Tail(@)]
      /\ observer[o].left = <<"total">> /\ Tail(observer[o].left) = <<>>
      /\ <<>> \notin AfterBucket
  BY <1>1, <1>2, LeftIs DEF AddToTotal, Add
<1>4. /\ observer \in [Observers -> [left: Lefts, d: Int]]
      /\ counts \in [Buckets -> Nat] /\ finished \in [Buckets -> Nat] /\ total \in Nat
  BY <1>1 DEF HistogramTypeOK
<1>5. <<"total">> \in AfterBucket /\ <<>> \in Lefts
  BY DEF AfterBucket, Lefts
<1>6. /\ observer' \in [Observers -> [left: Lefts, d: Int]]
      /\ observer'[o].left = <<>>
      /\ \A p \in Observers : p # o => observer'[p] = observer[p]
  BY <1>3, <1>4, <1>5
<1>7. HistogramTypeOK'
  BY <1>1, <1>3, <1>4, <1>6 DEF HistogramTypeOK
<1>8. /\ o \in Pending(b) /\ Pending(b)' = Pending(b) \ {o}
      /\ \A x \in Buckets : x # b => Pending(x)' = Pending(x)
  BY <1>2, <1>3, <1>5, <1>6 DEF Pending
<1>9. IsFiniteSet(Pending(b)) /\ Cardinality(Pending(b)) \in Nat
  BY HistogramAssumption, FS_Subset, FS_CardinalityType DEF Pending
<1>10. Cardinality(Pending(b)') = Cardinality(Pending(b)) - 1
  BY <1>8, <1>9, FS_RemoveElement
<1>11. ASSUME NEW x \in Buckets PROVE counts'[x] = finished'[x] + Cardinality(Pending(x)')
  <2>1. counts[x] = finished[x] + Cardinality(Pending(x))
    BY <1>1 DEF CountsInv
  <2>2. CASE x = b
    <3>1. counts'[x] = counts[x] /\ finished'[x] = finished[x] + 1 /\ finished[x] \in Nat
      BY <1>1, <1>3, <1>4, <2>2
    <3> QED BY <1>9, <1>10, <2>1, <2>2, <3>1
  <2>3. CASE x # b
    BY <1>1, <1>3, <1>4, <1>8, <2>1, <2>3
  <2> QED BY <2>2, <2>3
<1>12. total' = SumFunctionOnSet(finished', Buckets)
  <2>1. PICK f \in [Buckets -> Nat] : f = finished
    BY <1>4
  <2>2. PICK g \in [Buckets -> Nat] : g = finished'
    BY <1>7 DEF HistogramTypeOK
  <2>3. g[b] = f[b] + 1 /\ \A y \in Buckets \ {b} : f[y] = g[y]
    BY <1>3, <1>4, <2>1, <2>2
  <2>4. IsFiniteSet(Buckets)
    BY BucketsAre
  <2>5. /\ SumFunction(f) + g[b] = SumFunction(g) + f[b]
        /\ SumFunction(f) \in Nat /\ SumFunction(g) \in Nat
    BY <2>3, <2>4, SumOnChange
  <2>6. SumFunction(f) = SumFunctionOnSet(f, Buckets) /\ SumFunction(g) = SumFunctionOnSet(g, Buckets)
    BY DEF SumFunction
  <2>7. total = SumFunctionOnSet(f, Buckets)
    BY <1>1, <2>1 DEF CountsInv
  <2>8. f[b] \in Nat
    OBVIOUS
  <2>9. total' = SumFunctionOnSet(g, Buckets)
    BY <1>1, <2>3, <2>5, <2>6, <2>7, <2>8
  <2> QED BY <2>2, <2>9
<1>13. CountsInv'
  BY <1>11, <1>12 DEF CountsInv
<1>14. Below(counts, counts') /\ Below(finished, finished')
  BY <1>1, <1>3, <1>4 DEF Below
<1>15. ReadInv' /\ WalkInv' /\ DoneInv'
  BY <1>1, <1>7, <1>14, ReaderStays
<1> QED BY <1>7, <1>13, <1>15 DEF HInv

\* Quantile reads the total.
LEMMA ReadTotalKeeps ==
    ASSUME HInv, NEW q \in Percents, ReadTotal(q)
    PROVE  HInv'
<1>1. /\ UNCHANGED <<counts, total, observer, finished>> /\ HistogramTypeOK /\ CountsInv
      /\ reader' = [at |-> "walk", i |-> 1, want |-> q * total, cum |-> 0, before |-> finished]
  BY DEF HInv, ReadTotal
<1>2. HistogramTypeOK' /\ CountsInv'
  BY <1>1 DEF HistogramTypeOK, CountsInv, Pending
<1>3. /\ reader'.at = "walk" /\ reader'.i = 1 /\ reader'.want = q * total
      /\ reader'.cum = 0 /\ reader'.before = finished
  BY <1>1
<1>4. q \in 0 .. 100 /\ total \in Nat /\ finished \in [Buckets -> Nat]
  BY <1>1, HistogramAssumption DEF HistogramTypeOK
<1>5. q * total \in Nat /\ q * total <= 100 * total
  <2>1. PICK r \in Nat : 100 = q + r
    <3>1. 100 - q \in Nat /\ 100 = q + (100 - q)
      BY <1>4
    <3> QED BY <3>1
  <2>2. 100 * total = q * total + r * total /\ q * total \in Nat /\ r * total \in Nat
    BY <1>4, <2>1
  <2> QED BY <2>2
<1>6. total = SumFunctionOnSet(finished, Buckets)
  BY <1>1 DEF CountsInv
<1>7. ReadInv'
  <2>1. Below(reader.before, finished)'
    BY <1>1, <1>3, <1>4 DEF Below
  <2> QED BY <1>3, <1>4, <1>5, <1>6, <2>1 DEF ReadInv
<1>8. 1 .. 0 = {} /\ 1 \in Buckets
  BY BucketsAre
<1>9. \A f : Upto(f, 0) = 0
  BY <1>8, SumOnEmpty DEF Upto
<1>10. WalkInv'
  BY <1>3, <1>5, <1>8, <1>9 DEF WalkInv
<1>11. DoneInv'
  BY <1>3 DEF DoneInv
<1> QED BY <1>2, <1>7, <1>10, <1>11 DEF HInv

\* Quantile reads a bucket.  The rank is reached at the last one at the latest,
\* since everything that was in the total is in the buckets.
LEMMA ReadBucketKeeps == HInv /\ ReadBucket => HInv'
<1> SUFFICES ASSUME HInv, ReadBucket PROVE HInv'
  OBVIOUS
<1>1. /\ UNCHANGED <<counts, total, observer, finished>> /\ HistogramTypeOK /\ CountsInv
      /\ ReadInv /\ WalkInv /\ reader.at = "walk"
  BY DEF HInv, ReadBucket
<1>2. HistogramTypeOK' /\ CountsInv'
  BY <1>1 DEF HistogramTypeOK, CountsInv, Pending
<1>3. PICK n \in Nat \ {0} : n = Len(bounds) /\ Buckets = 1 .. n + 1
  BY BucketsAre
<1>4. PICK i \in 1 .. n + 1 : i = reader.i
  BY <1>1, <1>3 DEF WalkInv
<1>5. PICK prev \in Nat : prev = reader.cum
  BY <1>1 DEF WalkInv
<1>6. PICK want \in Nat : want = reader.want
  BY <1>1 DEF ReadInv
<1>7. PICK before \in [Buckets -> Nat] : before = reader.before /\ Below(before, finished)
  BY <1>1 DEF ReadInv
<1>8. counts \in [Buckets -> Nat] /\ finished \in [Buckets -> Nat] /\ counts[i] \in Nat
  BY <1>1, <1>3 DEF HistogramTypeOK
<1>9. PICK cum \in Nat : cum = prev + counts[i]
  BY <1>8
<1>10. Below(before, counts)
  <2>1. Below(finished, counts)
    BY <1>1, FinishedBelowCounts
  <2> QED BY <1>7, <1>8, <2>1 DEF Below
<1>11. /\ Upto(before, i - 1) <= prev /\ prev <= Upto(counts, i - 1)
       /\ 100 * prev <= want
       /\ \A j \in 1 .. i - 1 : 100 * Upto(before, j) < want
  BY <1>1, <1>4, <1>5, <1>6, <1>7 DEF WalkInv
<1>12. /\ Upto(before, i) = Upto(before, i - 1) + before[i]
       /\ Upto(counts, i) = Upto(counts, i - 1) + counts[i]
       /\ Upto(before, i) \in Nat /\ Upto(counts, i) \in Nat
       /\ Upto(before, i - 1) \in Nat /\ Upto(counts, i - 1) \in Nat
  <2>1. PICK m \in Nat : m = i - 1 /\ m + 1 = i
    BY <1>4
  <2>2. \A x \in 1 .. m + 1 : before[x] \in Nat /\ counts[x] \in Nat
    BY <1>3, <1>8, <2>1
  <2>3. /\ Upto(before, m + 1) = Upto(before, m) + before[m + 1]
        /\ Upto(before, m) \in Nat /\ Upto(before, m + 1) \in Nat
    BY <2>2, UptoStep
  <2>4. /\ Upto(counts, m + 1) = Upto(counts, m) + counts[m + 1]
        /\ Upto(counts, m) \in Nat /\ Upto(counts, m + 1) \in Nat
    BY <2>2, UptoStep
  <2> QED BY <2>1, <2>3, <2>4
<1>13. Upto(before, i) <= cum /\ cum <= Upto(counts, i)
  <2>1. before[i] <= counts[i] /\ before[i] \in Nat
    BY <1>3, <1>10 DEF Below
  <2> QED BY <1>8, <1>9, <1>11, <1>12, <2>1
<1>14. reader' = IF 100 * cum < want /\ i < n + 1
                 THEN [reader EXCEPT !.i = i + 1, !.cum = cum]
                 ELSE [at |-> "done", want |-> want, before |-> before,
                       bucket |-> IF 100 * cum < want THEN i + 1 ELSE i,
                       estimate |-> Interpolate(i, want, prev, cum)]
  BY <1>3, <1>4, <1>5, <1>6, <1>7, <1>9 DEF ReadBucket
<1>15. want <= 100 * SumFunctionOnSet(before, Buckets)
  BY <1>1, <1>6, <1>7 DEF ReadInv
<1>16. (Below(reader.before, finished))' <=> Below(reader'.before, finished)
  BY <1>1 DEF Below
<1>17. CASE 100 * cum < want /\ i < n + 1
  <2>1. reader' = [reader EXCEPT !.i = i + 1, !.cum = cum]
    BY <1>14, <1>17
  <2>2. /\ reader'.at = "walk" /\ reader'.i = i + 1 /\ reader'.cum = cum
        /\ reader'.want = want /\ reader'.before = before
    BY <1>1, <1>6, <1>7, <2>1
  <2>3. ReadInv'
    BY <1>6, <1>7, <1>15, <1>16, <2>2 DEF ReadInv
  <2>4. \A j \in 1 .. i : 100 * Upto(before, j) < want
    <3>1. 100 * Upto(before, i) < want
      BY <1>12, <1>13, <1>17
    <3> QED BY <1>11, <3>1
  <2>5. i + 1 \in Buckets /\ (i + 1) - 1 = i
    BY <1>3, <1>17
  <2>6. WalkInv'
    <3>1. Upto(counts, i)' = Upto(counts, i)
      BY <1>1
    <3>2. reader'.i - 1 = i
      BY <2>2, <2>5
    <3>3. /\ Upto(reader.before, reader.i - 1)' = Upto(before, i)
          /\ Upto(counts, reader.i - 1)' = Upto(counts, i)
      BY <1>1, <2>2, <3>2 DEF Upto
    <3>4. \A j \in 1 .. reader'.i - 1 : 100 * Upto(reader'.before, j) < reader'.want
      BY <2>2, <2>4, <3>2
    <3>5. (\A j \in 1 .. reader.i - 1 : 100 * Upto(reader.before, j) < reader.want)'
      BY <3>4 DEF Upto
    <3> QED BY <1>13, <1>17, <2>2, <2>5, <3>3, <3>5 DEF WalkInv
  <2>7. DoneInv'
    BY <2>2 DEF DoneInv
  <2> QED BY <1>2, <2>3, <2>6, <2>7 DEF HInv
<1>18. CASE ~(100 * cum < want /\ i < n + 1)
  <2>1. want <= 100 * cum
    <3>1. CASE i < n + 1
      BY <1>18, <3>1
    <3>2. CASE i = n + 1
      <4>1. Upto(before, i) = SumFunctionOnSet(before, Buckets)
        BY <1>3, <3>2 DEF Upto
      <4> QED BY <1>12, <1>13, <1>15, <4>1
    <3> QED BY <3>1, <3>2
  <2>2. /\ reader'.at = "done" /\ reader'.want = want /\ reader'.before = before
        /\ reader'.bucket = i /\ reader'.estimate = Interpolate(i, want, prev, cum)
    BY <1>14, <1>18, <2>1
  <2>3. ReadInv'
    BY <1>6, <1>7, <1>15, <1>16, <2>2 DEF ReadInv
  <2>4. WalkInv'
    BY <2>2 DEF WalkInv
  <2>5. want <= 100 * Upto(counts, i)
    BY <1>12, <1>13, <2>1
  <2>6. i \in 1 .. Len(bounds) =>
           /\ reader'.estimate <= bounds[i]
           /\ i > 1 => reader'.estimate >= bounds[i - 1]
    BY <1>11, <2>1, <2>2, InterpolateIsInside
  <2>7. DoneInv'
    <3>1. (reader.want <= 100 * Upto(counts, reader.bucket))'
      BY <1>1, <2>2, <2>5 DEF Upto
    <3>2. \A j \in 1 .. reader'.bucket - 1 : 100 * Upto(reader'.before, j) < reader'.want
      BY <1>11, <2>2
    <3>3. (\A j \in 1 .. reader.bucket - 1 : 100 * Upto(reader.before, j) < reader.want)'
      BY <3>2 DEF Upto
    <3>4. reader'.bucket \in Buckets
      BY <1>3, <2>2
    <3> QED BY <2>2, <2>6, <3>1, <3>3, <3>4 DEF DoneInv
  <2> QED BY <1>2, <2>3, <2>4, <2>7 DEF HInv
<1> QED BY <1>17, <1>18

\* Every step keeps the invariant of the histogram.
LEMMA NextHInv == HInv /\ [HNext]_hvars => HInv'
<1> SUFFICES ASSUME HInv, [HNext]_hvars PROVE HInv'
  OBVIOUS
<1>1. CASE UNCHANGED hvars
  <2>1. UNCHANGED <<counts, total, observer, finished, reader>>
    BY <1>1 DEF hvars
  <2>2. HistogramTypeOK' /\ CountsInv'
    BY <2>1 DEF HInv, HistogramTypeOK, CountsInv, Pending
  <2>3. Below(counts, counts') /\ Below(finished, finished')
    BY <2>1 DEF Below, HInv, HistogramTypeOK
  <2>4. ReadInv' /\ WalkInv' /\ DoneInv'
    BY <2>1, <2>2, <2>3, ReaderStays DEF HInv
  <2> QED BY <2>2, <2>4 DEF HInv
<1>2. CASE Return
  <2>1. UNCHANGED <<counts, total, observer, finished>> /\ reader' = Idle
    BY <1>2 DEF Return
  <2>2. HistogramTypeOK' /\ CountsInv'
    BY <2>1 DEF HInv, HistogramTypeOK, CountsInv, Pending
  <2>3. reader'.at = "idle"
    BY <2>1 DEF Idle
  <2> QED BY <2>2, <2>3 DEF HInv, ReadInv, WalkInv, DoneInv
<1> QED BY <1>1, <1>2, ObserveKeeps, AddToBucketKeeps, AddToTotalKeeps, ReadTotalKeeps,
           ReadBucketKeeps DEF HNext

\* Quantile, with any number of goroutines in Observe: it finds a bucket, no
\* lower than that of the rank among all observations, no higher than that of
\* the rank among those the total counted when it began, and its estimate lies
\* inside that bucket.
THEOREM QuantileIsBracketedCorrect == HSpec => []QuantileIsBracketed
<1>1. HInv => QuantileIsBracketed
  <2> SUFFICES ASSUME HInv, reader.at = "done"
               PROVE  /\ reader.bucket \in BucketOfRank(counts, reader.want)
                                              .. BucketOfRank(reader.before, reader.want)
                      /\ reader.bucket \in DOMAIN bounds =>
                            /\ reader.estimate <= bounds[reader.bucket]
                            /\ reader.bucket > 1 => reader.estimate >= bounds[reader.bucket - 1]
    BY DEF QuantileIsBracketed
  <2>1. PICK n \in Nat \ {0} : n = Len(bounds) /\ Buckets = 1 .. n + 1 /\ DOMAIN bounds = 1 .. n
    BY BucketsAre, BoundsAreSorted
  <2>2. DoneInv /\ reader.want \in Nat
    BY DEF HInv, ReadInv
  <2>3. PICK b \in 1 .. n + 1 : b = reader.bucket
    BY <2>1, <2>2 DEF DoneInv
  <2> DEFINE Reached(f) == {i \in Buckets : 100 * SumFunctionOnSet(f, 1 .. i) >= reader.want}
                               \cup {Len(bounds) + 2}
  <2>4. ASSUME NEW f PROVE Reached(f) \in SUBSET Nat /\ Reached(f) # {}
    BY <2>1
  <2> HIDE DEF Reached
  <2>5. ASSUME NEW f
        PROVE  /\ BucketOfRank(f, reader.want) \in Reached(f)
               /\ \A y \in Reached(f) : BucketOfRank(f, reader.want) <= y
    <3>1. PICK S \in SUBSET Nat : S = Reached(f) /\ S # {}
      BY <2>4
    <3>2. Min(S) \in S /\ \A y \in S : Min(S) <= y
      BY <3>1, MinOfNat
    <3>3. BucketOfRank(f, reader.want) = Min(S)
      BY <3>1 DEF BucketOfRank, Reached
    <3> QED BY <3>1, <3>2, <3>3
  <2>6. BucketOfRank(counts, reader.want) <= b
    <3>1. reader.want <= 100 * Upto(counts, b)
      BY <2>2, <2>3 DEF DoneInv
    <3>2. Upto(counts, b) \in Nat
      <4>1. counts \in [Buckets -> Nat] /\ Below(counts, counts)
        BY DEF HInv, HistogramTypeOK, Below
      <4>2. b \in 0 .. Len(bounds) + 1
        BY <2>1
      <4> QED BY <4>1, <4>2, UptoIsMonotone
    <3>3. b \in Reached(counts)
      BY <2>1, <2>2, <3>1, <3>2 DEF Upto, Reached
    <3> QED BY <2>5, <3>3
  <2>7. b <= BucketOfRank(reader.before, reader.want)
    <3>1. PICK r : r = BucketOfRank(reader.before, reader.want)
      OBVIOUS
    <3>2. r \in Reached(reader.before) /\ r \in Nat
      BY <2>4, <2>5, <3>1
    <3>3. CASE r = Len(bounds) + 2
      BY <2>1, <3>1, <3>3
    <3>4. CASE r \in Buckets /\ 100 * SumFunctionOnSet(reader.before, 1 .. r) >= reader.want
      <4> SUFFICES ASSUME r < b PROVE FALSE
        BY <3>1, <3>2
      <4>1. r \in 1 .. b - 1
        BY <2>1, <3>4
      <4>2. 100 * Upto(reader.before, r) < reader.want
        BY <2>2, <2>3, <4>1 DEF DoneInv
      <4>3. Upto(reader.before, r) \in Nat
        <5>1. reader.before \in [Buckets -> Nat] /\ Below(reader.before, reader.before)
          BY DEF HInv, ReadInv, Below
        <5>2. r \in 0 .. Len(bounds) + 1
          BY <2>1, <3>4
        <5> QED BY <5>1, <5>2, UptoIsMonotone
      <4> QED BY <2>2, <3>4, <4>2, <4>3 DEF Upto
    <3> QED BY <3>2, <3>3, <3>4 DEF Reached
  <2>8. reader.bucket \in BucketOfRank(counts, reader.want)
                            .. BucketOfRank(reader.before, reader.want)
    <3>1. BucketOfRank(counts, reader.want) \in Nat /\ BucketOfRank(reader.before, reader.want) \in Nat
      BY <2>4, <2>5
    <3> QED BY <2>3, <2>6, <2>7, <3>1
  <2> QED BY <2>1, <2>2, <2>8 DEF DoneInv
<1>2. HSpec => []HInv
  BY InitHInv, NextHInv, PTL DEF HSpec
<1> QED BY <1>1, <1>2, PTL
=============================================================================
