----------------------------- MODULE Transport -----------------------------
(***************************************************************************)
(* internal/exchange/binance/transport.go: the goroutine that keeps one    *)
(* websocket open and hands what it reads to a bounded channel.  It        *)
(* reconnects with exponential backoff and jitter, at once after a planned *)
(* restart of the server, and returns when its context is cancelled.       *)
(*                                                                         *)
(* Frames are counted, not told apart.  Waits are in units of time,        *)
(* rounded down as time.Duration is.                                       *)
(***************************************************************************)
EXTENDS Integers, FiniteSetsExt

CONSTANTS
    InitialWait,   \* the first backoff
    MaxWait,       \* the cap of the backoff, before jitter
    FrameCap,      \* the capacity of the frames channel
    MaxFailures    \* bound: failures in a row that are told apart

ASSUME TransportAssumption ==
    /\ InitialWait \in Nat \ {0} /\ MaxWait \in Nat /\ InitialWait <= MaxWait
    /\ FrameCap \in Nat \ {0} /\ MaxFailures \in Nat \ {0}

VARIABLES
    conn,       \* where Run and runOnce are
    delivered,  \* this connection has delivered a frame
    wait,       \* the backoff
    frames,     \* out: how many frames wait in the channel
    ctx,        \* the process context is cancelled
    failures    \* history: connections in a row that delivered nothing

tvars == <<conn, delivered, wait, frames, failures>>

TInit ==
    /\ conn = "dial"
    /\ delivered = FALSE
    /\ wait = InitialWait
    /\ frames = 0
    /\ ctx = FALSE
    /\ failures = 0

\* nextWait: doubled, capped, and then up to a quarter more of jitter.
NextWaits(w) ==
    LET next == IF 2 * w > MaxWait THEN MaxWait ELSE 2 * w
        r    == next \div 4
    IN  IF r > 0 THEN next .. (next + r - 1) ELSE {next}

\* Mutant: a connection that delivered frames leaves the backoff as it was.
RunOnceKeepsWait(how) ==
    /\ conn' = IF ctx THEN "returned" ELSE IF how = "shutdown" THEN "dial" ELSE "wait"
    /\ wait' = IF ~ctx /\ how = "shutdown" THEN InitialWait ELSE wait
    /\ failures' = IF delivered \/ how = "shutdown" THEN 0
                   ELSE Min({failures + 1, MaxFailures})
    /\ UNCHANGED <<delivered, frames, ctx>>

\* What Run does when runOnce has returned.
RunOnceReturns(how) ==
    /\ conn' = IF ctx THEN "returned" ELSE IF how = "shutdown" THEN "dial" ELSE "wait"
    /\ wait' = IF ~ctx /\ (delivered \/ how = "shutdown") THEN InitialWait ELSE wait
    /\ failures' = IF delivered \/ how = "shutdown" THEN 0
                   ELSE Min({failures + 1, MaxFailures})
    /\ UNCHANGED <<delivered, frames, ctx>>

Dial ==
    /\ conn = "dial"
    /\ conn' = "read"
    /\ delivered' = FALSE
    /\ UNCHANGED <<wait, frames, ctx, failures>>

\* The dial fails, or its context is cancelled.
DialFails ==
    /\ conn = "dial"
    /\ conn' = IF ctx THEN "returned" ELSE "wait"
    /\ failures' = Min({failures + 1, MaxFailures})
    /\ UNCHANGED <<delivered, wait, frames, ctx>>

\* A message is read and is on its way into the channel.
ReadMessage ==
    /\ conn = "read"
    /\ conn' = "send"
    /\ UNCHANGED <<delivered, wait, frames, ctx, failures>>

\* The read fails: the connection broke, or the watcher closed it because the
\* context is cancelled.
ReadFails == conn = "read" /\ RunOnceReturns("broken")

ReadShutdown == conn = "read" /\ RunOnceReturns("shutdown")

\* The send blocks while the channel is full, unless the context is cancelled.
Send ==
    /\ conn = "send"
    /\ frames < FrameCap
    /\ frames' = frames + 1
    /\ delivered' = TRUE
    /\ conn' = "read"
    /\ UNCHANGED <<wait, ctx, failures>>

SendGivesUp ==
    /\ conn = "send"
    /\ ctx
    /\ RunOnceReturns("cancelled")

WaitIsOver ==
    /\ conn = "wait"
    /\ conn' = "dial"
    /\ wait' \in NextWaits(wait)
    /\ UNCHANGED <<delivered, frames, ctx, failures>>

WaitGivesUp ==
    /\ conn = "wait"
    /\ ctx
    /\ conn' = "returned"
    /\ UNCHANGED <<delivered, wait, frames, ctx, failures>>

TransportRuns ==
    \/ Dial
    \/ DialFails
    \/ ReadMessage
    \/ ReadFails
    \/ ReadShutdown
    \/ Send
    \/ SendGivesUp
    \/ WaitIsOver
    \/ WaitGivesUp

-----------------------------------------------------------------------------
\* The initial wait, doubled i times.
Doubled[i \in Nat] == IF i = 0 THEN InitialWait ELSE 2 * Doubled[i - 1]

\* Run: the wait before the next dial is the initial one after a connection
\* that carried data, at least doubles with every connection since that did
\* not, and stays below the cap and its jitter, which is fed back into the
\* doubling.
BackoffFollowsFailures ==
    /\ wait <= MaxWait + MaxWait \div 4
    /\ conn = "wait" =>
        /\ failures = 0 => wait = InitialWait
        /\ wait >= Min({Doubled[IF failures = 0 THEN 0 ELSE failures - 1], MaxWait})
=============================================================================
