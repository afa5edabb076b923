------------------------------ MODULE Recorder ------------------------------
(***************************************************************************)
(* internal/record/recorder.go and writer.go: the side consumer that       *)
(* archives frames and snapshots in one file per UTC hour.  Producers      *)
(* stamp a record when they read it from the network and hand it over      *)
(* later, without blocking; one writer goroutine takes the records from a  *)
(* bounded queue, rotates the file and writes.                             *)
(*                                                                         *)
(* A record is named by the call of enqueue that carried it, the first     *)
(* being 1, and by the hour it was stamped in.  Processes follow one       *)
(* another on the same directory, and a process may be killed.             *)
(***************************************************************************)
EXTENDS Integers, Sequences, FiniteSets, FiniteSetsExt, Functions

CONSTANTS
    Producers,   \* the ingest loop and the fetch goroutines
    QueueCap,    \* the capacity of the writer's queue
    Faults,      \* what may fail: "create", "meta", "write", "flush"
    MaxHour,     \* bound: hours that pass
    MaxOffered,  \* bound: calls of enqueue in one process
    MaxHeld,     \* bound: records stamped and not yet handed over
    MaxRuns      \* bound: processes started on the directory

ASSUME RecorderAssumption ==
    /\ QueueCap \in Nat \ {0}
    /\ Faults \subseteq {"create", "meta", "write", "flush"}
    /\ {MaxHour, MaxRuns} \subseteq Nat \ {0}
    /\ {MaxOffered, MaxHeld} \subseteq Nat

Hours   == 1 .. MaxHour
Closed  == 0                                    \* no file is open
Entries == [no: 1 .. MaxOffered, hour: Hours]
None    == [no |-> 0, hour |-> 0]

\* A record on disk: `no' is the entry's number, and in a drop marker the
\* number of records lost.
Records == [kind: {"meta", "entry", "drop"}, no: 0 .. MaxOffered, hour: Hours]

VARIABLES
    clock,     \* the hour it is
    hold,      \* hold[p]: the hours of the records p has stamped, in order
    queue,     \* r.in
    offered,   \* calls of enqueue so far
    dropped,   \* r.dropped
    written,   \* r.written
    stage,     \* the lifecycle: "new", "open", "closing", "closed"
    file,      \* the hour of the writer's open file, or Closed
    cur,       \* the entry the writer is at, or None
    marked,    \* lastDropped
    disk,      \* disk[h]: the records in the file of hour h
    runs,      \* processes started so far
    lost,      \* history: the numbers of the entries counted in dropped
    intact     \* history: one process has written the directory, no write
               \* or flush has lost a record and no file with records in it
               \* was created again

mem  == <<queue, offered, dropped, written, file, cur, marked, lost, intact>>
vars == <<clock, hold, stage, disk, runs, mem>>

TypeOK ==
    /\ clock \in Hours
    /\ hold \in [Producers -> Seq(Hours)]
    /\ queue \in Seq(Entries) /\ Len(queue) <= QueueCap
    /\ offered \in 0 .. MaxOffered
    /\ dropped \in Nat /\ marked \in 0 .. dropped /\ written \in Nat
    /\ stage \in {"new", "open", "closing", "closed"}
    /\ file \in Hours \cup {Closed}
    /\ cur \in Entries \cup {None}
    /\ disk \in [Hours -> Seq(Records)]
    /\ runs \in 1 .. MaxRuns
    /\ lost \subseteq 1 .. MaxOffered
    /\ intact \in BOOLEAN

Init ==
    /\ clock = 1
    /\ hold = [p \in Producers |-> <<>>]
    /\ queue = <<>> /\ offered = 0 /\ dropped = 0 /\ written = 0
    /\ file = Closed /\ cur = None /\ marked = 0 /\ lost = {}
    /\ intact = TRUE
    /\ stage = "new"
    /\ disk = [h \in Hours |-> <<>>]
    /\ runs = 1

-----------------------------------------------------------------------------
(***************************************************************************)
(* The producers.                                                          *)
(***************************************************************************)
Tick ==
    /\ clock < MaxHour
    /\ clock' = clock + 1
    /\ UNCHANGED <<hold, stage, disk, runs, mem>>

\* The socket reader sets ReceivedAt and the frame waits in a channel of the
\* ingest loop; the snapshot tee reads the time and then calls Snapshot.
Stamp(p) ==
    /\ stage # "closed"
    /\ Len(hold[p]) < MaxHeld
    /\ hold' = [hold EXCEPT ![p] = Append(@, clock)]
    /\ UNCHANGED <<clock, stage, disk, runs, mem>>

\* Recorder.enqueue, through Frame or Snapshot.  No producer calls it once
\* Close has been called.
Enqueue(p) ==
    LET e == [no |-> offered + 1, hour |-> Head(hold[p])]
    IN  /\ stage \in {"new", "open"}
        /\ offered < MaxOffered
        /\ hold[p] # <<>>
        /\ hold' = [hold EXCEPT ![p] = Tail(@)]
        /\ offered' = offered + 1
        /\ IF Len(queue) < QueueCap
           THEN /\ queue' = Append(queue, e)
                /\ UNCHANGED <<dropped, lost>>
           ELSE /\ dropped' = dropped + 1
                /\ lost' = lost \cup {e.no}
                /\ UNCHANGED queue
        /\ UNCHANGED <<clock, stage, disk, runs, written, file, cur, marked, intact>>

Start ==
    /\ stage = "new"
    /\ stage' = "open"
    /\ UNCHANGED <<clock, hold, disk, runs, mem>>

\* Recorder.Close closes the queue and waits for the writer.
Close ==
    /\ stage = "open"
    /\ stage' = "closing"
    /\ UNCHANGED <<clock, hold, disk, runs, mem>>

-----------------------------------------------------------------------------
(***************************************************************************)
(* The writer goroutine.  The producers act between the receive and the    *)
(* read of the drop counter.                                               *)
(***************************************************************************)
Meta(h) == [kind |-> "meta", no |-> 0, hour |-> h]

\* closeFile, at a rotation and when run returns: the directories it may leave.
\* An error of the flush or of the close is only logged, and the file then ends
\* at what had reached the disk before.
AfterClose ==
    {disk} \cup
    {[disk EXCEPT ![file] = SubSeq(@, 1, kept)] :
        kept \in IF file # Closed /\ "flush" \in Faults THEN 0 .. Len(disk[file]) ELSE {}}

Leaves(dir) == disk' = dir /\ intact' = (intact /\ dir = disk)

\* In the directory that closeFile has left, a file is created; one that was
\* there loses what it held.
Creates(dir, h, recs) ==
    /\ disk' = [dir EXCEPT ![h] = recs]
    /\ intact' = (intact /\ dir = disk /\ dir[h] = <<>>)

\* Mutant: the writer stops receiving when Close is called.
ReceiveWhileOpen ==
    /\ stage = "open"
    /\ cur = None
    /\ queue # <<>>
    /\ queue' = Tail(queue)
    /\ UNCHANGED <<clock, hold, stage, runs, offered, marked>>

Receive ==
    /\ stage \in {"open", "closing"}
    /\ cur = None
    /\ queue # <<>>
    /\ queue' = Tail(queue)
    /\ UNCHANGED <<clock, hold, stage, runs, offered, marked>>

\* Mutant: a file that is there is appended to, with its metadata again.
TakeAppends ==
    LET e == Head(queue)
    IN  /\ Receive
        /\ cur' = e
        /\ file' = e.hour
        /\ IF e.hour = file THEN UNCHANGED <<disk, written, intact>>
           ELSE /\ \E dir \in AfterClose :
                      /\ disk' = [dir EXCEPT ![e.hour] = Append(@, Meta(e.hour))]
                      /\ intact' = (intact /\ dir = disk)
                /\ written' = written + 1
        /\ UNCHANGED <<dropped, lost>>

\* Mutant: a file that is open is never rotated.
TakeNeverRotates ==
    LET e == Head(queue)
    IN  /\ Receive
        /\ cur' = e
        /\ file' = IF file = Closed THEN e.hour ELSE file
        /\ IF file # Closed THEN UNCHANGED <<disk, written, intact>>
           ELSE /\ Creates(disk, e.hour, <<Meta(e.hour)>>)
                /\ written' = written + 1
        /\ UNCHANGED <<dropped, lost>>

\* The record belongs to the hour of the open file, or the file of its hour
\* is created, emptied if it was there, and given its metadata.
Take ==
    LET e == Head(queue)
    IN  /\ Receive
        /\ cur' = e
        /\ file' = e.hour
        /\ IF e.hour = file THEN UNCHANGED <<disk, written, intact>>
           ELSE /\ \E dir \in AfterClose : Creates(dir, e.hour, <<Meta(e.hour)>>)
                /\ written' = written + 1
        /\ UNCHANGED <<dropped, lost>>

\* Mutant: a record whose file cannot be opened is not counted.
TakeFailsUncounted(fault) ==
    LET e == Head(queue)
    IN  /\ Receive
        /\ fault \in Faults \cap {"create", "meta"}
        /\ e.hour # file
        /\ file' = Closed
        /\ \E dir \in AfterClose :
              IF fault = "create" THEN Leaves(dir) ELSE Creates(dir, e.hour, <<>>)
        /\ UNCHANGED <<cur, written, dropped, lost>>

\* openFile fails, at the create or after it; the old file is closed already
\* and the record is counted as dropped.
TakeFails(fault) ==
    LET e == Head(queue)
    IN  /\ Receive
        /\ fault \in Faults \cap {"create", "meta"}
        /\ e.hour # file
        /\ file' = Closed
        /\ \E dir \in AfterClose :
              IF fault = "create" THEN Leaves(dir) ELSE Creates(dir, e.hour, <<>>)
        /\ dropped' = dropped + 1
        /\ lost' = lost \cup {e.no}
        /\ UNCHANGED <<cur, written>>

\* Mutant: a single drop is not reported.
MarkerOffByOne ==
    IF dropped > marked + 1
    THEN <<[kind |-> "drop", no |-> dropped - marked, hour |-> cur.hour]>>
    ELSE <<>>

\* The marker for the drops since the last one.
Marker ==
    IF dropped > marked
    THEN <<[kind |-> "drop", no |-> dropped - marked, hour |-> cur.hour]>>
    ELSE <<>>

\* The marker and the record are written; a write may fail, and the failure
\* of the marker's is only logged.
Put(markerOk, entryOk) ==
    /\ cur # None
    /\ ~(markerOk /\ entryOk) => "write" \in Faults
    /\ disk' = [disk EXCEPT ![file] =
                   @ \o (IF markerOk THEN Marker ELSE <<>>)
                     \o (IF entryOk
                         THEN <<[kind |-> "entry", no |-> cur.no, hour |-> cur.hour]>>
                         ELSE <<>>)]
    /\ written' = written + Len(Marker) + (IF entryOk THEN 1 ELSE 0)
    /\ marked' = dropped
    /\ cur' = None
    /\ intact' = (intact /\ markerOk /\ entryOk)
    /\ UNCHANGED <<clock, hold, stage, runs, queue, offered, dropped, file, lost>>

\* The queue is closed and drained: the file is flushed and closed, and Close
\* returns.
Finish ==
    /\ stage = "closing"
    /\ cur = None
    /\ queue = <<>>
    /\ stage' = "closed"
    /\ file' = Closed
    /\ \E dir \in AfterClose : Leaves(dir)
    /\ UNCHANGED <<clock, hold, runs, queue, offered, dropped, written, cur,
                   marked, lost>>

-----------------------------------------------------------------------------
\* Another process starts on the directory, with a new recorder.
NextProcess ==
    /\ runs < MaxRuns
    /\ runs' = runs + 1
    /\ stage' = "new"
    /\ hold' = [p \in Producers |-> <<>>]
    /\ queue' = <<>> /\ offered' = 0 /\ dropped' = 0 /\ written' = 0
    /\ file' = Closed /\ cur' = None /\ marked' = 0 /\ lost' = {}
    /\ intact' = FALSE
    /\ UNCHANGED clock

Restart ==
    /\ stage = "closed"
    /\ NextProcess
    /\ UNCHANGED disk

\* The process is killed: the open file keeps what the encoder had flushed.
Crash(kept) ==
    /\ stage # "closed"
    /\ NextProcess
    /\ IF file = Closed THEN kept = 0 /\ UNCHANGED disk
       ELSE /\ kept <= Len(disk[file])
            /\ disk' = [disk EXCEPT ![file] = SubSeq(@, 1, kept)]

Next ==
    \/ Tick
    \/ \E p \in Producers : Stamp(p) \/ Enqueue(p)
    \/ Start
    \/ Close
    \/ Take
    \/ \E fault \in {"create", "meta"} : TakeFails(fault)
    \/ \E markerOk, entryOk \in BOOLEAN : Put(markerOk, entryOk)
    \/ Finish
    \/ Restart
    \/ \E kept \in 0 .. 2 * MaxOffered + 1 : Crash(kept)

Spec == Init /\ [][Next]_vars

\* The writer goroutine runs; nothing is assumed of the producers or of the
\* clock, nor that the disk ever works.
FairSpec ==
    /\ Spec
    /\ WF_vars(Take \/ \E fault \in Faults : TakeFails(fault))
    /\ WF_vars(\E markerOk, entryOk \in BOOLEAN : Put(markerOk, entryOk))
    /\ WF_vars(Finish)

-----------------------------------------------------------------------------
(***************************************************************************)
(* Properties.                                                             *)
(***************************************************************************)
\* The numbers of the entries in the file of hour h, on disk at all, and on
\* their way there.
EntriesIn(h) ==
    {disk[h][i].no : i \in {k \in DOMAIN disk[h] : disk[h][k].kind = "entry"}}
Saved   == UNION {EntriesIn(h) : h \in Hours}
Waiting == {queue[i].no : i \in DOMAIN queue} \cup (IF cur = None THEN {} ELSE {cur.no})

\* The losses that the markers of a file report, and those of all the files.
DropsIn(recs) ==
    SumFunction([i \in DOMAIN recs |-> IF recs[i].kind = "drop" THEN recs[i].no ELSE 0])
Reported == SumFunction([h \in Hours |-> DropsIn(disk[h])])

\* The records on disk, of every kind.
AllOnDisk == MapThenSumSet(LAMBDA h : Len(disk[h]), Hours)

\* openFile and KindMeta: "One is written at the head of every file", and no
\* other, across rotations, failed opens, restarts and kills.
FileOpensWithMeta ==
    \A h \in Hours :
        disk[h] # <<>> =>
            /\ disk[h][1] = Meta(h)
            /\ \A i \in DOMAIN disk[h] \ {1} : disk[h][i].kind # "meta"

\* Writer: the order of the records of a file is "the order the process saw",
\* and every one of them was stamped in the hour of the file.
FileInOrder ==
    \A h \in Hours : \A i \in DOMAIN disk[h] :
        /\ disk[h][i].hour = h
        /\ disk[h][i].kind = "entry" =>
            \A j \in DOMAIN disk[h] :
                j > i /\ disk[h][j].kind = "entry" => disk[h][i].no < disk[h][j].no

\* enqueue and run: every record offered is on disk, on its way there or
\* counted as dropped, only one of these and in one file only, also when files
\* cannot be created.  It is said of an intact directory: a write or a flush
\* that fails loses records with a line in the log and no count.
NothingLostSilently ==
    intact =>
        /\ Saved \cup Waiting \cup lost = 1 .. offered
        /\ Saved \cap Waiting = {} /\ (Saved \cup Waiting) \cap lost = {}
        /\ \A h, k \in Hours : h # k => EntriesIn(h) \cap EntriesIn(k) = {}
        /\ Cardinality(lost) = dropped

\* RecorderStats.Written: "records written to disk".
WrittenIsOnDisk == written = AllOnDisk

\* Frame: a drop's "count is written into the recording as a marker so that
\* the file says what is missing from it".  The markers report the drops up to
\* the last record taken, each once, and a writer that has drained its queue
\* with a file open has reported every drop, the last ones included.
DropsAreMarked ==
    intact =>
        /\ Reported = marked
        /\ stage = "closing" /\ queue = <<>> /\ cur = None /\ file # Closed
            => marked = dropped

\* Close returns, the queue drained, whatever the disk does.
CloseTerminates == stage = "closing" ~> stage # "closing"
=============================================================================
