--------------------------- MODULE RecorderProofs ---------------------------
(***************************************************************************)
(* The safety of module Recorder, for any number of producers, any queue   *)
(* capacity, any faults of the disk and any number of processes that       *)
(* follow one another on the directory.                                    *)
(*                                                                         *)
(* The entries leave the queue in the order of their numbers, so what the  *)
(* open file holds is smaller than what the writer is at, and that is      *)
(* smaller than what still waits; a file that is not the open one is only  *)
(* ever emptied.  While the directory is intact the same holds of every    *)
(* file, which keeps the files disjoint.                                   *)
(***************************************************************************)
EXTENDS Recorder, InductionProofs, SequenceTheorems

\* What is counted as dropped.
LossInv ==
    /\ lost \subseteq 1 .. offered
    /\ Cardinality(lost) = dropped

\* What waits in the queue.
QueueInv ==
    /\ \A i \in DOMAIN queue : queue[i].no <= offered /\ queue[i].no \notin lost
    /\ \A i, j \in DOMAIN queue : i < j => queue[i].no < queue[j].no

\* The entry the writer is at, whose file is open.
CurInv ==
    cur # None =>
        /\ file = cur.hour
        /\ cur.no <= offered /\ cur.no \notin lost
        /\ \A i \in DOMAIN queue : cur.no < queue[i].no

\* An entry is older than all that waits: what is to be offered, the entry c
\* that the writer is at and the queue q.
Older(rec, n, c, q) ==
    rec.kind = "entry" =>
        /\ rec.no > 0 /\ rec.no <= n
        /\ c # None => rec.no < c.no
        /\ \A i \in DOMAIN q : rec.no < q[i].no

\* The open file has its metadata, and its entries are older than all that
\* waits.
OpenInv ==
    file # Closed =>
        /\ disk[file] # <<>>
        /\ \A i \in DOMAIN disk[file] : Older(disk[file][i], offered, cur, queue)

\* The same of every file; no entry on disk is counted as dropped or in two
\* files, and every entry offered is somewhere.
IntactInv ==
    intact =>
        /\ \A h \in Hours : \A i \in DOMAIN disk[h] :
              Older(disk[h][i], offered, cur, queue) /\ (disk[h][i].kind = "entry" => disk[h][i].no \notin lost)
        /\ \A h, k \in Hours : h # k =>
              \A i \in DOMAIN disk[h], j \in DOMAIN disk[k] :
                  disk[h][i].kind = "entry" /\ disk[k][j].kind = "entry" =>
                      disk[h][i].no # disk[k][j].no
        /\ \A n \in 1 .. offered :
              \/ n \in lost
              \/ cur # None /\ cur.no = n
              \/ \E i \in DOMAIN queue : queue[i].no = n
              \/ \E h \in Hours : \E i \in DOMAIN disk[h] :
                    disk[h][i].kind = "entry" /\ disk[h][i].no = n

\* The markers on disk, and the drops that are still to be marked.
MarkInv ==
    /\ intact => Reported = marked
    /\ queue = <<>> /\ cur = None /\ file # Closed => marked = dropped

\* A file keeps its metadata at its head and its entries in order.
FilesInv == FileOpensWithMeta /\ FileInOrder

RInv ==
    /\ TypeOK /\ LossInv /\ QueueInv /\ CurInv /\ FilesInv /\ OpenInv /\ IntactInv /\ MarkInv

-----------------------------------------------------------------------------
(***************************************************************************)
(* Types.                                                                  *)
(***************************************************************************)
\* What is dropped was offered.
LEMMA LossBound ==
    ASSUME TypeOK, LossInv
    PROVE  IsFiniteSet(lost) /\ dropped <= offered
<1>1. offered \in Nat
  BY RecorderAssumption DEF TypeOK
<1>2. IsFiniteSet(1 .. offered) /\ Cardinality(1 .. offered) = offered
  <2>1. 1 \in Int /\ offered \in Int
    BY <1>1
  <2>2. IsFiniteSet(1 .. offered)
          /\ Cardinality(1 .. offered) = IF 1 > offered THEN 0 ELSE offered - 1 + 1
    BY <2>1, FS_Interval
  <2> QED BY <1>1, <2>2
<1>3. IsFiniteSet(lost) /\ Cardinality(lost) <= Cardinality(1 .. offered)
  <2> DEFINE E == 1 .. offered
  <2>1. IsFiniteSet(E) /\ lost \subseteq E
    BY <1>2 DEF LossInv
  <2> HIDE DEF E
  <2>2. IsFiniteSet(lost) /\ Cardinality(lost) <= Cardinality(E)
    BY <2>1, FS_Subset
  <2> QED BY <2>2 DEF E
<1> QED BY <1>2, <1>3 DEF LossInv

\* The records the writer puts on disk.
LEMMA RecordTypes ==
    ASSUME TypeOK, LossInv
    PROVE  /\ \A h \in Hours : Meta(h) \in Records /\ <<Meta(h)>> \in Seq(Records)
           /\ cur # None =>
                /\ cur \in Entries
                /\ [kind |-> "entry", no |-> cur.no, hour |-> cur.hour] \in Records
                /\ dropped > marked =>
                    [kind |-> "drop", no |-> dropped - marked, hour |-> cur.hour] \in Records
                /\ Marker \in Seq(Records) /\ Len(Marker) \in Nat
<1>1. MaxOffered \in Nat /\ offered \in Nat /\ offered <= MaxOffered
  BY RecorderAssumption DEF TypeOK
<1>2. ASSUME NEW h \in Hours PROVE Meta(h) \in Records /\ <<Meta(h)>> \in Seq(Records)
  BY <1>1 DEF Meta, Records
<1>3. ASSUME cur # None
      PROVE  /\ cur \in Entries
             /\ [kind |-> "entry", no |-> cur.no, hour |-> cur.hour] \in Records
             /\ dropped > marked =>
                  [kind |-> "drop", no |-> dropped - marked, hour |-> cur.hour] \in Records
  <2>1. cur \in Entries /\ dropped \in Nat /\ marked \in Nat
    BY <1>3 DEF TypeOK
  <2>2. cur.no \in 0 .. MaxOffered /\ cur.hour \in Hours
    BY <1>1, <2>1 DEF Entries
  <2>3. dropped - marked \in Int /\ dropped - marked <= MaxOffered
    BY <1>1, <2>1, LossBound
  <2> QED BY <1>1, <2>1, <2>2, <2>3 DEF Records
<1>4. ASSUME cur # None PROVE Marker \in Seq(Records) /\ Len(Marker) \in Nat
  <2> DEFINE m == [kind |-> "drop", no |-> dropped - marked, hour |-> cur.hour]
  <2>1. dropped > marked => m \in Records
    BY <1>3, <1>4
  <2>2. Marker = IF dropped > marked THEN <<m>> ELSE <<>>
    BY DEF Marker
  <2> HIDE DEF m
  <2> QED BY <2>1, <2>2
<1> QED BY <1>2, <1>3, <1>4

\* The head of the queue, and what is behind it.
LEMMA QueueTail ==
    ASSUME TypeOK, queue # <<>>
    PROVE  /\ Head(queue) \in Entries /\ Head(queue) # None /\ Head(queue) = queue[1]
           /\ 1 \in DOMAIN queue
           /\ Tail(queue) \in Seq(Entries) /\ Len(Tail(queue)) < Len(queue)
           /\ DOMAIN Tail(queue) = 1 .. Len(queue) - 1
           /\ \A i \in DOMAIN Tail(queue) :
                 Tail(queue)[i] = queue[i + 1] /\ i + 1 \in DOMAIN queue
           /\ \A i \in DOMAIN queue : i # 1 => i - 1 \in DOMAIN Tail(queue)
<1>1. queue \in Seq(Entries) /\ Len(queue) \in Nat /\ Len(queue) > 0
        /\ DOMAIN queue = 1 .. Len(queue)
  BY DEF TypeOK
<1>2. Head(queue) = queue[1] /\ queue[1] \in Entries
  BY <1>1
<1>3. queue[1] # None
  <2>1. queue[1].no \in 1 .. MaxOffered
    BY <1>2 DEF Entries
  <2> QED BY <2>1, RecorderAssumption DEF None
<1>4. Tail(queue) \in Seq(Entries) /\ Len(Tail(queue)) = Len(queue) - 1
         /\ DOMAIN Tail(queue) = 1 .. Len(queue) - 1
         /\ \A i \in 1 .. Len(queue) - 1 : Tail(queue)[i] = queue[i + 1]
  BY <1>1
<1> QED BY <1>1, <1>2, <1>3, <1>4

-----------------------------------------------------------------------------
(***************************************************************************)
(* The producers, and the steps that leave the records alone.              *)
(***************************************************************************)
\* A step that touches neither the files nor the recorder's memory keeps the
\* invariant.
LEMMA StillKeeps ==
    ASSUME RInv, TypeOK', UNCHANGED <<disk, mem>>
    PROVE  RInv'
<1>1. /\ disk' = disk /\ queue' = queue /\ offered' = offered /\ dropped' = dropped
      /\ file' = file /\ cur' = cur /\ marked' = marked /\ lost' = lost /\ intact' = intact
  BY DEF mem
<1>2. LossInv' /\ QueueInv' /\ CurInv'
  BY <1>1 DEF RInv, LossInv, QueueInv, CurInv
<1>3. FilesInv'
  BY <1>1 DEF RInv, FilesInv, FileOpensWithMeta, FileInOrder
<1>4. OpenInv' /\ IntactInv'
  BY <1>1 DEF RInv, OpenInv, IntactInv, Older
<1>5. MarkInv'
  BY <1>1 DEF RInv, MarkInv, Reported
<1> QED BY <1>2, <1>3, <1>4, <1>5 DEF RInv

\* The clock, Start, Close and the stamping of a record are such steps.
LEMMA StillTypes ==
    ASSUME RInv, \/ Tick \/ Start \/ Close \/ \E p \in Producers : Stamp(p)
    PROVE  TypeOK' /\ UNCHANGED <<disk, mem>>
<1>1. CASE Tick
  <2>1. UNCHANGED <<hold, stage, disk, runs, mem>> /\ clock' \in Hours
    BY <1>1, RecorderAssumption DEF Tick, RInv, TypeOK, Hours
  <2> QED BY <2>1 DEF RInv, TypeOK, mem
<1>2. CASE Start \/ Close
  <2>1. UNCHANGED <<hold, clock, disk, runs, mem>> /\ stage' \in {"new", "open", "closing", "closed"}
    BY <1>2 DEF Start, Close
  <2> QED BY <2>1 DEF RInv, TypeOK, mem
<1>3. ASSUME NEW p \in Producers, Stamp(p) PROVE TypeOK' /\ UNCHANGED <<disk, mem>>
  <2>1. UNCHANGED <<clock, stage, disk, runs, mem>>
         /\ hold' = [hold EXCEPT ![p] = Append(hold[p], clock)]
    BY <1>3 DEF Stamp
  <2>2. hold \in [Producers -> Seq(Hours)] /\ clock \in Hours
    BY DEF RInv, TypeOK
  <2>3. Append(hold[p], clock) \in Seq(Hours)
    BY <2>2
  <2>4. hold' \in [Producers -> Seq(Hours)]
    BY <2>1, <2>2, <2>3
  <2> QED BY <2>1, <2>4 DEF RInv, TypeOK, mem
<1> QED BY <1>1, <1>2, <1>3

\* Recorder.enqueue: the record is queued, or counted as dropped.
LEMMA EnqueueKeeps ==
    ASSUME RInv, NEW p \in Producers, Enqueue(p)
    PROVE  RInv'
<1> DEFINE e == [no |-> offered + 1, hour |-> Head(hold[p])]
<1>1. /\ UNCHANGED <<clock, stage, disk, runs, written, file, cur, marked, intact>>
      /\ offered < MaxOffered /\ offered' = offered + 1 /\ hold[p] # <<>>
      /\ hold' = [hold EXCEPT ![p] = Tail(hold[p])]
      /\ \/ /\ Len(queue) < QueueCap /\ queue' = Append(queue, e)
            /\ dropped' = dropped /\ lost' = lost
         \/ /\ ~(Len(queue) < QueueCap) /\ queue' = queue
            /\ dropped' = dropped + 1 /\ lost' = lost \cup {offered + 1}
  BY DEF Enqueue
<1>2. /\ TypeOK /\ LossInv /\ QueueInv /\ CurInv /\ FilesInv /\ OpenInv /\ IntactInv /\ MarkInv
      /\ offered \in Nat /\ MaxOffered \in Nat /\ QueueCap \in Nat \ {0}
      /\ dropped \in Nat /\ marked \in 0 .. dropped
      /\ hold \in [Producers -> Seq(Hours)]
      /\ queue \in Seq(Entries) /\ Len(queue) \in Nat /\ DOMAIN queue = 1 .. Len(queue)
  BY RecorderAssumption DEF RInv, TypeOK
<1>3. e \in Entries /\ e.no = offered + 1
  <2>1. Head(hold[p]) \in Hours
    BY <1>1, <1>2
  <2> QED BY <1>1, <1>2, <2>1 DEF Entries
<1> HIDE DEF e
<1>4. ASSUME queue' = Append(queue, e)
      PROVE  /\ queue' \in Seq(Entries) /\ Len(queue') = Len(queue) + 1
             /\ DOMAIN queue' = 1 .. Len(queue) + 1
             /\ \A i \in DOMAIN queue : queue'[i] = queue[i] /\ i \in DOMAIN queue'
             /\ queue'[Len(queue) + 1] = e
  BY <1>2, <1>3, <1>4
<1>5. /\ \A i \in DOMAIN queue' : \/ i \in DOMAIN queue /\ queue'[i] = queue[i]
                                  \/ i = Len(queue) + 1 /\ queue'[i].no = offered + 1
      /\ \A i \in DOMAIN queue : i \in DOMAIN queue' /\ queue'[i] = queue[i]
      /\ lost \subseteq lost' /\ lost' \subseteq lost \cup {offered + 1}
      /\ offered + 1 \in lost' => queue' = queue
      /\ offered + 1 \notin lost' => \E i \in DOMAIN queue' : queue'[i].no = offered + 1
  <2>1. offered + 1 \notin lost
    BY <1>2 DEF LossInv
  <2>2. CASE ~(Len(queue) < QueueCap)
    <3>1. queue' = queue /\ lost' = lost \cup {offered + 1}
      BY <1>1, <2>2
    <3> QED BY <3>1
  <2>3. CASE Len(queue) < QueueCap
    <3>1. queue' = Append(queue, e) /\ lost' = lost
      BY <1>1, <2>3
    <3>2. \A i \in DOMAIN queue' : \/ i \in DOMAIN queue /\ queue'[i] = queue[i]
                                   \/ i = Len(queue) + 1 /\ queue'[i] = e
      BY <1>2, <1>4, <3>1
    <3>3. Len(queue) + 1 \in DOMAIN queue' /\ queue'[Len(queue) + 1].no = offered + 1
      BY <1>2, <1>3, <1>4, <3>1
    <3>4. \A i \in DOMAIN queue : i \in DOMAIN queue' /\ queue'[i] = queue[i]
      BY <1>4, <3>1
    <3> QED BY <1>3, <2>1, <3>1, <3>2, <3>3, <3>4
  <2> QED BY <2>2, <2>3
<1>6. TypeOK'
  <2>1. hold' \in [Producers -> Seq(Hours)]
    <3>1. Tail(hold[p]) \in Seq(Hours)
      BY <1>1, <1>2
    <3> QED BY <1>1, <1>2, <3>1
  <2>2. queue' \in Seq(Entries) /\ Len(queue') <= QueueCap
    BY <1>1, <1>2, <1>4 DEF TypeOK
  <2>3. offered' \in 0 .. MaxOffered /\ dropped' \in Nat /\ marked' \in 0 .. dropped'
    BY <1>1, <1>2
  <2>4. lost' \subseteq 1 .. MaxOffered
    BY <1>1, <1>2, <1>5 DEF TypeOK
  <2> QED BY <1>1, <1>2, <2>1, <2>2, <2>3, <2>4 DEF TypeOK
<1>7. LossInv'
  <2>1. offered + 1 \notin lost /\ IsFiniteSet(lost)
    BY <1>2, LossBound DEF LossInv
  <2>2. lost' \subseteq 1 .. offered'
    BY <1>1, <1>2, <1>5 DEF LossInv
  <2>3. Cardinality(lost \cup {offered + 1}) = Cardinality(lost) + 1
    BY <2>1, FS_AddElement
  <2> QED BY <1>1, <1>2, <2>2, <2>3 DEF LossInv
<1>8. QueueInv'
  <2>1. \A i \in DOMAIN queue : queue[i].no \in Nat /\ queue[i].no <= offered
                                   /\ queue[i].no \notin lost /\ i <= Len(queue)
    <3>1. \A i \in DOMAIN queue : queue[i] \in Entries /\ i <= Len(queue)
      BY <1>2
    <3>2. \A i \in DOMAIN queue : queue[i].no \in Nat
      BY <3>1 DEF Entries
    <3> QED BY <1>2, <3>1, <3>2 DEF QueueInv
  <2>2. \A i \in DOMAIN queue' : queue'[i].no <= offered' /\ queue'[i].no \notin lost'
    BY <1>1, <1>2, <1>5, <2>1
  <2>3. ASSUME NEW i \in DOMAIN queue', NEW j \in DOMAIN queue', i < j
        PROVE  queue'[i].no < queue'[j].no
    <3>1. i \in DOMAIN queue /\ queue'[i] = queue[i]
      BY <1>2, <1>5, <2>1, <2>3
    <3>2. CASE j \in DOMAIN queue
      <4>1. queue'[j] = queue[j]
        BY <1>2, <1>5, <3>2
      <4> QED BY <1>2, <2>3, <3>1, <3>2, <4>1 DEF QueueInv
    <3>3. CASE j \notin DOMAIN queue
      <4>1. queue'[j].no = offered + 1
        BY <1>2, <1>5, <2>3, <3>3
      <4> QED BY <1>1, <1>2, <2>1, <3>1, <4>1
    <3> QED BY <3>2, <3>3
  <2> QED BY <2>2, <2>3 DEF QueueInv
<1>9. CurInv'
  <2> SUFFICES ASSUME cur # None PROVE CurInv'
    BY <1>1 DEF CurInv
  <2>1. cur.no \in Nat
    BY <1>2 DEF TypeOK, Entries
  <2>2. cur' = cur /\ file' = file /\ offered' = offered + 1
    BY <1>1
  <2>3. /\ file = cur.hour /\ cur.no <= offered /\ cur.no \notin lost
        /\ \A i \in DOMAIN queue : cur.no < queue[i].no
    BY <1>2 DEF CurInv
  <2>4. \A i \in DOMAIN queue' : cur.no < queue'[i].no
    BY <1>2, <1>5, <2>1, <2>3
  <2>5. cur.no <= offered' /\ cur.no \notin lost'
    BY <1>2, <1>5, <2>1, <2>2, <2>3
  <2> QED BY <2>2, <2>3, <2>4, <2>5 DEF CurInv
<1>10. ASSUME NEW rec \in Records, Older(rec, offered, cur, queue)
       PROVE  Older(rec, offered', cur', queue') /\ (rec.kind = "entry" => rec.no # offered + 1)
  <2>1. rec.no \in Nat
    BY <1>2 DEF Records
  <2>2. rec.kind = "entry" =>
           /\ rec.no > 0 /\ rec.no <= offered /\ (cur # None => rec.no < cur.no)
           /\ \A i \in DOMAIN queue : rec.no < queue[i].no
    BY <1>10 DEF Older
  <2>3. rec.kind = "entry" =>
           rec.no <= offered + 1 /\ rec.no # offered + 1
             /\ \A i \in DOMAIN queue' : rec.no < queue'[i].no
    BY <1>2, <1>5, <2>1, <2>2
  <2> QED BY <1>1, <2>2, <2>3 DEF Older
<1>11. \A h \in Hours : \A i \in DOMAIN disk[h] : disk[h][i] \in Records
  BY <1>2 DEF TypeOK
<1>12. OpenInv'
  <2>1. file # Closed => file \in Hours
    BY <1>2 DEF TypeOK
  <2> QED BY <1>1, <1>2, <1>10, <1>11, <2>1 DEF OpenInv
<1>13. IntactInv'
  <2> SUFFICES ASSUME intact PROVE IntactInv'
    BY <1>1 DEF IntactInv
  <2>1. \A h \in Hours : \A i \in DOMAIN disk[h] :
            Older(disk[h][i], offered', cur', queue') /\ (disk[h][i].kind = "entry" => disk[h][i].no \notin lost')
    <3> QED BY <1>1, <1>2, <1>5, <1>10, <1>11 DEF IntactInv
  <2>2. \A n \in 1 .. offered' :
              \/ n \in lost'
              \/ cur # None /\ cur.no = n
              \/ \E i \in DOMAIN queue' : queue'[i].no = n
              \/ \E h \in Hours : \E i \in DOMAIN disk[h] :
                    disk[h][i].kind = "entry" /\ disk[h][i].no = n
    <3> SUFFICES ASSUME NEW n \in 1 .. offered + 1, n \notin lost',
                        ~ \E i \in DOMAIN queue' : queue'[i].no = n
                 PROVE  \/ cur # None /\ cur.no = n
                        \/ \E h \in Hours : \E i \in DOMAIN disk[h] :
                              disk[h][i].kind = "entry" /\ disk[h][i].no = n
      BY <1>1
    <3>1. n \in 1 .. offered
      BY <1>2, <1>5
    <3>2. n \notin lost /\ ~ \E i \in DOMAIN queue : queue[i].no = n
      BY <1>5
    <3> QED BY <1>2, <3>1, <3>2 DEF IntactInv
  <2>3. \A h, k \in Hours : h # k =>
            \A i \in DOMAIN disk[h], j \in DOMAIN disk[k] :
                disk[h][i].kind = "entry" /\ disk[k][j].kind = "entry" =>
                    disk[h][i].no # disk[k][j].no
    BY <1>2 DEF IntactInv
  <2>4. disk' = disk /\ cur' = cur
    BY <1>1
  <2>5. \A h \in Hours : \A i \in DOMAIN disk'[h] :
            /\ Older(disk'[h][i], offered', cur', queue')
            /\ disk'[h][i].kind = "entry" => disk'[h][i].no \notin lost'
    BY ONLY <2>1, <2>4
  <2>6. \A h, k \in Hours : h # k =>
            \A i \in DOMAIN disk'[h], j \in DOMAIN disk'[k] :
                disk'[h][i].kind = "entry" /\ disk'[k][j].kind = "entry" =>
                    disk'[h][i].no # disk'[k][j].no
    BY ONLY <2>3, <2>4
  <2>7. \A n \in 1 .. offered' :
              \/ n \in lost'
              \/ cur' # None /\ cur'.no = n
              \/ \E i \in DOMAIN queue' : queue'[i].no = n
              \/ \E h \in Hours : \E i \in DOMAIN disk'[h] :
                    disk'[h][i].kind = "entry" /\ disk'[h][i].no = n
    BY ONLY <2>2, <2>4
  <2> QED BY ONLY <2>5, <2>6, <2>7 DEF IntactInv
<1>14. MarkInv'
  <2>1. Reported' = Reported
    BY <1>1 DEF Reported
  <2>2. queue' # <<>>
    BY <1>1, <1>2, <1>4
  <2> QED BY <1>1, <1>2, <2>1, <2>2 DEF MarkInv
<1>15. FilesInv'
  BY <1>1, <1>2 DEF FilesInv, FileOpensWithMeta, FileInOrder
<1> QED BY <1>6, <1>7, <1>8, <1>9, <1>12, <1>13, <1>14, <1>15 DEF RInv

-----------------------------------------------------------------------------
(***************************************************************************)
(* What the markers report.                                                *)
(***************************************************************************)
\* An empty file reports no drop.
LEMMA DropsInEmpty == DropsIn(<<>>) = 0
<1> DEFINE f == [i \in DOMAIN <<>> |-> IF <<>>[i].kind = "drop" THEN <<>>[i].no ELSE 0]
<1>1. DOMAIN f = {}
  OBVIOUS
<1>2. DropsIn(<<>>) = SumFunctionOnSet(f, DOMAIN f)
  BY DEF DropsIn, SumFunction
<1> HIDE DEF f
<1> QED BY <1>1, <1>2, SumOnEmpty

\* A record at the end of a file adds the drops it reports, if it is a marker.
LEMMA DropsInAppend ==
    ASSUME NEW recs \in Seq(Records), NEW rec \in Records
    PROVE  /\ DropsIn(recs) \in Nat
           /\ DropsIn(Append(recs, rec))
                = DropsIn(recs) + (IF rec.kind = "drop" THEN rec.no ELSE 0)
<1> DEFINE Drops(r) == IF r.kind = "drop" THEN r.no ELSE 0
           n == Len(recs)
           more == Append(recs, rec)
           f == [i \in DOMAIN recs |-> Drops(recs[i])]
           g == [i \in DOMAIN more |-> Drops(more[i])]
           S == 1 .. n
           T == 1 .. n + 1
<1>1. n \in Nat /\ DOMAIN recs = S /\ DOMAIN more = T /\ more \in Seq(Records)
        /\ more[n + 1] = rec /\ \A i \in S : more[i] = recs[i] /\ recs[i] \in Records
  OBVIOUS
<1>2. \A r \in Records : Drops(r) \in Nat
  BY RecorderAssumption DEF Records
<1> HIDE DEF Drops
<1>3. /\ n + 1 \in T /\ g[n + 1] = Drops(rec) /\ T \ {n + 1} = S
      /\ \A i \in S : f[i] = g[i] /\ f[i] \in Nat
      /\ \A i \in T : g[i] \in Nat
  <2>1. \A i \in S : f[i] = Drops(recs[i]) /\ g[i] = Drops(more[i])
    BY <1>1
  <2>2. \A i \in T : i \in S \/ i = n + 1
    BY <1>1
  <2>3. n + 1 \in T /\ T \ {n + 1} = S /\ g[n + 1] = Drops(rec)
    BY <1>1
  <2> HIDE DEF f, g, more, S, T
  <2>4. \A i \in S : f[i] = g[i] /\ f[i] \in Nat
    BY <1>1, <1>2, <2>1
  <2>5. g[n + 1] \in Nat
    BY <1>2, <2>3
  <2>6. \A i \in T : g[i] \in Nat
    BY <2>2, <2>4, <2>5
  <2> QED BY <2>3, <2>4, <2>6
<1>4. IsFiniteSet(S) /\ IsFiniteSet(T)
  BY <1>1, FS_Interval
<1>5. DropsIn(recs) = SumFunctionOnSet(f, S) /\ DropsIn(more) = SumFunctionOnSet(g, T)
  <2>1. DOMAIN f = S /\ DOMAIN g = T
    BY <1>1
  <2>2. DropsIn(recs) = SumFunctionOnSet(f, DOMAIN f)
          /\ DropsIn(more) = SumFunctionOnSet(g, DOMAIN g)
    BY DEF DropsIn, SumFunction, Drops
  <2> HIDE DEF f, g, more, S, T
  <2> QED BY <2>1, <2>2
<1>6. SumFunctionOnSet(f, S) \in Nat /\ SumFunctionOnSet(f, S) = SumFunctionOnSet(g, S)
  <2> HIDE DEF f, g, S, T
  <2>1. \A i \in S : f[i] = g[i]
    BY <1>3
  <2>2. \A i \in S : f[i] \in Nat
    BY <1>3
  <2>3. SumFunctionOnSet(f, S) \in Nat
    BY <1>4, <2>2, SumIsNatural
  <2>4. SumFunctionOnSet(f, S) = SumFunctionOnSet(g, S)
    BY <1>4, <2>1, SumOnSame
  <2> QED BY <2>3, <2>4
<1>7. SumFunctionOnSet(g, T) = g[n + 1] + SumFunctionOnSet(g, T \ {n + 1})
  <2> DEFINE z == n + 1
  <2>1. z \in T
    BY <1>3
  <2> HIDE DEF g, T, z
  <2>2. SumFunctionOnSet(g, T) = g[z] + SumFunctionOnSet(g, T \ {z})
    BY <1>3, <1>4, <2>1, SumOnRemove
  <2> QED BY <2>2 DEF z
<1>8. Drops(rec) \in Nat
  BY <1>2
<1>9. DropsIn(more) = DropsIn(recs) + Drops(rec) /\ DropsIn(recs) \in Nat
  <2> HIDE DEF f, g, more, S, T
  <2>1. T \ {n + 1} = S /\ g[n + 1] = Drops(rec)
    BY <1>3
  <2>2. SumFunctionOnSet(g, T) = Drops(rec) + SumFunctionOnSet(g, S)
    BY <1>7, <2>1
  <2> QED BY <1>5, <1>6, <1>8, <2>2
<1> QED BY <1>9 DEF Drops

\* The drops a file reports are a natural number.
LEMMA DropsInType ==
    ASSUME NEW recs \in Seq(Records)
    PROVE  DropsIn(recs) \in Nat
<1>1. [kind |-> "meta", no |-> 0, hour |-> 1] \in Records
  BY RecorderAssumption DEF Records, Hours
<1> QED BY <1>1, DropsInAppend

\* When one file changes, the total changes by as much as the file does.
LEMMA ReportedChange ==
    ASSUME TypeOK, NEW h \in Hours, NEW recs \in Seq(Records),
           disk' = [disk EXCEPT ![h] = recs]
    PROVE  /\ Reported' + DropsIn(disk[h]) = Reported + DropsIn(recs)
           /\ Reported \in Nat /\ Reported' \in Nat
<1> DEFINE f == [k \in Hours |-> DropsIn(disk[k])]
           g == [k \in Hours |-> DropsIn(disk'[k])]
<1>1. disk \in [Hours -> Seq(Records)] /\ disk' \in [Hours -> Seq(Records)] /\ disk'[h] = recs
        /\ \A k \in Hours \ {h} : disk'[k] = disk[k]
  BY DEF TypeOK
<1>2. f \in [Hours -> Nat] /\ g \in [Hours -> Nat]
  BY <1>1, DropsInType
<1>3. \A k \in Hours \ {h} : f[k] = g[k]
  BY <1>1
<1>4. IsFiniteSet(Hours)
  BY RecorderAssumption, FS_Interval DEF Hours
<1>5. Reported = SumFunction(f) /\ Reported' = SumFunction(g)
  BY DEF Reported
<1>6. f[h] = DropsIn(disk[h]) /\ g[h] = DropsIn(recs)
  BY <1>1
<1>7. DropsIn(disk[h]) \in Nat /\ DropsIn(recs) \in Nat
  BY <1>1, DropsInType
<1> HIDE DEF f, g
<1>8. SumFunction(f) + g[h] = SumFunction(g) + f[h]
         /\ SumFunction(f) \in Nat /\ SumFunction(g) \in Nat
  <2> HIDE DEF Hours
  <2> QED BY <1>2, <1>3, <1>4, SumOnChange
<1> QED BY <1>5, <1>6, <1>7, <1>8

-----------------------------------------------------------------------------
(***************************************************************************)
(* The writer takes an entry.                                              *)
(***************************************************************************)
\* A file that is created anew: it holds no entry, the others what they held.
LEMMA Recreated ==
    ASSUME TypeOK, LossInv, FilesInv, NEW h \in Hours, NEW recs \in {<<>>, <<Meta(h)>>},
           disk' = [disk EXCEPT ![h] = recs]
    PROVE  /\ disk' \in [Hours -> Seq(Records)] /\ disk'[h] = recs
           /\ FilesInv'
           /\ \A k \in Hours : \A i \in DOMAIN disk'[k] :
                 disk'[k][i].kind = "entry" =>
                    i \in DOMAIN disk[k] /\ disk'[k][i] = disk[k][i]
           /\ disk[h] = <<>> =>
                /\ \A k \in Hours : \A i \in DOMAIN disk[k] :
                       i \in DOMAIN disk'[k] /\ disk'[k][i] = disk[k][i]
                /\ Reported' = Reported
<1>1. disk \in [Hours -> Seq(Records)]
  BY DEF TypeOK
<1>2. Meta(h) \in Records
  BY RecordTypes
<1>3. recs \in Seq(Records)
  <2>1. <<Meta(h)>> \in Seq(Records) /\ <<>> \in Seq(Records)
    BY RecordTypes
  <2> QED BY <2>1
<1>4. disk' \in [Hours -> Seq(Records)] /\ disk'[h] = recs
        /\ \A k \in Hours : k # h => disk'[k] = disk[k]
  BY <1>1, <1>3
<1>5. \A i \in DOMAIN recs : i = 1 /\ recs[i] = Meta(h)
  OBVIOUS
<1>6. Meta(h).kind = "meta" /\ Meta(h).hour = h /\ Meta(h).kind # "entry"
  BY DEF Meta
<1>7. FilesInv'
  <2>1. ASSUME NEW k \in Hours, k # h, disk'[k] # <<>>
        PROVE  disk'[k][1] = Meta(k) /\ \A i \in DOMAIN disk'[k] \ {1} : disk'[k][i].kind # "meta"
    BY <1>4, <2>1 DEF FilesInv, FileOpensWithMeta
  <2>2. ASSUME disk'[h] # <<>>
        PROVE  disk'[h][1] = Meta(h) /\ \A i \in DOMAIN disk'[h] \ {1} : disk'[h][i].kind # "meta"
    <3>1. disk'[h] = <<Meta(h)>>
      BY <1>4, <2>2
    <3> QED BY <1>4, <1>5, <3>1
  <2>3. FileOpensWithMeta'
    BY <2>1, <2>2 DEF FileOpensWithMeta, Meta
  <2>4. ASSUME NEW k \in Hours, NEW i \in DOMAIN disk'[k]
        PROVE  /\ disk'[k][i].hour = k
               /\ disk'[k][i].kind = "entry" =>
                    \A j \in DOMAIN disk'[k] :
                        j > i /\ disk'[k][j].kind = "entry" => disk'[k][i].no < disk'[k][j].no
    <3>1. CASE k = h
      BY <1>4, <1>5, <1>6, <3>1
    <3>2. CASE k # h
      BY <1>4, <3>2 DEF FilesInv, FileInOrder
    <3> QED BY <3>1, <3>2
  <2>5. FileInOrder'
    BY <2>4 DEF FileInOrder
  <2> QED BY <2>3, <2>5 DEF FilesInv
<1>8. \A k \in Hours : \A i \in DOMAIN disk'[k] :
         disk'[k][i].kind = "entry" => i \in DOMAIN disk[k] /\ disk'[k][i] = disk[k][i]
  BY <1>4, <1>5, <1>6
<1>9. ASSUME disk[h] = <<>>
      PROVE  /\ \A k \in Hours : \A i \in DOMAIN disk[k] :
                    i \in DOMAIN disk'[k] /\ disk'[k][i] = disk[k][i]
             /\ Reported' = Reported
  <2>1. \A k \in Hours : \A i \in DOMAIN disk[k] :
           i \in DOMAIN disk'[k] /\ disk'[k][i] = disk[k][i]
    <3>1. \A i : i \notin DOMAIN disk[h]
      BY <1>9
    <3> QED BY <1>4, <3>1
  <2>2. DropsIn(recs) = 0
    <3>1. CASE recs = <<>>
      BY <3>1, DropsInEmpty
    <3>2. CASE recs = <<Meta(h)>>
      <4>1. recs = Append(<<>>, Meta(h)) /\ <<>> \in Seq(Records)
        BY <3>2
      <4> DEFINE m == Meta(h)
                 s == <<>>
      <4>2. s \in Seq(Records) /\ m \in Records /\ m.kind = "meta"
        BY <1>2, <1>6, <4>1
      <4>3. DropsIn(Append(s, m)) = DropsIn(s) + 0
        <5> HIDE DEF m, s
        <5>1. DropsIn(Append(s, m)) = DropsIn(s) + (IF m.kind = "drop" THEN m.no ELSE 0)
          BY <4>2, DropsInAppend
        <5> QED BY <4>2, <5>1
      <4> QED BY <4>1, <4>3, DropsInEmpty
    <3> QED BY <3>1, <3>2
  <2>3. Reported' + DropsIn(disk[h]) = Reported + DropsIn(recs)
          /\ Reported \in Nat /\ Reported' \in Nat
    BY <1>3, ReportedChange
  <2> QED BY <1>9, <2>1, <2>2, <2>3, DropsInEmpty
<1> QED BY <1>4, <1>7, <1>8, <1>9

\* The writer receives the entry e and is at it, or counts it as dropped.
LEMMA ReceiveKeeps ==
    ASSUME RInv, Receive, NEW e, e = Head(queue),
           \/ cur' = e /\ file' = e.hour /\ lost' = lost /\ dropped' = dropped
           \/ cur' = cur /\ lost' = lost \cup {e.no} /\ dropped' = dropped + 1
    PROVE  /\ queue' \in Seq(Entries) /\ Len(queue') <= QueueCap
           /\ e \in Entries /\ e # None /\ cur' \in {e, None}
           /\ lost' \subseteq 1 .. MaxOffered /\ dropped' \in Nat /\ marked' \in 0 .. dropped'
           /\ LossInv' /\ QueueInv' /\ CurInv'
           /\ \A rec \in Records :
                 Older(rec, offered, cur, queue) => Older(rec, offered', cur', queue') /\ (rec.kind = "entry" => rec.no < e.no)
           /\ \A n : \/ n \in lost
                     \/ cur # None /\ cur.no = n
                     \/ \E i \in DOMAIN queue : queue[i].no = n
                  => \/ n \in lost'
                     \/ cur' # None /\ cur'.no = n
                     \/ \E i \in DOMAIN queue' : queue'[i].no = n
<1>1. cur = None /\ queue # <<>> /\ queue' = Tail(queue) /\ offered' = offered /\ marked' = marked
  BY DEF Receive
<1>2. /\ TypeOK /\ LossInv /\ QueueInv
      /\ offered \in Nat /\ offered <= MaxOffered /\ MaxOffered \in Nat
      /\ dropped \in Nat /\ marked \in 0 .. dropped
      /\ queue \in Seq(Entries) /\ Len(queue) \in Nat /\ Len(queue) <= QueueCap
      /\ DOMAIN queue = 1 .. Len(queue) /\ QueueCap \in Nat
  BY RecorderAssumption DEF RInv, TypeOK
<1>3. /\ e \in Entries /\ e # None /\ e = queue[1] /\ 1 \in DOMAIN queue
      /\ queue' \in Seq(Entries) /\ Len(queue') < Len(queue)
      /\ DOMAIN queue' = 1 .. Len(queue) - 1
      /\ \A i \in DOMAIN queue' : queue'[i] = queue[i + 1] /\ i + 1 \in DOMAIN queue
      /\ \A i \in DOMAIN queue : i # 1 => i - 1 \in DOMAIN queue'
  BY <1>1, <1>2, QueueTail
<1>4. Len(queue') <= QueueCap /\ cur' \in {e, None}
  <2>1. Len(queue') \in Nat
    BY <1>3
  <2> QED BY <1>1, <1>2, <1>3, <2>1
<1>5. \A i \in DOMAIN queue : queue[i].no \in Nat /\ queue[i].no <= offered
                                /\ queue[i].no \notin lost
  <2>1. \A i \in DOMAIN queue : queue[i] \in Entries
    BY <1>2
  <2>2. \A i \in DOMAIN queue : queue[i].no \in Nat
    BY <2>1 DEF Entries
  <2> QED BY <1>2, <2>2 DEF QueueInv
<1>6. e.no \in 1 .. offered /\ e.no \notin lost
  <2>1. e.no \in 1 .. MaxOffered
    BY <1>3 DEF Entries
  <2> QED BY <1>2, <1>3, <1>5, <2>1
<1>7. \A i \in DOMAIN queue' : e.no < queue'[i].no /\ queue'[i].no <= offered
                                 /\ queue'[i].no \notin lost'
  <2> SUFFICES ASSUME NEW i \in DOMAIN queue'
               PROVE  e.no < queue[i + 1].no /\ queue[i + 1].no <= offered
                                 /\ queue[i + 1].no \notin lost'
    BY <1>3
  <2>1. i + 1 \in DOMAIN queue /\ 1 < i + 1
    BY <1>2, <1>3
  <2>2. e.no < queue[i + 1].no
    BY <1>2, <1>3, <2>1 DEF QueueInv
  <2>3. queue[i + 1].no \notin lost /\ queue[i + 1].no # e.no
    BY <1>5, <1>6, <2>1, <2>2
  <2> QED BY <1>5, <2>1, <2>2, <2>3
<1>8. lost' \subseteq 1 .. offered /\ lost' \subseteq 1 .. MaxOffered
        /\ dropped' \in Nat /\ marked' \in 0 .. dropped'
  <2>1. lost' \subseteq 1 .. offered
    BY <1>2, <1>6 DEF LossInv
  <2>2. dropped' \in Nat /\ dropped <= dropped'
    BY <1>2
  <2>3. marked' \in 0 .. dropped'
    BY <1>1, <1>2, <2>2
  <2>4. lost' \subseteq 1 .. MaxOffered
    BY <1>2, <2>1
  <2> QED BY <2>1, <2>2, <2>3, <2>4
<1>9. LossInv'
  <2>1. IsFiniteSet(lost)
    BY <1>2, LossBound
  <2>2. Cardinality(lost \cup {e.no}) = Cardinality(lost) + 1
    BY <1>6, <2>1, FS_AddElement
  <2> QED BY <1>1, <1>2, <1>8, <2>2 DEF LossInv
<1>10. QueueInv'
  <2>1. ASSUME NEW i \in DOMAIN queue', NEW j \in DOMAIN queue', i < j
        PROVE  queue'[i].no < queue'[j].no
    <3>1. i + 1 \in DOMAIN queue /\ j + 1 \in DOMAIN queue /\ i + 1 < j + 1
      BY <1>2, <1>3, <2>1
    <3>2. queue[i + 1].no < queue[j + 1].no
      BY <1>2, <3>1 DEF QueueInv
    <3> QED BY <1>3, <3>2
  <2> QED BY <1>1, <1>7, <2>1 DEF QueueInv
<1>11. CurInv'
  <2> SUFFICES ASSUME cur' # None PROVE CurInv'
    BY DEF CurInv
  <2>1. cur' = e /\ file' = e.hour /\ lost' = lost
    BY <1>1
  <2> QED BY <1>1, <1>2, <1>6, <1>7, <2>1 DEF CurInv
<1>12. ASSUME NEW rec \in Records, Older(rec, offered, cur, queue)
       PROVE  Older(rec, offered', cur', queue') /\ (rec.kind = "entry" => rec.no < e.no)
  <2>1. rec.kind = "entry" =>
           rec.no > 0 /\ rec.no <= offered /\ \A i \in DOMAIN queue : rec.no < queue[i].no
    BY <1>12 DEF Older
  <2>2. rec.kind = "entry" => rec.no < e.no
    BY <1>3, <2>1
  <2>3. rec.kind = "entry" => \A i \in DOMAIN queue' : rec.no < queue'[i].no
    BY <1>3, <2>1
  <2> QED BY <1>1, <1>4, <2>1, <2>2, <2>3 DEF Older
<1>13. ASSUME NEW n,
              \/ n \in lost
              \/ cur # None /\ cur.no = n
              \/ \E i \in DOMAIN queue : queue[i].no = n
       PROVE  \/ n \in lost'
              \/ cur' # None /\ cur'.no = n
              \/ \E i \in DOMAIN queue' : queue'[i].no = n
  <2>1. CASE n \in lost
    BY <2>1
  <2>2. CASE \E i \in DOMAIN queue : queue[i].no = n
    <3>1. PICK i \in DOMAIN queue : queue[i].no = n
      BY <2>2
    <3>2. CASE i = 1
      BY <1>1, <1>3, <3>1, <3>2
    <3>3. CASE i # 1
      <4>1. i - 1 \in DOMAIN queue' /\ queue'[i - 1] = queue[(i - 1) + 1] /\ (i - 1) + 1 = i
        BY <1>2, <1>3, <3>3
      <4> QED BY <3>1, <4>1
    <3> QED BY <3>2, <3>3
  <2> QED BY <1>1, <1>13, <2>1, <2>2
<1> QED BY <1>3, <1>4, <1>8, <1>9, <1>10, <1>11, <1>12, <1>13

\* A step that moves no entry to the disk or off it.
LEMMA IntactStays ==
    ASSUME TypeOK, IntactInv, intact' => intact, offered' = offered,
           \A rec \in Records : Older(rec, offered, cur, queue) => Older(rec, offered', cur', queue'),
           \A rec \in Records :
               Older(rec, offered, cur, queue) /\ rec.kind = "entry" /\ rec.no \notin lost => rec.no \notin lost',
           \A n : \/ n \in lost
                  \/ cur # None /\ cur.no = n
                  \/ \E i \in DOMAIN queue : queue[i].no = n
               => \/ n \in lost'
                  \/ cur' # None /\ cur'.no = n
                  \/ \E i \in DOMAIN queue' : queue'[i].no = n,
           intact' =>
               /\ \A h \in Hours : \A i \in DOMAIN disk'[h] :
                     disk'[h][i].kind = "entry" =>
                        i \in DOMAIN disk[h] /\ disk'[h][i] = disk[h][i]
               /\ \A h \in Hours : \A i \in DOMAIN disk[h] :
                     i \in DOMAIN disk'[h] /\ disk'[h][i] = disk[h][i]
    PROVE  IntactInv'
<1> SUFFICES ASSUME intact' PROVE IntactInv'
  BY DEF IntactInv
<1>1. \A h \in Hours : \A i \in DOMAIN disk[h] : disk[h][i] \in Records
  BY DEF TypeOK
<1>2. /\ \A h \in Hours : \A i \in DOMAIN disk[h] :
            Older(disk[h][i], offered, cur, queue) /\ (disk[h][i].kind = "entry" => disk[h][i].no \notin lost)
      /\ \A h, k \in Hours : h # k =>
            \A i \in DOMAIN disk[h], j \in DOMAIN disk[k] :
                disk[h][i].kind = "entry" /\ disk[k][j].kind = "entry" =>
                    disk[h][i].no # disk[k][j].no
      /\ \A n \in 1 .. offered :
            \/ n \in lost
            \/ cur # None /\ cur.no = n
            \/ \E i \in DOMAIN queue : queue[i].no = n
            \/ \E h \in Hours : \E i \in DOMAIN disk[h] :
                  disk[h][i].kind = "entry" /\ disk[h][i].no = n
  BY DEF IntactInv
<1>3. ASSUME NEW h \in Hours, NEW i \in DOMAIN disk'[h]
      PROVE  Older(disk'[h][i], offered', cur', queue') /\ (disk'[h][i].kind = "entry" => disk'[h][i].no \notin lost')
  <2>1. CASE disk'[h][i].kind = "entry"
    <3>1. PICK rec \in Records : rec = disk'[h][i] /\ rec = disk[h][i] /\ i \in DOMAIN disk[h]
      BY <1>1, <2>1
    <3>2. Older(rec, offered, cur, queue) /\ rec.no \notin lost
      BY <1>2, <2>1, <3>1
    <3>3. Older(rec, offered', cur', queue') /\ rec.no \notin lost'
      BY <2>1, <3>1, <3>2
    <3> QED BY <3>1, <3>3 DEF Older
  <2>2. CASE disk'[h][i].kind # "entry"
    BY <2>2 DEF Older
  <2> QED BY <2>1, <2>2
<1>4. ASSUME NEW h \in Hours, NEW k \in Hours, h # k,
             NEW i \in DOMAIN disk'[h], NEW j \in DOMAIN disk'[k],
             disk'[h][i].kind = "entry", disk'[k][j].kind = "entry"
      PROVE  disk'[h][i].no # disk'[k][j].no
  BY <1>2, <1>4
<1>5. ASSUME NEW n \in 1 .. offered'
      PROVE  \/ n \in lost'
             \/ cur' # None /\ cur'.no = n
             \/ \E i \in DOMAIN queue' : queue'[i].no = n
             \/ \E h \in Hours : \E i \in DOMAIN disk'[h] :
                   disk'[h][i].kind = "entry" /\ disk'[h][i].no = n
  <2>1. CASE \E h \in Hours : \E i \in DOMAIN disk[h] :
                disk[h][i].kind = "entry" /\ disk[h][i].no = n
    BY <2>1
  <2>2. CASE ~ \E h \in Hours : \E i \in DOMAIN disk[h] :
                disk[h][i].kind = "entry" /\ disk[h][i].no = n
    <3>1. \/ n \in lost
          \/ cur # None /\ cur.no = n
          \/ \E i \in DOMAIN queue : queue[i].no = n
      BY <1>2, <2>2
    <3> QED BY <3>1
  <2> QED BY <2>1, <2>2
<1>6. \A h, k \in Hours : h # k =>
         \A i \in DOMAIN disk'[h], j \in DOMAIN disk'[k] :
             disk'[h][i].kind = "entry" /\ disk'[k][j].kind = "entry" =>
                 disk'[h][i].no # disk'[k][j].no
  BY <1>4
<1>7. \A h \in Hours : \A i \in DOMAIN disk'[h] :
         Older(disk'[h][i], offered', cur', queue') /\ (disk'[h][i].kind = "entry" => disk'[h][i].no \notin lost')
  <2> QED BY <1>3
<1> QED BY <1>5, <1>6, <1>7 DEF IntactInv

\* A file of hour h is as it should be.
FileOk(recs, h) ==
    /\ recs # <<>> =>
         recs[1] = Meta(h) /\ \A i \in DOMAIN recs \ {1} : recs[i].kind # "meta"
    /\ \A i \in DOMAIN recs :
         /\ recs[i].hour = h
         /\ recs[i].kind = "entry" =>
               \A j \in DOMAIN recs : j > i /\ recs[j].kind = "entry" => recs[i].no < recs[j].no

\* FilesInv, one file at a time, before and after a step.
LEMMA FilesAreOk ==
    /\ FilesInv <=> \A h \in Hours : FileOk(disk[h], h)
    /\ FilesInv' <=> \A h \in Hours : FileOk(disk'[h], h)
BY DEF FilesInv, FileOpensWithMeta, FileInOrder, FileOk, Meta

\* A file that has lost its end is still as it should be.
LEMMA TruncatedOk ==
    ASSUME NEW recs \in Seq(Records), NEW h \in Hours, FileOk(recs, h),
           NEW kept \in Nat, kept <= Len(recs)
    PROVE  SubSeq(recs, 1, kept) \in Seq(Records) /\ FileOk(SubSeq(recs, 1, kept), h)
<1> DEFINE t == SubSeq(recs, 1, kept)
<1>1. /\ t \in Seq(Records) /\ Len(t) = kept /\ DOMAIN t = 1 .. kept
      /\ \A i \in 1 .. kept : t[i] = recs[i] /\ i \in DOMAIN recs
  OBVIOUS
<1>2. t # <<>> => 1 \in DOMAIN t /\ recs # <<>>
  BY <1>1
<1> HIDE DEF t
<1>3. \A i \in DOMAIN t : t[i] = recs[i] /\ i \in DOMAIN recs
  BY <1>1
<1>4. FileOk(t, h)
  BY <1>2, <1>3 DEF FileOk
<1> QED BY <1>1, <1>4 DEF t

\* closeFile leaves every file as it should be, though perhaps shorter.
LEMMA AfterCloseOk ==
    ASSUME RInv, NEW dir \in AfterClose
    PROVE  dir \in [Hours -> Seq(Records)] /\ \A h \in Hours : FileOk(dir[h], h)
<1>1. /\ disk \in [Hours -> Seq(Records)] /\ \A h \in Hours : FileOk(disk[h], h)
      /\ file \in Hours \cup {Closed}
  BY FilesAreOk DEF RInv, TypeOK
<1>2. CASE dir = disk
  BY <1>1, <1>2
<1>3. CASE dir # disk
  <2>1. PICK kept \in 0 .. Len(disk[file]) :
            file # Closed /\ dir = [disk EXCEPT ![file] = SubSeq(disk[file], 1, kept)]
    BY <1>3 DEF AfterClose
  <2>2. file \in Hours /\ kept \in Nat /\ kept <= Len(disk[file])
    BY <1>1, <2>1
  <2> DEFINE t == SubSeq(disk[file], 1, kept)
  <2>3. t \in Seq(Records) /\ FileOk(t, file)
    BY <1>1, <2>2, TruncatedOk
  <2>4. dir = [disk EXCEPT ![file] = t]
    BY <2>1
  <2> HIDE DEF t
  <2> QED BY <1>1, <2>2, <2>3, <2>4
<1> QED BY <1>2, <1>3

\* A file that is created, in a directory that closeFile may have damaged.
LEMMA CreatedOk ==
    ASSUME NEW dir \in [Hours -> Seq(Records)], \A h \in Hours : FileOk(dir[h], h),
           NEW hour \in Hours, NEW recs \in {<<>>, <<Meta(hour)>>},
           disk' = [dir EXCEPT ![hour] = recs], MaxOffered \in Nat
    PROVE  disk' \in [Hours -> Seq(Records)] /\ FilesInv'
<1>1. recs \in Seq(Records)
  <2>1. 0 \in 0 .. MaxOffered
    OBVIOUS
  <2>2. Meta(hour) \in Records
    BY <2>1 DEF Meta, Records
  <2>3. <<Meta(hour)>> \in Seq(Records) /\ <<>> \in Seq(Records)
    BY <2>2
  <2>4. CASE recs = <<>>
    BY <2>3, <2>4
  <2>5. CASE recs = <<Meta(hour)>>
    BY <2>3, <2>5
  <2> QED BY <2>4, <2>5
<1>2. FileOk(recs, hour)
  <2>1. CASE recs = <<>>
    BY <2>1 DEF FileOk
  <2>2. CASE recs = <<Meta(hour)>>
    <3>1. DOMAIN recs = {1} /\ recs[1] = Meta(hour)
      BY <2>2
    <3>2. recs[1].hour = hour /\ recs[1].kind = "meta"
      BY <3>1 DEF Meta
    <3> QED BY <3>1, <3>2 DEF FileOk
  <2> QED BY <2>1, <2>2
<1>3. disk' \in [Hours -> Seq(Records)]
  BY <1>1
<1>4. \A h \in Hours : FileOk(disk'[h], h)
  BY <1>1, <1>2
<1> QED BY <1>3, <1>4, FilesAreOk

\* Recorder.run takes a record and has, or opens, the file of its hour.
LEMMA TakeKeeps ==
    ASSUME RInv, Take
    PROVE  RInv'
<1>1. PICK e : e = Head(queue)
  OBVIOUS
<1>2. /\ Receive /\ cur' = e /\ file' = e.hour /\ lost' = lost /\ dropped' = dropped
      /\ \/ e.hour = file /\ UNCHANGED <<disk, written, intact>>
         \/ /\ e.hour # file /\ written' = written + 1
            /\ \E dir \in AfterClose : Creates(dir, e.hour, <<Meta(e.hour)>>)
  BY <1>1 DEF Take
<1>3. UNCHANGED <<clock, hold, stage, runs, offered, marked>>
  BY <1>2 DEF Receive
<1>4. /\ TypeOK /\ LossInv /\ QueueInv /\ CurInv /\ FilesInv /\ OpenInv /\ IntactInv /\ MarkInv
  BY DEF RInv
<1>5. /\ queue' \in Seq(Entries) /\ Len(queue') <= QueueCap
      /\ e \in Entries /\ e # None
      /\ lost' \subseteq 1 .. MaxOffered /\ dropped' \in Nat /\ marked' \in 0 .. dropped'
      /\ LossInv' /\ QueueInv' /\ CurInv'
      /\ \A rec \in Records : Older(rec, offered, cur, queue) => Older(rec, offered', cur', queue')
      /\ \A n : \/ n \in lost
                \/ cur # None /\ cur.no = n
                \/ \E i \in DOMAIN queue : queue[i].no = n
             => \/ n \in lost'
                \/ cur' # None /\ cur'.no = n
                \/ \E i \in DOMAIN queue' : queue'[i].no = n
  <2> QED BY <1>1, <1>2, ReceiveKeeps
<1>6. e.hour \in Hours /\ Closed \notin Hours /\ disk \in [Hours -> Seq(Records)]
  BY <1>4, <1>5, RecorderAssumption DEF Entries, Hours, Closed, TypeOK
<1>7. /\ disk' \in [Hours -> Seq(Records)] /\ FilesInv'
      /\ disk'[e.hour] # <<>>
      /\ \A i \in DOMAIN disk'[e.hour] : Older(disk'[e.hour][i], offered', cur', queue')
      /\ intact' =>
           /\ intact /\ Reported' = Reported
           /\ \A h \in Hours : \A i \in DOMAIN disk'[h] :
                 disk'[h][i].kind = "entry" =>
                    i \in DOMAIN disk[h] /\ disk'[h][i] = disk[h][i]
           /\ \A h \in Hours : \A i \in DOMAIN disk[h] :
                 i \in DOMAIN disk'[h] /\ disk'[h][i] = disk[h][i]
      /\ written' \in Nat /\ intact' \in BOOLEAN
  <2>1. CASE e.hour = file
    <3>1. disk' = disk /\ intact' = intact /\ written' = written
      BY <1>2, <2>1
    <3>2. FilesInv' /\ Reported' = Reported
      BY <1>4, <3>1 DEF FilesInv, FileOpensWithMeta, FileInOrder, Reported
    <3>3. disk[file] # <<>> /\ \A i \in DOMAIN disk[file] : Older(disk[file][i], offered, cur, queue)
      BY <1>4, <1>6, <2>1 DEF OpenInv
    <3>4. ASSUME NEW i \in DOMAIN disk'[e.hour] PROVE Older(disk'[e.hour][i], offered', cur', queue')
      <4>1. PICK rec \in Records : rec = disk'[e.hour][i] /\ rec = disk[file][i]
        BY <1>6, <2>1, <3>1
      <4>2. Older(rec, offered', cur', queue')
        BY <1>5, <2>1, <3>1, <3>3, <4>1
      <4> QED BY <4>1, <4>2 DEF Older
    <3>5. written' \in Nat /\ intact' \in BOOLEAN
      BY <1>4, <3>1 DEF TypeOK
    <3> QED BY <1>6, <2>1, <3>1, <3>2, <3>3, <3>4, <3>5
  <2>2. CASE e.hour # file
    <3> DEFINE recs == <<Meta(e.hour)>>
    <3>1. PICK dir \in AfterClose :
             /\ disk' = [dir EXCEPT ![e.hour] = recs]
             /\ written' = written + 1
             /\ intact' = (intact /\ dir = disk /\ dir[e.hour] = <<>>)
      BY <1>2, <2>2 DEF Creates
    <3>2. recs \in {<<>>, <<Meta(e.hour)>>} /\ recs # <<>>
      OBVIOUS
    <3> HIDE DEF recs
    <3>3. /\ disk' \in [Hours -> Seq(Records)] /\ disk'[e.hour] = recs /\ FilesInv'
          /\ dir = disk /\ disk[e.hour] = <<>> =>
               /\ \A h \in Hours : \A i \in DOMAIN disk'[h] :
                      disk'[h][i].kind = "entry" =>
                         i \in DOMAIN disk[h] /\ disk'[h][i] = disk[h][i]
               /\ \A h \in Hours : \A i \in DOMAIN disk[h] :
                      i \in DOMAIN disk'[h] /\ disk'[h][i] = disk[h][i]
               /\ Reported' = Reported
      <4>1. dir \in [Hours -> Seq(Records)] /\ \A h \in Hours : FileOk(dir[h], h)
        BY AfterCloseOk
      <4>2. disk' \in [Hours -> Seq(Records)] /\ FilesInv'
        BY <1>6, <3>1, <3>2, <4>1, CreatedOk, RecorderAssumption
      <4>3. disk'[e.hour] = recs
        BY <1>6, <3>1, <4>1
      <4>4. CASE dir = disk
        <5>1. disk' = [disk EXCEPT ![e.hour] = recs]
          BY <3>1, <4>4
        <5> QED BY <1>4, <1>6, <3>2, <4>2, <4>3, <5>1, Recreated
      <4> QED BY <4>2, <4>3, <4>4
    <3>4. ASSUME NEW i \in DOMAIN disk'[e.hour] PROVE Older(disk'[e.hour][i], offered', cur', queue')
      <4>1. disk'[e.hour][i] = Meta(e.hour)
        BY <3>3, <3>4 DEF recs
      <4>2. disk'[e.hour][i].kind # "entry"
        BY <4>1 DEF Meta
      <4> QED BY <4>2 DEF Older
    <3>5. written' \in Nat
      BY <1>4, <3>1 DEF TypeOK
    <3>6. intact' \in BOOLEAN /\ (intact' => intact /\ dir = disk /\ disk[e.hour] = <<>>)
      BY <3>1
    <3> QED BY <3>2, <3>3, <3>4, <3>5, <3>6
  <2> QED BY <2>1, <2>2
<1>8. TypeOK'
  <2>1. cur' \in Entries \cup {None} /\ file' \in Hours \cup {Closed}
    BY <1>2, <1>5, <1>6
  <2> QED BY <1>3, <1>4, <1>5, <1>7, <2>1 DEF TypeOK
<1>9. OpenInv'
  BY <1>2, <1>7 DEF OpenInv
<1>10. IntactInv'
  BY <1>2, <1>3, <1>4, <1>5, <1>7, IntactStays
<1>11. MarkInv'
  BY <1>2, <1>3, <1>4, <1>5, <1>7 DEF MarkInv
<1> QED BY <1>5, <1>7, <1>8, <1>9, <1>10, <1>11 DEF RInv

\* Recorder.run takes a record and cannot open the file of its hour.
LEMMA TakeFailsKeeps ==
    ASSUME RInv, NEW fault, TakeFails(fault)
    PROVE  RInv'
<1>1. PICK e : e = Head(queue)
  OBVIOUS
<1>2. /\ Receive /\ cur' = cur /\ file' = Closed /\ written' = written
      /\ lost' = lost \cup {e.no} /\ dropped' = dropped + 1
      /\ \E dir \in AfterClose : Leaves(dir) \/ Creates(dir, e.hour, <<>>)
  BY <1>1 DEF TakeFails
<1>3. UNCHANGED <<clock, hold, stage, runs, offered, marked>> /\ cur' = None
  BY <1>2 DEF Receive
<1>4. /\ TypeOK /\ LossInv /\ QueueInv /\ CurInv /\ FilesInv /\ OpenInv /\ IntactInv /\ MarkInv
  BY DEF RInv
<1>5. /\ queue' \in Seq(Entries) /\ Len(queue') <= QueueCap
      /\ e \in Entries /\ e # None
      /\ lost' \subseteq 1 .. MaxOffered /\ dropped' \in Nat /\ marked' \in 0 .. dropped'
      /\ LossInv' /\ QueueInv' /\ CurInv'
      /\ \A rec \in Records : Older(rec, offered, cur, queue) =>
            Older(rec, offered', cur', queue') /\ (rec.kind = "entry" => rec.no < e.no)
      /\ \A n : \/ n \in lost
                \/ cur # None /\ cur.no = n
                \/ \E i \in DOMAIN queue : queue[i].no = n
             => \/ n \in lost'
                \/ cur' # None /\ cur'.no = n
                \/ \E i \in DOMAIN queue' : queue'[i].no = n
  BY <1>1, <1>2, ReceiveKeeps
<1>6. e.hour \in Hours /\ disk \in [Hours -> Seq(Records)] /\ e.no \in Nat
  BY <1>4, <1>5, RecorderAssumption DEF Entries, TypeOK
<1>7. /\ disk' \in [Hours -> Seq(Records)] /\ FilesInv'
      /\ intact' =>
           /\ intact /\ Reported' = Reported
           /\ \A h \in Hours : \A i \in DOMAIN disk'[h] :
                 disk'[h][i].kind = "entry" =>
                    i \in DOMAIN disk[h] /\ disk'[h][i] = disk[h][i]
           /\ \A h \in Hours : \A i \in DOMAIN disk[h] :
                 i \in DOMAIN disk'[h] /\ disk'[h][i] = disk[h][i]
      /\ intact' \in BOOLEAN
  <2>1. PICK dir \in AfterClose : Leaves(dir) \/ Creates(dir, e.hour, <<>>)
    BY <1>2
  <2>2. dir \in [Hours -> Seq(Records)] /\ \A h \in Hours : FileOk(dir[h], h)
    BY AfterCloseOk
  <2>3. CASE Leaves(dir)
    <3>1. disk' = dir /\ intact' = (intact /\ dir = disk)
      BY <2>3 DEF Leaves
    <3>2. FilesInv'
      BY <2>2, <3>1, FilesAreOk
    <3>3. dir = disk => Reported' = Reported
      BY <3>1 DEF Reported
    <3> QED BY <1>6, <2>2, <3>1, <3>2, <3>3
  <2>4. CASE Creates(dir, e.hour, <<>>)
    <3> DEFINE recs == <<>>
    <3>1. /\ disk' = [dir EXCEPT ![e.hour] = recs] /\ recs \in {<<>>, <<Meta(e.hour)>>}
          /\ intact' = (intact /\ dir = disk /\ dir[e.hour] = <<>>)
      BY <2>4 DEF Creates
    <3>2. disk' \in [Hours -> Seq(Records)] /\ FilesInv'
      <4> HIDE DEF recs
      <4> QED BY <1>6, <2>2, <3>1, CreatedOk, RecorderAssumption
    <3>3. dir = disk /\ disk[e.hour] = <<>> =>
             /\ \A h \in Hours : \A i \in DOMAIN disk'[h] :
                    disk'[h][i].kind = "entry" =>
                       i \in DOMAIN disk[h] /\ disk'[h][i] = disk[h][i]
             /\ \A h \in Hours : \A i \in DOMAIN disk[h] :
                    i \in DOMAIN disk'[h] /\ disk'[h][i] = disk[h][i]
             /\ Reported' = Reported
      <4> HIDE DEF recs
      <4>1. CASE dir = disk
        <5>1. disk' = [disk EXCEPT ![e.hour] = recs]
          BY <3>1, <4>1
        <5> QED BY <1>4, <1>6, <3>1, <5>1, Recreated
      <4> QED BY <4>1
    <3> HIDE DEF recs
    <3> QED BY <3>1, <3>2, <3>3
  <2> QED BY <2>1, <2>3, <2>4
<1>8. TypeOK'
  BY <1>2, <1>3, <1>4, <1>5, <1>7 DEF TypeOK
<1>9. OpenInv'
  BY <1>2 DEF OpenInv
<1>10. IntactInv'
  <2>1. ASSUME NEW rec \in Records, Older(rec, offered, cur, queue), rec.kind = "entry",
               rec.no \notin lost
        PROVE  rec.no \notin lost'
    <3>1. rec.no < e.no /\ rec.no \in Int
      BY <1>5, <2>1, RecorderAssumption DEF Records
    <3> QED BY <1>2, <1>6, <2>1, <3>1
  <2> QED BY <1>3, <1>4, <1>5, <1>7, <2>1, IntactStays
<1>11. MarkInv'
  BY <1>2, <1>3, <1>4, <1>7 DEF MarkInv
<1> QED BY <1>5, <1>7, <1>8, <1>9, <1>10, <1>11 DEF RInv

-----------------------------------------------------------------------------
(***************************************************************************)
(* The writer writes.                                                      *)
(***************************************************************************)
\* A marker or a later record at the end of a file keeps the file in order.
LEMMA AppendOk ==
    ASSUME NEW recs \in Seq(Records), NEW rec \in Records, NEW h \in Hours,
           FileOk(recs, h), recs # <<>>, rec.kind # "meta", rec.hour = h,
           rec.kind = "entry" =>
              \A i \in DOMAIN recs : recs[i].kind = "entry" => recs[i].no < rec.no
    PROVE  /\ FileOk(Append(recs, rec), h)
           /\ Append(recs, rec) \in Seq(Records) /\ Append(recs, rec) # <<>>
           /\ \A i \in DOMAIN recs :
                 i \in DOMAIN Append(recs, rec) /\ Append(recs, rec)[i] = recs[i]
           /\ \A i \in DOMAIN Append(recs, rec) :
                 i \notin DOMAIN recs => Append(recs, rec)[i] = rec
           /\ \E i \in DOMAIN Append(recs, rec) : Append(recs, rec)[i] = rec
<1> DEFINE more == Append(recs, rec)
           n == Len(recs)
<1>1. n \in Nat /\ n > 0 /\ DOMAIN recs = 1 .. n
  OBVIOUS
<1>2. /\ more \in Seq(Records) /\ DOMAIN more = 1 .. n + 1 /\ Len(more) = n + 1
      /\ more[n + 1] = rec /\ \A i \in 1 .. n : more[i] = recs[i]
  OBVIOUS
<1> HIDE DEF more, n
<1>3. \A i \in DOMAIN more : (i \in DOMAIN recs /\ more[i] = recs[i]) \/ (i = n + 1 /\ more[i] = rec)
  BY <1>1, <1>2
<1>4. \A i \in DOMAIN recs : i \in DOMAIN more /\ more[i] = recs[i] /\ i # n + 1
  BY <1>1, <1>2
<1>5. 1 \in DOMAIN recs /\ n + 1 \in DOMAIN more /\ more # <<>> /\ n + 1 # 1
  BY <1>1, <1>2
<1>6. FileOk(more, h)
  <2>1. more[1] = Meta(h) /\ \A i \in DOMAIN more \ {1} : more[i].kind # "meta"
    BY <1>3, <1>4, <1>5 DEF FileOk
  <2>2. ASSUME NEW i \in DOMAIN more
        PROVE  /\ more[i].hour = h
               /\ more[i].kind = "entry" =>
                     \A j \in DOMAIN more :
                         j > i /\ more[j].kind = "entry" => more[i].no < more[j].no
    <3>1. CASE i = n + 1
      <4>1. \A j \in DOMAIN more : ~(j > i)
        BY <1>1, <1>2, <3>1
      <4> QED BY <1>2, <3>1, <4>1
    <3>2. CASE i # n + 1
      <4>1. i \in DOMAIN recs /\ more[i] = recs[i]
        BY <1>3, <3>2
      <4>2. ASSUME NEW j \in DOMAIN more, j > i, more[j].kind = "entry", more[i].kind = "entry"
            PROVE  more[i].no < more[j].no
        BY <1>3, <4>1, <4>2 DEF FileOk
      <4> QED BY <4>1, <4>2 DEF FileOk
    <3> QED BY <3>1, <3>2
  <2> QED BY <2>1, <2>2 DEF FileOk
<1>7. /\ more \in Seq(Records) /\ more # <<>>
      /\ \A i \in DOMAIN recs : i \in DOMAIN more /\ more[i] = recs[i]
      /\ \A i \in DOMAIN more : i \notin DOMAIN recs => more[i] = rec
      /\ \E i \in DOMAIN more : more[i] = rec
  BY <1>2, <1>3, <1>4, <1>5
<1> QED BY <1>6, <1>7 DEF more

\* Recorder.write: the drop marker, if one is due, and the record, each of
\* which may fail.
LEMMA PutKeeps ==
    ASSUME RInv, NEW markerOk \in BOOLEAN, NEW entryOk \in BOOLEAN, Put(markerOk, entryOk)
    PROVE  RInv'
<1> DEFINE ent == [kind |-> "entry", no |-> cur.no, hour |-> cur.hour]
           m == [kind |-> "drop", no |-> dropped - marked, hour |-> cur.hour]
           x == IF markerOk THEN Marker ELSE <<>>
           y == IF entryOk THEN <<ent>> ELSE <<>>
           new == disk[file] \o x \o y
<1>1. /\ cur # None /\ disk' = [disk EXCEPT ![file] = new]
      /\ written' = written + Len(Marker) + (IF entryOk THEN 1 ELSE 0)
      /\ marked' = dropped /\ cur' = None /\ intact' = (intact /\ markerOk /\ entryOk)
      /\ UNCHANGED <<clock, hold, stage, runs, queue, offered, dropped, file, lost>>
  BY DEF Put
<1>2. /\ TypeOK /\ LossInv /\ QueueInv /\ CurInv /\ FilesInv /\ OpenInv /\ IntactInv /\ MarkInv
  BY DEF RInv
<1>3. /\ cur \in Entries /\ ent \in Records /\ (dropped > marked => m \in Records)
      /\ Len(Marker) \in Nat
  BY <1>1, <1>2, RecordTypes
<1>4. /\ file = cur.hour /\ file \in Hours /\ file # Closed
      /\ cur.no <= offered /\ cur.no \notin lost /\ cur.no \in Nat /\ cur.no > 0
      /\ \A i \in DOMAIN queue : cur.no < queue[i].no
  <2>1. cur.hour \in Hours /\ cur.no \in Nat /\ cur.no > 0
    BY <1>3 DEF Entries
  <2> QED BY <1>1, <1>2, <2>1, RecorderAssumption DEF CurInv, Hours, Closed
<1>5. /\ disk \in [Hours -> Seq(Records)] /\ dropped \in Nat /\ marked \in 0 .. dropped
      /\ written \in Nat /\ offered \in Nat
  BY <1>2 DEF TypeOK
<1>6. /\ disk[file] \in Seq(Records) /\ disk[file] # <<>> /\ FileOk(disk[file], file)
      /\ \A i \in DOMAIN disk[file] : disk[file][i].kind = "entry" => disk[file][i].no < ent.no
  <2>1. \A i \in DOMAIN disk[file] : disk[file][i].kind = "entry" => disk[file][i].no < cur.no
    BY <1>1, <1>2, <1>4 DEF OpenInv, Older
  <2> QED BY <1>2, <1>4, <1>5, <2>1, FilesAreOk DEF OpenInv
<1>7. /\ x = <<>> \/ x = <<m>>
      /\ y = <<>> \/ y = <<ent>>
      /\ x = <<m>> <=> markerOk /\ dropped > marked
      /\ y = <<ent>> <=> entryOk
      /\ x = <<m>> => m \in Records /\ m.kind = "drop" /\ m.hour = file
      /\ ent.kind = "entry" /\ ent.hour = file /\ ent.no = cur.no /\ m.no = dropped - marked
  <2>1. Marker = IF dropped > marked THEN <<m>> ELSE <<>>
    BY DEF Marker
  <2>2. x = IF markerOk /\ dropped > marked THEN <<m>> ELSE <<>>
    BY <2>1
  <2>3. m.kind = "drop" /\ m.hour = file /\ m.no = dropped - marked
          /\ ent.kind = "entry" /\ ent.hour = file /\ ent.no = cur.no
    BY <1>4
  <2>4. y = IF entryOk THEN <<ent>> ELSE <<>>
    OBVIOUS
  <2> HIDE DEF x, y, m, ent
  <2>5. \A z : <<>> # <<z>>
    OBVIOUS
  <2> QED BY <1>3, <2>2, <2>3, <2>4, <2>5
<1> HIDE DEF ent, m, x, y
<1>8. /\ new \in Seq(Records) /\ new # <<>> /\ FileOk(new, file)
      /\ \A i \in DOMAIN disk[file] : i \in DOMAIN new /\ new[i] = disk[file][i]
      /\ \A i \in DOMAIN new : new[i].kind = "entry" =>
            (i \in DOMAIN disk[file] /\ new[i] = disk[file][i]) \/ (entryOk /\ new[i] = ent)
      /\ entryOk => \E i \in DOMAIN new : new[i] = ent
      /\ DropsIn(disk[file]) \in Nat
      /\ DropsIn(new) = DropsIn(disk[file]) + (IF x = <<m>> THEN m.no ELSE 0)
  <2>1. PICK recs \in Seq(Records) : recs = disk[file]
    BY <1>6
  <2>2. PICK h \in Hours : h = file
    BY <1>4
  <2>3. /\ FileOk(recs, h) /\ recs # <<>>
        /\ x = <<m>> => m \in Records /\ m.kind = "drop" /\ m.hour = h
        /\ ent \in Records /\ ent.kind = "entry" /\ ent.hour = h
        /\ \A i \in DOMAIN recs : recs[i].kind = "entry" => recs[i].no < ent.no
    BY <1>3, <1>6, <1>7, <2>1, <2>2
  <2>4. PICK n : n = recs \o x \o y
    OBVIOUS
  <2>5. /\ n \in Seq(Records) /\ n # <<>> /\ FileOk(n, h)
        /\ \A i \in DOMAIN recs : i \in DOMAIN n /\ n[i] = recs[i]
        /\ \A i \in DOMAIN n : n[i].kind = "entry" =>
              (i \in DOMAIN recs /\ n[i] = recs[i]) \/ (y = <<ent>> /\ n[i] = ent)
        /\ y = <<ent>> => \E i \in DOMAIN n : n[i] = ent
        /\ DropsIn(recs) \in Nat
        /\ DropsIn(n) = DropsIn(recs) + (IF x = <<m>> THEN m.no ELSE 0)
    <3> HIDE DEF new
    <3>0. /\ x = <<>> \/ x = <<m>>
          /\ y = <<>> \/ y = <<ent>>
          /\ recs \in Seq(Records) /\ h \in Hours
      BY <1>7
    <3> USE <2>3, <2>4, <3>0
    <3>1. PICK mid : mid = recs \o x
      OBVIOUS
    <3>2. /\ mid \in Seq(Records) /\ mid # <<>> /\ FileOk(mid, h)
          /\ \A i \in DOMAIN recs : i \in DOMAIN mid /\ mid[i] = recs[i]
          /\ \A i \in DOMAIN mid : mid[i].kind = "entry" => i \in DOMAIN recs /\ mid[i] = recs[i]
          /\ DropsIn(recs) \in Nat
          /\ DropsIn(mid) = DropsIn(recs) + (IF x = <<m>> THEN m.no ELSE 0)
      <4>0. DropsIn(recs) \in Nat
        BY DropsInType
      <4>1. CASE x = <<>>
        <5>1. mid = recs /\ x # <<m>>
          BY <3>1, <4>1
        <5> QED BY <4>0, <5>1
      <4>2. CASE x = <<m>>
        <5>1. mid = Append(recs, m) /\ m \in Records /\ m.kind = "drop" /\ m.hour = h
          BY <3>1, <4>2
        <5>2. m.kind # "entry" /\ m.kind # "meta"
          BY <5>1
        <5>3. /\ FileOk(mid, h) /\ mid \in Seq(Records) /\ mid # <<>>
              /\ \A i \in DOMAIN recs : i \in DOMAIN mid /\ mid[i] = recs[i]
              /\ \A i \in DOMAIN mid : i \notin DOMAIN recs => mid[i] = m
          BY <5>1, <5>2, AppendOk
        <5>4. DropsIn(mid) = DropsIn(recs) + m.no
          BY <5>1, DropsInAppend
        <5> QED BY <4>0, <4>2, <5>2, <5>3, <5>4
      <4> QED BY <4>1, <4>2
    <3>3. n = mid \o y
      BY <3>1
    <3>4. /\ n \in Seq(Records) /\ n # <<>> /\ FileOk(n, h)
          /\ \A i \in DOMAIN mid : i \in DOMAIN n /\ n[i] = mid[i]
          /\ \A i \in DOMAIN n : i \in DOMAIN mid \/ (y = <<ent>> /\ n[i] = ent)
          /\ y = <<ent>> => \E i \in DOMAIN n : n[i] = ent
          /\ DropsIn(n) = DropsIn(mid)
      <4>1. CASE y = <<>>
        <5>1. n = mid /\ y # <<ent>>
          BY <3>2, <3>3, <4>1
        <5> QED BY <3>2, <5>1
      <4>2. CASE y = <<ent>>
        <5>1. n = Append(mid, ent)
          BY <3>2, <3>3, <4>2
        <5>2. \A i \in DOMAIN mid : mid[i].kind = "entry" => mid[i].no < ent.no
          BY <3>2
        <5>3. /\ FileOk(n, h) /\ n \in Seq(Records) /\ n # <<>>
              /\ \A i \in DOMAIN mid : i \in DOMAIN n /\ n[i] = mid[i]
              /\ \A i \in DOMAIN n : i \notin DOMAIN mid => n[i] = ent
              /\ \E i \in DOMAIN n : n[i] = ent
          <6>1. ent.kind # "meta"
            OBVIOUS
          <6>2. /\ mid \in Seq(Records) /\ ent \in Records /\ h \in Hours
                /\ FileOk(mid, h) /\ mid # <<>> /\ ent.hour = h
            BY <3>2
          <6> QED BY ONLY <5>1, <5>2, <6>1, <6>2, AppendOk
        <5>4. DropsIn(mid) \in Nat /\ DropsIn(n) = DropsIn(mid) + 0
          <6>1. /\ DropsIn(mid) \in Nat
                /\ DropsIn(Append(mid, ent))
                     = DropsIn(mid) + (IF ent.kind = "drop" THEN ent.no ELSE 0)
            BY <3>2, DropsInAppend
          <6>2. ent.kind # "drop"
            OBVIOUS
          <6>3. (IF ent.kind = "drop" THEN ent.no ELSE 0) = 0
            BY <6>2
          <6> QED BY <5>1, <6>1, <6>3
        <5> QED BY <4>2, <5>3, <5>4
      <4> QED BY <4>1, <4>2
    <3>6. \A i \in DOMAIN n : n[i].kind = "entry" =>
             (i \in DOMAIN recs /\ n[i] = recs[i]) \/ (y = <<ent>> /\ n[i] = ent)
      BY <3>2, <3>4
    <3>7. \A i \in DOMAIN recs : i \in DOMAIN n /\ n[i] = recs[i]
      BY <3>2, <3>4
    <3> QED BY <3>2, <3>4, <3>6, <3>7
  <2> QED BY <1>7, <2>1, <2>2, <2>4, <2>5
<1> HIDE DEF new
<1>9. /\ disk' \in [Hours -> Seq(Records)] /\ disk'[file] = new
      /\ \A h \in Hours : h # file => disk'[h] = disk[h]
  BY <1>1, <1>4, <1>5, <1>8
<1>10. TypeOK'
  <2>1. written' \in Nat
    BY <1>1, <1>3, <1>5
  <2>2. intact' \in BOOLEAN
    BY <1>1
  <2>3. marked' \in 0 .. dropped'
    BY <1>1, <1>5
  <2> QED BY <1>1, <1>2, <1>9, <2>1, <2>2, <2>3 DEF TypeOK
<1>11. LossInv' /\ QueueInv' /\ CurInv'
  BY <1>1, <1>2 DEF LossInv, QueueInv, CurInv
<1>12. FilesInv'
  BY <1>2, <1>8, <1>9, FilesAreOk
\* What was older than the entry stays older; now the entry is too.
<1>13. /\ \A rec \in Records : Older(rec, offered, cur, queue) => Older(rec, offered', cur', queue')
       /\ Older(ent, offered', cur', queue')
  BY <1>1, <1>4, <1>7 DEF Older
<1>14. ASSUME NEW i \in DOMAIN new, \A k \in DOMAIN disk[file] : Older(disk[file][k], offered, cur, queue)
       PROVE  Older(new[i], offered', cur', queue')
  <2>1. CASE new[i].kind = "entry"
    <3>1. CASE i \in DOMAIN disk[file] /\ new[i] = disk[file][i]
      <4>1. disk[file][i] \in Records
        BY <1>6, <3>1
      <4> QED BY <1>13, <1>14, <3>1, <4>1
    <3>2. CASE new[i] = ent
      BY <1>13, <3>2
    <3> QED BY <1>8, <2>1, <3>1, <3>2
  <2>2. CASE new[i].kind # "entry"
    BY <2>2 DEF Older
  <2> QED BY <2>1, <2>2
<1>15. OpenInv'
  <2>1. \A k \in DOMAIN disk[file] : Older(disk[file][k], offered, cur, queue)
    BY <1>2, <1>4 DEF OpenInv
  <2> QED BY <1>1, <1>8, <1>9, <1>14, <2>1 DEF OpenInv
<1>16. IntactInv'
  <2> SUFFICES ASSUME intact' PROVE IntactInv'
    BY DEF IntactInv
  <2>1. intact /\ markerOk /\ entryOk
    BY <1>1
  <2>2. /\ \A h \in Hours : \A i \in DOMAIN disk[h] :
              Older(disk[h][i], offered, cur, queue)
                /\ (disk[h][i].kind = "entry" => disk[h][i].no \notin lost)
        /\ \A h, k \in Hours : h # k =>
              \A i \in DOMAIN disk[h], j \in DOMAIN disk[k] :
                  disk[h][i].kind = "entry" /\ disk[k][j].kind = "entry" =>
                      disk[h][i].no # disk[k][j].no
        /\ \A n \in 1 .. offered :
              \/ n \in lost
              \/ cur # None /\ cur.no = n
              \/ \E i \in DOMAIN queue : queue[i].no = n
              \/ \E h \in Hours : \E i \in DOMAIN disk[h] :
                    disk[h][i].kind = "entry" /\ disk[h][i].no = n
    BY <1>2, <2>1 DEF IntactInv
  <2>3. \A h \in Hours : \A i \in DOMAIN disk[h] :
           disk[h][i].kind = "entry" => disk[h][i].no # cur.no
    <3> SUFFICES ASSUME NEW h \in Hours, NEW i \in DOMAIN disk[h], disk[h][i].kind = "entry"
                 PROVE  disk[h][i].no # cur.no
      OBVIOUS
    <3>1. disk[h][i].no < cur.no
      BY <1>1, <2>2 DEF Older
    <3>2. disk[h][i] \in Records
      BY <1>5
    <3>3. disk[h][i].no \in Int
      BY <3>2, RecorderAssumption DEF Records
    <3> QED BY <1>4, <3>1, <3>3
  \* An entry on disk is one that was there, or the new one in the open file.
  <2>4. \A h \in Hours : \A i \in DOMAIN disk'[h] : disk'[h][i].kind = "entry" =>
           \/ i \in DOMAIN disk[h] /\ disk'[h][i] = disk[h][i]
           \/ h = file /\ disk'[h][i].no = cur.no
    BY <1>7, <1>8, <1>9
  <2>5. \A h \in Hours : \A i \in DOMAIN disk[h] :
           i \in DOMAIN disk'[h] /\ disk'[h][i] = disk[h][i]
    BY <1>8, <1>9
  <2>6. ASSUME NEW h \in Hours, NEW i \in DOMAIN disk'[h]
        PROVE  Older(disk'[h][i], offered', cur', queue')
                 /\ (disk'[h][i].kind = "entry" => disk'[h][i].no \notin lost')
    <3>1. Older(disk'[h][i], offered', cur', queue')
      <4>1. CASE h = file
        BY <1>4, <1>9, <1>14, <2>2, <4>1
      <4>2. CASE h # file
        <5>1. disk'[h] = disk[h] /\ disk[h][i] \in Records
          BY <1>5, <1>9, <4>2
        <5> QED BY <1>13, <2>2, <5>1
      <4> QED BY <4>1, <4>2
    <3>2. disk'[h][i].kind = "entry" => disk'[h][i].no \notin lost'
      BY <1>1, <1>4, <2>2, <2>4
    <3> QED BY <3>1, <3>2
  <2>7. ASSUME NEW h \in Hours, NEW k \in Hours, h # k,
               NEW i \in DOMAIN disk'[h], NEW j \in DOMAIN disk'[k],
               disk'[h][i].kind = "entry", disk'[k][j].kind = "entry"
        PROVE  disk'[h][i].no # disk'[k][j].no
    BY <2>2, <2>3, <2>4, <2>7
  <2>8. ASSUME NEW n \in 1 .. offered'
        PROVE  \/ n \in lost'
               \/ cur' # None /\ cur'.no = n
               \/ \E i \in DOMAIN queue' : queue'[i].no = n
               \/ \E h \in Hours : \E i \in DOMAIN disk'[h] :
                     disk'[h][i].kind = "entry" /\ disk'[h][i].no = n
    <3>1. CASE cur.no = n
      <4>1. \E i \in DOMAIN disk'[file] : disk'[file][i] = ent
        BY <1>8, <1>9, <2>1
      <4> QED BY <1>4, <1>7, <3>1, <4>1
    <3>2. CASE n \in lost \/ \E i \in DOMAIN queue : queue[i].no = n
      BY <1>1, <3>2
    <3>3. CASE \E h \in Hours : \E i \in DOMAIN disk[h] :
                  disk[h][i].kind = "entry" /\ disk[h][i].no = n
      BY <2>5, <3>3
    <3> QED BY <1>1, <2>2, <3>1, <3>2, <3>3
  <2>9. \A h, k \in Hours : h # k =>
           \A i \in DOMAIN disk'[h], j \in DOMAIN disk'[k] :
               disk'[h][i].kind = "entry" /\ disk'[k][j].kind = "entry" =>
                   disk'[h][i].no # disk'[k][j].no
    BY <2>7
  <2> QED BY <2>6, <2>8, <2>9 DEF IntactInv
<1>17. MarkInv'
  <2>1. ASSUME intact' PROVE Reported' = dropped
    <3>1. intact /\ markerOk
      BY <1>1, <2>1
    <3>2. Reported = marked
      BY <1>2, <3>1 DEF MarkInv
    <3>3. Reported' + DropsIn(disk[file]) = Reported + DropsIn(new)
            /\ Reported' \in Nat
      BY <1>1, <1>2, <1>4, <1>8, ReportedChange
    <3>4. DropsIn(new) = DropsIn(disk[file]) + (dropped - marked)
      <4>1. CASE dropped > marked
        BY <1>7, <1>8, <3>1, <4>1
      <4>2. CASE ~(dropped > marked)
        BY <1>5, <1>7, <1>8, <4>2
      <4> QED BY <4>1, <4>2
    <3> QED BY <1>5, <1>8, <3>2, <3>3, <3>4
  <2> QED BY <1>1, <2>1 DEF MarkInv
<1> QED BY <1>10, <1>11, <1>12, <1>15, <1>16, <1>17 DEF RInv

-----------------------------------------------------------------------------
(***************************************************************************)
(* The end of a process, and the next one.                                 *)
(***************************************************************************)
\* Recorder.run returns and closes its file.
LEMMA FinishKeeps ==
    ASSUME RInv, Finish
    PROVE  RInv'
<1>1. /\ UNCHANGED <<clock, hold, runs, queue, offered, dropped, written, cur, marked, lost>>
      /\ file' = Closed /\ stage' = "closed" /\ cur = None
  BY DEF Finish
<1>2. PICK dir \in AfterClose : disk' = dir /\ intact' = (intact /\ dir = disk)
  BY DEF Finish, Leaves
<1>3. disk' \in [Hours -> Seq(Records)] /\ FilesInv' /\ intact' \in BOOLEAN
  BY <1>2, AfterCloseOk, FilesAreOk
<1>4. TypeOK'
  BY <1>1, <1>3 DEF RInv, TypeOK
<1>5. LossInv' /\ QueueInv' /\ CurInv' /\ OpenInv'
  BY <1>1 DEF RInv, LossInv, QueueInv, CurInv, OpenInv
<1>6. intact' => intact /\ disk' = disk
  BY <1>2
<1>7. IntactInv'
  <2>1. CASE intact'
    BY <1>1, <1>6, <2>1 DEF RInv, IntactInv
  <2> QED BY <2>1 DEF IntactInv
<1>8. MarkInv'
  BY <1>1, <1>6 DEF RInv, MarkInv, Reported
<1> QED BY <1>3, <1>4, <1>5, <1>7, <1>8 DEF RInv

\* A new recorder on the directory an earlier process left.
LEMMA NextProcessKeeps ==
    ASSUME RInv, NextProcess, disk' \in [Hours -> Seq(Records)],
           \A h \in Hours : FileOk(disk'[h], h)
    PROVE  RInv'
<1>1. /\ runs < MaxRuns /\ runs' = runs + 1 /\ stage' = "new"
      /\ hold' = [p \in Producers |-> <<>>]
      /\ queue' = <<>> /\ offered' = 0 /\ dropped' = 0 /\ written' = 0
      /\ file' = Closed /\ cur' = None /\ marked' = 0 /\ lost' = {}
      /\ intact' = FALSE /\ clock' = clock
  BY DEF NextProcess
<1>2. TypeOK'
  <2>1. runs' \in 1 .. MaxRuns
    BY <1>1, RecorderAssumption DEF RInv, TypeOK
  <2>2. hold' \in [Producers -> Seq(Hours)]
    BY <1>1
  <2>3. queue' \in Seq(Entries) /\ Len(queue') <= QueueCap
    BY <1>1, RecorderAssumption
  <2>4. offered' \in 0 .. MaxOffered /\ dropped' \in Nat /\ marked' \in 0 .. dropped'
          /\ written' \in Nat /\ lost' \subseteq 1 .. MaxOffered
    BY <1>1, RecorderAssumption
  <2>5. clock' \in Hours
    BY <1>1 DEF RInv, TypeOK
  <2> QED BY <1>1, <2>1, <2>2, <2>3, <2>4, <2>5 DEF TypeOK
<1>3. LossInv'
  BY <1>1, FS_EmptySet DEF LossInv
<1>4. QueueInv' /\ CurInv' /\ OpenInv' /\ IntactInv' /\ MarkInv'
  BY <1>1 DEF QueueInv, CurInv, OpenInv, IntactInv, MarkInv
<1>5. FilesInv'
  BY FilesAreOk
<1> QED BY <1>2, <1>3, <1>4, <1>5 DEF RInv

\* A new process after an orderly end.
LEMMA RestartKeeps ==
    ASSUME RInv, Restart
    PROVE  RInv'
<1>1. NextProcess /\ disk' = disk /\ disk \in [Hours -> Seq(Records)]
  BY DEF Restart, RInv, TypeOK
<1>2. \A h \in Hours : FileOk(disk'[h], h)
  BY <1>1, FilesAreOk DEF RInv
<1> QED BY <1>1, <1>2, NextProcessKeeps

\* A new process after a kill, which may cut the open file short.
LEMMA CrashKeeps ==
    ASSUME RInv, NEW kept \in Nat, Crash(kept)
    PROVE  RInv'
<1>1. disk \in [Hours -> Seq(Records)] /\ \A h \in Hours : FileOk(disk[h], h)
  BY FilesAreOk DEF RInv, TypeOK
<1>2. NextProcess
  BY DEF Crash
<1>3. disk' \in [Hours -> Seq(Records)] /\ \A h \in Hours : FileOk(disk'[h], h)
  <2>1. CASE file = Closed
    BY <1>1, <2>1 DEF Crash
  <2>2. CASE file # Closed
    <3>1. file \in Hours
      BY <2>2 DEF RInv, TypeOK
    <3> DEFINE t == SubSeq(disk[file], 1, kept)
    <3>2. disk' = [disk EXCEPT ![file] = t] /\ kept <= Len(disk[file])
      BY <2>2 DEF Crash
    <3>3. t \in Seq(Records) /\ FileOk(t, file)
      BY <1>1, <3>1, <3>2, TruncatedOk
    <3> HIDE DEF t
    <3> QED BY <1>1, <3>1, <3>2, <3>3
  <2> QED BY <2>1, <2>2
<1> QED BY <1>2, <1>3, NextProcessKeeps

-----------------------------------------------------------------------------
(***************************************************************************)
(* The theorems.                                                           *)
(***************************************************************************)
\* The invariant holds at first.
LEMMA InitRInv == Init => RInv
<1> SUFFICES ASSUME Init PROVE RInv
  OBVIOUS
<1>1. TypeOK
  <2>1. clock \in Hours /\ runs \in 1 .. MaxRuns /\ offered \in 0 .. MaxOffered
           /\ dropped \in Nat /\ marked \in 0 .. dropped /\ written \in Nat
           /\ lost \subseteq 1 .. MaxOffered
    BY RecorderAssumption DEF Init, Hours
  <2>2. hold \in [Producers -> Seq(Hours)] /\ disk \in [Hours -> Seq(Records)]
    BY DEF Init
  <2>3. queue \in Seq(Entries) /\ Len(queue) <= QueueCap
    BY RecorderAssumption DEF Init
  <2>4. file = Closed /\ cur = None /\ intact = TRUE /\ stage = "new"
    BY DEF Init
  <2> QED BY <2>1, <2>2, <2>3, <2>4 DEF TypeOK
<1>2. LossInv
  BY FS_EmptySet DEF Init, LossInv
<1>3. QueueInv /\ CurInv /\ OpenInv
  BY DEF Init, QueueInv, CurInv, OpenInv
<1>4. \A h \in Hours : disk[h] = <<>> /\ \A i : i \notin DOMAIN disk[h]
  BY DEF Init
<1>5. FilesInv
  BY <1>4 DEF FilesInv, FileOpensWithMeta, FileInOrder
<1>6. IntactInv
  <2>1. \A n : n \notin 1 .. offered
    BY DEF Init
  <2> QED BY <1>4, <2>1 DEF IntactInv
<1>7. MarkInv
  <2> DEFINE f == [h \in Hours |-> DropsIn(disk[h])]
             g == [h \in Hours |-> 0]
  <2>1. f = g
    BY <1>4, DropsInEmpty
  <2>2. IsFiniteSet(Hours)
    BY RecorderAssumption, FS_Interval DEF Hours
  <2>3. SumFunction(g) = 0
    <3> DEFINE G == {s \in SUBSET Hours : SumFunctionOnSet(g, s) = 0}
    <3>1. {} \in G
      BY SumOnEmpty
    <3>2. ASSUME NEW s \in SUBSET Hours, s # {}, s \ {Pick(s)} \in G PROVE s \in G
      <4>1. IsFiniteSet(s)
        BY <2>2, FS_Subset
      <4>2. Pick(s) \in s
              /\ SumFunctionOnSet(g, s) = g[Pick(s)] + SumFunctionOnSet(g, s \ {Pick(s)})
        <5> HIDE DEF g
        <5> QED BY <3>2, <4>1, SumStep
      <4>3. g[Pick(s)] = 0
        BY <4>2
      <4> QED BY <3>2, <4>2, <4>3
    <3>3. SUBSET Hours \subseteq G
      <4> HIDE DEF G
      <4> QED BY <2>2, <3>1, <3>2, SubsetInduction
    <3>4. SumFunctionOnSet(g, Hours) = 0
      BY <3>3
    <3> QED BY <3>4 DEF SumFunction
  <2>4. Reported = SumFunction(f)
    BY DEF Reported
  <2>5. Reported = 0
    <3> HIDE DEF f, g
    <3> QED BY <2>1, <2>3, <2>4
  <2> QED BY <2>5 DEF Init, MarkInv
<1> QED BY <1>1, <1>2, <1>3, <1>5, <1>6, <1>7 DEF RInv

\* Every step keeps the invariant.
LEMMA NextRInv == RInv /\ [Next]_vars => RInv'
<1> SUFFICES ASSUME RInv, [Next]_vars PROVE RInv'
  OBVIOUS
<1>1. CASE \/ Tick \/ Start \/ Close \/ \E p \in Producers : Stamp(p)
  BY <1>1, StillTypes, StillKeeps
<1>2. CASE \E p \in Producers : Enqueue(p)
  BY <1>2, EnqueueKeeps
<1>3. CASE Take
  BY <1>3, TakeKeeps
<1>4. CASE \E fault \in {"create", "meta"} : TakeFails(fault)
  BY <1>4, TakeFailsKeeps
<1>5. CASE \E markerOk, entryOk \in BOOLEAN : Put(markerOk, entryOk)
  BY <1>5, PutKeeps
<1>6. CASE Finish
  BY <1>6, FinishKeeps
<1>7. CASE Restart
  BY <1>7, RestartKeeps
<1>8. CASE \E kept \in 0 .. 2 * MaxOffered + 1 : Crash(kept)
  <2>1. PICK kept \in 0 .. 2 * MaxOffered + 1 : Crash(kept)
    BY <1>8
  <2>2. kept \in Nat
    BY RecorderAssumption
  <2> QED BY <2>1, <2>2, CrashKeeps
<1>9. CASE UNCHANGED vars
  <2>1. UNCHANGED <<disk, mem>> /\ UNCHANGED <<clock, hold, stage, runs>>
    BY <1>9 DEF vars
  <2>2. TypeOK'
    BY <2>1 DEF RInv, TypeOK, mem
  <2> QED BY <2>1, <2>2, StillKeeps
<1> QED BY <1>1, <1>2, <1>3, <1>4, <1>5, <1>6, <1>7, <1>8, <1>9 DEF Next

\* The invariant holds in every reachable state.
LEMMA AlwaysRInv == Spec => []RInv
BY InitRInv, NextRInv, PTL DEF Spec

\* Whatever the producers, the disk and the kills do, every variable keeps its
\* type: the queue never exceeds its capacity, and the count in a drop marker
\* is never negative nor more than was offered.
THEOREM TypeCorrect == Spec => []TypeOK
<1>1. RInv => TypeOK
  BY DEF RInv
<1> QED BY <1>1, AlwaysRInv, PTL

\* Every file of the directory opens with the metadata of its hour and holds
\* no other, so that it replays on its own (openFile, writer.go).
THEOREM FileOpensWithMetaCorrect == Spec => []FileOpensWithMeta
<1>1. RInv => FileOpensWithMeta
  BY DEF RInv, FilesInv
<1> QED BY <1>1, AlwaysRInv, PTL

\* Every file holds records of its hour only, in the order of enqueue.
THEOREM FileInOrderCorrect == Spec => []FileInOrder
<1>1. RInv => FileInOrder
  BY DEF RInv, FilesInv
<1> QED BY <1>1, AlwaysRInv, PTL

\* While no file is emptied and no write or flush fails, every record offered
\* is in one place: on disk in one file, waiting, or counted as dropped.
THEOREM NothingLostSilentlyCorrect == Spec => []NothingLostSilently
<1>1. ASSUME RInv, intact
      PROVE  /\ Saved \cup Waiting \cup lost = 1 .. offered
             /\ Saved \cap Waiting = {} /\ (Saved \cup Waiting) \cap lost = {}
             /\ \A h, k \in Hours : h # k => EntriesIn(h) \cap EntriesIn(k) = {}
             /\ Cardinality(lost) = dropped
  <2>1. TypeOK /\ LossInv /\ QueueInv /\ CurInv /\ IntactInv
    BY <1>1 DEF RInv
  <2>2. /\ \A n : n \in Saved <=> \E h \in Hours : \E i \in DOMAIN disk[h] :
                     disk[h][i].kind = "entry" /\ disk[h][i].no = n
        /\ \A n : n \in Waiting <=> \/ cur # None /\ cur.no = n
                                    \/ \E i \in DOMAIN queue : queue[i].no = n
        /\ \A h \in Hours : \A n : n \in EntriesIn(h) <=> \E i \in DOMAIN disk[h] :
                     disk[h][i].kind = "entry" /\ disk[h][i].no = n
    <3>1. \A h : \A n : n \in EntriesIn(h) <=> \E i \in DOMAIN disk[h] :
                     disk[h][i].kind = "entry" /\ disk[h][i].no = n
      BY DEF EntriesIn
    <3>2. \A n : n \in Saved <=> \E h \in Hours : n \in EntriesIn(h)
      BY DEF Saved
    <3>3. \A n : n \in Waiting <=> \/ cur # None /\ cur.no = n
                                   \/ \E i \in DOMAIN queue : queue[i].no = n
      BY DEF Waiting
    <3> QED BY <3>1, <3>2, <3>3
  <2>3. /\ \A h \in Hours : \A i \in DOMAIN disk[h] :
              Older(disk[h][i], offered, cur, queue)
                /\ (disk[h][i].kind = "entry" => disk[h][i].no \notin lost)
        /\ \A h, k \in Hours : h # k =>
              \A i \in DOMAIN disk[h], j \in DOMAIN disk[k] :
                  disk[h][i].kind = "entry" /\ disk[k][j].kind = "entry" =>
                      disk[h][i].no # disk[k][j].no
        /\ \A n \in 1 .. offered :
              \/ n \in lost
              \/ cur # None /\ cur.no = n
              \/ \E i \in DOMAIN queue : queue[i].no = n
              \/ \E h \in Hours : \E i \in DOMAIN disk[h] :
                    disk[h][i].kind = "entry" /\ disk[h][i].no = n
    BY <1>1, <2>1 DEF IntactInv
  <2>4. ASSUME NEW h \in Hours, NEW i \in DOMAIN disk[h], disk[h][i].kind = "entry"
        PROVE  /\ disk[h][i].no \in 1 .. offered /\ disk[h][i].no \notin lost
               /\ cur # None => disk[h][i].no # cur.no
               /\ \A j \in DOMAIN queue : disk[h][i].no # queue[j].no
    <3>1. disk[h][i] \in Records
      BY <2>1 DEF TypeOK
    <3>2. disk[h][i].no \in Nat
      BY <3>1, RecorderAssumption DEF Records
    <3>3. /\ disk[h][i].no > 0 /\ disk[h][i].no <= offered
          /\ cur # None => disk[h][i].no < cur.no
          /\ \A j \in DOMAIN queue : disk[h][i].no < queue[j].no
      BY <2>3, <2>4 DEF Older
    <3>4. offered \in Nat
      BY <2>1 DEF TypeOK
    <3>5. \A j \in DOMAIN queue : disk[h][i].no # queue[j].no
      BY <3>2, <3>3
    <3> QED BY <2>3, <2>4, <3>2, <3>3, <3>4, <3>5
  <2>5. /\ \A i \in DOMAIN queue : queue[i].no \in 1 .. offered /\ queue[i].no \notin lost
        /\ cur # None => cur.no \in 1 .. offered /\ cur.no \notin lost
    <3>1. offered \in Nat
      BY <2>1 DEF TypeOK
    <3>2. \A i \in DOMAIN queue : queue[i] \in Entries
      BY <2>1 DEF TypeOK
    <3>3. \A i \in DOMAIN queue : queue[i].no \in Nat \ {0}
      BY <3>2 DEF Entries
    <3>4. cur # None => cur.no \in Nat \ {0}
      <4>1. cur # None => cur \in Entries
        BY <2>1 DEF TypeOK
      <4> QED BY <4>1 DEF Entries
    <3>5. \A i \in DOMAIN queue : queue[i].no \in 1 .. offered /\ queue[i].no \notin lost
      BY <2>1, <3>1, <3>3 DEF QueueInv
    <3>6. cur # None => cur.no \in 1 .. offered /\ cur.no \notin lost
      BY <2>1, <3>1, <3>4 DEF CurInv
    <3> QED BY <3>5, <3>6
  <2>6. Saved \cup Waiting \cup lost \subseteq 1 .. offered
    <3>1. Saved \subseteq 1 .. offered
      BY <2>2, <2>4
    <3>2. Waiting \subseteq 1 .. offered
      BY <2>2, <2>5
    <3>3. lost \subseteq 1 .. offered
      BY <2>1 DEF LossInv
    <3> QED BY <3>1, <3>2, <3>3
  <2>7. 1 .. offered \subseteq Saved \cup Waiting \cup lost
    BY <2>2, <2>3
  <2>8. Saved \cap Waiting = {} /\ (Saved \cup Waiting) \cap lost = {}
    <3>1. ASSUME NEW n, n \in Saved PROVE n \notin lost /\ n \notin Waiting
      <4>1. PICK h \in Hours :
               \E i \in DOMAIN disk[h] : disk[h][i].kind = "entry" /\ disk[h][i].no = n
        BY <2>2, <3>1
      <4>2. PICK i \in DOMAIN disk[h] : disk[h][i].kind = "entry" /\ disk[h][i].no = n
        BY <4>1
      <4> QED BY <2>2, <2>4, <4>2
    <3>2. ASSUME NEW n, n \in Waiting PROVE n \notin lost
      BY <2>2, <2>5, <3>2
    <3> QED BY <3>1, <3>2
  <2>9. \A h, k \in Hours : h # k => EntriesIn(h) \cap EntriesIn(k) = {}
    BY <2>2, <2>3
  <2>10. Cardinality(lost) = dropped
    BY <2>1 DEF LossInv
  <2>11. Saved \cup Waiting \cup lost = 1 .. offered
    BY <2>6, <2>7
  <2> QED BY <2>8, <2>9, <2>10, <2>11
<1>2. RInv => NothingLostSilently
  BY <1>1 DEF NothingLostSilently
<1> QED BY <1>2, AlwaysRInv, PTL

\* While the directory is intact the markers on disk add up to the drops
\* counted when the last record was written, and a writer that has drained its
\* queue with a file open has reported them all.
THEOREM DropsAreMarkedCorrect == Spec => []DropsAreMarked
<1>1. RInv => DropsAreMarked
  BY DEF RInv, MarkInv, DropsAreMarked
<1> QED BY <1>1, AlwaysRInv, PTL
=============================================================================
