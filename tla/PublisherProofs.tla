--------------------------- MODULE PublisherProofs ---------------------------
(***************************************************************************)
(* The fan-out, for every set of subscribers, every channel capacity and   *)
(* every number of events.                                                 *)
(***************************************************************************)
EXTENDS Publisher, FiniteSetTheorems, SequenceTheorems, TLAPS

-----------------------------------------------------------------------------
(***************************************************************************)
(* The inductive invariant.                                                *)
(***************************************************************************)
\* What subscriber s has taken out of its channel.
Received(s) == seen[s] \o (IF taken[s] = 0 THEN <<>> ELSE <<taken[s]>>)

Increasing(q) == \A i, j \in 1 .. Len(q) : i < j => q[i] < q[j]

\* The stream of one subscriber, against the events offered to it so far.
StreamInv(s) ==
    /\ Increasing(Stream(s))
    /\ \A i \in 1 .. Len(Stream(s)) : Stream(s)[i] <= Offered(s)
    /\ Len(Stream(s)) + dropped[s] = Offered(s)
    /\ Offered(s) = n /\ n > 0 => Stream(s) # <<>> /\ Stream(s)[Len(Stream(s))] = n

\* Nothing has happened to a publisher that is not started.
Fresh ==
    /\ n = 0 /\ gone = {} /\ wg = 0
    /\ \A s \in Names : ch[s] = <<>> /\ dropped[s] = 0 /\ taken[s] = 0 /\ seen[s] = <<>>
    /\ Cardinality(Registered) = Len(subs)

\* Publish runs on an open publisher, and it is at one of the subscribers.
\* Once it has evicted there is room, since nobody else sends.
Publishing ==
    /\ pub.op = Idle <=> pub.at = 0
    /\ pub.op # Idle => stage = "open" /\ n > 0
    /\ pub.op = "retry" => Len(ch[subs[pub.at]]) < Cap

Joining ==
    /\ IsFiniteSet(Registered)
    /\ \A i, j \in 1 .. Len(subs) : subs[i] = subs[j] => i = j
    /\ stage = "new" => Fresh
    /\ stage # "new" => wg = Cardinality(Registered \ gone)
    /\ gone \subseteq Registered
    /\ gone # {} => stage \in {"closing", "returned"}
    /\ stage = "returned" => wg = 0
    /\ \A s \in gone : taken[s] = 0 /\ ch[s] = <<>>

PInv ==
    /\ TypeOK
    /\ Publishing
    /\ Joining
    /\ \A s \in Registered : StreamInv(s)

-----------------------------------------------------------------------------
(***************************************************************************)
(* The stream of a subscriber.                                             *)
(***************************************************************************)
Numbers == 1 .. MaxEvents

\* A stream is what was received and what is queued.
LEMMA StreamPieces ==
    ASSUME TypeOK, NEW s \in Names
    PROVE  /\ Received(s) \in Seq(Numbers) /\ ch[s] \in Seq(Numbers)
           /\ Stream(s) = Received(s) \o ch[s]
           /\ Stream(s) \in Seq(Numbers)
           /\ Len(Stream(s)) = Len(Received(s)) + Len(ch[s])
<1>1. seen[s] \in Seq(Numbers) /\ ch[s] \in Seq(Numbers) /\ taken[s] \in 0 .. MaxEvents
  BY DEF TypeOK, Numbers
<1>2. (IF taken[s] = 0 THEN <<>> ELSE <<taken[s]>>) \in Seq(Numbers)
  <2>1. CASE taken[s] = 0
    BY <2>1
  <2>2. CASE taken[s] # 0
    <3>1. taken[s] \in Numbers
      BY <1>1, <2>2 DEF Numbers
    <3> QED BY <2>2, <3>1
  <2> QED BY <2>1, <2>2
<1>3. Received(s) \in Seq(Numbers)
  BY <1>1, <1>2, ConcatProperties DEF Received
<1>4. Stream(s) = Received(s) \o ch[s]
  BY DEF Stream, Received
<1> QED BY <1>1, <1>3, <1>4, ConcatProperties

\* Receiving an event moves it within the stream,
LEMMA HeadMoves ==
    ASSUME NEW E, NEW r \in Seq(E), NEW c \in Seq(E), c # <<>>
    PROVE  (r \o <<Head(c)>>) \o Tail(c) = (r \o <<>>) \o c
<1>1. <<Head(c)>> \in Seq(E) /\ Tail(c) \in Seq(E)
  BY HeadTailProperties
<1>2. <<Head(c)>> \o Tail(c) = c
  BY <1>1, HeadTailProperties
<1>3. (r \o <<Head(c)>>) \o Tail(c) = r \o (<<Head(c)>> \o Tail(c))
  BY <1>1, ConcatAssociative
<1> QED BY <1>2, <1>3, ConcatEmptySeq

\* and so does the return of Consume.
LEMMA TakenMoves ==
    ASSUME NEW E, NEW r \in Seq(E), NEW t \in E
    PROVE  Append(r, t) \o <<>> = r \o <<t>>
<1>1. Append(r, t) \in Seq(E) /\ Append(r, t) = r \o <<t>>
  BY AppendProperties, AppendIsConcat
<1> QED BY <1>1, ConcatEmptySeq

\* A send appends to the stream.
LEMMA SendAppends ==
    ASSUME NEW E, NEW r \in Seq(E), NEW c \in Seq(E), NEW e \in E
    PROVE  r \o Append(c, e) = Append(r \o c, e)
<1>1. <<e>> \in Seq(E) /\ r \o c \in Seq(E)
  BY ConcatProperties
<1>2. Append(c, e) = c \o <<e>> /\ Append(r \o c, e) = (r \o c) \o <<e>>
  BY <1>1, AppendIsConcat
<1> QED BY <1>1, <1>2, ConcatAssociative

\* An eviction takes one event out of the stream.
LEMMA EvictRemoves ==
    ASSUME NEW E, NEW r \in Seq(E), NEW c \in Seq(E), c # <<>>
    PROVE  /\ Len(r \o Tail(c)) = Len(r \o c) - 1
           /\ \A i \in 1 .. Len(r \o Tail(c)) :
                (r \o Tail(c))[i] = (r \o c)[IF i <= Len(r) THEN i ELSE i + 1]
<1>1. /\ Tail(c) \in Seq(E) /\ Len(Tail(c)) = Len(c) - 1
      /\ \A i \in 1 .. Len(Tail(c)) : Tail(c)[i] = c[i + 1]
  BY HeadTailProperties
<1>2. /\ Len(r \o Tail(c)) = Len(r) + Len(Tail(c))
      /\ \A i \in 1 .. Len(r) + Len(Tail(c)) :
            (r \o Tail(c))[i] = IF i <= Len(r) THEN r[i] ELSE Tail(c)[i - Len(r)]
  BY <1>1, ConcatProperties
<1>3. /\ Len(r \o c) = Len(r) + Len(c)
      /\ \A i \in 1 .. Len(r) + Len(c) :
            (r \o c)[i] = IF i <= Len(r) THEN r[i] ELSE c[i - Len(r)]
  BY ConcatProperties
<1>4. Len(r) \in Nat /\ Len(c) \in Nat
  OBVIOUS
<1>5. ASSUME NEW i \in 1 .. Len(r \o Tail(c)), i > Len(r)
      PROVE  (r \o Tail(c))[i] = (r \o c)[i + 1]
  <2>1. i - Len(r) \in 1 .. Len(Tail(c)) /\ (i - Len(r)) + 1 = (i + 1) - Len(r)
    BY <1>1, <1>2, <1>4, <1>5
  <2>2. (r \o Tail(c))[i] = Tail(c)[i - Len(r)]
    BY <1>2, <1>5, <1>4, <1>1
  <2>3. Tail(c)[i - Len(r)] = c[(i - Len(r)) + 1]
    BY <1>1, <2>1
  <2>4. i + 1 \in 1 .. Len(r) + Len(c) /\ ~(i + 1 <= Len(r))
    BY <1>1, <1>2, <1>4, <1>5
  <2>5. (r \o c)[i + 1] = c[(i + 1) - Len(r)]
    BY <1>3, <2>4
  <2> QED BY <2>1, <2>2, <2>3, <2>5
<1>6. ASSUME NEW i \in 1 .. Len(r \o Tail(c)), i <= Len(r)
      PROVE  (r \o Tail(c))[i] = (r \o c)[i]
  BY <1>1, <1>2, <1>3, <1>4, <1>6
<1> QED BY <1>1, <1>2, <1>3, <1>4, <1>5, <1>6

-----------------------------------------------------------------------------
(***************************************************************************)
(* The events offered to a subscriber.                                     *)
(***************************************************************************)
\* Publish is at a registered subscriber, to which the newest event has not
\* been offered yet.
LEMMA AtSubscriber ==
    ASSUME PInv, pub.op # Idle
    PROVE  /\ pub.at \in 1 .. Len(subs)
           /\ subs[pub.at] \in Registered /\ subs[pub.at] \in Names
           /\ Offered(subs[pub.at]) = n - 1
           /\ n \in Numbers
<1>1. pub.at \in 1 .. Len(subs) /\ n \in Numbers
  BY DEF PInv, Publishing, TypeOK, Numbers
<1>2. subs[pub.at] \in Registered /\ subs[pub.at] \in Names
  BY <1>1 DEF Registered, PInv, TypeOK
<1> QED BY <1>1, <1>2 DEF Offered

\* When Publish goes on, the event has been offered to the one it leaves, and
\* nothing has changed for the others.
LEMMA OfferedMovesOn ==
    ASSUME PInv, pub.op # Idle, NEW s, s = subs[pub.at],
           pub' = From(pub.at + 1), UNCHANGED <<subs, n>>
    PROVE  /\ Offered(s)' = n
           /\ \A z \in Registered \ {s} : Offered(z)' = Offered(z)
<1>1. /\ pub.at \in 1 .. Len(subs) /\ Len(subs) \in Nat
      /\ \A i, j \in 1 .. Len(subs) : subs[i] = subs[j] => i = j
  BY AtSubscriber DEF PInv, TypeOK, Joining
<1>2. pub'.at = IF pub.at + 1 > Len(subs) THEN 0 ELSE pub.at + 1
  BY DEF From, Resting
<1>3. \A z : (\E i \in 1 .. Len(subs') : subs'[i] = z /\ pub'.at # 0 /\ i >= pub'.at)
             <=> (\E i \in 1 .. Len(subs) : subs[i] = z /\ i > pub.at)
  BY <1>1, <1>2
<1>4. ~ \E i \in 1 .. Len(subs) : subs[i] = s /\ i > pub.at
  BY <1>1
<1>5. ASSUME NEW z, z # s
      PROVE  (\E i \in 1 .. Len(subs) : subs[i] = z /\ i > pub.at)
             <=> (\E i \in 1 .. Len(subs) : subs[i] = z /\ pub.at # 0 /\ i >= pub.at)
  BY <1>1, <1>5
<1>6. Offered(s)' = n
  BY <1>3, <1>4 DEF Offered
<1>7. \A z \in Registered \ {s} : Offered(z)' = Offered(z)
  BY <1>3, <1>5 DEF Offered
<1> QED BY <1>6, <1>7

\* Only names are registered.
LEMMA RegisteredNames == TypeOK => Registered \subseteq Names
BY DEF TypeOK, Registered

\* A subscriber that no step touches keeps its stream.
LEMMA Untouched ==
    ASSUME NEW z, StreamInv(z), Offered(z)' = Offered(z),
           ch'[z] = ch[z], taken'[z] = taken[z], seen'[z] = seen[z],
           dropped'[z] = dropped[z], n' = n
    PROVE  StreamInv(z)'
<1>1. Stream(z)' = Stream(z)
  BY DEF Stream
<1> QED BY <1>1 DEF StreamInv, Increasing

\* A send that finds room, the first or the second, adds the newest event.
LEMMA Sent ==
    ASSUME PInv, pub.op # Idle, NEW s, s = subs[pub.at], Len(ch[s]) < Cap,
           ch' = [ch EXCEPT ![s] = Append(@, n)], pub' = From(pub.at + 1),
           UNCHANGED <<stage, subs, dropped, n, taken, seen, gone, wg>>
    PROVE  PInv'
<1>1. /\ s \in Registered /\ s \in Names /\ Offered(s) = n - 1 /\ n \in Numbers
      /\ pub.at \in 1 .. Len(subs)
  BY AtSubscriber
<1>2. TypeOK
  BY DEF PInv
<1>3. ch'[s] = Append(ch[s], n) /\ \A z \in Names \ {s} : ch'[z] = ch[z]
  BY <1>1, <1>2 DEF TypeOK
<1>4. pub' \in [at: 0 .. Len(subs), op: {Idle, "send"}] /\ (pub'.op = Idle <=> pub'.at = 0)
  <2>1. Len(subs) \in Nat
    BY <1>2 DEF TypeOK
  <2>2. CASE pub.at + 1 > Len(subs)
    BY <2>1, <2>2 DEF From, Resting, Idle
  <2>3. CASE ~(pub.at + 1 > Len(subs))
    BY <1>1, <2>1, <2>3 DEF From, Idle
  <2> QED BY <2>2, <2>3
<1>5. TypeOK'
  <2>1. Append(ch[s], n) \in Seq(1 .. MaxEvents) /\ Len(Append(ch[s], n)) = Len(ch[s]) + 1
    BY <1>1, <1>2 DEF TypeOK, Numbers
  <2>2. ch' \in [Names -> Seq(1 .. MaxEvents)]
    BY <1>2, <2>1 DEF TypeOK
  <2>3. \A z \in Names : Len(ch'[z]) <= Cap
    BY <1>2, <1>3, <2>1, PublisherAssumption DEF TypeOK
  <2> QED BY <1>2, <1>4, <2>2, <2>3 DEF TypeOK
<1>6. Publishing'
  BY <1>4 DEF PInv, Publishing, Idle
<1>7. Joining'
  <2>1. stage = "open" /\ s \notin gone
    BY DEF PInv, Publishing, Joining
  <2>2. Registered' = Registered
    BY DEF Registered
  <2>3. \A z \in gone : z \in Names /\ z # s
    BY <1>2, <2>1 DEF TypeOK
  <2>4. Joining
    BY DEF PInv
  <2> QED BY <1>3, <2>1, <2>2, <2>3, <2>4 DEF Joining
<1>8. StreamInv(s)'
  <2> DEFINE q == Stream(s)
  <2>1. q \in Seq(Numbers) /\ Stream(s)' = Append(q, n)
    <3>1. Received(s)' = Received(s)
      BY DEF Received
    <3>2. Stream(s)' = Received(s)' \o ch'[s]
      BY DEF Stream, Received
    <3>3. /\ Received(s) \in Seq(Numbers) /\ ch[s] \in Seq(Numbers)
          /\ q = Received(s) \o ch[s] /\ q \in Seq(Numbers)
      BY <1>1, <1>2, StreamPieces
    <3>4. Received(s) \o Append(ch[s], n) = Append(Received(s) \o ch[s], n)
      <4> DEFINE r == Received(s)
                 c == ch[s]
                 E == Numbers
      <4>1. r \in Seq(E) /\ c \in Seq(E) /\ n \in E
        BY <1>1, <3>3
      <4> HIDE DEF r, c, E
      <4>2. r \o Append(c, n) = Append(r \o c, n)
        BY <4>1, SendAppends
      <4> QED BY <4>2 DEF r, c
    <3> QED BY <1>3, <3>1, <3>2, <3>3, <3>4
  <2>2. StreamInv(s)
    BY <1>1 DEF PInv
  <2>3. dropped' = dropped /\ dropped[s] \in Nat
    BY <1>1, <1>2 DEF TypeOK
  <2>4. Offered(s)' = n /\ n' = n
    BY OfferedMovesOn
  <2>5. Len(q) \in Nat /\ \A i \in 1 .. Len(q) : q[i] \in Numbers
    BY <2>1
  <2>6. /\ Len(Append(q, n)) = Len(q) + 1 /\ Append(q, n) # <<>>
        /\ Append(q, n)[Len(q) + 1] = n
        /\ \A i \in 1 .. Len(q) : Append(q, n)[i] = q[i]
    BY <1>1, <2>1, AppendProperties
  <2>7. /\ \A i \in 1 .. Len(q) : q[i] <= n - 1
        /\ \A i, j \in 1 .. Len(q) : i < j => q[i] < q[j]
        /\ Len(q) + dropped[s] = n - 1
    BY <1>1, <2>2 DEF StreamInv, Increasing
  <2> HIDE DEF q
  <2> DEFINE a == Append(q, n)
  <2>8. /\ Len(a) = Len(q) + 1 /\ a # <<>> /\ a[Len(q) + 1] = n
        /\ \A i \in 1 .. Len(q) : a[i] = q[i]
    BY <2>6
  <2> HIDE DEF a
  <2>9. ASSUME NEW i \in 1 .. Len(a), NEW j \in 1 .. Len(a), i < j PROVE a[i] < a[j]
    <3>1. n \in Int /\ i \in 1 .. Len(q) /\ (j \in 1 .. Len(q) \/ j = Len(q) + 1)
      BY <1>1, <2>5, <2>8, <2>9 DEF Numbers
    <3>2. a[i] = q[i] /\ q[i] \in Int /\ q[i] <= n - 1
      BY <2>5, <2>7, <2>8, <3>1 DEF Numbers
    <3>3. CASE j \in 1 .. Len(q)
      BY <2>7, <2>8, <2>9, <3>1, <3>2, <3>3
    <3>4. CASE j = Len(q) + 1
      BY <2>8, <3>1, <3>2, <3>4
    <3> QED BY <3>1, <3>3, <3>4
  <2>10. /\ \A i \in 1 .. Len(a) : a[i] <= n
         /\ Len(a) + dropped[s] = n
         /\ a[Len(a)] = n
    <3>1. n \in Int /\ dropped[s] \in Nat
      BY <1>1, <2>3 DEF Numbers
    <3>2. ASSUME NEW i \in 1 .. Len(a) PROVE a[i] <= n
      <4>1. i \in 1 .. Len(q) \/ i = Len(q) + 1
        BY <2>5, <2>8
      <4>2. CASE i \in 1 .. Len(q)
        <5>1. a[i] = q[i] /\ q[i] \in Int /\ q[i] <= n - 1
          BY <2>5, <2>7, <2>8, <4>2 DEF Numbers
        <5> QED BY <3>1, <5>1
      <4>3. CASE i = Len(q) + 1
        BY <2>8, <3>1, <4>3
      <4> QED BY <4>1, <4>2, <4>3
    <3> QED BY <2>5, <2>7, <2>8, <3>1, <3>2
  <2>11. Stream(s)' = a
    BY <2>1 DEF a
  <2> QED BY <2>3, <2>4, <2>8, <2>9, <2>10, <2>11 DEF StreamInv, Increasing
<1>9. ASSUME NEW z \in Registered, z # s PROVE StreamInv(z)'
  <2>1. z \in Names
    BY <1>2, RegisteredNames
  <2>2. Offered(z)' = Offered(z)
    BY <1>9, OfferedMovesOn
  <2>3. StreamInv(z)
    BY DEF PInv
  <2> QED BY <1>3, <1>9, <2>1, <2>2, <2>3, Untouched
<1>10. Registered' = Registered
  BY DEF Registered
<1> QED BY <1>5, <1>6, <1>7, <1>8, <1>9, <1>10 DEF PInv

\* Taking the oldest queued event out leaves the stream increasing, and one
\* event shorter for the drop that is counted.
LEMMA Evicted ==
    ASSUME PInv, pub.op # Idle, NEW s, s = subs[pub.at], ch[s] # <<>>,
           ch' = [ch EXCEPT ![s] = Tail(@)],
           dropped' = [dropped EXCEPT ![s] = @ + 1],
           Offered(s)' = Offered(s), UNCHANGED <<n, taken, seen>>
    PROVE  StreamInv(s)'
<1>1. /\ s \in Registered /\ s \in Names /\ Offered(s) = n - 1 /\ n \in Numbers
  BY AtSubscriber
<1>2. TypeOK /\ StreamInv(s)
  BY <1>1 DEF PInv
<1>3. ch'[s] = Tail(ch[s]) /\ dropped'[s] = dropped[s] + 1 /\ dropped[s] \in Nat
  BY <1>1, <1>2 DEF TypeOK
<1> DEFINE r == Received(s)
           c == ch[s]
           E == Numbers
           q == Stream(s)
           a == r \o Tail(c)
<1>4. r \in Seq(E) /\ c \in Seq(E) /\ c # <<>> /\ q = r \o c /\ q \in Seq(E)
  BY <1>1, <1>2, StreamPieces
<1>5. Stream(s)' = a
  <2>1. Received(s)' = Received(s)
    BY DEF Received
  <2>2. Stream(s)' = Received(s)' \o ch'[s]
    BY DEF Stream, Received
  <2> QED BY <1>3, <2>1, <2>2
<1>6. /\ Len(a) = Len(q) - 1
      /\ \A i \in 1 .. Len(a) : a[i] = q[IF i <= Len(r) THEN i ELSE i + 1]
  <2> HIDE DEF r, c, E, q
  <2> QED BY <1>4, EvictRemoves
<1>7. /\ Len(q) \in Nat /\ Len(r) \in Nat /\ Len(a) \in Nat
      /\ \A i \in 1 .. Len(q) : q[i] \in Int
  <2>1. \A i \in 1 .. Len(q) : q[i] \in E
    <3> HIDE DEF q, E, r, c
    <3> QED BY <1>4, ElementOfSeq
  <2>2. Len(q) \in Nat /\ Len(r) \in Nat /\ a \in Seq(E)
    <3> HIDE DEF r, c, E, q
    <3>1. Tail(c) \in Seq(E)
      BY <1>4, HeadTailProperties
    <3> QED BY <1>4, <3>1, ConcatProperties
  <2>3. Len(a) \in Nat
    <3> HIDE DEF a, E
    <3> QED BY <2>2
  <2> HIDE DEF q, r, c, a
  <2> QED BY <2>1, <2>2, <2>3 DEF Numbers
<1>8. /\ \A i, j \in 1 .. Len(q) : i < j => q[i] < q[j]
      /\ \A i \in 1 .. Len(q) : q[i] <= n - 1
      /\ Len(q) + dropped[s] = n - 1
  BY <1>1, <1>2 DEF StreamInv, Increasing
<1> HIDE DEF r, c, E, q, a
<1>9. ASSUME NEW i \in 1 .. Len(a), NEW j \in 1 .. Len(a), i < j PROVE a[i] < a[j]
  <2> DEFINE u == IF i <= Len(r) THEN i ELSE i + 1
             v == IF j <= Len(r) THEN j ELSE j + 1
  <2>1. u \in 1 .. Len(q) /\ v \in 1 .. Len(q) /\ u < v
    BY <1>6, <1>7, <1>9
  <2>2. a[i] = q[u] /\ a[j] = q[v]
    BY <1>6
  <2> HIDE DEF u, v
  <2> QED BY <1>8, <2>1, <2>2
<1>10. ASSUME NEW i \in 1 .. Len(a) PROVE a[i] <= n - 1
  <2> DEFINE u == IF i <= Len(r) THEN i ELSE i + 1
  <2>1. u \in 1 .. Len(q)
    BY <1>6, <1>7
  <2>2. a[i] = q[u]
    BY <1>6
  <2> HIDE DEF u
  <2> QED BY <1>8, <2>1, <2>2
<1>11. Len(a) + (dropped[s] + 1) = n - 1
  BY <1>3, <1>6, <1>7, <1>8
<1>12. n' = n /\ n \in Int /\ Offered(s)' = n - 1
  BY <1>1 DEF Numbers
<1> QED BY <1>3, <1>5, <1>9, <1>10, <1>11, <1>12 DEF StreamInv, Increasing

\* The channel of s gives its head to the delivery goroutine.
LEMMA DeliverKeepsStream ==
    ASSUME TypeOK, NEW s \in Names, Deliver(s)
    PROVE  Stream(s)' = Stream(s)
<1> DEFINE r == seen[s]
           c == ch[s]
           E == Numbers
<1>1. r \in Seq(E) /\ c \in Seq(E) /\ c # <<>>
  BY DEF TypeOK, Numbers, Deliver
<1>2. Head(c) \in E
  <2> HIDE DEF r, c, E
  <2> QED BY <1>1, HeadTailProperties
<1>3. Head(c) # 0
  BY <1>2 DEF Numbers
<1>4. taken[s] = 0 /\ taken'[s] = Head(c) /\ ch'[s] = Tail(c) /\ seen'[s] = r
  BY DEF Deliver, TypeOK
<1>5. (r \o <<Head(c)>>) \o Tail(c) = (r \o <<>>) \o c
  <2> HIDE DEF r, c, E
  <2> QED BY <1>1, HeadMoves
<1>6. Stream(s) = (r \o <<>>) \o c
  BY <1>4 DEF Stream
<1>7. Stream(s)' = (r \o <<Head(c)>>) \o Tail(c)
  BY <1>3, <1>4 DEF Stream
<1> QED BY <1>5, <1>6, <1>7

\* Consume returns from the event it was running on.
LEMMA ConsumeKeepsStream ==
    ASSUME TypeOK, NEW s \in Names, ConsumeReturns(s)
    PROVE  Stream(s)' = Stream(s)
<1> DEFINE r == seen[s]
           t == taken[s]
           E == Numbers
<1>1. r \in Seq(E) /\ t \in E /\ t # 0
  BY DEF TypeOK, Numbers, ConsumeReturns
<1>2. taken'[s] = 0 /\ seen'[s] = Append(r, t) /\ ch'[s] = ch[s]
  BY DEF ConsumeReturns, TypeOK
<1>3. Append(r, t) \o <<>> = r \o <<t>>
  <2> HIDE DEF r, t, E
  <2> QED BY <1>1, TakenMoves
<1>4. Stream(s) = (r \o <<t>>) \o ch[s]
  BY <1>1 DEF Stream
<1>5. Stream(s)' = (Append(r, t) \o <<>>) \o ch[s]
  BY <1>2 DEF Stream
<1> QED BY <1>3, <1>4, <1>5

-----------------------------------------------------------------------------
(***************************************************************************)
(* The invariant is inductive.                                             *)
(***************************************************************************)
\* A publisher that is not started has no subscriber and no event.
LEMMA InitPInv == Init => PInv
<1> SUFFICES ASSUME Init PROVE PInv
  OBVIOUS
<1>1. TypeOK
  BY PublisherAssumption DEF Init, TypeOK, Resting, Idle
<1>2. Registered = {}
  BY DEF Init, Registered
<1>3. Publishing
  BY DEF Init, Publishing, Resting, Idle
<1>4. Joining
  BY <1>2, FS_EmptySet DEF Init, Joining, Fresh
<1> QED BY <1>1, <1>2, <1>3, <1>4 DEF PInv

\* Subscribe adds a name, with an empty stream and nothing offered.
LEMMA SubscribePInv ==
    ASSUME PInv, NEW s \in Names, Subscribe(s)
    PROVE  PInv'
<1> USE DEF Subscribe
<1>1. TypeOK /\ Joining /\ Fresh
  BY DEF PInv, Joining
<1>2. /\ subs' \in Seq(Names) /\ Len(subs') = Len(subs) + 1 /\ Len(subs) \in Nat
      /\ subs'[Len(subs) + 1] = s
      /\ \A i \in 1 .. Len(subs) : subs'[i] = subs[i]
  BY <1>1, AppendProperties DEF TypeOK
<1>3. Registered' = Registered \cup {s}
  BY <1>2 DEF Registered
<1>4. pub = Resting
  BY <1>1 DEF PInv, Publishing, TypeOK, Resting
<1>5. TypeOK'
  <2>1. pub' \in [at: 0 .. Len(subs'), op: {Idle, "send", "evict", "retry"}]
    BY <1>2, <1>4 DEF Resting
  <2> QED BY <1>1, <1>2, <2>1 DEF TypeOK
<1>6. Publishing'
  BY <1>4 DEF PInv, Publishing, Resting, Idle
<1>7. Joining'
  <2>1. IsFiniteSet(Registered') /\ Cardinality(Registered') = Cardinality(Registered) + 1
    BY <1>1, <1>3, FS_AddElement DEF Joining
  <2>2. Fresh'
    BY <1>1, <1>2, <2>1 DEF Fresh
  <2>3. \A i, j \in 1 .. Len(subs') : subs'[i] = subs'[j] => i = j
    <3>1. \A i \in 1 .. Len(subs) : subs[i] # s
      BY DEF Registered
    <3>2. \A i, j \in 1 .. Len(subs) : subs[i] = subs[j] => i = j
      BY <1>1 DEF Joining
    <3> QED BY <1>2, <3>1, <3>2
  <2> QED BY <1>1, <1>3, <2>1, <2>2, <2>3 DEF Joining, Fresh
<1>8. ASSUME NEW z \in Registered' PROVE StreamInv(z)'
  <2>1. z \in Names
    BY <1>1, <1>3, RegisteredNames
  <2>2. Stream(z)' = <<>> /\ dropped'[z] = 0
    <3>1. Stream(z)' = (<<>> \o <<>>) \o <<>>
      BY <1>1, <2>1 DEF Stream, Fresh
    <3>2. <<>> \in Seq(Numbers)
      OBVIOUS
    <3>3. (<<>> \o <<>>) \o <<>> = <<>>
      BY <3>2, ConcatEmptySeq
    <3> QED BY <1>1, <2>1, <3>1, <3>3 DEF Fresh
  <2>3. Offered(z)' = 0 /\ n' = 0
    BY <1>1, <1>4 DEF Offered, Resting, Fresh
  <2> QED BY <2>2, <2>3 DEF StreamInv, Increasing
<1> QED BY <1>5, <1>6, <1>7, <1>8 DEF PInv

\* Publish begins with the first subscriber: the new event has been offered to
\* nobody yet.
LEMMA PublishPInv ==
    ASSUME PInv, Publish
    PROVE  PInv'
<1> USE DEF Publish
<1>1. TypeOK /\ Joining /\ n' = n + 1 /\ n \in Nat /\ Len(subs) \in Nat
  BY DEF PInv, TypeOK
<1>2. pub' = IF Len(subs) = 0 THEN Resting ELSE [at |-> 1, op |-> "send"]
  BY <1>1 DEF From
<1>3. TypeOK'
  <2>1. pub' \in [at: 0 .. Len(subs), op: {Idle, "send", "evict", "retry"}]
    BY <1>1, <1>2 DEF Resting
  <2>2. n' \in 0 .. MaxEvents
    BY <1>1, PublisherAssumption
  <2> QED BY <1>1, <2>1, <2>2 DEF TypeOK
<1>4. Publishing'
  BY <1>1, <1>2 DEF Publishing, Resting, Idle
<1>5. Registered' = Registered
  BY DEF Registered
<1>6. Joining'
  BY <1>1, <1>5 DEF Joining
<1>7. ASSUME NEW z \in Registered PROVE StreamInv(z)'
  <2>1. Stream(z)' = Stream(z)
    BY DEF Stream
  <2>2. Offered(z) = n
    BY DEF Offered, Resting
  <2>3. Offered(z)' = n
    <3>1. PICK i \in 1 .. Len(subs) : subs[i] = z
      BY DEF Registered
    <3>2. pub'.at = 1
      BY <1>1, <1>2, <3>1
    <3> QED BY <1>1, <3>1, <3>2 DEF Offered
  <2>4. StreamInv(z)
    BY DEF PInv
  <2> QED BY <1>1, <2>1, <2>2, <2>3, <2>4 DEF StreamInv, Increasing
<1> QED BY <1>3, <1>4, <1>5, <1>6, <1>7 DEF PInv

\* An eviction that finds the channel emptied changes nothing; the other one
\* drops an event of one subscriber.
LEMMA EvictPInv ==
    ASSUME PInv, Evict
    PROVE  PInv'
<1>0. PICK s : s = subs[pub.at]
  OBVIOUS
<1>a. /\ pub.op = "evict" /\ pub' = [pub EXCEPT !.op = "retry"]
      /\ ch[s] # <<>> => ch' = [ch EXCEPT ![s] = Tail(@)] /\ dropped' = [dropped EXCEPT ![s] = @ + 1]
      /\ ch[s] = <<>> => UNCHANGED <<ch, dropped>>
      /\ UNCHANGED <<stage, subs, n, taken, seen, gone, wg>>
  BY <1>0 DEF Evict
<1>1. /\ pub.op # Idle /\ s \in Registered /\ s \in Names
      /\ pub.at \in 1 .. Len(subs)
  BY <1>0, <1>a, AtSubscriber DEF Idle
<1>2. TypeOK /\ Joining /\ Publishing
  BY DEF PInv
<1>3. pub' = [pub EXCEPT !.op = "retry"] /\ pub'.at = pub.at /\ pub'.op = "retry"
  BY <1>a, <1>2 DEF TypeOK
<1>4. Registered' = Registered /\ \A z : Offered(z)' = Offered(z)
  BY <1>a, <1>3 DEF Registered, Offered
<1>5. stage = "open" /\ s \notin gone
  BY <1>1, <1>2 DEF Publishing, Joining
<1>6. CASE ch[s] = <<>>
  <2>1. UNCHANGED <<stage, subs, ch, dropped, n, taken, seen, gone, wg>>
    BY <1>a, <1>6
  <2>2. TypeOK'
    BY <1>2, <1>3, <2>1 DEF TypeOK
  <2>3. Publishing'
    BY <1>0, <1>1, <1>2, <1>3, <1>6, <2>1, PublisherAssumption DEF Publishing, Idle
  <2>4. Joining'
    BY <1>2, <1>4, <2>1 DEF Joining, Fresh
  <2>5. \A z \in Registered : StreamInv(z)'
    BY <1>4, <2>1, Untouched DEF PInv
  <2> QED BY <1>4, <2>2, <2>3, <2>4, <2>5 DEF PInv
<1>7. CASE ch[s] # <<>>
  <2>1. /\ ch' = [ch EXCEPT ![s] = Tail(@)] /\ dropped' = [dropped EXCEPT ![s] = @ + 1]
        /\ UNCHANGED <<stage, subs, n, taken, seen, gone, wg>>
    BY <1>a, <1>7
  <2> DEFINE E == 1 .. MaxEvents
             t == Tail(ch[s])
  <2>2. t \in Seq(E) /\ Len(t) = Len(ch[s]) - 1 /\ Len(ch[s]) \in Nat /\ Len(ch[s]) <= Cap
    <3>1. ch[s] \in Seq(E) /\ Len(ch[s]) <= Cap
      BY <1>1, <1>2 DEF TypeOK
    <3> HIDE DEF E
    <3> QED BY <1>7, <3>1, HeadTailProperties
  <2>3. /\ ch' = [ch EXCEPT ![s] = t] /\ ch'[s] = t
        /\ \A z \in Names \ {s} : ch'[z] = ch[z] /\ dropped'[z] = dropped[z]
    BY <1>1, <1>2, <2>1 DEF TypeOK
  <2>4. TypeOK'
    <3>1. ch' \in [Names -> Seq(E)] /\ \A z \in Names : Len(ch'[z]) <= Cap
      <4>1. ch \in [Names -> Seq(E)] /\ \A z \in Names : Len(ch[z]) <= Cap
        BY <1>2 DEF TypeOK
      <4>2. ch' \in [Names -> Seq(E)]
        <5> HIDE DEF E, t
        <5> QED BY <2>2, <2>3, <4>1
      <4>3. Len(t) <= Cap
        <5> HIDE DEF E, t
        <5> QED BY <2>2, PublisherAssumption
      <4> HIDE DEF E, t
      <4> QED BY <2>3, <4>1, <4>2, <4>3
    <3>2. dropped' = [dropped EXCEPT ![s] = dropped[s] + 1] /\ dropped \in [Names -> Nat]
      BY <1>2, <2>1 DEF TypeOK
    <3>3. dropped' \in [Names -> Nat]
      <4>1. dropped[s] + 1 \in Nat
        BY <1>1, <3>2
      <4> QED BY <3>2, <4>1
    <3>4. pub' \in [at: 0 .. Len(subs), op: {Idle, "send", "evict", "retry"}]
      BY <1>2, <1>3 DEF TypeOK
    <3> HIDE DEF t
    <3> QED BY <1>2, <2>1, <3>1, <3>3, <3>4 DEF TypeOK
  <2>5. Publishing'
    <3>1. Len(ch'[subs'[pub'.at]]) < Cap
      <4>1. subs'[pub'.at] = s
        BY <1>0, <1>3, <2>1
      <4> HIDE DEF E, t
      <4> QED BY <2>2, <2>3, <4>1, PublisherAssumption
    <3> QED BY <1>1, <1>2, <1>3, <2>1, <3>1 DEF Publishing, Idle
  <2>6. Joining'
    <3>1. \A z \in gone : z \in Names /\ z # s
      BY <1>2, <1>5 DEF TypeOK
    <3> QED BY <1>2, <1>4, <1>5, <2>1, <2>3, <3>1 DEF Joining
  <2>7. \A z \in Registered \ {s} : StreamInv(z)'
    <3> SUFFICES ASSUME NEW z \in Registered \ {s} PROVE StreamInv(z)'
      OBVIOUS
    <3>1. z \in Names /\ StreamInv(z)
      BY <1>2, RegisteredNames DEF PInv
    <3> QED BY <1>4, <2>1, <2>3, <3>1, Untouched
  <2>8. StreamInv(s)'
    BY <1>0, <1>1, <1>4, <1>7, <2>1, Evicted
  <2> QED BY <1>4, <2>4, <2>5, <2>6, <2>7, <2>8 DEF PInv
<1> QED BY <1>6, <1>7

\* A step of a delivery goroutine moves an event within its stream.
LEMMA DeliveryPInv ==
    ASSUME PInv, NEW s \in Names, Deliver(s) \/ ConsumeReturns(s)
    PROVE  PInv'
<1>1. TypeOK /\ Joining /\ Publishing
  BY DEF PInv
<1>2. UNCHANGED <<stage, subs, dropped, n, pub, gone, wg>>
  BY DEF Deliver, ConsumeReturns
<1>3. \A z \in Names \ {s} : ch'[z] = ch[z] /\ taken'[z] = taken[z] /\ seen'[z] = seen[z]
  BY <1>1 DEF Deliver, ConsumeReturns, TypeOK
<1>4. s \notin gone
  BY <1>1 DEF Joining, Deliver, ConsumeReturns
<1>5. stage # "new"
  BY <1>1 DEF Joining, Fresh, Deliver, ConsumeReturns
<1> DEFINE E == 1 .. MaxEvents
<1>6. /\ ch' \in [Names -> Seq(E)] /\ \A z \in Names : Len(ch'[z]) <= Len(ch[z])
      /\ taken' \in [Names -> 0 .. MaxEvents]
      /\ seen' \in [Names -> Seq(E)]
  <2>1. /\ ch \in [Names -> Seq(E)] /\ seen \in [Names -> Seq(E)]
        /\ taken \in [Names -> E \cup {0}] /\ E \cup {0} = 0 .. MaxEvents
    BY <1>1, PublisherAssumption DEF TypeOK
  <2>2. CASE Deliver(s)
    <3> DEFINE c == ch[s]
               t == Tail(c)
               h == Head(c)
    <3>1. /\ c \in Seq(E) /\ c # <<>> /\ ch' = [ch EXCEPT ![s] = t]
          /\ taken' = [taken EXCEPT ![s] = h] /\ seen' = seen
      BY <2>1, <2>2 DEF Deliver
    <3>2. h \in E /\ t \in Seq(E) /\ Len(t) = Len(c) - 1 /\ Len(c) \in Nat
      <4> HIDE DEF c, E
      <4> QED BY <3>1, HeadTailProperties
    <3> HIDE DEF E, t, h
    <3>3. ch' \in [Names -> Seq(E)] /\ seen' \in [Names -> Seq(E)]
      BY <2>1, <3>1, <3>2
    <3>4. taken' \in [Names -> E \cup {0}]
      BY <2>1, <3>1, <3>2
    <3>5. \A z \in Names : Len(ch'[z]) <= Len(ch[z])
      <4>1. \A z \in Names : Len(ch[z]) \in Nat
        BY <2>1
      <4> QED BY <2>1, <3>1, <3>2, <4>1
    <3> QED BY <2>1, <3>3, <3>4, <3>5
  <2>3. CASE ConsumeReturns(s)
    <3> DEFINE a == Append(seen[s], taken[s])
    <3>1. /\ taken[s] \in E /\ seen' = [seen EXCEPT ![s] = a]
          /\ taken' = [taken EXCEPT ![s] = 0] /\ ch' = ch
      BY <2>1, <2>3 DEF ConsumeReturns
    <3>2. a \in Seq(E)
      <4> HIDE DEF E
      <4> QED BY <2>1, <3>1, AppendProperties
    <3> HIDE DEF E, a
    <3>3. seen' \in [Names -> Seq(E)] /\ taken' \in [Names -> E \cup {0}]
      BY <2>1, <3>1, <3>2
    <3>4. \A z \in Names : Len(ch[z]) \in Nat
      BY <2>1
    <3> QED BY <2>1, <3>1, <3>3, <3>4
  <2> QED BY <2>2, <2>3
<1>7. \A z \in Names : Len(ch[z]) \in Nat /\ Len(ch'[z]) \in Nat /\ Len(ch[z]) <= Cap
  <2>1. ch \in [Names -> Seq(E)] /\ \A z \in Names : Len(ch[z]) <= Cap
    BY <1>1 DEF TypeOK
  <2> HIDE DEF E
  <2> QED BY <1>6, <2>1
<1>8. TypeOK'
  <2>1. \A z \in Names : Len(ch'[z]) <= Cap
    <3> SUFFICES ASSUME NEW z \in Names PROVE Len(ch'[z]) <= Cap
      OBVIOUS
    <3>1. Len(ch'[z]) <= Len(ch[z])
      BY <1>6
    <3>2. Len(ch[z]) \in Nat /\ Len(ch'[z]) \in Nat /\ Len(ch[z]) <= Cap
      BY <1>7
    <3> QED BY <3>1, <3>2, PublisherAssumption
  <2> QED BY <1>1, <1>2, <1>6, <2>1 DEF TypeOK
<1>9. Registered' = Registered /\ \A z : Offered(z)' = Offered(z)
  BY <1>2 DEF Registered, Offered
<1>10. Publishing'
  <2>1. pub.op = "retry" => subs[pub.at] \in Names
    BY AtSubscriber DEF Idle
  <2>2. pub.op = "retry" => Len(ch'[subs[pub.at]]) < Cap
    BY <1>1, <1>6, <1>7, <2>1, PublisherAssumption DEF Publishing
  <2> QED BY <1>1, <1>2, <2>2 DEF Publishing
<1>11. Joining'
  <2>1. \A z \in gone : z \in Names /\ z # s
    BY <1>1, <1>4 DEF TypeOK
  <2> QED BY <1>1, <1>2, <1>3, <1>5, <1>9, <2>1 DEF Joining
<1>12. Stream(s)' = Stream(s)
  BY <1>1, DeliverKeepsStream, ConsumeKeepsStream
<1>13. ASSUME NEW z \in Registered PROVE StreamInv(z)'
  <2>1. z \in Names /\ StreamInv(z)
    BY <1>1, RegisteredNames DEF PInv
  <2>2. Stream(z)' = Stream(z)
    <3>1. CASE z # s
      BY <1>3, <2>1, <3>1 DEF Stream
    <3> QED BY <1>12, <3>1
  <2> QED BY <1>2, <1>9, <2>1, <2>2 DEF StreamInv, Increasing
<1> QED BY <1>8, <1>9, <1>10, <1>11, <1>13 DEF PInv

\* Every step keeps the invariant.
LEMMA NextPInv ==
    ASSUME PInv, [Next]_vars
    PROVE  PInv'
<1>1. ASSUME NEW s \in Names, Subscribe(s) PROVE PInv'
  BY <1>1, SubscribePInv
<1>2. CASE Publish
  BY <1>2, PublishPInv
<1>3. CASE Evict
  BY <1>3, EvictPInv
<1>4. ASSUME NEW s \in Names, Deliver(s) \/ ConsumeReturns(s) PROVE PInv'
  BY <1>4, DeliveryPInv
<1>5. CASE Retry
  \* There is room: the send succeeds.
  <2>1. PICK s : s = subs[pub.at]
    OBVIOUS
  <2>2. pub.op # Idle /\ Len(ch[s]) < Cap
    BY <1>5, <2>1 DEF PInv, Publishing, Retry, Idle
  <2>3. /\ ch' = [ch EXCEPT ![s] = Append(@, n)] /\ pub' = From(pub.at + 1)
        /\ UNCHANGED <<stage, subs, dropped, n, taken, seen, gone, wg>>
    BY <1>5, <2>1, <2>2 DEF Retry
  <2> QED BY <2>1, <2>2, <2>3, Sent
<1>6. CASE UNCHANGED <<stage, subs, ch, dropped, n, taken, seen, gone, wg>>
           /\ pub.op = "send" /\ pub' = [pub EXCEPT !.op = "evict"]
  <2>1. pub'.at = pub.at /\ pub'.op = "evict" /\ TypeOK
    BY <1>6 DEF PInv, TypeOK
  <2>2. TypeOK'
    BY <1>6, <2>1 DEF TypeOK
  <2>3. Registered' = Registered /\ \A z : Offered(z)' = Offered(z)
    BY <1>6, <2>1 DEF Registered, Offered
  <2>4. Publishing'
    BY <1>6, <2>1 DEF PInv, Publishing, Idle
  <2>5. Joining'
    BY <1>6, <2>3 DEF PInv, Joining, Fresh
  <2>6. \A z \in Registered : StreamInv(z)'
    BY <1>6, <2>3, Untouched DEF PInv
  <2> QED BY <2>2, <2>3, <2>4, <2>5, <2>6 DEF PInv
<1>7. CASE TrySend
  <2>1. PICK s : s = subs[pub.at]
    OBVIOUS
  <2>2. CASE Len(ch[s]) < Cap
    <3>1. /\ pub.op # Idle
          /\ ch' = [ch EXCEPT ![s] = Append(@, n)] /\ pub' = From(pub.at + 1)
          /\ UNCHANGED <<stage, subs, dropped, n, taken, seen, gone, wg>>
      BY <1>7, <2>1, <2>2 DEF TrySend, Idle
    <3> QED BY <2>1, <2>2, <3>1, Sent
  <2>3. CASE ~(Len(ch[s]) < Cap)
    BY <1>6, <1>7, <2>1, <2>3 DEF TrySend
  <2> QED BY <2>2, <2>3
\* The steps that touch no stream.
<1> DEFINE Streams == <<subs, ch, dropped, n, pub, taken, seen>>
<1>8. ASSUME UNCHANGED Streams, Joining', stage' \in {"new", "open", "closing", "returned"},
             gone' \subseteq Names, wg' \in Nat,
             pub.op # Idle => stage' = "open"
      PROVE  PInv'
  <2>1. Registered' = Registered /\ \A z : Offered(z)' = Offered(z)
    BY <1>8 DEF Registered, Offered
  <2>2. TypeOK'
    BY <1>8 DEF PInv, TypeOK
  <2>3. Publishing'
    BY <1>8 DEF PInv, Publishing
  <2>4. \A z \in Registered : StreamInv(z)'
    BY <1>8, <2>1, Untouched DEF PInv
  <2> QED BY <1>8, <2>1, <2>2, <2>3, <2>4 DEF PInv
<1>9. UNCHANGED subs => Registered' = Registered
  BY DEF Registered
<1>10. TypeOK /\ Joining /\ Publishing
  BY DEF PInv
<1>11. CASE Start
  <2>1. Fresh /\ IsFiniteSet(Registered) /\ Len(subs) \in Nat
    BY <1>10, <1>11 DEF Start, Joining, TypeOK
  <2>2. Registered \ {} = Registered
    OBVIOUS
  <2>3. Joining'
    BY <1>9, <1>10, <1>11, <2>1, <2>2 DEF Start, Joining, Fresh
  <2> QED BY <1>8, <1>10, <1>11, <2>1, <2>3 DEF Start, TypeOK
<1>12. ASSUME NEW s \in Names, DeliveryEnds(s) PROVE PInv'
  <2>1. /\ stage = "closing" /\ wg = Cardinality(Registered \ gone)
        /\ IsFiniteSet(Registered \ gone) /\ s \in Registered \ gone
    <3>1. IsFiniteSet(Registered) /\ Registered \ gone \in SUBSET Registered
      BY <1>10 DEF Joining
    <3> QED BY <1>10, <1>12, <3>1, FS_Subset DEF DeliveryEnds, Joining
  <2>2. Registered \ gone' = (Registered \ gone) \ {s} /\ gone' = gone \cup {s}
    BY <1>12 DEF DeliveryEnds
  <2>3. wg' = wg - 1 /\ wg' = Cardinality(Registered \ gone') /\ wg' \in Nat
    <3>1. Cardinality((Registered \ gone) \ {s}) = Cardinality(Registered \ gone) - 1
      BY <2>1, FS_RemoveElement
    <3>2. Cardinality((Registered \ gone) \ {s}) \in Nat
      BY <2>1, FS_RemoveElement, FS_CardinalityType
    <3> QED BY <1>12, <2>1, <2>2, <3>1, <3>2 DEF DeliveryEnds
  <2>4. Joining'
    BY <1>9, <1>10, <1>12, <2>1, <2>2, <2>3 DEF DeliveryEnds, Joining
  <2>5. pub.op = Idle
    BY <1>10, <2>1 DEF Publishing
  <2> QED BY <1>8, <1>10, <1>12, <2>2, <2>3, <2>4, <2>5 DEF DeliveryEnds, TypeOK
<1>13. CASE Close
  <2>1. Joining'
    BY <1>9, <1>10, <1>13 DEF Close, Joining
  <2>2. pub.op = Idle
    BY <1>13 DEF Close, Resting
  <2> QED BY <1>8, <1>10, <1>13, <2>1, <2>2 DEF Close, TypeOK
<1>14. CASE CloseReturns
  <2>1. Joining'
    BY <1>9, <1>10, <1>14 DEF CloseReturns, Joining
  <2>2. pub.op = Idle
    BY <1>10, <1>14 DEF CloseReturns, Publishing
  <2> QED BY <1>8, <1>10, <1>14, <2>1, <2>2 DEF CloseReturns, TypeOK
<1>15. CASE UNCHANGED vars
  <2>1. Joining'
    BY <1>9, <1>10, <1>15 DEF vars, Joining, Fresh
  <2> QED BY <1>8, <1>10, <1>15, <2>1 DEF vars, TypeOK, Publishing
<1> QED BY <1>1, <1>2, <1>3, <1>4, <1>5, <1>7, <1>11, <1>12, <1>13, <1>14, <1>15 DEF Next

-----------------------------------------------------------------------------
(***************************************************************************)
(* The theorems.                                                           *)
(***************************************************************************)
\* The publisher's inductive invariant holds in every reachable state.
LEMMA SpecPInv == Spec => []PInv
<1>1. Init => PInv
  BY InitPInv
<1>2. PInv /\ [Next]_vars => PInv'
  BY NextPInv
<1> QED BY <1>1, <1>2, PTL DEF Spec

\* Publisher: types, and no channel ever holds more than its capacity.
THEOREM TypeCorrect == Spec => []TypeOK
<1>1. PInv => TypeOK
  BY DEF PInv
<1> QED BY <1>1, SpecPInv, PTL

\* Subscriber: events arrive in publication order and none twice, whatever the
\* delivery goroutines do between the operations of Publish.
THEOREM StreamInOrderCorrect == Spec => []StreamInOrder
<1>1. PInv => StreamInOrder
  <2> SUFFICES ASSUME PInv, NEW s \in Registered, NEW i \in 1 .. Len(Stream(s)) - 1
               PROVE  Stream(s)[i] < Stream(s)[i + 1]
    BY DEF StreamInOrder
  <2>1. StreamInv(s) /\ Len(Stream(s)) \in Nat
    BY RegisteredNames, StreamPieces DEF PInv
  <2>2. i \in 1 .. Len(Stream(s)) /\ i + 1 \in 1 .. Len(Stream(s)) /\ i < i + 1
    BY <2>1
  <2> QED BY <2>1, <2>2 DEF StreamInv, Increasing
<1> QED BY <1>1, SpecPInv, PTL

\* Publish: every event offered to a subscriber is in its stream or counted as
\* dropped, exactly once.
THEOREM DropsAreCountedCorrect == Spec => []DropsAreCounted
<1>1. PInv => DropsAreCounted
  BY DEF PInv, StreamInv, DropsAreCounted
<1> QED BY <1>1, SpecPInv, PTL

\* Publish discards the oldest event to make room, so the newest one is never
\* the one that is lost.
THEOREM NewestIsKeptCorrect == Spec => []NewestIsKept
<1>1. PInv => NewestIsKept
  <2> SUFFICES ASSUME PInv, NEW s \in Registered, pub = Resting, n > 0
               PROVE  Stream(s) # <<>> /\ Stream(s)[Len(Stream(s))] = n
    BY DEF NewestIsKept
  <2>1. Offered(s) = n
    BY DEF Offered, Resting
  <2> QED BY <2>1 DEF PInv, StreamInv
<1> QED BY <1>1, SpecPInv, PTL

\* Close: once it has returned, every event that was published has been
\* consumed or counted as dropped, and no goroutine holds one.
THEOREM CloseKeepsTheTail ==
    Spec => [](stage = "returned" =>
                  \A s \in Registered : ch[s] = <<>> /\ taken[s] = 0
                                          /\ Len(seen[s]) + dropped[s] = n)
<1>1. PInv => (stage = "returned" =>
                  \A s \in Registered : ch[s] = <<>> /\ taken[s] = 0
                                          /\ Len(seen[s]) + dropped[s] = n)
  <2> SUFFICES ASSUME PInv, stage = "returned", NEW s \in Registered
               PROVE  ch[s] = <<>> /\ taken[s] = 0 /\ Len(seen[s]) + dropped[s] = n
    OBVIOUS
  <2>1. TypeOK /\ Joining /\ Publishing /\ StreamInv(s) /\ s \in Names
    BY RegisteredNames DEF PInv
  <2>2. Registered \ gone = {}
    <3>1. IsFiniteSet(Registered) /\ Registered \ gone \in SUBSET Registered
      BY <2>1 DEF Joining
    <3>2. IsFiniteSet(Registered \ gone)
      BY <3>1, FS_Subset
    <3> QED BY <2>1, <3>2, FS_EmptySet DEF Joining
  <2>3. ch[s] = <<>> /\ taken[s] = 0
    BY <2>1, <2>2 DEF Joining
  <2>4. Stream(s) = seen[s]
    <3> DEFINE r == seen[s]
               E == Numbers
    <3>1. r \in Seq(E)
      BY <2>1 DEF TypeOK, Numbers
    <3>2. (r \o <<>>) \o <<>> = r
      <4> HIDE DEF r, E
      <4> QED BY <3>1, ConcatEmptySeq
    <3> QED BY <2>3, <3>2 DEF Stream
  <2>5. Offered(s) = n
    BY <2>1 DEF Publishing, Offered
  <2> QED BY <2>1, <2>3, <2>4, <2>5 DEF StreamInv
<1> QED BY <1>1, SpecPInv, PTL
=============================================================================
