----------------------------- MODULE Histogram -----------------------------
(***************************************************************************)
(* internal/metrics/histogram.go: durations counted into buckets, without  *)
(* a lock.  Observe adds to a bucket, to the sum and to the total, in this *)
(* order and one atomic at a time; Quantile reads the total and then the   *)
(* buckets, one at a time, while observations go on.                       *)
(***************************************************************************)
EXTENDS Integers, Sequences, FiniteSetsExt, Functions

CONSTANTS
    Bounds,       \* the upper bounds, as they are given to NewHistogram
    Durations,    \* the durations that are observed
    Percents,     \* the quantiles that are asked for, in percent
    Observers,    \* goroutines that observe
    MaxObserved   \* bound: observations

ASSUME HistogramAssumption ==
    /\ Bounds \subseteq Nat /\ Bounds # {} /\ IsFiniteSet(Bounds)
    /\ Durations \subseteq Int /\ Percents \subseteq 0 .. 100
    /\ IsFiniteSet(Observers) /\ MaxObserved \in Nat

\* NewHistogram: sorted and deduplicated, and one bucket more for +Inf.
bounds ==
    CHOOSE s \in [1 .. Cardinality(Bounds) -> Bounds] :
        \A i, j \in DOMAIN s : i < j => s[i] < s[j]

Buckets == 1 .. Len(bounds) + 1

VARIABLES
    counts,      \* counts[i]: a bucket
    sum,         \* of what was observed
    total,       \* how many were
    negative,    \* how many were below zero
    observer,    \* observer[o]: what Observe has left to add, for which duration
    reader,      \* Quantile: where it is and what it has read
    finished     \* history: counts of the observations that total counts

hvars == <<counts, sum, total, negative, observer, reader, finished>>

Nothing == [i \in Buckets |-> 0]
Idle    == [at |-> "idle"]

HInit ==
    /\ counts = Nothing /\ finished = Nothing
    /\ sum = 0 /\ total = 0 /\ negative = 0
    /\ observer = [o \in Observers |-> [left |-> <<>>, d |-> 0]]
    /\ reader = Idle

\* The first bucket whose bound is not below d.
BucketOf(d) == Min({i \in Buckets : i = Len(bounds) + 1 \/ d <= bounds[i]})

\* Mutant: the total first.
AddsTotalFirst == <<"total", "bucket", "sum">>

\* The order in which Observe adds.
Adds == <<"bucket", "sum", "total">>

\* Observe is called; a duration below zero is only counted.
Observe(o, d) ==
    /\ observer[o].left = <<>>
    /\ SumFunctionOnSet(counts, Buckets) + negative < MaxObserved
    /\ IF d < 0 THEN negative' = negative + 1 /\ UNCHANGED observer
       ELSE observer' = [observer EXCEPT ![o] = [left |-> Adds, d |-> d]] /\ UNCHANGED negative
    /\ UNCHANGED <<counts, sum, total, reader, finished>>

\* One atomic add.
Add(o, what) ==
    /\ observer[o].left # <<>>
    /\ Head(observer[o].left) = what
    /\ observer' = [observer EXCEPT ![o].left = Tail(@)]
    /\ UNCHANGED <<negative, reader>>

AddToBucket(o) ==
    /\ Add(o, "bucket")
    /\ counts' = [counts EXCEPT ![BucketOf(observer[o].d)] = @ + 1]
    /\ UNCHANGED <<sum, total, finished>>

AddToSum(o) ==
    /\ Add(o, "sum")
    /\ sum' = sum + observer[o].d
    /\ UNCHANGED <<counts, total, finished>>

AddToTotal(o) ==
    /\ Add(o, "total")
    /\ total' = total + 1
    /\ finished' = [finished EXCEPT ![BucketOf(observer[o].d)] = @ + 1]
    /\ UNCHANGED <<counts, sum>>

\* Quantile is called and loads the total; without observations it is done.
ReadTotal(q) ==
    /\ reader = Idle
    /\ total > 0
    /\ reader' = [at |-> "walk", i |-> 1, want |-> q * total, cum |-> 0, before |-> finished]
    /\ UNCHANGED <<counts, sum, total, negative, observer, finished>>

\* Linear interpolation in bucket i, of which prev lie below and cum are
\* reached at its end; what is wanted is in hundredths.
Interpolate(i, want, prev, cum) ==
    LET lower == IF i = 1 THEN 0 ELSE bounds[i - 1]
    IN  IF i > Len(bounds) THEN bounds[Len(bounds)]
        ELSE IF cum = prev THEN bounds[i]
        ELSE lower + ((bounds[i] - lower) * (want - 100 * prev)) \div (100 * (cum - prev))

\* The walk loads one bucket and goes on, or returns; past the last bucket it
\* returns the largest bound.
ReadBucket ==
    /\ reader.at = "walk"
    /\ LET i   == reader.i
           cum == reader.cum + counts[i]
       IN  reader' =
            IF 100 * cum < reader.want /\ i < Len(bounds) + 1
            THEN [reader EXCEPT !.i = i + 1, !.cum = cum]
            ELSE [at |-> "done", want |-> reader.want, before |-> reader.before,
                  bucket |-> IF 100 * cum < reader.want THEN i + 1 ELSE i,
                  estimate |-> Interpolate(i, reader.want, reader.cum, cum)]
    /\ UNCHANGED <<counts, sum, total, negative, observer, finished>>

Return ==
    /\ reader.at = "done"
    /\ reader' = Idle
    /\ UNCHANGED <<counts, sum, total, negative, observer, finished>>

HNext ==
    \/ \E o \in Observers :
          \/ \E d \in Durations : Observe(o, d)
          \/ AddToBucket(o) \/ AddToSum(o) \/ AddToTotal(o)
    \/ \E q \in Percents : ReadTotal(q)
    \/ ReadBucket
    \/ Return

HSpec == HInit /\ [][HNext]_hvars

-----------------------------------------------------------------------------
\* The bucket in which the wanted rank lies, of the observations in c.
BucketOfRank(c, want) ==
    Min({i \in Buckets : 100 * SumFunctionOnSet(c, 1 .. i) >= want} \cup {Len(bounds) + 2})

\* Quantile, while observations go on: the answer lies in a bucket between
\* that of the rank among all that is observed when it returns and that of
\* the rank among what total counted when it began, and inside that bucket.
\* A read that tears can so understate a quantile and never overstates it,
\* and the walk always finds its bucket.
QuantileIsBracketed ==
    reader.at = "done" =>
        /\ reader.bucket \in
              BucketOfRank(counts, reader.want) .. BucketOfRank(reader.before, reader.want)
        /\ reader.bucket \in DOMAIN bounds =>
              /\ reader.estimate <= bounds[reader.bucket]
              /\ reader.bucket > 1 => reader.estimate >= bounds[reader.bucket - 1]
=============================================================================
