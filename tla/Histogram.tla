------------------------------ MODULE Histogram ------------------------------
(***************************************************************************)
(* The HISTOGRAM columns of one query: the row loop and the materialising  *)
(* part of Collector.execute, and histogramMetrics (exporter/collector.go).*)
(* Each row is folded, column by column, into the accumulator of its label *)
(* tuple; after the last row each accumulator is unrolled into cumulative  *)
(* buckets, a count and a sum.  When execute runs at all, and what a       *)
(* Collect serves in between, is in Collector; scalar columns are left out.*)
(*                                                                         *)
(* Columns, bucket bounds and label columns are known by their position.   *)
(* An observation is an integer, and one beyond MaxFloat stands for a      *)
(* float64 that is no longer finite; a float64 sum is not otherwise        *)
(* rounded here.                                                           *)
(***************************************************************************)
EXTENDS Integers, FiniteSets, SequencesExt

CONSTANTS
    NCol,          \* number of HISTOGRAM columns
    Bucket,        \* per column, its bounds
    Scale,         \* per column, its scale factor
    Default,       \* per column, what a NULL stands for, a null if nothing
    MaxFloat,      \* the largest finite observation or sum
    LabelTuples,   \* label tuples, as castString returns them: sequences of
                   \* strings, which are sequences of bytes
    Data,          \* data the database may return in a HISTOGRAM column
    MaxRows        \* bound: rows of one result

Columns == 1..NCol

(* What the driver returns: a number, text that parses included; an epoch  *)
(* or a boolean, which are never scaled; a null; anything that does not    *)
(* convert, or converts to NaN or to an infinity.                          *)
Datum == [kind : {"number", "unscaled", "null", "invalid"}, num : Int]

\* validateHistogramBuckets has refused anything else.
StrictlyIncreasing(b) == \A i, j \in 1..Len(b) : i < j => b[i] < b[j]

ASSUME HistogramAssumption ==
    /\ LabelTuples \subseteq Seq(Seq(Nat))
    /\ NCol \in Nat /\ MaxRows \in Nat /\ MaxFloat \in Nat
    /\ Bucket \in [Columns -> Seq(Int)]
    /\ \A c \in Columns : Len(Bucket[c]) > 0 /\ StrictlyIncreasing(Bucket[c])
    /\ Scale \in [Columns -> Int]
    /\ Data \subseteq Datum
    /\ Default \in [Columns -> Datum]

VARIABLES
    pc,
    rows,          \* the rows read by this execution
    col,           \* the column of the last row the loop is at
    histograms,    \* per column and key, its accumulator
    group,         \* the column and key histogramMetrics is at
    bucket,        \* its position in the bounds
    cumulative,
    emitted,       \* the groups it has been called for
    pending, result

vars == <<pc, rows, col, histograms, group, bucket, cumulative, emitted, pending, result>>

-----------------------------------------------------------------------------
(* castHistogramFloat64.                                                   *)

defaulted(c, d) == IF d.kind = "null" THEN Default[c] ELSE d
present(c, d)   == defaulted(c, d).kind # "null"

value(c, d) ==
    LET t == defaulted(c, d) IN IF t.kind = "number" THEN t.num * Scale[c] ELSE t.num

Finite(x) == x \in -MaxFloat..MaxFloat

\* A cast that takes what does not parse for a zero.
castsIgnoringError(c, d) == Finite(value(c, d))

casts(c, d) == defaulted(c, d).kind # "invalid" /\ Finite(value(c, d))

-----------------------------------------------------------------------------
(* encodeLabelTuple: each label behind its length, in decimal, and a colon.*)

Zero  == 48
Colon == 58

Itoa[n \in Nat] ==
    IF n < 10 THEN <<Zero + n>> ELSE Append(Itoa[n \div 10], Zero + (n % 10))

\* Labels one after the other.
encodeLabelTupleJoined(labels) == FlattenSeq(labels)

encodeLabel(label) == Append(Itoa[Len(label)], Colon) \o label

encodeLabelTuple(labels) == FlattenSeq([i \in 1..Len(labels) |-> encodeLabel(labels[i])])

Keys == {encodeLabelTuple(l) : l \in LabelTuples}

\* Search with exclusive upper bounds.
bucketIndexExclusive(c, v) ==
    CHOOSE i \in 1..(Len(Bucket[c]) + 1) :
        /\ \A j \in 1..(i - 1) : Bucket[c][j] <= v
        /\ i <= Len(Bucket[c]) => Bucket[c][i] > v

(* sort.SearchFloat64s: the first bound that is not below v, or one past   *)
(* the last.                                                               *)
bucketIndex(c, v) ==
    CHOOSE i \in 1..(Len(Bucket[c]) + 1) :
        /\ \A j \in 1..(i - 1) : Bucket[c][j] < v
        /\ i <= Len(Bucket[c]) => Bucket[c][i] >= v

Inf(c) == Len(Bucket[c]) + 1        \* position of the +Inf interval

\* No group yet: an accumulator comes into being with its first observation.
NoGroup(c) == [labels |-> <<>>, counts |-> [i \in 1..Inf(c) |-> 0], count |-> 0, sum |-> 0]

Accumulators(c) == [labels : LabelTuples \cup {<<>>}, counts : [1..Inf(c) -> Nat],
                    count : Nat, sum : Int]

Rows == [labels : LabelTuples, data : [Columns -> Data]]

(* A series of a logical histogram and its value; le is the position of    *)
(* the bound, 0 for the count and the sum.                                 *)
Metrics == [col : Columns, labels : LabelTuples \cup {<<>>}, part : {"bucket", "count", "sum"},
            le : Nat, value : Int]

\* The groups the row loop has filled.
Groups == {g \in Columns \X Keys : histograms[g[1]][g[2]].count > 0}

TypeOK ==
    /\ pc \in {"rows", "groups", "buckets", "done", "failed"}
    /\ rows \in Seq(Rows) /\ Len(rows) <= MaxRows
    /\ col \in 1..(NCol + 1)
    /\ rows = <<>> => col = NCol + 1
    /\ DOMAIN histograms = Columns
    /\ \A c \in Columns : histograms[c] \in [Keys -> Accumulators(c)]
    /\ pc = "buckets" => group \in Groups /\ bucket \in 1..Inf(group[1])
    /\ cumulative \in Nat
    /\ emitted \subseteq Columns \X Keys
    /\ pending \subseteq Metrics /\ result \subseteq Metrics

-----------------------------------------------------------------------------
(* execute drops the last result and starts with empty accumulators.       *)
Empty == [c \in Columns |-> [k \in Keys |-> NoGroup(c)]]

Init == /\ pc = "rows"
        /\ rows = <<>> /\ col = NCol + 1
        /\ histograms = Empty
        /\ group = <<>> /\ bucket = 1 /\ cumulative = 0
        /\ emitted = {} /\ pending = {} /\ result = {}

execute ==
    /\ pc \in {"done", "failed"}
    /\ pc' = "rows"
    /\ rows' = <<>> /\ col' = NCol + 1
    /\ histograms' = Empty
    /\ group' = <<>> /\ bucket' = 1 /\ cumulative' = 0
    /\ emitted' = {} /\ pending' = {} /\ result' = {}

-----------------------------------------------------------------------------
(* The row loop.                                                           *)

row   == rows[Len(rows)]
key   == encodeLabelTuple(row.labels)
datum == row.data[col]

nextRow ==
    /\ pc = "rows" /\ col = NCol + 1
    /\ Len(rows) < MaxRows
    /\ \E r \in Rows : rows' = Append(rows, r)
    /\ col' = 1
    /\ UNCHANGED <<pc, histograms, group, bucket, cumulative, emitted, pending, result>>

atColumn == pc = "rows" /\ col \in Columns

\* A NULL is absent, unless the column has a default.
skipNull ==
    /\ atColumn
    /\ ~present(col, datum)
    /\ col' = col + 1
    /\ UNCHANGED <<pc, rows, histograms, group, bucket, cumulative, emitted, pending, result>>

\* An accumulator whose first observation is not in its sum.
accumulateDroppingFirst(acc, v) ==
    [labels |-> IF acc.count = 0 THEN row.labels ELSE acc.labels,
     counts |-> [acc.counts EXCEPT ![bucketIndex(col, v)] = @ + 1],
     count  |-> acc.count + 1,
     sum    |-> IF acc.count = 0 THEN 0 ELSE acc.sum + v]

accumulate(acc, v) ==
    [labels |-> IF acc.count = 0 THEN row.labels ELSE acc.labels,
     counts |-> [acc.counts EXCEPT ![bucketIndex(col, v)] = @ + 1],
     count  |-> acc.count + 1,
     sum    |-> acc.sum + v]

observe ==
    /\ atColumn
    /\ present(col, datum) /\ casts(col, datum)
    /\ LET acc == accumulate(histograms[col][key], value(col, datum))
       IN /\ Finite(acc.sum)
          /\ histograms' = [histograms EXCEPT ![col][key] = acc]
    /\ col' = col + 1
    /\ UNCHANGED <<pc, rows, group, bucket, cumulative, emitted, pending, result>>

\* An error return of execute: q.err is set, and what is pending is dropped.
fail ==
    /\ pc' = "failed"
    /\ UNCHANGED <<rows, col, histograms, group, bucket, cumulative, emitted, pending, result>>

\* An observation that does not cast, or makes the sum overflow.
rejectObservation ==
    /\ atColumn
    /\ present(col, datum)
    /\ \/ ~casts(col, datum)
       \/ ~Finite(histograms[col][key].sum + value(col, datum))
    /\ fail

\* The scan of a row or the iteration over them fails, or a metric does not
\* build.
executionFails == pc \in {"rows", "groups", "buckets"} /\ fail

\* rows.Next has no more rows.
endOfRows ==
    /\ pc = "rows" /\ col = NCol + 1
    /\ pc' = "groups"
    /\ UNCHANGED <<rows, col, histograms, group, bucket, cumulative, emitted, pending, result>>

-----------------------------------------------------------------------------
(* histogramMetrics, for every group.  The code takes them in the order of *)
(* their columns and keys; any order is allowed here.                      *)

metric(part, le, v) ==
    [col |-> group[1], labels |-> histograms[group[1]][group[2]].labels,
     part |-> part, le |-> le, value |-> v]

beginGroup ==
    /\ pc = "groups"
    /\ \E g \in Groups \ emitted : group' = g /\ emitted' = emitted \cup {g}
    /\ bucket' = 1 /\ cumulative' = 0
    /\ pc' = "buckets"
    /\ UNCHANGED <<rows, col, histograms, pending, result>>

accumulator == histograms[group[1]][group[2]]

upTo == cumulative + accumulator.counts[bucket]

finiteBucket ==
    /\ pc = "buckets" /\ bucket < Inf(group[1])
    /\ cumulative' = upTo
    /\ pending' = pending \cup {metric("bucket", bucket, upTo)}
    /\ bucket' = bucket + 1
    /\ UNCHANGED <<pc, rows, col, histograms, group, emitted, result>>

\* +Inf, count, then sum.
infBucket ==
    /\ pc = "buckets" /\ bucket = Inf(group[1])
    /\ cumulative' = upTo
    /\ pending' = pending \cup {metric("bucket", bucket, upTo),
                                metric("count", 0, accumulator.count),
                                metric("sum", 0, accumulator.sum)}
    /\ pc' = "groups"
    /\ UNCHANGED <<rows, col, histograms, group, bucket, emitted, result>>

\* A result published before the last group is in it.
publishEarly ==
    /\ pc = "groups"
    /\ result' = pending
    /\ pc' = "done"
    /\ UNCHANGED <<rows, col, histograms, group, bucket, cumulative, emitted, pending>>

publish ==
    /\ pc = "groups" /\ Groups = emitted
    /\ result' = pending
    /\ pc' = "done"
    /\ UNCHANGED <<rows, col, histograms, group, bucket, cumulative, emitted, pending>>

Next == \/ execute
        \/ nextRow \/ skipNull \/ observe \/ rejectObservation \/ executionFails \/ endOfRows
        \/ beginGroup \/ finiteBucket \/ infBucket \/ publish

Spec == Init /\ [][Next]_vars

-----------------------------------------------------------------------------
(* The result against the rows.                                            *)

\* The rows that column c has seen and that are observations of key k.
Seen(c) == {j \in 1..Len(rows) : j < Len(rows) \/ c < col}
Observations(c, k) ==
    {j \in Seen(c) : encodeLabelTuple(rows[j].labels) = k /\ present(c, rows[j].data[c])}

Observation(c, j) == value(c, rows[j].data[c])

\* Those that a bucket, which is inclusive and cumulative, counts.
Below(c, k, le) ==
    {j \in Observations(c, k) : le <= Len(Bucket[c]) => Observation(c, j) <= Bucket[c][le]}

KeyOf(m) == encodeLabelTuple(m.labels)

(* Every bucket of a published histogram counts the observations of its    *)
(* label tuple up to its bound, that one included; +Inf and the count      *)
(* count them all (collector.go:366-371, 440-462).                         *)
BucketsCount ==
    pc = "done" => \A m \in result :
        /\ m.part = "bucket" => m.value = Cardinality(Below(m.col, KeyOf(m), m.le))
        /\ m.part = "count"  => m.value = Cardinality(Observations(m.col, KeyOf(m)))

SumOf(c, k) == SumFunction([j \in Observations(c, k) |-> Observation(c, j)])

(* The sum is that of the observations, scaled, with a NULL in place of    *)
(* which the default was counted (utils.go:140-182, collector.go:369).     *)
SumOfObservations ==
    pc = "done" => \A m \in result : m.part = "sum" => m.value = SumOf(m.col, KeyOf(m))

\* The series of a histogram whose buckets are those up to the n-th.
BucketSeries(n) == {"bucket"} \X (1..n)
AllSeries(c)    == BucketSeries(Inf(c)) \cup {<<"count", 0>>, <<"sum", 0>>}

series(S) == {<<m.part, m.le>> : m \in S}

(* A label tuple that was observed has all the series of its histogram,    *)
(* each once, and one that was not has none (collector.go:400-420).        *)
WholeHistograms ==
    pc = "done" => \A c \in Columns, l \in LabelTuples :
        series({m \in result : m.col = c /\ m.labels = l}) =
            IF \E j \in 1..Len(rows) : rows[j].labels = l /\ present(c, rows[j].data[c])
            THEN AllSeries(c) ELSE {}

(* What a histogram counts has its own labels: two tuples whose characters *)
(* run together the same never share one (utils.go:184-194).               *)
GroupsNeverMixed ==
    pc = "done" => \A m \in result : \A j \in Observations(m.col, KeyOf(m)) :
        rows[j].labels = m.labels

(* "one invalid observation invalidates the whole snapshot rather than     *)
(* publishing a partial distribution" (utils.go:138).                      *)
NoInvalidObservation ==
    pc = "done" => \A j \in 1..Len(rows), c \in Columns :
        LET d == rows[j].data[c] IN present(c, d) =>
            defaulted(c, d).kind # "invalid" /\ value(c, d) <= MaxFloat /\ -value(c, d) <= MaxFloat

-----------------------------------------------------------------------------
(* The inductive invariant behind these properties.                        *)

Inside(c, k, i) == {j \in Observations(c, k) : bucketIndex(c, Observation(c, j)) = i}

Accumulated ==
    pc # "failed" => \A c \in Columns, k \in Keys :
        /\ \A i \in 1..Inf(c) : histograms[c][k].counts[i] = Cardinality(Inside(c, k, i))
        /\ histograms[c][k].count = Cardinality(Observations(c, k))
        /\ histograms[c][k].sum = SumOf(c, k)
        /\ histograms[c][k].count > 0 =>
              histograms[c][k].labels \in LabelTuples /\ encodeLabelTuple(histograms[c][k].labels) = k

Before(c, k, n) == {j \in Observations(c, k) : bucketIndex(c, Observation(c, j)) < n}

Unrolled == pc = "buckets" => cumulative = Cardinality(Before(group[1], group[2], bucket))

RightValues(S) == \A m \in S :
    /\ m.part = "bucket" => m.le \in 1..Inf(m.col)
                            /\ m.value = Cardinality(Below(m.col, KeyOf(m), m.le))
    /\ m.part = "count"  => m.value = Cardinality(Observations(m.col, KeyOf(m)))
    /\ m.part = "sum"    => m.value = SumOf(m.col, KeyOf(m))

Emitted ==
    /\ pc = "rows" => pending = {}
    /\ pc \in {"groups", "buckets", "done"} => col = NCol + 1 /\ RightValues(pending)
    /\ pc = "done" => result = pending

OfGroup(S, g) == {m \in S : m.col = g[1] /\ KeyOf(m) = g[2]}

(* What is pending belongs to the groups that were emitted: all the series *)
(* of each, and the buckets so far of the one that is being emitted.       *)
GroupSeries ==
    /\ pc = "rows" => emitted = {}
    /\ pc \in {"groups", "buckets", "done"} =>
          /\ emitted \subseteq Groups
          /\ \A m \in pending : m.labels \in LabelTuples /\ <<m.col, KeyOf(m)>> \in emitted
          /\ \A g \in emitted :
                series(OfGroup(pending, g)) =
                    IF pc = "buckets" /\ g = group THEN BucketSeries(bucket - 1)
                                                  ELSE AllSeries(g[1])
    /\ pc = "buckets" => group \in emitted
    /\ pc = "done" => Groups = emitted

Valid == pc # "failed" => \A c \in Columns : \A j \in Seen(c) :
            present(c, rows[j].data[c]) => casts(c, rows[j].data[c])

HistogramInv == TypeOK /\ Accumulated /\ Unrolled /\ Emitted /\ GroupSeries /\ Valid
===============================================================================
