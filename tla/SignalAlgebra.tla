---------------------------- MODULE SignalAlgebra ----------------------------
(***************************************************************************)
(* The signal algebra of src/otlp/partition.go: Total*, Split*, Filter*,   *)
(* Partition* and the predefined key functions and filters, for spans,     *)
(* metrics and logs.                                                       *)
(*                                                                         *)
(* The three signals share the shape of the OTLP containers: a list of     *)
(* resource envelopes [res, schema, scopes], each scope envelope           *)
(* [scope, schema, items].  An item is a span [start, end], a log record   *)
(* [time, observed, sevText, sevNum], or a metric [name, kind, params,     *)
(* points] whose kind is one of the five point shapes or "none" (a nil     *)
(* Data) and whose points are [start, time].  Timestamps are unsigned      *)
(* W-bit integers, as the uint64 nanosecond fields are.                    *)
(*                                                                         *)
(* The functions are pure; the state machine below makes one call per      *)
(* behaviour so that TLC checks each result against the design's laws.     *)
(***************************************************************************)
EXTENDS Naturals, Integers, Sequences, SequencesExt, TLC

CONSTANTS
    W,          \* width of the timestamp fields (64 in the code)
    Inputs,     \* Inputs[sig]: the container lists a call is made on
    FilterLists,\* FilterLists[sig]: the filter arguments of Filter*
    KeyFns      \* KeyFns[sig]: the key functions passed to Partition*

ASSUME SignalAlgebraAssumption == W \in Nat \ {0, 1}

SignalNames == {"traces", "metrics", "logs"}

\* The five point shapes of Metric.Data; "none" is a nil Data.
PointKinds == {"Gauge", "Sum", "Summary", "Histogram", "ExponentialHistogram"}

\* time.Unix(0, int64(ns)): the uint64 reinterpreted as a signed integer.
ToInt64(u) == IF u >= 2^(W - 1) THEN u - 2^W ELSE u

-----------------------------------------------------------------------------
(* Split*.                                                                  *)

\* Mutant: the split metric built without the shape's parameters.
SplitMetricsDropParams(ms) ==
    FlattenSeq([i \in DOMAIN ms |->
        LET m == ms[i]
        IN  IF m.kind \notin PointKinds THEN <<>>
            ELSE [j \in DOMAIN m.points |-> [m EXCEPT !.points = <<m.points[j]>>, !.params = "none"]]])

\* splitMetrics: one metric per data point, keeping the metric's name,
\* description, unit, metadata and shape parameters; a metric with a nil
\* Data matches no case and yields nothing.
SplitMetrics(ms) ==
    FlattenSeq([i \in DOMAIN ms |->
        LET m == ms[i]
        IN  IF m.kind \notin PointKinds THEN <<>>
            ELSE [j \in DOMAIN m.points |-> [m EXCEPT !.points = <<m.points[j]>>]]])

\* The leaves of a scope's item list: spans and log records as they are,
\* metrics split per data point.
SplitLeaves(sig, items) == IF sig = "metrics" THEN SplitMetrics(items) ELSE items

\* splitScopeSpans / splitScopeMetrics / splitScopeLogs.
SplitScopes(sig, src) ==
    FlattenSeq([i \in DOMAIN src |->
        LET e == src[i]
            ls == SplitLeaves(sig, e.items)
        IN  [j \in DOMAIN ls |-> [e EXCEPT !.items = <<ls[j]>>]]])

\* SplitResourceSpans / SplitResourceMetrics / SplitResourceLogs.
SplitResources(sig, src) ==
    FlattenSeq([i \in DOMAIN src |->
        LET e == src[i]
            ss == SplitScopes(sig, e.scopes)
        IN  [j \in DOMAIN ss |-> [e EXCEPT !.scopes = <<ss[j]>>]]])

-----------------------------------------------------------------------------
(* Total*.                                                                  *)

SumOf(s, F(_)) == FoldLeft(LAMBDA acc, x : acc + F(x), 0, s)

\* Mutant: TotalDataPoints without its Gauge case.
ItemsTotalNoGauge(sig, items) ==
    IF sig = "metrics"
    THEN SumOf(items, LAMBDA m : IF m.kind \in PointKinds \ {"Gauge"} THEN Len(m.points) ELSE 0)
    ELSE Len(items)

\* The leaves an item list counts for: len(spans), len(logRecords), or the
\* data points of every metric whose Data is one of the five shapes.
ItemsTotal(sig, items) ==
    IF sig = "metrics"
    THEN SumOf(items, LAMBDA m : IF m.kind \in PointKinds THEN Len(m.points) ELSE 0)
    ELSE Len(items)

\* TotalSpans / TotalDataPoints / TotalLogRecords.
Total(sig, src) ==
    SumOf(src, LAMBDA e : SumOf(e.scopes, LAMBDA sc : ItemsTotal(sig, sc.items)))

-----------------------------------------------------------------------------
(* Filters.  A filter argument is a sequence of filters, each a time range  *)
(* [kind |-> "range", start, end] (the *InTimeRangeFilter functions, start  *)
(* and end being signed times) or a caller's predicate on the resource or  *)
(* on the scope.                                                           *)

\* SpanInTimeRangeFilter, MetricDataPointInTimeRangeFilter and
\* LogRecordInTimeRangeFilter take the range; the signal decides which
\* timestamps are tested.
SpanInTimeRangeFilter(start, end) == [kind |-> "range", start |-> start, end |-> end]
MetricDataPointInTimeRangeFilter(start, end) == [kind |-> "range", start |-> start, end |-> end]
LogRecordInTimeRangeFilter(start, end) == [kind |-> "range", start |-> start, end |-> end]

\* t.After(start) && t.Before(end).
InRange(t, f) == ToInt64(t) > f.start /\ ToInt64(t) < f.end

\* SpanInTimeRangeFilter, MetricDataPointInTimeRangeFilter (some data
\* point of the metric's shape in range; none for a nil Data) and
\* LogRecordInTimeRangeFilter.
InTimeRange(sig, f, item) ==
    CASE sig = "traces"  -> InRange(item.start, f) /\ InRange(item.end, f)
      [] sig = "metrics" -> item.kind \in PointKinds /\
                            \E j \in DOMAIN item.points : InRange(item.points[j].time, f)
      [] sig = "logs"    -> InRange(item.time, f)

Holds(sig, f, r, s, item) ==
    CASE f.kind = "range"    -> InTimeRange(sig, f, item)
      [] f.kind = "resource" -> r = f.res
      [] f.kind = "scope"    -> s = f.scope

\* andFilter: every filter holds (true for none).
AndFilter(sig, fs, r, s, item) == \A i \in DOMAIN fs : Holds(sig, fs[i], r, s, item)

\* Mutant: the filter loop run over the input instead of its split.
FilterUnsplit(sig, src, fs) ==
    FlattenSeq([i \in DOMAIN src |->
      LET e == src[i]
      IN  FlattenSeq([k \in DOMAIN e.scopes |->
            LET sc == e.scopes[k]
                ls == SplitLeaves(sig, sc.items)
            IN  FlattenSeq([l \in DOMAIN ls |->
                  IF AndFilter(sig, fs, e.res, sc.scope, ls[l]) THEN <<e>> ELSE <<>>])])])

\* FilterResourceSpans / FilterResourceMetrics / FilterResourceLogs: split,
\* then for every split tree append it once per leaf of it that passes.
Filter(sig, src, fs) ==
    LET sp == SplitResources(sig, src)
    IN  FlattenSeq([i \in DOMAIN sp |->
          LET e == sp[i]
          IN  FlattenSeq([k \in DOMAIN e.scopes |->
                LET sc == e.scopes[k]
                IN  FlattenSeq([l \in DOMAIN sc.items |->
                      IF AndFilter(sig, fs, e.res, sc.scope, sc.items[l])
                      THEN <<e>> ELSE <<>>])])])

-----------------------------------------------------------------------------
(* Key functions.  A key function is [kind, layout, tz]: the layout is the  *)
(* width of the windows a format string such as Hourly groups times into,  *)
(* tz the *time.Location as the set of its offset ({} for nil).            *)

\* time.Unix(0, int64(t)).In(tz).Format(format), nil tz being UTC.
FormatTime(t, key) ==
    LET off == IF key.tz = {} THEN 0 ELSE CHOOSE o \in key.tz : TRUE
    IN  ToString((ToInt64(t) + off) \div key.layout)

\* The key function constructors of partition.go.
PartitionBySpanStartTime(format, tz) == [kind |-> "spanStart", layout |-> format, tz |-> tz]
PartitionBySpanEndTime(format, tz) == [kind |-> "spanEnd", layout |-> format, tz |-> tz]
PartitionByMetricType == [kind |-> "metricType", layout |-> 1, tz |-> {}]
PartitionByMetricStartTime(format, tz) == [kind |-> "metricStart", layout |-> format, tz |-> tz]
PartitionByMetricTime(format, tz) == [kind |-> "metricTime", layout |-> format, tz |-> tz]
PartitionByLogTime(format, tz) == [kind |-> "logTime", layout |-> format, tz |-> tz]
PartitionByLogObservedTime(format, tz) == [kind |-> "logObserved", layout |-> format, tz |-> tz]
PartitionByLogSeverityNumber == [kind |-> "sevNumber", layout |-> 1, tz |-> {}]
PartitionByLogSeverityText == [kind |-> "sevText", layout |-> 1, tz |-> {}]

\* The key of a tree: "" when it has no scope or its first scope no item;
\* otherwise taken from the first item of the first scope.
KeyOf(sig, key, tree) ==
    IF tree.scopes = <<>> \/ tree.scopes[1].items = <<>> THEN ""
    ELSE LET it == tree.scopes[1].items[1]
         IN  CASE key.kind = "spanStart"   -> FormatTime(it.start, key)
               [] key.kind = "spanEnd"     -> FormatTime(it.end, key)
               [] key.kind = "metricType"  -> IF it.kind \in PointKinds THEN it.kind ELSE ""
               [] key.kind = "metricStart" ->
                     IF it.kind \notin PointKinds \/ it.points = <<>> THEN ""
                     ELSE FormatTime(it.points[1].start, key)
               [] key.kind = "metricTime"  ->
                     IF it.kind \notin PointKinds \/ it.points = <<>> THEN ""
                     ELSE FormatTime(it.points[1].time, key)
               [] key.kind = "logTime"     -> FormatTime(it.time, key)
               [] key.kind = "logObserved" -> FormatTime(it.observed, key)
               [] key.kind = "sevNumber"   -> it.sevText
               [] key.kind = "sevText"     -> it.sevText

-----------------------------------------------------------------------------
(* Append* (AppendResourceSpans / Metrics / Logs; not in this source tree,  *)
(* modelled from the design): the one-leaf tree joins the first envelope   *)
(* of equal resource and schema, and in it the first scope of equal scope  *)
(* and schema, its leaf appended; otherwise it is appended as it is.       *)
AppendResources(list, tree) ==
    LET ri == {i \in DOMAIN list : list[i].res = tree.res /\ list[i].schema = tree.schema}
        sc == tree.scopes[1]
    IN  IF ri = {} THEN Append(list, tree)
        ELSE LET i == Min(ri)
                 si == {j \in DOMAIN list[i].scopes :
                          list[i].scopes[j].scope = sc.scope /\ list[i].scopes[j].schema = sc.schema}
             IN  [list EXCEPT ![i].scopes =
                    IF si = {} THEN Append(@, sc)
                    ELSE [@ EXCEPT ![Min(si)].items = @ \o sc.items]]

-----------------------------------------------------------------------------
(* Partition*.                                                              *)

\* Mutant: m[key] = []{tree}, the bucket overwritten instead of appended to.
PartitionOverwrite(sig, src, key) ==
    LET sp == SplitResources(sig, src)
        m[i \in 0..Len(sp)] ==
            IF i = 0 THEN [k \in {} |-> <<>>]
            ELSE LET prev == m[i - 1]
                     k == KeyOf(sig, key, sp[i])
                 IN  [x \in DOMAIN prev \cup {k} |-> IF x = k THEN <<sp[i]>> ELSE prev[x]]
    IN  m[Len(sp)]

\* PartitionResourceSpans / Metrics / Logs: for every split tree in order,
\* m[key] = Append*(m[key], tree).
Partition(sig, src, key) ==
    LET sp == SplitResources(sig, src)
        m[i \in 0..Len(sp)] ==
            IF i = 0 THEN [k \in {} |-> <<>>]
            ELSE LET prev == m[i - 1]
                     k == KeyOf(sig, key, sp[i])
                     old == IF k \in DOMAIN prev THEN prev[k] ELSE <<>>
                 IN  [x \in DOMAIN prev \cup {k} |->
                        IF x = k THEN AppendResources(old, sp[i]) ELSE prev[x]]
    IN  m[Len(sp)]

-----------------------------------------------------------------------------
(* The exported functions of each signal.                                  *)

SplitResourceSpans(src) == SplitResources("traces", src)
SplitResourceMetrics(src) == SplitResources("metrics", src)
SplitResourceLogs(src) == SplitResources("logs", src)
TotalSpans(src) == Total("traces", src)
TotalDataPoints(src) == Total("metrics", src)
TotalLogRecords(src) == Total("logs", src)
FilterResourceSpans(src, fs) == Filter("traces", src, fs)
FilterResourceMetrics(src, fs) == Filter("metrics", src, fs)
FilterResourceLogs(src, fs) == Filter("logs", src, fs)
PartitionResourceSpans(src, key) == Partition("traces", src, key)
PartitionResourceMetrics(src, key) == Partition("metrics", src, key)
PartitionResourceLogs(src, key) == Partition("logs", src, key)

\* The function of signal s that a caller reaches for each operation.
SplitCall(s, src) == CASE s = "traces" -> SplitResourceSpans(src)
                       [] s = "metrics" -> SplitResourceMetrics(src)
                       [] s = "logs" -> SplitResourceLogs(src)
TotalCall(s, src) == CASE s = "traces" -> TotalSpans(src)
                       [] s = "metrics" -> TotalDataPoints(src)
                       [] s = "logs" -> TotalLogRecords(src)
FilterCall(s, src, fs) == CASE s = "traces" -> FilterResourceSpans(src, fs)
                            [] s = "metrics" -> FilterResourceMetrics(src, fs)
                            [] s = "logs" -> FilterResourceLogs(src, fs)
PartitionCall(s, src, key) == CASE s = "traces" -> PartitionResourceSpans(src, key)
                                [] s = "metrics" -> PartitionResourceMetrics(src, key)
                                [] s = "logs" -> PartitionResourceLogs(src, key)

-----------------------------------------------------------------------------
(* One call of the algebra on an input.                                    *)

VARIABLES sig, input, call, output

vars == <<sig, input, call, output>>

Init ==
    /\ sig \in SignalNames
    /\ input \in Inputs[sig]
    /\ call = [op |-> "none"]
    /\ output = <<>>

CallSplit ==
    /\ call.op = "none"
    /\ call' = [op |-> "split"]
    /\ output' = SplitCall(sig, input)
    /\ UNCHANGED <<sig, input>>

CallTotal ==
    /\ call.op = "none"
    /\ call' = [op |-> "total"]
    /\ output' = TotalCall(sig, input)
    /\ UNCHANGED <<sig, input>>

CallFilter ==
    /\ call.op = "none"
    /\ \E fs \in FilterLists[sig] :
          /\ call' = [op |-> "filter", filters |-> fs]
          /\ output' = FilterCall(sig, input, fs)
    /\ UNCHANGED <<sig, input>>

\* The map a Partition* call returns, as the set of its (key, list) pairs.
Buckets(m) == {[key |-> k, list |-> m[k]] : k \in DOMAIN m}

CallPartition ==
    /\ call.op = "none"
    /\ \E key \in KeyFns[sig] :
          /\ call' = [op |-> "partition", key |-> key]
          /\ output' = Buckets(PartitionCall(sig, input, key))
    /\ UNCHANGED <<sig, input>>

Next == CallSplit \/ CallTotal \/ CallFilter \/ CallPartition

Spec == Init /\ [][Next]_vars

-----------------------------------------------------------------------------
(***************************************************************************)
(* The design's contract for the algebra, stated over the leaves of the    *)
(* input: a leaf is named by its path of indices <<i, j, k>> (envelope,    *)
(* scope, item), and <<i, j, k, p>> for a data point p of a metric whose   *)
(* Data is set.                                                            *)
(***************************************************************************)

LeafPaths(sg, L) ==
    LET ItemAt(t) == L[t[1]].scopes[t[2]].items[t[3]]
        three == UNION {UNION {{<<i, j, k>> : k \in DOMAIN L[i].scopes[j].items}
                                 : j \in DOMAIN L[i].scopes}
                          : i \in DOMAIN L}
    IN  IF sg # "metrics" THEN three
        ELSE UNION {{<<t[1], t[2], t[3], p>> : p \in DOMAIN ItemAt(t).points}
                      : t \in {u \in three : ItemAt(u).kind \in PointKinds}}

\* Pre-order of the nesting: lexicographic order of the paths.
LexLess(a, b) == \E n \in DOMAIN a : a[n] < b[n] /\ \A m \in 1..n-1 : a[m] = b[m]

\* The one-leaf tree of a path: the leaf with its own envelope's and
\* scope's resource, scope and schema fields (and its metric's fields).
LeafTree(sg, L, path) ==
    LET e == L[path[1]]
        sc == e.scopes[path[2]]
        it == sc.items[path[3]]
        leaf == IF sg = "metrics" THEN [it EXCEPT !.points = <<it.points[path[4]]>>] ELSE it
    IN  [e EXCEPT !.scopes = <<[sc EXCEPT !.items = <<leaf>>]>>]

\* The one item of a one-leaf tree.
LeafOf(tree) == tree.scopes[1].items[1]

-----------------------------------------------------------------------------
(* Properties.                                                              *)

\* Split* lists exactly the input's leaves, in the pre-order of the
\* original nesting, each alone in a tree of one envelope, one scope and
\* one item (one data point for a metric) that carries its original
\* resource, scope and schema values; metrics with a nil Data contribute
\* nothing (invariants I1 and I2 and the Split* row of the design).
SplitIsPreorderOfLeaves ==
    call.op = "split" =>
        LET P == LeafPaths(sig, input)
        IN  /\ Len(output) = Cardinality(P)
            /\ \A path \in P :
                  output[Cardinality({q \in P : LexLess(q, path)}) + 1] = LeafTree(sig, input, path)

\* Total* counts the leaves Split* yields, data points of all five point
\* shapes included (the design's law Total(Split(L)) = Total(L)).
TotalCountsLeaves ==
    call.op = "total" =>
        /\ output = Cardinality(LeafPaths(sig, input))
        /\ output = Total(sig, SplitResources(sig, input))

\* Filter* returns, in order, the one-leaf trees of the input whose leaf
\* satisfies every filter, each exactly once: splitting before filtering
\* means no envelope is emitted once per matching child (the design's
\* law 4 and its open question on duplicates).
FilterSelectsMatchingLeaves ==
    call.op = "filter" =>
        output = SelectSeq(SplitResources(sig, input),
                           LAMBDA t : AndFilter(sig, call.filters, t.res, t.scopes[1].scope, LeafOf(t)))

\* Partition* has one bucket per key of a leaf, and bucket k holds, as a
\* multiset, exactly the one-leaf trees of the input whose key is k, its
\* leaves re-evaluating to k (the design's laws 2 and 3 and invariant I4:
\* the union of the buckets is the split input).
PartitionGroupsByKey ==
    call.op = "partition" =>
        LET sp == SplitResources(sig, input)
        IN  /\ {b.key : b \in output} = {KeyOf(sig, call.key, sp[i]) : i \in DOMAIN sp}
            /\ \A b \in output :
                  ToBag(SplitResources(sig, b.list))
                    = ToBag(SelectSeq(sp, LAMBDA t : KeyOf(sig, call.key, t) = b.key))

\* The timestamp a time key function formats.
KeyTime(key, leaf) ==
    CASE key.kind = "spanStart"   -> leaf.start
      [] key.kind = "spanEnd"     -> leaf.end
      [] key.kind = "metricStart" -> leaf.points[1].start
      [] key.kind = "metricTime"  -> leaf.points[1].time
      [] key.kind = "logTime"     -> leaf.time
      [] key.kind = "logObserved" -> leaf.observed

\* A time key function puts a leaf in the window of the zone that holds
\* its timestamp, an unsigned count of nanoseconds since the epoch (the
\* design: "start-time formatted in a zone").
TimeKeyIsWindowOfTimestamp ==
    (call.op = "partition" /\ call.key.kind \notin {"metricType", "sevText", "sevNumber"}) =>
        \A bk \in output :
            LET sp == SplitResources(sig, bk.list)
                off == IF call.key.tz = {} THEN 0 ELSE CHOOSE o \in call.key.tz : TRUE
            IN  \A a \in DOMAIN sp :
                    bk.key = ToString((KeyTime(call.key, LeafOf(sp[a])) + off) \div call.key.layout)

=============================================================================
