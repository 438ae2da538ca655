--------------------------- MODULE MCSignalAlgebra ---------------------------
(* Small instances of SignalAlgebra: 4-bit timestamps (8..15 are negative  *)
(* as int64), two resources, two scopes, lists of up to two envelopes of   *)
(* up to two scopes, at most two items per envelope and three in all, so  *)
(* that split trees meet equal and different resources and scopes in      *)
(* Append* and keys collide and differ.                                    *)
EXTENDS SignalAlgebra

MCW == 4

S1 == [start |-> 2, end |-> 5]
S2 == [start |-> 6, end |-> 9]

L1 == [time |-> 1, observed |-> 2, sevText |-> "INFO", sevNum |-> 9]
L2 == [time |-> 9, observed |-> 6, sevText |-> "INFO", sevNum |-> 10]

P1 == [start |-> 1, time |-> 3]
P2 == [start |-> 3, time |-> 12]
P3 == [start |-> 0, time |-> 5]
M1 == [name |-> "m", kind |-> "Sum", params |-> "monotonic", points |-> <<P1, P2>>]
M2 == [name |-> "g", kind |-> "Gauge", params |-> "none", points |-> <<P3>>]
M3 == [name |-> "n", kind |-> "none", params |-> "none", points |-> <<>>]

ItemCount(L) == Cardinality(UNION {UNION {{<<i, j, k>> : k \in DOMAIN L[i].scopes[j].items}
                                            : j \in DOMAIN L[i].scopes} : i \in DOMAIN L})

\* Scope lists with at most two items in all.
ScopeLists(items) ==
    {ss \in BoundedSeq([scope : {"s1", "s2"}, schema : {"u"}, items : BoundedSeq(items, 2)], 2) :
        ss = <<>> \/ Len(ss) = 1 \/ Len(ss[1].items) + Len(ss[2].items) <= 2}

Lists(items, n) ==
    {L \in BoundedSeq([res : {"r1", "r2"}, schema : {"u"}, scopes : ScopeLists(items)], n) :
        ItemCount(L) <= 3}

MCInputs == [s \in SignalNames |->
                CASE s = "traces" -> Lists({S1, S2}, 2)
                  [] s = "logs"   -> Lists({L1, L2}, 2)
                  [] s = "metrics" -> Lists({M1, M2, M3}, 2)]

MCFilterLists == [s \in SignalNames |->
                    LET InRangeOf(a, b) ==
                          CASE s = "traces"  -> SpanInTimeRangeFilter(a, b)
                            [] s = "metrics" -> MetricDataPointInTimeRangeFilter(a, b)
                            [] s = "logs"    -> LogRecordInTimeRangeFilter(a, b)
                    IN  {<<>>, <<InRangeOf(1, 6)>>, <<[kind |-> "scope", scope |-> "s2"]>>,
                         <<[kind |-> "resource", res |-> "r1"], InRangeOf(-8, 4)>>}]

\* Windows of 4 time units (a format such as Hourly), in UTC (a nil
\* location) and in zones 1 and 2 units east.
MCKeyFns == [s \in SignalNames |->
               CASE s = "traces" -> {PartitionBySpanStartTime(4, {}), PartitionBySpanEndTime(4, {2})}
                 [] s = "metrics" -> {PartitionByMetricType, PartitionByMetricStartTime(4, {}),
                                      PartitionByMetricTime(4, {1})}
                 [] s = "logs" -> {PartitionByLogTime(4, {}), PartitionByLogObservedTime(4, {1}),
                                   PartitionByLogSeverityText, PartitionByLogSeverityNumber}]
=============================================================================
