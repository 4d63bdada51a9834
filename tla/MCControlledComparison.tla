----------------------- MODULE MCControlledComparison -----------------------
(***************************************************************************)
(* An instance of ControlledComparison: a Run of two Executions, any mix   *)
(* of outcomes, promoted to up to two Baselines, one of them replayed.     *)
(* Sources and Baselines are interchangeable.  The performance evidence of *)
(* a pair, pure functions, is evaluated around its thresholds.             *)
(***************************************************************************)
EXTENDS Reporting, Performance, TLC

Symmetry == Permutations(Sources) \cup Permutations(Baselines)

Latencies == (0..8) \cup (1995..2005) \cup (2495..2505) \cup (10000..10002) \cup {None}

\* A pair has one performance state: a documented regression against a known
\* baseline is REGRESSED, and only a lower latency is IMPROVED.
ASSUME PairsClassified ==
  \A b, c \in Latencies :
    /\ b > 0 /\ c # None /\ DocumentedRegression(b, c) => PerformanceState(b, c) = "REGRESSED"
    /\ PerformanceState(b, c) = "IMPROVED" <=> b # None /\ c # None /\ c < b
    /\ PerformanceState(b, c) = "REGRESSED" => c - b >= 500 /\ 20000 * (c - b) >= 4999 * b

\* The quantiles of a sample are ordered, and the percentiles nearest ranks.
ASSUME QuantilesOrdered ==
  \A n \in 1..4 : \A s \in [1..n -> {0, 1, 3}] : Ascending(s) =>
    LET stats == LatencyStatistics(s)
    IN  stats.p50 <= stats.p90 /\ stats.p90 <= stats.p95

ASSUME RanksNearest == \A n \in 1..60, percent \in {90, 95} : NearestRank(n, percent, Rank(n, percent))

=============================================================================
