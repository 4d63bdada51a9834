----------------------------- MODULE Performance -----------------------------
(***************************************************************************)
(* The performance evidence: latency bands, relative deltas as the         *)
(* database stores them, what counts as a regression of a controlled pair, *)
(* and the quantiles of a Run.  Pure functions of latencies (milliseconds) *)
(* or token counts; a missing one is None.  A percentage is an integer in  *)
(* hundredths, rounded half up like the Decimal the code quantizes.        *)
(***************************************************************************)
EXTENDS Integers, Sequences

None == -1

\* PERFORMANCE_BANDS, best first.
Bands == <<"TARGET", "GOOD", "ACCEPTABLE", "SLOW", "BAD">>

\* The index in Bands of a latency; None for a missing one.
ClassifyLatency(ms) ==
  IF ms = None THEN None
  ELSE IF ms <= 1000 THEN 1
  ELSE IF ms <= 2000 THEN 2
  ELSE IF ms <= 5000 THEN 3
  ELSE IF ms <= 10000 THEN 4
  ELSE 5

\* n / d to the nearest integer, a half away from zero (ROUND_HALF_UP).
RoundHalfUp(n, d) ==
  IF n >= 0 THEN (2 * n + d) \div (2 * d) ELSE -((2 * (-n) + d) \div (2 * d))

Unknown == [known |-> FALSE, hundredths |-> 0]

\* There is no percentage of a missing or a zero baseline.
PercentDelta(base, current) ==
  IF base = None \/ current = None \/ base <= 0 THEN Unknown
  ELSE [known |-> TRUE, hundredths |-> RoundHalfUp(10000 * (current - base), base)]

Regressed(base, current) ==
  LET percent == PercentDelta(base, current)
  IN  current - base >= 500 /\ percent.known /\ percent.hundredths >= 2500

PerformanceState(base, current) ==
  IF base = None \/ current = None THEN "UNKNOWN"
  ELSE IF Regressed(base, current) THEN "REGRESSED"
  ELSE IF current - base < 0 THEN "IMPROVED"
  ELSE "STABLE"

BandDegraded(base, current) ==
  /\ base # None /\ current # None
  /\ ClassifyLatency(current) > ClassifyLatency(base)

\* The delta columns of ComparisonItem hold eight digits before the point: the
\* database refuses a larger percentage, and the completion with it.
FitsColumn(percent) == percent.hundredths < 100000000 * 100

-----------------------------------------------------------------------------
(* Quantiles of a sample, given in ascending order.                        *)

Ascending(s) == \A i, j \in 1..Len(s) : i <= j => s[i] <= s[j]

\* The clamped ceiling of percent * n / 100.
Rank(n, percent) ==
  LET k == (percent * n + 99) \div 100
  IN  IF k < 1 THEN 1 ELSE IF k > n THEN n ELSE k

Percentile(s, percent) == IF s = <<>> THEN None ELSE s[Rank(Len(s), percent)]

\* int(median(values)): the middle, or the mean of the two, cut to an integer.
IntMedian(s) ==
  LET half == Len(s) \div 2
  IN  IF s = <<>> THEN None
      ELSE IF Len(s) % 2 = 1 THEN s[half + 1]
      ELSE (s[half] + s[half + 1]) \div 2

LatencyStatistics(s) ==
  [count |-> Len(s), p50 |-> IntMedian(s), p90 |-> Percentile(s, 90), p95 |-> Percentile(s, 95)]

-----------------------------------------------------------------------------
(* What the documents say of them.                                         *)

\* evaluation-methodology.md: at least 25% slower and at least 500 ms slower.
DocumentedRegression(base, current) == current - base >= 500 /\ 4 * (current - base) >= base

\* The nearest rank: the least one that percent per cent of the sample reach.
NearestRank(n, percent, k) ==
  /\ k \in 1..n
  /\ 100 * k >= percent * n
  /\ \A j \in 1..n : 100 * j >= percent * n => k <= j

=============================================================================
