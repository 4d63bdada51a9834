-------------------------- MODULE PerformanceProofs --------------------------
(***************************************************************************)
(* What the performance evidence says for every latency, token count and   *)
(* sample size.  The quotients are characterized once, by the product that *)
(* bounds them; the thresholds then follow by linear arithmetic.           *)
(***************************************************************************)
EXTENDS Performance, TLAPS

\* An integer quotient is the one whose product with the divisor is within a
\* divisor of the dividend.
LEMMA Quotient ==
  ASSUME NEW n \in Int, NEW d \in Nat \ {0}
  PROVE  n \div d \in Int /\ d * (n \div d) <= n /\ n < d * (n \div d) + d
OBVIOUS

\* A percentage of at least 25.00 is reached from 24.995 on: the rounding of
\* the stored value moves the threshold by half a hundredth.
LEMMA RoundedThreshold ==
  ASSUME NEW delta \in Nat, NEW base \in Nat \ {0}
  PROVE  RoundHalfUp(10000 * delta, base) >= 2500 <=> 20000 * delta >= 4999 * base
<1> DEFINE n == 20000 * delta + base
           d == 2 * base
           q == n \div d
<1>1. n \in Int /\ d \in Nat \ {0}
  OBVIOUS
<1>2. q \in Int /\ d * q <= n /\ n < d * q + d
  <2> HIDE DEF n, d
  <2>1. QED
    BY <1>1, Quotient
<1>3. RoundHalfUp(10000 * delta, base) = q
  <2>1. 2 * (10000 * delta) + base = n /\ 10000 * delta >= 0
    OBVIOUS
  <2>2. QED
    BY <2>1 DEF RoundHalfUp
<1>4. ASSUME q >= 2500 PROVE 20000 * delta >= 4999 * base
  <2>1. d * q >= d * 2500
    BY <1>1, <1>2, <1>4
  <2>2. QED
    BY <1>2, <2>1
<1>5. ASSUME q < 2500 PROVE 20000 * delta < 4999 * base
  <2>1. q + 1 <= 2500
    BY <1>2, <1>5
  <2>2. d * (q + 1) <= d * 2500
    BY <1>1, <1>2, <2>1
  <2>3. d * (q + 1) = d * q + d
    BY <1>1, <1>2
  <2>4. QED
    BY <1>2, <2>2, <2>3
<1>6. QED
  BY <1>2, <1>3, <1>4, <1>5

\* A controlled pair is REGRESSED exactly when it is at least 500 ms and at
\* least 24.995 % slower than a baseline that took any time at all.
THEOREM RegressionThreshold ==
  \A base, current \in Nat :
    Regressed(base, current) <=>
      base > 0 /\ current - base >= 500 /\ 20000 * (current - base) >= 4999 * base
<1> SUFFICES ASSUME NEW base \in Nat, NEW current \in Nat
             PROVE  Regressed(base, current) <=>
                      base > 0 /\ current - base >= 500 /\ 20000 * (current - base) >= 4999 * base
  OBVIOUS
<1>1. CASE base = 0
  BY <1>1 DEF Regressed, PercentDelta, Unknown
<1>2. CASE base > 0 /\ current - base < 500
  BY <1>2 DEF Regressed
<1>3. CASE base > 0 /\ current - base >= 500
  <2>1. current - base \in Nat
    BY <1>3
  <2>2. PercentDelta(base, current) =
          [known |-> TRUE, hundredths |-> RoundHalfUp(10000 * (current - base), base)]
    BY <1>3 DEF PercentDelta, None
  <2> DEFINE delta == current - base
  <2>3. RoundHalfUp(10000 * delta, base) >= 2500 <=> 20000 * delta >= 4999 * base
    <3>1. delta \in Nat /\ base \in Nat \ {0}
      BY <1>3, <2>1
    <3> HIDE DEF delta
    <3>2. QED
      BY <3>1, RoundedThreshold
  <2>4. QED
    BY <1>3, <2>2, <2>3 DEF Regressed
<1>4. QED
  BY <1>1, <1>2, <1>3

\* Whatever the methodology calls a meaningful regression is REGRESSED, but
\* against a baseline of 0 ms, which has no percentage, nothing ever is.
THEOREM DocumentedRegressionsFound ==
  \A base, current \in Nat :
    DocumentedRegression(base, current) => Regressed(base, current) \/ base = 0
BY RegressionThreshold DEF DocumentedRegression

\* A regression is never an improvement, and the band of a slower answer is
\* never better: state and band of a pair do not contradict each other.
THEOREM StateAndBandAgree ==
  \A base, current \in Nat :
    /\ PerformanceState(base, current) = "IMPROVED" <=> current < base
    /\ PerformanceState(base, current) = "REGRESSED" => ClassifyLatency(current) >= ClassifyLatency(base)
    /\ BandDegraded(base, current) => current > base
<1> SUFFICES ASSUME NEW base \in Nat, NEW current \in Nat
             PROVE  /\ PerformanceState(base, current) = "IMPROVED" <=> current < base
                    /\ PerformanceState(base, current) = "REGRESSED" =>
                         ClassifyLatency(current) >= ClassifyLatency(base)
                    /\ BandDegraded(base, current) => current > base
  OBVIOUS
<1>1. \A ms \in Nat :
        ClassifyLatency(ms) = IF ms <= 1000 THEN 1 ELSE IF ms <= 2000 THEN 2
                              ELSE IF ms <= 5000 THEN 3 ELSE IF ms <= 10000 THEN 4 ELSE 5
  BY DEF ClassifyLatency, None
<1>2. current >= base => ClassifyLatency(current) >= ClassifyLatency(base)
  BY <1>1
<1>3. BandDegraded(base, current) => current > base
  BY <1>1 DEF BandDegraded
<1>4. QED
  BY <1>2, <1>3, RegressionThreshold DEF PerformanceState, None

\* The percentage column overflows from about a million times the baseline on,
\* and only there: an answer of 1 token or millisecond is the smallest case.
THEOREM ColumnOverflow ==
  \A base, current \in Nat :
    base > 0 /\ current >= base =>
      (FitsColumn(PercentDelta(base, current)) <=> 20000 * (current - base) < 19999999999 * base)
<1> SUFFICES ASSUME NEW base \in Nat, NEW current \in Nat, base > 0, current >= base
             PROVE  FitsColumn(PercentDelta(base, current)) <=>
                      20000 * (current - base) < 19999999999 * base
  OBVIOUS
<1> DEFINE delta == current - base
           n == 20000 * delta + base
           d == 2 * base
           q == n \div d
<1>1. n \in Int /\ d \in Nat \ {0} /\ delta \in Nat
  OBVIOUS
<1>2. q \in Int /\ d * q <= n /\ n < d * q + d
  <2> HIDE DEF n, d
  <2>1. QED
    BY <1>1, Quotient
<1>3. PercentDelta(base, current).hundredths = q
  BY <1>1 DEF PercentDelta, RoundHalfUp, None
<1>4. ASSUME q >= 10000000000 PROVE 20000 * delta >= 19999999999 * base
  <2>1. d * q >= d * 10000000000
    BY <1>1, <1>2, <1>4
  <2>2. QED
    BY <1>1, <1>2, <2>1
<1>5. ASSUME q < 10000000000 PROVE 20000 * delta < 19999999999 * base
  <2>1. d * (q + 1) <= d * 10000000000
    BY <1>1, <1>2, <1>5
  <2>2. d * (q + 1) = d * q + d
    BY <1>1, <1>2
  <2>3. QED
    BY <1>1, <1>2, <2>1, <2>2
<1>6. QED
  BY <1>2, <1>3, <1>4, <1>5 DEF FitsColumn

-----------------------------------------------------------------------------

\* percentile returns the nearest rank of the sample, whatever its size: the
\* clamping never changes it.
THEOREM PercentileIsNearestRank ==
  \A n \in Nat \ {0}, percent \in 1..100 : NearestRank(n, percent, Rank(n, percent))
<1> SUFFICES ASSUME NEW n \in Nat \ {0}, NEW percent \in 1..100
             PROVE  NearestRank(n, percent, Rank(n, percent))
  OBVIOUS
<1> DEFINE m == percent * n
           k == (m + 99) \div 100
<1>1. m \in Nat /\ m >= n /\ m <= 100 * n
  OBVIOUS
<1> HIDE DEF m
<1>2. k \in Int /\ 100 * k <= m + 99 /\ m + 99 < 100 * k + 100
  BY <1>1
<1>3. k \in 1..n
  BY <1>1, <1>2
<1>4. Rank(n, percent) = k
  BY <1>3 DEF Rank, m
<1> HIDE DEF k
<1>5. 100 * k >= m /\ \A j \in 1..n : 100 * j >= m => k <= j
  BY <1>1, <1>2
<1>6. QED
  BY <1>3, <1>4, <1>5 DEF NearestRank, m

\* The statistics of a sample are in order: the cut median is at most the 90th
\* percentile, and that at most the 95th.
THEOREM StatisticsOrdered ==
  \A s \in Seq(Nat) :
    s # <<>> /\ Ascending(s) =>
      LET stats == LatencyStatistics(s)
      IN  stats.p50 <= stats.p90 /\ stats.p90 <= stats.p95
<1> SUFFICES ASSUME NEW s \in Seq(Nat), s # <<>>, Ascending(s)
             PROVE  IntMedian(s) <= Percentile(s, 90) /\ Percentile(s, 90) <= Percentile(s, 95)
  BY DEF LatencyStatistics
<1> DEFINE n == Len(s)
           p == Rank(n, 90)
           q == Rank(n, 95)
           half == n \div 2
<1>1. n \in Nat \ {0} /\ \A i \in 1..n : s[i] \in Nat
  OBVIOUS
<1>2. /\ p \in 1..n /\ 100 * p >= 90 * n
      /\ q \in 1..n /\ 100 * q >= 95 * n
      /\ \A j \in 1..n : 100 * j >= 90 * n => p <= j
  BY <1>1, PercentileIsNearestRank DEF NearestRank
<1>3. Percentile(s, 90) = s[p] /\ Percentile(s, 95) = s[q]
  BY DEF Percentile
<1> HIDE DEF p, q
<1>4. s[p] <= s[q]
  <2>1. 100 * q >= 90 * n /\ p <= q
    BY <1>1, <1>2
  <2>2. QED
    BY <1>2, <2>1 DEF Ascending
<1>5. IntMedian(s) <= s[p]
  <2>1. CASE n % 2 = 1
    <3>1. IntMedian(s) = s[half + 1]
      BY <2>1 DEF IntMedian
    <3>2. n = 2 * half + 1 /\ half \in Nat
      BY <1>1, <2>1
    <3>3. half + 1 \in 1..n /\ half + 1 <= p
      BY <1>1, <1>2, <3>2
    <3>4. QED
      BY <1>2, <3>1, <3>3 DEF Ascending
  <2>2. CASE n % 2 = 0
    <3>1. IntMedian(s) = (s[half] + s[half + 1]) \div 2
      BY <2>2 DEF IntMedian
    <3>2. n = 2 * half /\ half \in Nat \ {0}
      BY <1>1, <2>2
    <3>3. half \in 1..n /\ half + 1 \in 1..n /\ half + 1 <= p
      BY <1>1, <1>2, <3>2
    <3>4. s[half] <= s[p] /\ s[half + 1] <= s[p]
      BY <1>2, <3>3 DEF Ascending
    <3>5. s[half] \in Nat /\ s[half + 1] \in Nat /\ s[p] \in Nat
      BY <1>1, <1>2, <3>3
    <3>6. QED
      BY <3>1, <3>4, <3>5
  <2>3. QED
    BY <1>1, <2>1, <2>2
<1>6. QED
  BY <1>3, <1>4, <1>5

=============================================================================
