------------------------------ MODULE Telemetry_proofs ------------------------------
(***************************************************************************)
(* What is derived from the stream of statuses.  The timeline stays sorted *)
(* and bounded, and interpolate answers every query as interpolation is    *)
(* defined; the estimator's window holds the last intervals, its latency   *)
(* lies between measured round trips and the state's age is the true one:  *)
(* for every capacity, gap, window, smoothing, word, clock and reading.    *)
(***************************************************************************)
EXTENDS Telemetry, SequenceTheorems, FiniteSetTheorems, WellFoundedInduction, TLAPS

USE TimelineAssumption

TimelineInv == TypeOK /\ SortedAndBounded

(* A non-empty set of numbers has a least one: the sample a scan stops at. *)
LEMMA LeastNat == ASSUME NEW T, T \subseteq Nat, T # {} PROVE \E x \in T : \A y \in T : x <= y
<1> DEFINE R == OpToRel(<, Nat)
<1>1. IsWellFoundedOn(R, Nat)
  BY NatLessThanWellFounded
<1>2. \A x, y \in Nat : <<x, y>> \in R <=> x < y
  BY DEF OpToRel
<1> HIDE DEF R
<1>3. PICK x \in T : \A y \in T : ~ (<<y, x>> \in R)
  BY <1>1, WFMin
<1>4. ASSUME NEW y \in T PROVE x <= y
  <2>1. x \in Nat /\ y \in Nat
    OBVIOUS
  <2>2. ~(y < x)
    BY <1>2, <1>3, <2>1, Zenon
  <2>3. QED
    BY <2>1, <2>2
<1>5. QED
  BY <1>4

(* Induction, for a set of numbers rather than a predicate.                *)
LEMMA AllNats ==
  ASSUME NEW N, N \subseteq Nat, 0 \in N, \A n \in N : n + 1 \in N
  PROVE  N = Nat
<1> SUFFICES ASSUME Nat \ N # {} PROVE FALSE
  OBVIOUS
<1>1. PICK n \in Nat \ N : \A m \in Nat \ N : n <= m
  BY LeastNat
<1>2. n # 0 /\ n - 1 \in Nat /\ ~(n <= n - 1)
  BY <1>1
<1>3. n - 1 \in N
  BY <1>1, <1>2
<1>4. (n - 1) + 1 \in N /\ (n - 1) + 1 = n
  BY <1>2, <1>3
<1>5. QED
  BY <1>1, <1>4

-----------------------------------------------------------------------------
LEMMA TimeIsNat == ASSUME NEW s \in Sample PROVE s.ts \in Nat
  BY DEF Sample

(* A newer sample at the end keeps a sorted sequence sorted.               *)
LEMMA AppendKeepsSorted ==
  ASSUME NEW m \in Seq(Sample), NEW s \in Sample,
         \A i, j \in 1 .. Len(m) : i < j => m[i].ts < m[j].ts,
         m # <<>> => m[Len(m)].ts < s.ts
  PROVE  \A i, j \in 1 .. Len(Append(m, s)) :
           i < j => Append(m, s)[i].ts < Append(m, s)[j].ts
<1> SUFFICES ASSUME NEW i \in 1 .. Len(m) + 1, NEW j \in 1 .. Len(m) + 1, i < j
             PROVE  Append(m, s)[i].ts < Append(m, s)[j].ts
  BY AppendProperties
<1>1. Len(m) \in Nat /\ i \in 1 .. Len(m) /\ m # <<>>
  BY LenProperties
<1>2. Append(m, s)[i] = m[i] /\ m[i].ts \in Nat /\ m[Len(m)].ts \in Nat /\ s.ts \in Nat
  <2>1. m[i] \in Sample /\ m[Len(m)] \in Sample
    BY <1>1, LenProperties
  <2>2. Append(m, s)[i] = m[i]
    BY <1>1, AppendProperties
  <2>3. QED
    BY <2>1, <2>2, TimeIsNat
<1>3. m[i].ts <= m[Len(m)].ts
  <2>1. CASE i = Len(m)
    BY <1>2, <2>1
  <2>2. CASE i # Len(m)
    BY <1>1, <1>2, <2>2
  <2>3. QED
    BY <2>1, <2>2
<1>4. CASE j = Len(m) + 1
  <2>1. Append(m, s)[j] = s
    BY <1>4, AppendProperties
  <2>2. QED
    BY <1>1, <1>2, <1>3, <2>1
<1>5. CASE j # Len(m) + 1
  <2>1. j \in 1 .. Len(m)
    BY <1>1, <1>5
  <2>2. Append(m, s)[j] = m[j]
    BY <2>1, AppendProperties
  <2>3. QED
    BY <1>1, <1>2, <2>1, <2>2
<1>6. QED
  BY <1>4, <1>5

LEMMA InitEstablishes == Init => TimelineInv
<1> SUFFICES ASSUME Init PROVE TimelineInv
  OBVIOUS
<1>1. <<>> \in Seq(Sample) /\ Len(<<>>) = 0
  OBVIOUS
<1>2. QED
  BY <1>1 DEF Init, TimelineInv, TypeOK, SortedAndBounded

LEMMA ClearPreserves == ASSUME TimelineInv, clear PROVE TimelineInv'
<1>1. <<>> \in Seq(Sample) /\ Len(<<>>) = 0
  OBVIOUS
<1>2. QED
  BY <1>1 DEF clear, TimelineInv, TypeOK, SortedAndBounded

LEMMA PushPreserves == ASSUME TimelineInv, NEW s \in Sample, push(s) PROVE TimelineInv'
<1> USE DEF TimelineInv, TypeOK, SortedAndBounded
<1>1. CASE Rejected(s)
  BY <1>1 DEF push
<1>2. CASE ~Rejected(s)
  <2>1. /\ Capacity > 0
        /\ m_samples # <<>> => Back.ts < s.ts
    <3>1. m_samples # <<>> => Back.ts \in Nat
      <4>1. m_samples # <<>> => Back \in Sample
        BY LenProperties DEF Back
      <4>2. QED
        BY <4>1, TimeIsNat
    <3>2. s.ts \in Nat
      BY TimeIsNat
    <3>3. QED
      BY <1>2, <3>1, <3>2 DEF Rejected
  <2>2. CASE Len(m_samples) < Capacity
    <3>1. m_samples' = Append(m_samples, s)
      BY <1>2, <2>2 DEF push
    <3>2. m_samples' \in Seq(Sample) /\ Len(m_samples') <= Capacity
      BY <2>2, <3>1, AppendProperties, LenProperties
    <3>3. QED
      BY <2>1, <3>1, <3>2, AppendKeepsSorted DEF Back
  <2>3. CASE ~(Len(m_samples) < Capacity)
    <3> DEFINE rest == Tail(m_samples)
    <3>1. m_samples # <<>> /\ Len(m_samples) = Capacity
      BY <2>1, <2>3, LenProperties
    <3>2. /\ rest \in Seq(Sample) /\ Len(rest) = Len(m_samples) - 1
          /\ \A i \in 1 .. Len(rest) : rest[i] = m_samples[i + 1]
      BY <3>1, HeadTailProperties
    <3>3. m_samples' = Append(rest, s)
      BY <1>2, <2>3 DEF push
    <3> HIDE DEF rest
    <3>4. \A i, j \in 1 .. Len(rest) : i < j => rest[i].ts < rest[j].ts
      <4> SUFFICES ASSUME NEW i \in 1 .. Len(rest), NEW j \in 1 .. Len(rest), i < j
                   PROVE  rest[i].ts < rest[j].ts
        OBVIOUS
      <4>1. i + 1 \in 1 .. Len(m_samples) /\ j + 1 \in 1 .. Len(m_samples) /\ i + 1 < j + 1
        BY <3>1, <3>2
      <4>2. rest[i] = m_samples[i + 1] /\ rest[j] = m_samples[j + 1]
        BY <3>2
      <4>3. QED
        BY <4>1, <4>2
    <3>5. rest # <<>> => rest[Len(rest)].ts < s.ts
      <4> SUFFICES ASSUME rest # <<>> PROVE rest[Len(rest)] = Back
        BY <2>1, <3>1
      <4>1. Len(rest) \in 1 .. Len(rest)
        BY <3>2, LenProperties
      <4>2. QED
        BY <3>1, <3>2, <4>1 DEF Back
    <3>6. m_samples' \in Seq(Sample) /\ Len(m_samples') <= Capacity
      BY <3>1, <3>2, <3>3, AppendProperties, LenProperties
    <3>7. QED
      BY <3>2, <3>3, <3>4, <3>5, <3>6, AppendKeepsSorted
  <2>4. QED
    BY <2>2, <2>3
<1>3. QED
  BY <1>1, <1>2

(* TimelineInv holds of every behaviour.                                   *)
THEOREM TimelineInvariant == Spec => []TimelineInv
<1>1. TimelineInv /\ UNCHANGED m_samples => TimelineInv'
  BY DEF TimelineInv, TypeOK, SortedAndBounded
<1>2. TimelineInv /\ [Next]_m_samples => TimelineInv'
  BY <1>1, PushPreserves, ClearPreserves DEF Next
<1>3. QED
  BY InitEstablishes, <1>2, PTL DEF Spec

(* At most Capacity samples, strictly ordered by device time.              *)
THEOREM TimelineSorted == Spec => []SortedAndBounded
<1>1. TimelineInv => SortedAndBounded
  BY DEF TimelineInv
<1>2. QED
  BY <1>1, TimelineInvariant, PTL

-----------------------------------------------------------------------------
(* The scan in interpolate stops, at the first sample not older than t.    *)
LEMMA ScanStops ==
  ASSUME TimelineInv, NEW t \in Times, Covers(t)
  PROVE  /\ FirstNotBefore(t) \in 1 .. Len(m_samples)
         /\ m_samples[FirstNotBefore(t)].ts >= t
         /\ \A j \in 1 .. FirstNotBefore(t) - 1 : m_samples[j].ts < t
<1> DEFINE NotBefore == {i \in 1 .. Len(m_samples) : m_samples[i].ts >= t}
<1>1. Len(m_samples) \in 1 .. Len(m_samples) /\ t \in Nat
  BY LenProperties DEF TimelineInv, TypeOK, Covers
<1>2. \A i \in 1 .. Len(m_samples) : m_samples[i].ts \in Nat
  BY TimeIsNat, LenProperties DEF TimelineInv, TypeOK
<1>3. NotBefore \subseteq Nat /\ NotBefore # {}
  BY <1>1, <1>2 DEF Covers, Back
<1>4. PICK i \in NotBefore : \A k \in NotBefore : i <= k
  BY <1>3, LeastNat
<1>5. \A j \in 1 .. i - 1 : m_samples[j].ts < t
  <2> SUFFICES ASSUME NEW j \in 1 .. i - 1 PROVE m_samples[j].ts < t
    OBVIOUS
  <2>1. j \in 1 .. Len(m_samples) /\ ~(i <= j)
    BY <1>1, <1>4
  <2>2. ~(m_samples[j].ts >= t)
    BY <1>4, <2>1
  <2>3. QED
    BY <1>1, <1>2, <2>1, <2>2
<1>6. \E k \in 1 .. Len(m_samples) :
        m_samples[k].ts >= t /\ \A j \in 1 .. k - 1 : m_samples[j].ts < t
  BY <1>4, <1>5
<1>7. QED
  BY <1>6 DEF FirstNotBefore

(* interpolate agrees with the definition of interpolation on every query. *)
LEMMA InterpolateMeets ==
  ASSUME TimelineInv, NEW t \in Times
  PROVE  IsInterpolation(interpolate(t), t)
<1> DEFINE n == Len(m_samples)
           i == FirstNotBefore(t)
<1>1. t \in Nat /\ n \in Nat
  BY LenProperties DEF TimelineInv, TypeOK
<1>2. \A k \in 1 .. n : m_samples[k] \in Held /\ m_samples[k].ts \in Nat
  BY TimeIsNat, LenProperties DEF Held, TimelineInv, TypeOK
<1>3. \A j, k \in 1 .. n : j <= k => m_samples[j].ts <= m_samples[k].ts
  <2> SUFFICES ASSUME NEW j \in 1 .. n, NEW k \in 1 .. n, j <= k
               PROVE  m_samples[j].ts <= m_samples[k].ts
    OBVIOUS
  <2>1. CASE j = k
    BY <1>2, <2>1
  <2>2. CASE j < k
    <3>1. m_samples[j].ts < m_samples[k].ts
      BY <2>2 DEF TimelineInv, SortedAndBounded
    <3>2. QED
      BY <1>2, <3>1
  <2>3. QED
    BY <2>1, <2>2
<1>4. CASE ~Covers(t)
  <2>1. interpolate(t) = None
    BY <1>4 DEF interpolate
  <2>2. CASE n = 0
    BY <2>1, <2>2 DEF IsInterpolation, Held
  <2>3. CASE n # 0
    <3>1. m_samples # <<>> /\ 1 \in 1 .. n /\ n \in 1 .. n
      BY <1>1, <2>3
    <3>2. t < m_samples[1].ts \/ m_samples[n].ts < t
      BY <1>1, <1>2, <1>4, <3>1 DEF Covers, Back
    <3>3. \A k \in 1 .. n : m_samples[1].ts <= m_samples[k].ts /\ m_samples[k].ts <= m_samples[n].ts
      BY <1>3, <3>1
    <3>4. (\A k \in 1 .. n : m_samples[k].ts < t) \/ (\A k \in 1 .. n : t < m_samples[k].ts)
      BY <1>1, <1>2, <3>1, <3>2, <3>3
    <3>5. QED
      BY <2>1, <3>4 DEF IsInterpolation, Held
  <2>4. QED
    BY <2>2, <2>3
<1>5. CASE Covers(t)
  <2> DEFINE after == m_samples[i]
             before == m_samples[i - 1]
  <2>1. /\ i \in 1 .. n /\ after.ts >= t
        /\ \A j \in 1 .. i - 1 : m_samples[j].ts < t
    BY <1>5, ScanStops
  <2>2. after \in Held /\ after.ts \in Nat
    BY <1>2, <2>1
  <2> HIDE DEF i
  <2>3. CASE i = 1 \/ after.ts = t
    <3>1. after.ts = t
      BY <1>1, <1>5, <2>1, <2>2, <2>3 DEF Covers
    <3>2. interpolate(t) = Exact(after)
      BY <1>5, <2>3 DEF interpolate, i
    <3>3. QED
      BY <2>2, <3>1, <3>2 DEF IsInterpolation
  <2>4. CASE ~(i = 1 \/ after.ts = t)
    <3>1. i - 1 \in 1 .. n /\ i - 1 \in 1 .. i - 1
      BY <1>1, <2>1, <2>4
    <3>2. before \in Held /\ before.ts < t /\ t < after.ts /\ before.ts \in Nat
      BY <1>1, <1>2, <2>1, <2>2, <2>4, <3>1
    <3>3. \A s \in Held : s.ts <= before.ts \/ after.ts <= s.ts
      <4> SUFFICES ASSUME NEW k \in 1 .. n
                   PROVE  m_samples[k].ts <= before.ts \/ after.ts <= m_samples[k].ts
        BY DEF Held
      <4>1. k <= i - 1 \/ i <= k
        BY <1>1, <2>1
      <4>2. QED
        BY <1>3, <2>1, <3>1, <4>1
    <3>4. interpolate(t) = Between(before, after, t)
      BY <1>5, <2>4 DEF interpolate, i
    <3>5. QED
      BY <2>2, <3>2, <3>3, <3>4 DEF IsInterpolation
  <2>5. QED
    BY <2>3, <2>4
<1>6. QED
  BY <1>4, <1>5

(* Every query is answered as interpolation is defined.                    *)
THEOREM InterpolationIsCorrect == Spec => []InterpolateCorrect
<1>1. TimelineInv => InterpolateCorrect
  BY InterpolateMeets DEF InterpolateCorrect
<1>2. QED
  BY <1>1, TimelineInvariant, PTL

-----------------------------------------------------------------------------
(* The estimator: its times, as the history has them.                      *)
Last  == IF arrivals = <<>> THEN 0 ELSE arrivals[Len(arrivals)]
Known == IF arrivals = <<>> THEN 0 ELSE Len(arrivals) - 1

TimesInv ==
  /\ clock \in 0 .. MaxTime
  /\ arrivals \in Seq(Nat \ {0}) /\ Last <= clock
  /\ m_recv_time_us = Last /\ m_prev_recv_time_us = Last
  /\ asked # Idle => asked \in 0 .. clock
  /\ asked # Idle /\ ~overtaken => Last <= asked

(* The interval before arrival k + 1 is at its place of the ring until     *)
(* Window more have come.                                                  *)
RingInv ==
  /\ m_intervals \in [0 .. Window - 1 -> Nat]
  /\ m_window_idx = Known % Window
  /\ m_window_count = IF Known < Window THEN Known ELSE Window
  /\ \A k \in 1 .. Known :
       Known - Window < k => m_intervals[(k - 1) % Window] = arrivals[k + 1] - arrivals[k]

(* The latency and the round trips it was made of.                         *)
RttInv ==
  /\ ~m_has_valid_rtt => m_smoothed_rtt = 0 /\ measured = <<>>
  /\ m_has_valid_rtt => /\ measured # <<>> /\ measured[1] \in Nat /\ measured[2] \in Nat
                        /\ m_smoothed_rtt \in measured[1] .. measured[2]
                        /\ measured[2] > clock => foreign

(* The jitter is that of the ring, as soon as it holds enough.             *)
JitterInv == m_jitter_us = IF m_window_count < Enough THEN 0 ELSE Spread(m_intervals, m_window_count)

EstimatorInv == TimesInv /\ RingInv /\ JitterInv /\ RttInv

LEMMA MinMaxOfTwo ==
  ASSUME NEW a \in Nat, NEW b \in Nat
  PROVE  /\ Min({a, b}) \in {a, b} /\ Min({a, b}) <= a /\ Min({a, b}) <= b
         /\ Max({a, b}) \in {a, b} /\ a <= Max({a, b}) /\ b <= Max({a, b})
<1>1. \E x \in {a, b} : \A y \in {a, b} : x <= y
  OBVIOUS
<1>2. \E x \in {a, b} : \A y \in {a, b} : x >= y
  OBVIOUS
<1>3. Min({a, b}) \in {a, b} /\ \A y \in {a, b} : Min({a, b}) <= y
  BY <1>1 DEF Min
<1>4. Max({a, b}) \in {a, b} /\ \A y \in {a, b} : Max({a, b}) >= y
  BY <1>2 DEF Max
<1>5. QED
  BY <1>3, <1>4

(* The mean of two numbers lies between them, however it is weighed.       *)
LEMMA SmoothedBetween ==
  ASSUME NEW lo \in Nat, NEW hi \in Nat, NEW old \in lo .. hi, NEW new \in lo .. hi
  PROVE  Smoothed(old, new) \in lo .. hi
<1>1. Alpha \in {0, 1, 2, 3, 4, 5, 6, 7, 8, 9, 10}
  BY EstimatorAssumption
<1>2. QED
  BY <1>1 DEF Smoothed

(* Time stamps of one clock do not wrap.                                   *)
LEMMA NoWrap == ASSUME NEW x \in 0 .. Word - 1 PROVE x % Word = x
<1>1. Word \in Nat /\ 1 <= Word
  BY EstimatorAssumption
<1>2. QED
  BY <1>1

LEMMA Wraps == ASSUME NEW x \in Int PROVE x % Word \in 0 .. Word - 1
<1>1. Word \in Nat /\ 1 <= Word
  BY EstimatorAssumption
<1>2. QED
  BY <1>1

-----------------------------------------------------------------------------
(* A status of the current time, not the first one known, adds an interval.*)
LEMMA LastIsKnown ==
  ASSUME TimesInv
  PROVE  /\ Last \in 0 .. clock /\ Known \in Nat /\ (Last = 0 <=> arrivals = <<>>)
         /\ arrivals # <<>> => Len(arrivals) = Known + 1 /\ arrivals[Known + 1] = Last
<1>1. clock \in Nat /\ arrivals \in Seq(Nat \ {0}) /\ Last <= clock
  BY TelemetryAssumption DEF TimesInv
<1>2. CASE arrivals = <<>>
  BY <1>1, <1>2 DEF Last, Known
<1>3. CASE arrivals # <<>>
  <2>1. Len(arrivals) \in 1 .. Len(arrivals) /\ arrivals[Len(arrivals)] \in Nat \ {0} /\ Len(arrivals) \in Nat
    BY <1>1, <1>3, LenProperties, EmptySeq
  <2>2. QED
    BY <1>1, <1>3, <2>1 DEF Last, Known
<1>4. QED
  BY <1>2, <1>3

LEMMA Arrives ==
  ASSUME TimesInv, arrivals' = IF clock > 0 THEN Append(arrivals, clock) ELSE arrivals
  PROVE  /\ arrivals' \in Seq(Nat \ {0}) /\ Last' = clock
         /\ Known' = IF Last > 0 THEN Known + 1 ELSE 0
         /\ Last > 0 => /\ arrivals'[Known + 2] = clock /\ arrivals'[Known + 1] = Last
                        /\ \A k \in 1 .. Known + 1 : arrivals'[k] = arrivals[k]
<1>1. /\ clock \in Nat /\ arrivals \in Seq(Nat \ {0})
      /\ Last \in 0 .. clock /\ Known \in Nat /\ (Last = 0 <=> arrivals = <<>>)
      /\ arrivals # <<>> => Len(arrivals) = Known + 1 /\ arrivals[Known + 1] = Last
  BY LastIsKnown, TelemetryAssumption DEF TimesInv
<1>2. CASE clock = 0
  BY <1>1, <1>2 DEF Last, Known
<1>3. CASE clock > 0
  <2> DEFINE more == Append(arrivals, clock)
  <2>1. /\ more \in Seq(Nat \ {0}) /\ Len(more) = Len(arrivals) + 1 /\ more # <<>>
        /\ more[Len(arrivals) + 1] = clock /\ Len(arrivals) \in Nat
        /\ \A k \in 1 .. Len(arrivals) : more[k] = arrivals[k]
    BY <1>1, <1>3, AppendProperties, LenProperties, EmptySeq
  <2>2. arrivals' = more
    BY <1>3
  <2> HIDE DEF more
  <2>3. Last' = clock /\ Known' = Len(arrivals)
    BY <2>1, <2>2 DEF Last, Known
  <2>4. arrivals = <<>> => Len(arrivals) = 0
    BY EmptySeq
  <2>5. QED
    BY <1>1, <2>1, <2>2, <2>3, <2>4
<1>4. QED
  BY <1>1, <1>2, <1>3

LEMMA TimesStay ==
  ASSUME TimesInv, TelemetryNext PROVE TimesInv'
<1>0. /\ MaxTime \in Nat /\ clock \in 0 .. MaxTime /\ Last \in 0 .. clock
      /\ asked # Idle => asked \in 0 .. clock
  BY LastIsKnown, TelemetryAssumption DEF TimesInv
<1>1. CASE Tick
  <2>1. clock' \in 0 .. MaxTime /\ clock' = clock + 1 /\ Last' = Last
    BY <1>0, <1>1 DEF Tick, history, Last
  <2>2. asked' # Idle => asked' \in 0 .. clock'
    BY <1>0, <1>1, <2>1 DEF Tick
  <2>3. QED
    BY <1>0, <1>1, <2>1, <2>2 DEF Tick, history, estimator, TimesInv
<1>2. CASE NewStatus
  <2>1. /\ UNCHANGED <<clock, asked>>
        /\ arrivals' = IF clock > 0 THEN Append(arrivals, clock) ELSE arrivals
        /\ m_recv_time_us' = clock /\ m_prev_recv_time_us' = clock
        /\ overtaken' = (overtaken \/ asked # Idle)
    BY <1>2 DEF NewStatus, markReceived
  <2>2. arrivals' \in Seq(Nat \ {0}) /\ Last' = clock
    BY <2>1, Arrives
  <2>3. ~(asked' # Idle /\ ~overtaken')
    BY <2>1
  <2>4. QED
    BY <1>0, <2>1, <2>2, <2>3 DEF TimesInv
<1>3. CASE StateAgeAsks
  <2>1. Last' = Last /\ asked' = clock /\ UNCHANGED <<clock, arrivals, estimator>>
    BY <1>3 DEF StateAgeAsks, Last
  <2>2. QED
    BY <1>0, <2>1 DEF estimator, TimesInv
<1>4. CASE StateAgeReturns
  <2>1. Last' = Last /\ asked' = Idle /\ UNCHANGED <<clock, arrivals, estimator>>
    BY <1>4 DEF StateAgeReturns, history, Last
  <2>2. QED
    BY <1>0, <2>1 DEF estimator, TimesInv
<1>5. QED
  BY <1>1, <1>2, <1>3, <1>4 DEF TelemetryNext

LEMMA RttStays ==
  ASSUME TimesInv, RttInv, TelemetryNext PROVE RttInv'
<1>0. MaxTime \in Nat /\ clock \in Nat /\ clock <= MaxTime /\ MaxTime < Word /\ Word \in Nat
  BY TelemetryAssumption, EstimatorAssumption DEF TimesInv
<1>1. CASE Tick
  BY <1>0, <1>1 DEF Tick, history, estimator, RttInv
<1>2. CASE StateAgeAsks \/ StateAgeReturns
  BY <1>2 DEF StateAgeAsks, StateAgeReturns, history, estimator, RttInv
<1>3. CASE NewStatus
  <2>1. PICK echo \in {e \in OwnEchoes : e <= clock} \cup ForeignEchoes :
           /\ markReceived(echo, clock)
           /\ foreign' = (foreign \/ echo > clock)
           /\ IF echo > 0 THEN Measure(Elapsed(clock, echo)) ELSE UNCHANGED measured
           /\ UNCHANGED clock
    BY <1>3 DEF NewStatus
  <2>2. echo \in Nat
    <3>1. OwnEchoes \subseteq Nat /\ ForeignEchoes \subseteq 1 .. Word - 1
      BY TelemetryAssumption
    <3>2. QED
      BY <1>0, <3>1
  <2> DEFINE rtt == Elapsed(clock, echo)
  <2>3. rtt \in Nat /\ (rtt > clock => foreign')
    <3>1. rtt \in 0 .. Word - 1
      <4>1. clock - echo \in Int
        BY <1>0, <2>2
      <4>2. (clock - echo) % Word \in 0 .. Word - 1
        BY <4>1, Wraps
      <4>3. QED
        BY <4>2 DEF Elapsed
    <3>2. ASSUME echo <= clock PROVE rtt <= clock
      <4>1. clock - echo \in 0 .. Word - 1
        BY <1>0, <2>2, <3>2
      <4>2. rtt = clock - echo
        BY <4>1, NoWrap DEF Elapsed
      <4>3. QED
        BY <1>0, <2>2, <3>2, <4>2
    <3>3. ASSUME echo > clock PROVE foreign'
      BY <2>1, <3>3
    <3> HIDE DEF rtt
    <3>4. QED
      BY <1>0, <2>2, <3>1, <3>2, <3>3
  <2>4. CASE ~(echo > 0)
    BY <2>1, <2>4 DEF markReceived, RttInv
  <2>5. CASE echo > 0 /\ ~m_has_valid_rtt
    <3>1. m_smoothed_rtt' = rtt /\ m_has_valid_rtt' = TRUE /\ measured' = <<rtt, rtt>>
      BY <2>1, <2>5 DEF markReceived, SmoothRtt, Measure, RttInv
    <3> HIDE DEF rtt
    <3>2. QED
      BY <2>1, <2>3, <3>1 DEF RttInv
  <2>6. CASE echo > 0 /\ m_has_valid_rtt
    <3> DEFINE lo == Min({measured[1], rtt})
               hi == Max({measured[2], rtt})
    <3>1. /\ measured # <<>> /\ measured[1] \in Nat /\ measured[2] \in Nat
          /\ m_smoothed_rtt \in measured[1] .. measured[2]
          /\ measured[2] > clock => foreign
      BY <2>6 DEF RttInv
    <3>2. /\ m_smoothed_rtt' = Smoothed(m_smoothed_rtt, rtt) /\ m_has_valid_rtt' = m_has_valid_rtt
          /\ measured' = <<lo, hi>>
      BY <2>1, <2>6, <3>1 DEF markReceived, SmoothRtt, Measure
    <3> HIDE DEF rtt
    <3>3. /\ lo \in Nat /\ lo <= measured[1] /\ lo <= rtt
          /\ hi \in {measured[2], rtt} /\ measured[2] <= hi /\ rtt <= hi
      BY <2>3, <3>1, MinMaxOfTwo
    <3> HIDE DEF lo, hi
    <3>4. m_smoothed_rtt \in lo .. hi /\ rtt \in lo .. hi /\ hi \in Nat
      BY <2>3, <3>1, <3>3
    <3>5. m_smoothed_rtt' \in lo .. hi
      BY <3>2, <3>3, <3>4, SmoothedBetween
    <3>6. hi > clock => foreign'
      BY <2>1, <2>3, <3>1, <3>3
    <3>7. measured' # <<>> /\ measured'[1] = lo /\ measured'[2] = hi
      BY <3>2
    <3>8. QED
      BY <2>1, <2>6, <3>2, <3>3, <3>4, <3>5, <3>6, <3>7 DEF RttInv
  <2>7. QED
    BY <2>4, <2>5, <2>6
<1>4. QED
  BY <1>1, <1>2, <1>3 DEF TelemetryNext

-----------------------------------------------------------------------------
(* The places of the ring.                                                 *)
LEMMA LargerProduct ==
  ASSUME NEW k \in Nat, NEW q \in Int, NEW p \in Int, q + 1 <= p
  PROVE  k * q + k <= k * p
<1>1. PICK d \in Nat : p = q + 1 + d
  BY p - q - 1 \in Nat
<1>2. k * p = k * q + k + k * d /\ k * d >= 0
  BY <1>1
<1>3. k * q \in Int /\ k * d \in Int /\ k * p \in Int
  OBVIOUS
<1>4. QED
  BY <1>2, <1>3

LEMMA SameRest ==
  ASSUME NEW k \in Nat, NEW q \in Int, NEW p \in Int, NEW r \in 0 .. k - 1, NEW s \in 0 .. k - 1,
         k * q + r = k * p + s
  PROVE  r = s
<1> DEFINE kq == k * q
           kp == k * p
<1>1. kq \in Int /\ kp \in Int /\ kq + r = kp + s
  OBVIOUS
<1>2. (q + 1 <= p => kq + k <= kp) /\ (p + 1 <= q => kp + k <= kq) /\ (q = p => kq = kp)
  BY LargerProduct
<1> HIDE DEF kq, kp
<1>3. q + 1 <= p \/ p + 1 <= q \/ q = p
  OBVIOUS
<1>4. QED
  BY <1>1, <1>2, <1>3

LEMMA Division ==
  ASSUME NEW k \in Nat, 1 <= k, NEW n \in Nat
  PROVE  n = k * (n \div k) + (n % k) /\ n % k \in 0 .. k - 1 /\ n \div k \in Int
OBVIOUS

LEMMA Rest ==
  ASSUME NEW k \in Nat, 1 <= k, NEW n \in Nat, NEW q \in Int, NEW r \in 0 .. k - 1, n = k * q + r
  PROVE  n % k = r
<1>1. n = k * (n \div k) + (n % k) /\ n % k \in 0 .. k - 1 /\ n \div k \in Int
  BY Division
<1>2. QED
  BY <1>1, SameRest

LEMMA NextPlace ==
  ASSUME NEW k \in Nat, 1 <= k, NEW n \in Nat PROVE ((n % k) + 1) % k = (n + 1) % k
<1> DEFINE q == n \div k
           r == n % k
<1>1. n = k * q + r /\ r \in 0 .. k - 1 /\ q \in Int
  BY Division
<1> HIDE DEF q, r
<1>2. k * q \in Int /\ k * (q + 1) = k * q + k
  BY <1>1
<1>3. ASSUME r + 1 < k PROVE (r + 1) % k = (n + 1) % k
  <2>1. n + 1 = k * q + (r + 1) /\ r + 1 \in 0 .. k - 1 /\ n + 1 \in Nat
    BY <1>1, <1>2, <1>3
  <2>2. r + 1 = k * 0 + (r + 1) /\ r + 1 \in Nat
    BY <2>1
  <2>3. (n + 1) % k = r + 1
    BY <1>1, <2>1, Rest
  <2>4. (r + 1) % k = r + 1
    BY <2>1, <2>2, Rest
  <2>5. QED
    BY <2>3, <2>4
<1>4. ASSUME r + 1 = k PROVE (r + 1) % k = (n + 1) % k
  <2>1. n + 1 = k * (q + 1) + 0 /\ n + 1 \in Nat /\ q + 1 \in Int
    BY <1>1, <1>2, <1>4
  <2>2. r + 1 = k * 1 + 0 /\ r + 1 \in Nat /\ 0 \in 0 .. k - 1
    BY <1>1, <1>4
  <2>3. (n + 1) % k = 0
    BY <2>1, <2>2, Rest
  <2>4. (r + 1) % k = 0
    BY <2>2, Rest
  <2>5. QED
    BY <2>3, <2>4
<1>5. (r + 1) % k = (n + 1) % k
  BY <1>1, <1>3, <1>4
<1>6. QED
  BY <1>5 DEF r

LEMMA OtherPlace ==
  ASSUME NEW k \in Nat, 1 <= k, NEW n \in Nat, NEW p \in Nat, n < p, p - n < k PROVE n % k # p % k
<1> DEFINE q == n \div k
           u == p \div k
           r == n % k
           s == p % k
<1>1. n = k * q + r /\ r \in 0 .. k - 1 /\ q \in Int /\ p = k * u + s /\ s \in 0 .. k - 1 /\ u \in Int
  BY Division
<1> HIDE DEF q, u, r, s
<1>2. ASSUME r = s PROVE FALSE
  <2>1. k * q \in Int /\ k * u \in Int
    BY <1>1
  <2>2. (q + 1 <= u => k * q + k <= k * u) /\ (u + 1 <= q => k * u + k <= k * q) /\ (q = u => k * q = k * u)
    BY <1>1, LargerProduct
  <2>3. q + 1 <= u \/ u + 1 <= q \/ q = u
    BY <1>1
  <2>4. k * u - k * q = p - n
    BY <1>1, <1>2, <2>1
  <2>5. QED
    BY <2>1, <2>2, <2>3, <2>4
<1>3. QED
  BY <1>2 DEF r, s

LEMMA RingStays ==
  ASSUME TimesInv, RingInv, TelemetryNext PROVE RingInv'
<1>0. /\ Window \in Nat /\ 1 <= Window /\ Known \in Nat /\ Last \in 0 .. clock
      /\ MaxTime \in Nat /\ clock \in 0 .. MaxTime /\ MaxTime < Word /\ Word \in Nat
      /\ (Last = 0 <=> arrivals = <<>>)
  BY LastIsKnown, TelemetryAssumption, EstimatorAssumption DEF TimesInv
<1>1. CASE UNCHANGED <<arrivals, m_intervals, m_window_idx, m_window_count>>
  BY <1>1 DEF RingInv, Known
<1>2. CASE NewStatus
  <2>1. /\ MarkInterval(clock) /\ m_prev_recv_time_us = Last
        /\ arrivals' = IF clock > 0 THEN Append(arrivals, clock) ELSE arrivals
    BY <1>2 DEF NewStatus, markReceived, TimesInv
  <2>2. /\ Known' = IF Last > 0 THEN Known + 1 ELSE 0
        /\ Last > 0 => /\ arrivals'[Known + 2] = clock /\ arrivals'[Known + 1] = Last
                       /\ \A k \in 1 .. Known + 1 : arrivals'[k] = arrivals[k]
    BY <2>1, Arrives
  <2>3. CASE Last = 0
    <3>1. Known = 0 /\ Known' = 0 /\ UNCHANGED <<m_intervals, m_window_idx, m_window_count>>
      BY <1>0, <2>1, <2>2, <2>3 DEF MarkInterval, Known
    <3>2. QED
      BY <3>1 DEF RingInv
  <2>4. CASE Last > 0
    <3> DEFINE place == Known % Window
               since == clock - Last
    <3>1. /\ m_intervals' = [m_intervals EXCEPT ![m_window_idx] = Elapsed(clock, Last)]
          /\ m_window_idx' = Advance(m_window_idx)
          /\ m_window_count' = IF m_window_count < Window THEN m_window_count + 1 ELSE m_window_count
      BY <2>1, <2>4 DEF MarkInterval
    <3>2. since \in 0 .. Word - 1
      BY <1>0
    <3>3. Elapsed(clock, Last) = since /\ since \in Nat
      BY <1>0, <3>2, NoWrap DEF Elapsed
    <3>4. /\ m_intervals \in [0 .. Window - 1 -> Nat] /\ m_window_idx = place
          /\ m_window_count = IF Known < Window THEN Known ELSE Window
          /\ \A k \in 1 .. Known :
               Known - Window < k => m_intervals[(k - 1) % Window] = arrivals[k + 1] - arrivals[k]
      BY DEF RingInv
    <3>5. place \in 0 .. Window - 1
      BY <1>0, Division
    <3>6. (place + 1) % Window = (Known + 1) % Window
      BY <1>0, NextPlace
    <3>7. \A k \in 1 .. Known : (k - 1) % Window \in 0 .. Window - 1
      <4> SUFFICES ASSUME NEW k \in 1 .. Known PROVE (k - 1) % Window \in 0 .. Window - 1
        OBVIOUS
      <4>1. k - 1 \in Nat
        OBVIOUS
      <4>2. QED
        BY <1>0, <4>1, Division
    <3>8. \A k \in 1 .. Known : (Known + 1) - Window < k => (k - 1) % Window # place
      <4> SUFFICES ASSUME NEW k \in 1 .. Known, (Known + 1) - Window < k PROVE (k - 1) % Window # place
        OBVIOUS
      <4>1. k - 1 \in Nat /\ k - 1 < Known /\ Known - (k - 1) < Window
        BY <1>0
      <4>2. QED
        BY <1>0, <4>1, OtherPlace
    <3> HIDE DEF place, since
    <3>9. m_intervals' \in [0 .. Window - 1 -> Nat]
      BY <3>1, <3>3, <3>4, <3>5
    <3>10. m_window_idx' = Known' % Window
      BY <2>2, <2>4, <3>1, <3>4, <3>6 DEF Advance
    <3>11. m_window_count' = IF Known' < Window THEN Known' ELSE Window
      BY <1>0, <2>2, <2>4, <3>1, <3>4
    <3>12. ASSUME NEW k \in 1 .. Known + 1, (Known + 1) - Window < k
           PROVE  m_intervals'[(k - 1) % Window] = arrivals'[k + 1] - arrivals'[k]
      <4>1. CASE k = Known + 1
        <5>1. (k - 1) % Window = place /\ k + 1 = Known + 2
          BY <1>0, <4>1 DEF place
        <5>2. m_intervals'[place] = since
          BY <3>1, <3>3, <3>4, <3>5
        <5>3. QED
          BY <2>2, <2>4, <4>1, <5>1, <5>2 DEF since
      <4>2. CASE k # Known + 1
        <5>1. k \in 1 .. Known /\ k + 1 \in 1 .. Known + 1 /\ Known - Window < k
          BY <1>0, <3>12, <4>2
        <5>2. (k - 1) % Window \in 0 .. Window - 1 /\ (k - 1) % Window # place
          BY <3>7, <3>8, <3>12, <5>1
        <5>3. m_intervals'[(k - 1) % Window] = m_intervals[(k - 1) % Window]
          BY <3>1, <3>4, <5>2
        <5>4. m_intervals[(k - 1) % Window] = arrivals[k + 1] - arrivals[k]
          BY <3>4, <5>1
        <5>5. arrivals'[k] = arrivals[k] /\ arrivals'[k + 1] = arrivals[k + 1]
          BY <2>2, <2>4, <5>1
        <5>6. QED
          BY <5>3, <5>4, <5>5
      <4>3. QED
        BY <4>1, <4>2
    <3>13. Known' = Known + 1
      BY <2>2, <2>4
    <3>14. QED
      BY <3>9, <3>10, <3>11, <3>12, <3>13 DEF RingInv
  <2>5. QED
    BY <1>0, <2>3, <2>4
<1>3. CASE Tick \/ StateAgeAsks \/ StateAgeReturns
  BY <1>1, <1>3 DEF Tick, StateAgeAsks, StateAgeReturns, history, estimator
<1>4. QED
  BY <1>2, <1>3 DEF TelemetryNext

-----------------------------------------------------------------------------
(* Sums over finite sets, as the estimator's loops and the definition of   *)
(* the variance form them.                                                 *)
Element(s) == CHOOSE x \in s : TRUE
Adds(g, f, s) == IF s = {} THEN 0 ELSE f[Element(s)] + g[s \ {Element(s)}]
SumsUp(g, f, D) == g = [s \in D |-> Adds(g, f, s)]
SameOn(f, e, T) == \A x \in T : f[x] = e[x]
Small(S, n) == {s \in SUBSET S : Cardinality(s) <= n}

(* What is left of a set of at most n + 1 elements has at most n.          *)
LEMMA Smaller ==
  ASSUME NEW S, IsFiniteSet(S), NEW s \in SUBSET S, s # {}
  PROVE  /\ Element(s) \in s /\ IsFiniteSet(s) /\ s \ {Element(s)} \in SUBSET S
         /\ Cardinality(s) \in Nat \ {0} /\ Cardinality(s \ {Element(s)}) = Cardinality(s) - 1
<1>1. Element(s) \in s
  BY DEF Element
<1>2. IsFiniteSet(s) /\ Cardinality(s) \in Nat /\ Cardinality(s) # 0
  BY FS_Subset, FS_CardinalityType, FS_EmptySet
<1>3. Cardinality(s \ {Element(s)}) = Cardinality(s) - 1
  BY <1>1, <1>2, FS_RemoveElement
<1>4. QED
  BY <1>1, <1>2, <1>3

LEMMA SumsExist ==
  ASSUME NEW S, IsFiniteSet(S), NEW f
  PROVE  \E g : SumsUp(g, f, SUBSET S)
<1> DEFINE N == {n \in Nat : \E g : SumsUp(g, f, Small(S, n))}
<1>0. \A s \in SUBSET S : IsFiniteSet(s) /\ Cardinality(s) \in Nat /\ (Cardinality(s) = 0 <=> s = {})
  BY FS_Subset, FS_CardinalityType, FS_EmptySet
<1>1. 0 \in N
  <2> DEFINE g == [s \in Small(S, 0) |-> 0]
  <2>1. \A s \in Small(S, 0) : s = {}
    BY <1>0 DEF Small
  <2>2. g = [s \in Small(S, 0) |-> Adds(g, f, s)]
    BY <2>1 DEF Adds
  <2>3. SumsUp(g, f, Small(S, 0))
    BY <2>2 DEF SumsUp
  <2>4. QED
    BY <2>3
<1>2. ASSUME NEW n \in N PROVE n + 1 \in N
  <2>1. n \in Nat /\ \E g : SumsUp(g, f, Small(S, n))
    OBVIOUS
  <2>2. PICK g : SumsUp(g, f, Small(S, n))
    BY <2>1
  <2> DEFINE h == [s \in Small(S, n + 1) |-> Adds(g, f, s)]
  <2>3. \A s \in Small(S, n) : h[s] = g[s] /\ s \in Small(S, n + 1)
    <3>1. \A s \in Small(S, n) : s \in Small(S, n + 1)
      BY <1>0, <2>1 DEF Small
    <3>2. \A s \in Small(S, n) : g[s] = Adds(g, f, s)
      BY <2>2 DEF SumsUp
    <3>3. QED
      BY <3>1, <3>2
  <2>4. ASSUME NEW s \in Small(S, n + 1) PROVE h[s] = Adds(h, f, s)
    <3>1. CASE s = {}
      BY <3>1 DEF Adds
    <3>2. CASE s # {}
      <4>1. s \in SUBSET S /\ Cardinality(s) <= n + 1
        BY DEF Small
      <4>2. s \ {Element(s)} \in Small(S, n)
        BY <2>1, <3>2, <4>1, Smaller DEF Small
      <4>3. h[s] = Adds(g, f, s)
        OBVIOUS
      <4>4. h[s \ {Element(s)}] = g[s \ {Element(s)}]
        BY <2>3, <4>2
      <4> HIDE DEF h
      <4>5. QED
        BY <3>2, <4>3, <4>4 DEF Adds
    <3>3. QED
      BY <3>1, <3>2
  <2>5. h = [s \in Small(S, n + 1) |-> Adds(h, f, s)]
    BY <2>4
  <2> HIDE DEF h
  <2>6. SumsUp(h, f, Small(S, n + 1))
    BY <2>5 DEF SumsUp
  <2>7. QED
    BY <2>1, <2>6
<1> HIDE DEF N
<1>3. N = Nat
  BY <1>1, <1>2, AllNats DEF N
<1>4. Cardinality(S) \in Nat
  BY FS_CardinalityType
<1>5. PICK g : SumsUp(g, f, Small(S, Cardinality(S)))
  BY <1>3, <1>4 DEF N
<1>6. Small(S, Cardinality(S)) = SUBSET S
  BY FS_Subset DEF Small
<1>7. QED
  BY <1>5, <1>6

(* The sum is what the recursion gives.                                    *)
LEMMA SumUnfolds ==
  ASSUME NEW S, IsFiniteSet(S), NEW f
  PROVE  \E g : SumsUp(g, f, SUBSET S) /\ SumFunctionOnSet(f, S) = g[S]
<1> DEFINE it == CHOOSE g : g = [s \in SUBSET S |-> IF s = {} THEN 0
                  ELSE f[CHOOSE x \in s : TRUE] + g[s \ {CHOOSE x \in s : TRUE}]]
<1>1. SumFunctionOnSet(f, S) = it[S]
  BY DEF SumFunctionOnSet, FoldFunctionOnSet, MapThenFoldSet
<1>2. \E g : g = [s \in SUBSET S |-> IF s = {} THEN 0
                  ELSE f[CHOOSE x \in s : TRUE] + g[s \ {CHOOSE x \in s : TRUE}]]
  <2>1. PICK g : SumsUp(g, f, SUBSET S)
    BY SumsExist
  <2>2. g = [s \in SUBSET S |-> IF s = {} THEN 0
                  ELSE f[CHOOSE x \in s : TRUE] + g[s \ {CHOOSE x \in s : TRUE}]]
    BY <2>1 DEF SumsUp, Adds, Element
  <2>3. QED
    BY <2>2
<1>3. it = [s \in SUBSET S |-> IF s = {} THEN 0
                  ELSE f[CHOOSE x \in s : TRUE] + it[s \ {CHOOSE x \in s : TRUE}]]
  BY <1>2
<1> HIDE DEF it
<1>4. SumsUp(it, f, SUBSET S)
  BY <1>3 DEF SumsUp, Adds, Element
<1>5. QED
  BY <1>1, <1>4

(* Two such functions agree on the sets that both know, when the summands  *)
(* are the same.                                                           *)
LEMMA SumsAgree ==
  ASSUME NEW S, NEW T \in SUBSET S, NEW f, NEW e, NEW g, NEW h, IsFiniteSet(S),
         SameOn(f, e, T), SumsUp(g, f, SUBSET S), SumsUp(h, e, SUBSET T)
  PROVE  g[T] = h[T]
<1> DEFINE N == {n \in Nat : \A s \in SUBSET T : Cardinality(s) = n => g[s] = h[s]}
<1>0. \A s \in SUBSET T : IsFiniteSet(s) /\ Cardinality(s) \in Nat /\ (Cardinality(s) = 0 <=> s = {}) /\ s \in SUBSET S
  BY FS_Subset, FS_CardinalityType, FS_EmptySet
<1>1. \A s \in SUBSET T : g[s] = Adds(g, f, s) /\ h[s] = Adds(h, e, s)
  BY DEF SumsUp
<1>2. 0 \in N
  BY <1>0, <1>1 DEF Adds
<1>3. ASSUME NEW n \in N PROVE n + 1 \in N
  <2> SUFFICES ASSUME NEW s \in SUBSET T, Cardinality(s) = n + 1 PROVE g[s] = h[s]
    OBVIOUS
  <2>1. s # {}
    BY <1>0
  <2>2. Element(s) \in T /\ s \ {Element(s)} \in SUBSET T /\ Cardinality(s \ {Element(s)}) = n
    BY <1>0, <2>1, Smaller
  <2>3. g[s \ {Element(s)}] = h[s \ {Element(s)}] /\ f[Element(s)] = e[Element(s)]
    BY <2>2 DEF SameOn
  <2>4. QED
    BY <1>1, <2>1, <2>3 DEF Adds
<1> HIDE DEF N
<1>4. N = Nat
  BY <1>2, <1>3, AllNats DEF N
<1>5. T \in SUBSET T
  OBVIOUS
<1>6. QED
  BY <1>0, <1>4, <1>5 DEF N

(* Sums are numbers, and depend on the summands alone.                     *)
LEMMA SumOfSame ==
  ASSUME NEW S, IsFiniteSet(S), NEW f, NEW e, \A x \in S : f[x] = e[x]
  PROVE  SumFunctionOnSet(f, S) = SumFunctionOnSet(e, S)
<1>1. PICK g : SumsUp(g, f, SUBSET S) /\ SumFunctionOnSet(f, S) = g[S]
  BY SumUnfolds
<1>2. PICK h : SumsUp(h, e, SUBSET S) /\ SumFunctionOnSet(e, S) = h[S]
  BY SumUnfolds
<1>3. S \in SUBSET S /\ SameOn(f, e, S)
  BY DEF SameOn
<1>4. g[S] = h[S]
  BY <1>1, <1>2, <1>3, SumsAgree
<1>5. QED
  BY <1>1, <1>2, <1>4

LEMMA SumOfNone == ASSUME NEW f PROVE SumFunctionOnSet(f, {}) = 0
<1>1. PICK g : SumsUp(g, f, SUBSET {}) /\ SumFunctionOnSet(f, {}) = g[{}]
  BY SumUnfolds, FS_EmptySet
<1>2. QED
  BY <1>1 DEF SumsUp, Adds

LEMMA SumTakesElement ==
  ASSUME NEW S, IsFiniteSet(S), S # {}, NEW f
  PROVE  SumFunctionOnSet(f, S) = f[Element(S)] + SumFunctionOnSet(f, S \ {Element(S)})
<1> DEFINE T == S \ {Element(S)}
<1>1. IsFiniteSet(T) /\ T \in SUBSET S /\ SameOn(f, f, T)
  BY FS_RemoveElement DEF SameOn
<1>2. PICK g : SumsUp(g, f, SUBSET S) /\ SumFunctionOnSet(f, S) = g[S]
  BY SumUnfolds
<1>3. PICK h : SumsUp(h, f, SUBSET T) /\ SumFunctionOnSet(f, T) = h[T]
  BY <1>1, SumUnfolds
<1> HIDE DEF T
<1>4. g[T] = h[T]
  BY <1>1, <1>2, <1>3, SumsAgree
<1>5. g[S] = f[Element(S)] + g[T]
  BY <1>2 DEF SumsUp, Adds, T
<1>6. QED
  BY <1>2, <1>3, <1>4, <1>5 DEF T

LEMMA SumIsInt ==
  ASSUME NEW S, IsFiniteSet(S), NEW f, \A x \in S : f[x] \in Int
  PROVE  SumFunctionOnSet(f, S) \in Int
<1> DEFINE N == {n \in Nat : \A s \in SUBSET S : Cardinality(s) = n => SumFunctionOnSet(f, s) \in Int}
<1>0. \A s \in SUBSET S : IsFiniteSet(s) /\ Cardinality(s) \in Nat /\ (Cardinality(s) = 0 <=> s = {})
  BY FS_Subset, FS_CardinalityType, FS_EmptySet
<1>1. 0 \in N
  BY <1>0, SumOfNone
<1>2. ASSUME NEW n \in N PROVE n + 1 \in N
  <2> SUFFICES ASSUME NEW s \in SUBSET S, Cardinality(s) = n + 1 PROVE SumFunctionOnSet(f, s) \in Int
    OBVIOUS
  <2>1. s # {} /\ IsFiniteSet(s)
    BY <1>0
  <2>2. Element(s) \in s /\ s \ {Element(s)} \in SUBSET S /\ Cardinality(s \ {Element(s)}) = n
    BY <1>0, <2>1, Smaller
  <2>3. SumFunctionOnSet(f, s) = f[Element(s)] + SumFunctionOnSet(f, s \ {Element(s)})
    BY <2>1, SumTakesElement
  <2>4. SumFunctionOnSet(f, s \ {Element(s)}) \in Int /\ f[Element(s)] \in Int
    BY <2>2
  <2>5. QED
    BY <2>3, <2>4
<1> HIDE DEF N
<1>3. N = Nat
  BY <1>1, <1>2, AllNats DEF N
<1>4. S \in SUBSET S
  OBVIOUS
<1>5. QED
  BY <1>0, <1>3, <1>4 DEF N

(* It does not matter which summand is taken first.                        *)
LEMMA SumTakesAny ==
  ASSUME NEW S, IsFiniteSet(S), NEW f, \A x \in S : f[x] \in Int
  PROVE  \A x \in S : SumFunctionOnSet(f, S) = f[x] + SumFunctionOnSet(f, S \ {x})
<1> DEFINE Good(s) == \A x \in s : SumFunctionOnSet(f, s) = f[x] + SumFunctionOnSet(f, s \ {x})
           N == {n \in Nat : \A s \in SUBSET S : Cardinality(s) = n => Good(s)}
<1>0. \A s \in SUBSET S : IsFiniteSet(s) /\ Cardinality(s) \in Nat /\ (Cardinality(s) = 0 <=> s = {})
  BY FS_Subset, FS_CardinalityType, FS_EmptySet
<1>1. 0 \in N
  BY <1>0, SumOfNone
<1>2. ASSUME NEW n \in N PROVE n + 1 \in N
  <2> SUFFICES ASSUME NEW s \in SUBSET S, Cardinality(s) = n + 1 PROVE Good(s)
    OBVIOUS
  <2> DEFINE e == Element(s)
  <2>1. s # {} /\ n \in Nat /\ IsFiniteSet(s)
    BY <1>0
  <2>2. e \in s /\ s \ {e} \in SUBSET S /\ Cardinality(s \ {e}) = n
    BY <1>0, <2>1, Smaller
  <2>3. SumFunctionOnSet(f, s) = f[e] + SumFunctionOnSet(f, s \ {e})
    BY <2>1, SumTakesElement
  <2>4. Good(s \ {e})
    BY <2>2
  <2>6. ASSUME NEW x \in s PROVE SumFunctionOnSet(f, s) = f[x] + SumFunctionOnSet(f, s \ {x})
    <3>1. CASE x = e
      BY <2>3, <3>1
    <3>2. CASE x # e
      <4>1. s \ {x} \in SUBSET S /\ Cardinality(s \ {x}) = n
        <5>1. Cardinality(s \ {x}) = Cardinality(s) - 1
          BY <2>1, FS_RemoveElement
        <5>2. QED
          BY <1>0, <5>1
      <4>2. Good(s \ {x}) /\ e \in s \ {x} /\ x \in s \ {e}
        BY <2>2, <3>2, <4>1
      <4> DEFINE both == SumFunctionOnSet(f, (s \ {x}) \ {e})
      <4>3. (s \ {x}) \ {e} = (s \ {e}) \ {x}
        OBVIOUS
      <4>4. SumFunctionOnSet(f, s \ {x}) = f[e] + both
        BY <4>2
      <4>5. SumFunctionOnSet(f, s \ {e}) = f[x] + both
        BY <2>4, <4>2, <4>3
      <4>6. both \in Int
        <5>1. IsFiniteSet((s \ {x}) \ {e}) /\ \A y \in (s \ {x}) \ {e} : f[y] \in Int
          BY <1>0
        <5>2. QED
          BY <5>1, SumIsInt
      <4>7. f[e] \in Int /\ f[x] \in Int
        BY <2>2
      <4> HIDE DEF both, e
      <4>8. QED
        BY <2>3, <4>4, <4>5, <4>6, <4>7
    <3>3. QED
      BY <3>1, <3>2
  <2>7. QED
    BY <2>6
<1> HIDE DEF N
<1>3. N = Nat
  BY <1>1, <1>2, AllNats DEF N
<1>4. S \in SUBSET S
  OBVIOUS
<1>5. Good(S)
  BY <1>0, <1>3, <1>4 DEF N
<1>6. QED
  BY <1>5

(* One summand more.                                                       *)
LEMMA SumWithOneMore ==
  ASSUME NEW S, NEW x, NEW f, IsFiniteSet(S), x \notin S, \A y \in S \cup {x} : f[y] \in Int
  PROVE  /\ SumFunctionOnSet(f, S) \in Int
         /\ SumFunctionOnSet(f, S \cup {x}) = SumFunctionOnSet(f, S) + f[x]
<1> DEFINE T == S \cup {x}
<1>1. IsFiniteSet(T) /\ T \ {x} = S /\ x \in T /\ \A y \in T : f[y] \in Int
  BY FS_AddElement
<1>2. SumFunctionOnSet(f, S) \in Int /\ f[x] \in Int
  BY SumIsInt
<1> HIDE DEF T
<1>3. SumFunctionOnSet(f, T) = f[x] + SumFunctionOnSet(f, T \ {x})
  BY <1>1, SumTakesAny
<1>4. SumFunctionOnSet(f, T \ {x}) = SumFunctionOnSet(f, S)
  BY <1>1, Zenon
<1>5. SumFunctionOnSet(f, T) = SumFunctionOnSet(f, S) + f[x]
  BY <1>2, <1>3, <1>4
<1>6. QED
  BY <1>2, <1>5 DEF T

(* A sum is the same however its summands are placed.                      *)
LEMMA SumsMatch ==
  ASSUME NEW S, IsFiniteSet(S), NEW f, NEW e, NEW b,
         \A x \in S : f[x] \in Int /\ e[b[x]] = f[x],
         \A x, y \in S : b[x] = b[y] => x = y
  PROVE  SumFunctionOnSet(f, S) = SumFunctionOnSet(e, {b[x] : x \in S})
<1> DEFINE To(s) == {b[x] : x \in s}
           P(s) == IsFiniteSet(To(s)) /\ SumFunctionOnSet(f, s) = SumFunctionOnSet(e, To(s))
           N == {n \in Nat : \A s \in SUBSET S : Cardinality(s) = n => P(s)}
<1>0. \A s \in SUBSET S : IsFiniteSet(s) /\ Cardinality(s) \in Nat /\ (Cardinality(s) = 0 <=> s = {})
  BY FS_Subset, FS_CardinalityType, FS_EmptySet
<1>1. P({})
  <2>1. To({}) = {}
    OBVIOUS
  <2>2. SumFunctionOnSet(f, {}) = 0 /\ SumFunctionOnSet(e, {}) = 0 /\ IsFiniteSet({})
    BY SumOfNone, FS_EmptySet
  <2> HIDE DEF To
  <2>3. QED
    BY <2>1, <2>2, Zenon
<1>2. ASSUME NEW n \in N PROVE n + 1 \in N
  <2>0. n \in Nat /\ \A s \in SUBSET S : Cardinality(s) = n => P(s)
    OBVIOUS
  <2> HIDE DEF P
  <2> SUFFICES ASSUME NEW s \in SUBSET S, Cardinality(s) = n + 1 PROVE P(s)
    BY <2>0
  <2> DEFINE x == Element(s)
             less == s \ {x}
  <2>1. s # {} /\ IsFiniteSet(s)
    BY <1>0, <2>0
  <2>2. x \in s /\ less \in SUBSET S /\ Cardinality(less) = n
    BY <1>0, <2>0, <2>1, Smaller
  <2>3. SumFunctionOnSet(f, s) = f[x] + SumFunctionOnSet(f, less)
    BY <2>1, SumTakesElement
  <2> HIDE DEF x
  <2>4. IsFiniteSet(To(less)) /\ SumFunctionOnSet(f, less) = SumFunctionOnSet(e, To(less))
    BY <2>0, <2>2 DEF P
  <2>5. To(s) = To(less) \cup {b[x]} /\ b[x] \notin To(less)
    BY <2>2
  <2>6. \A y \in To(less) \cup {b[x]} : e[y] \in Int
    BY <2>2
  <2>7. f[x] \in Int /\ e[b[x]] = f[x]
    BY <2>2
  <2> DEFINE T == To(less)
             y == b[x]
  <2> HIDE DEF T, y
  <2>8. IsFiniteSet(T) /\ y \notin T /\ \A z \in T \cup {y} : e[z] \in Int
    BY <2>4, <2>5, <2>6 DEF T, y
  <2>9. /\ SumFunctionOnSet(e, T) \in Int /\ SumFunctionOnSet(e, T \cup {y}) = SumFunctionOnSet(e, T) + e[y]
        /\ IsFiniteSet(T \cup {y})
    <3>1. SumFunctionOnSet(e, T) \in Int /\ SumFunctionOnSet(e, T \cup {y}) = SumFunctionOnSet(e, T) + e[y]
      BY ONLY <2>8, SumWithOneMore, Zenon
    <3>2. QED
      BY <2>8, <3>1, FS_AddElement
  <2>10. SumFunctionOnSet(e, To(s)) = SumFunctionOnSet(e, T \cup {y}) /\ IsFiniteSet(To(s))
    BY <2>5, <2>9, Zenon DEF T, y
  <2>11. SumFunctionOnSet(f, s) = f[x] + SumFunctionOnSet(e, T) /\ e[y] = f[x]
    BY <2>3, <2>4, <2>7 DEF T, y
  <2>12. SumFunctionOnSet(f, s) = SumFunctionOnSet(e, To(s))
    BY <2>7, <2>9, <2>10, <2>11
  <2>13. QED
    BY <2>10, <2>12 DEF P
<1>3. 0 \in N
  BY <1>0, <1>1
<1> HIDE DEF N, P
<1>4. N = Nat
  BY <1>2, <1>3, AllNats DEF N
<1>5. P(S)
  BY <1>0, <1>4 DEF N
<1>6. QED
  BY <1>5 DEF P

LEMMA SumOverLonger ==
  ASSUME NEW a \in Int, NEW b \in Int, a <= b + 1, NEW f, \A i \in a .. b + 1 : f[i] \in Int
  PROVE  /\ SumFunctionOnSet(f, a .. b) \in Int
         /\ SumFunctionOnSet(f, a .. b + 1) = SumFunctionOnSet(f, a .. b) + f[b + 1]
<1>1. IsFiniteSet(a .. b) /\ b + 1 \notin a .. b /\ a .. b + 1 = (a .. b) \cup {b + 1}
  BY FS_Interval
<1>2. \A y \in (a .. b) \cup {b + 1} : f[y] \in Int
  BY <1>1
<1> DEFINE S == a .. b
           x == b + 1
<1>3. IsFiniteSet(S) /\ x \notin S /\ \A y \in S \cup {x} : f[y] \in Int
  BY <1>1, <1>2
<1> HIDE DEF S, x
<1>4. SumFunctionOnSet(f, S) \in Int /\ SumFunctionOnSet(f, S \cup {x}) = SumFunctionOnSet(f, S) + f[x]
  BY ONLY <1>3, SumWithOneMore, Zenon
<1>5. QED
  BY <1>1, <1>4, Zenon DEF S, x

(* Intervals that follow one another add up to the time they span.         *)
LEMMA Telescopes ==
  ASSUME NEW a \in Int, NEW c \in Int, NEW t, NEW v, a <= c + 1, \A j \in a .. c + 1 : t[j] \in Int,
         \A j \in a .. c : v[j] = t[j + 1] - t[j]
  PROVE  SumFunctionOnSet(v, a .. c) = t[c + 1] - t[a]
<1> DEFINE n == c + 1 - a
<1>n. n \in Nat /\ a + n = c + 1 /\ a + n - 1 = c
  OBVIOUS
<1> HIDE DEF n
<1> DEFINE P(m) == SumFunctionOnSet(v, a .. a + m - 1) = t[a + m] - t[a]
           M == {m \in Nat : m <= n => P(m)}
<1>1. 0 \in M
  <2>1. a .. a + 0 - 1 = {} /\ a + 0 = a /\ a \in a .. c + 1
    OBVIOUS
  <2>2. SumFunctionOnSet(v, a .. a + 0 - 1) = 0
    BY <2>1, SumOfNone, Zenon
  <2>3. t[a] \in Int
    BY <2>1
  <2>4. QED
    BY <2>1, <2>2, <2>3
<1>2. ASSUME NEW m \in M PROVE m + 1 \in M
  <2> HIDE DEF P
  <2> SUFFICES ASSUME m + 1 <= n PROVE P(m + 1)
    BY m \in Nat
  <2> USE DEF P
  <2> DEFINE b == a + m - 1
  <2>1. m \in Nat /\ SumFunctionOnSet(v, a .. b) = t[a + m] - t[a]
    BY <1>n
  <2>2. b \in Int /\ a <= b + 1 /\ b + 1 = a + m /\ a + (m + 1) - 1 = b + 1 /\ a + (m + 1) = (a + m) + 1
    BY <2>1
  <2>3. /\ t[a + m] \in Int /\ t[a] \in Int /\ t[(a + m) + 1] \in Int /\ v[a + m] = t[(a + m) + 1] - t[a + m]
        /\ \A i \in a .. a + m : v[i] \in Int
    <3>1. \A i \in a .. a + m : i \in a .. c + 1 /\ i + 1 \in a .. c + 1 /\ i \in a .. c
      BY <1>n, <2>1
    <3>2. \A i \in a .. a + m : t[i] \in Int /\ t[i + 1] \in Int /\ v[i] = t[i + 1] - t[i]
      BY <3>1
    <3>3. a + m \in a .. a + m /\ a \in a .. a + m
      BY <2>1
    <3>4. t[a] \in Int /\ t[a + m] \in Int /\ t[(a + m) + 1] \in Int /\ v[a + m] = t[(a + m) + 1] - t[a + m]
      BY <3>2, <3>3
    <3>5. ASSUME NEW i \in a .. a + m PROVE v[i] \in Int
      <4>1. t[i] \in Int /\ t[i + 1] \in Int /\ v[i] = t[i + 1] - t[i]
        BY <3>2
      <4>2. QED
        BY <4>1
    <3>6. QED
      BY <3>4, <3>5
  <2>4. SumFunctionOnSet(v, a .. b + 1) = SumFunctionOnSet(v, a .. b) + v[b + 1]
    BY <2>2, <2>3, SumOverLonger
  <2> HIDE DEF b
  <2>5. SumFunctionOnSet(v, a .. a + (m + 1) - 1) = SumFunctionOnSet(v, a .. b) + v[a + m]
    BY <2>2, <2>4
  <2>6. QED
    BY <2>1, <2>2, <2>3, <2>5
<1> HIDE DEF M, P
<1>3. M = Nat
  BY <1>1, <1>2, AllNats DEF M
<1>4. P(n)
  BY <1>n, <1>3 DEF M
<1>5. QED
  BY <1>n, <1>4, Zenon DEF P

-----------------------------------------------------------------------------
(* The pairs of two summation orders.                                       *)
Pairs(a, b) == {p \in (a .. b) \X (a .. b) : p[1] < p[2]}

LEMMA PairsGrow ==
  ASSUME NEW a \in Int, NEW b \in Int
  PROVE  /\ IsFiniteSet(Pairs(a, b)) 
         /\ Pairs(a, b + 1) = Pairs(a, b) \cup {<<i, b + 1>> : i \in a .. b}
<1>1. IsFiniteSet((a .. b) \X (a .. b))
  BY FS_Interval, FS_Product
<1>2. IsFiniteSet(Pairs(a, b))
  BY <1>1, FS_Subset DEF Pairs
<1>3. ASSUME NEW p \in Pairs(a, b + 1) PROVE p \in Pairs(a, b) \cup {<<i, b + 1>> : i \in a .. b}
  <2>1. p = <<p[1], p[2]>> /\ p[1] \in a .. b + 1 /\ p[2] \in a .. b + 1 /\ p[1] < p[2]
    BY DEF Pairs
  <2>2. CASE p[2] = b + 1
    <3>1. p[1] \in a .. b
      BY <2>1, <2>2
    <3>2. QED
      BY <2>1, <2>2, <3>1
  <2>3. CASE p[2] # b + 1
    <3>1. p[1] \in a .. b /\ p[2] \in a .. b
      BY <2>1, <2>3
    <3>2. QED
      BY <2>1, <3>1 DEF Pairs
  <2>4. QED
    BY <2>2, <2>3
<1>4. Pairs(a, b) \subseteq Pairs(a, b + 1)
  BY DEF Pairs
<1>5. ASSUME NEW i \in a .. b PROVE <<i, b + 1>> \in Pairs(a, b + 1)
  BY DEF Pairs
<1>6. QED
  BY <1>2, <1>3, <1>4, <1>5

Squares(y, x, a, b) == \A i \in a .. b : x[i] \in Int /\ y[i] = x[i] * x[i]
SquaredGaps(g, x, a, b) == \A p \in Pairs(a, b) : g[p] = (x[p[1]] - x[p[2]]) * (x[p[1]] - x[p[2]])

(* The pairs with one more number, summed up.                              *)
LEMMA OneMoreColumn ==
  ASSUME NEW a \in Int, NEW b \in Int, NEW x, NEW y, NEW g, a <= b,
         Squares(y, x, a, b + 1), SquaredGaps(g, x, a, b + 1)
  PROVE  SumFunctionOnSet(g, Pairs(a, b + 1))
           = SumFunctionOnSet(g, Pairs(a, b)) + SumFunctionOnSet(y, a .. b)
             - 2 * (x[b + 1] * SumFunctionOnSet(x, a .. b)) + (b - a + 1) * (x[b + 1] * x[b + 1])
<1>a. /\ \A i \in a .. b + 1 : x[i] \in Int /\ y[i] = x[i] * x[i]
      /\ \A p \in Pairs(a, b + 1) : g[p] = (x[p[1]] - x[p[2]]) * (x[p[1]] - x[p[2]])
  BY DEF Squares, SquaredGaps
<1> DEFINE m == b - a + 1
<1>m. m \in Nat /\ a + m = b + 1 /\ a + m - 1 = b
  OBVIOUS
<1> HIDE DEF m
<1> DEFINE z == x[b + 1]
           Columns(k) == Pairs(a, b) \cup {<<i, b + 1>> : i \in a .. a + k - 1}
           G(k) == SumFunctionOnSet(g, Columns(k))
           Y(k) == SumFunctionOnSet(y, a .. a + k - 1)
           X(k) == SumFunctionOnSet(x, a .. a + k - 1)
           G0 == SumFunctionOnSet(g, Pairs(a, b))
           P(k) == /\ G(k) = G0 + Y(k) - 2 * (z * X(k)) + k * (z * z)
                   /\ IsFiniteSet(Columns(k)) /\ Columns(k) \subseteq Pairs(a, b + 1)
           M == {k \in Nat : k <= m => P(k)}
<1>0. \A p \in Pairs(a, b + 1) : g[p] \in Int
  <2>1. \A p \in Pairs(a, b + 1) : p[1] \in a .. b + 1 /\ p[2] \in a .. b + 1
    BY DEF Pairs
  <2>2. \A p \in Pairs(a, b + 1) : x[p[1]] \in Int /\ x[p[2]] \in Int
    BY <1>a, <2>1
  <2>3. QED
    BY <1>a, <2>2
<1>1. /\ IsFiniteSet(Pairs(a, b)) /\ Pairs(a, b + 1) = Pairs(a, b) \cup {<<i, b + 1>> : i \in a .. b}
      /\ z \in Int
  <2>1. b + 1 \in a .. b + 1
    OBVIOUS
  <2>2. z \in Int
    BY <1>a, <2>1
  <2>3. QED
    BY <2>2, PairsGrow
<1>2. 0 \in M
  <2>1. a .. a + 0 - 1 = {} /\ Columns(0) = Pairs(a, b)
    OBVIOUS
  <2>2. G(0) = G0
    BY <2>1, Zenon
  <2>3. Y(0) = 0 /\ X(0) = 0
    BY <2>1, SumOfNone, Zenon
  <2>4. G0 \in Int
    BY <1>0, <1>1, SumIsInt
  <2>5. IsFiniteSet(Columns(0)) /\ Columns(0) \subseteq Pairs(a, b + 1)
    BY <1>1, <2>1, Zenon
  <2> HIDE DEF G, Y, X, G0, z, Columns
  <2>6. G(0) = G0 + Y(0) - 2 * (z * X(0)) + 0 * (z * z)
    BY <1>1, <2>2, <2>3, <2>4
  <2>7. P(0)
    BY <2>5, <2>6
  <2> HIDE DEF P
  <2>8. QED
    BY <2>7
<1>3. ASSUME NEW k \in M PROVE k + 1 \in M
  <2> HIDE DEF P
  <2> SUFFICES ASSUME k + 1 <= m PROVE P(k + 1)
    BY k \in Nat
  <2> DEFINE c == a + k - 1
             e == c + 1
             pair == <<e, b + 1>>
  <2>1. /\ k \in Nat /\ G(k) = G0 + Y(k) - 2 * (z * X(k)) + k * (z * z)
        /\ IsFiniteSet(Columns(k)) /\ Columns(k) \subseteq Pairs(a, b + 1)
    <3>0. k \in Nat /\ k <= m
      BY <1>m
    <3>1. P(k) /\ k \in Nat
      BY <3>0
    <3>2. QED
      BY <3>1 DEF P
  <2>2. c \in Int /\ e \in a .. b /\ a + (k + 1) - 1 = e /\ a <= e /\ e \notin a .. c /\ a .. e = (a .. c) \cup {e}
    <3>1. c \in Int /\ e = a + k /\ e \in Int /\ a <= e /\ e <= b /\ a + (k + 1) - 1 = e
      BY <1>m, <2>1
    <3> HIDE DEF c
    <3>2. QED
      BY <3>1
  <2>3. Columns(k + 1) = Columns(k) \cup {pair} /\ pair \notin Columns(k) /\ pair \in Pairs(a, b + 1)
    <3>1. pair \in Pairs(a, b + 1)
      BY <1>1, <2>2
    <3>2. pair \notin Pairs(a, b)
      BY DEF Pairs
    <3>3. pair \notin {<<i, b + 1>> : i \in a .. c}
      BY <2>2
    <3>4. {<<i, b + 1>> : i \in a .. e} = {<<i, b + 1>> : i \in a .. c} \cup {pair}
      BY <2>2
    <3>5. QED
      BY <2>2, <3>1, <3>2, <3>3, <3>4
  <2>4. /\ G(k) \in Int /\ G(k + 1) = G(k) + g[pair]
        /\ IsFiniteSet(Columns(k + 1)) /\ Columns(k + 1) \subseteq Pairs(a, b + 1)
    <3> DEFINE C == Columns(k)
               D == Columns(k + 1)
    <3>1. \A p \in C \cup {pair} : g[p] \in Int
      BY <1>0, <2>1, <2>3
    <3>2. IsFiniteSet(C) /\ pair \notin C /\ D = C \cup {pair}
      BY <2>1, <2>3
    <3> HIDE DEF C, D, pair
    <3>3. SumFunctionOnSet(g, C) \in Int /\ SumFunctionOnSet(g, C \cup {pair}) = SumFunctionOnSet(g, C) + g[pair]
      BY <3>1, <3>2, SumWithOneMore
    <3>4. IsFiniteSet(C \cup {pair})
      BY <3>2, FS_AddElement
    <3>5. D \subseteq Pairs(a, b + 1)
      BY <2>1, <2>3, <3>2 DEF C
    <3>6. SumFunctionOnSet(g, D) = SumFunctionOnSet(g, C \cup {pair}) /\ IsFiniteSet(D)
      BY <3>2, <3>4, Zenon
    <3>7. QED
      BY <3>3, <3>5, <3>6 DEF C, D
  <2>5. Y(k) \in Int /\ Y(k + 1) = Y(k) + y[e]
    <3>1. a <= c + 1 /\ \A i \in a .. c + 1 : i \in a .. b + 1
      BY <2>2
    <3>0. \A i \in a .. c + 1 : y[i] \in Int
      BY <1>a, <3>1
    <3>2. SumFunctionOnSet(y, a .. c) \in Int /\ SumFunctionOnSet(y, a .. c + 1) = SumFunctionOnSet(y, a .. c) + y[c + 1]
      BY <2>2, <3>1, <3>0, SumOverLonger
    <3>3. QED
      BY <2>2, <3>2
  <2>6. X(k) \in Int /\ X(k + 1) = X(k) + x[e]
    <3>1. a <= c + 1 /\ \A i \in a .. c + 1 : i \in a .. b + 1
      BY <2>2
    <3>0. \A i \in a .. c + 1 : x[i] \in Int
      BY <1>a, <3>1
    <3>2. SumFunctionOnSet(x, a .. c) \in Int /\ SumFunctionOnSet(x, a .. c + 1) = SumFunctionOnSet(x, a .. c) + x[c + 1]
      BY <2>2, <3>1, <3>0, SumOverLonger
    <3>3. QED
      BY <2>2, <3>2
  <2>7. g[pair] = (x[e] - z) * (x[e] - z) /\ y[e] = x[e] * x[e] /\ x[e] \in Int
    BY <1>a, <2>2, <2>3
  <2>8. G0 \in Int
    <3>1. \A p \in Pairs(a, b) : g[p] \in Int
      BY <1>0, <1>1
    <3>2. QED
      BY <1>1, <3>1, SumIsInt
  <2> DEFINE xe == x[e]
             ge == g[pair]
             ye == y[e]
  <2> HIDE DEF G, Y, X, G0, z, Columns, xe, ge, ye
  <2>9. xe \in Int /\ ge = (xe - z) * (xe - z) /\ ye = xe * xe
    BY <2>7 DEF xe, ge, ye
  <2>10. G(k + 1) = G(k) + ge /\ Y(k + 1) = Y(k) + ye /\ X(k + 1) = X(k) + xe
    BY <2>4, <2>5, <2>6 DEF xe, ge, ye
  <2>11. ge = ye - 2 * (z * xe) + z * z
    BY <1>1, <2>9
  <2>12. z * X(k + 1) = z * X(k) + z * xe /\ (k + 1) * (z * z) = k * (z * z) + z * z
    BY <1>1, <2>1, <2>6, <2>9, <2>10
  <2>13. ye \in Int /\ ge \in Int /\ z * xe \in Int /\ z * X(k) \in Int /\ z * z \in Int /\ k * (z * z) \in Int
    BY <1>1, <2>1, <2>6, <2>9
  <2>14. G(k + 1) = G0 + Y(k + 1) - 2 * (z * X(k + 1)) + (k + 1) * (z * z)
    BY <2>1, <2>5, <2>8, <2>10, <2>11, <2>12, <2>13
  <2>15. QED
    BY <2>4, <2>14 DEF P
<1> HIDE DEF M, P
<1>4. M = Nat
  BY <1>2, <1>3, AllNats DEF M
<1>5. P(m)
  BY <1>m, <1>4 DEF M
<1>6. Columns(m) = Pairs(a, b + 1) /\ Y(m) = SumFunctionOnSet(y, a .. b) /\ X(m) = SumFunctionOnSet(x, a .. b)
  BY <1>m, <1>1, Zenon
<1>7. QED
  BY <1>5, <1>6 DEF P, m

(* n times the sum of the squares less the square of the sum is the sum of *)
(* the squared differences in pairs.                                       *)
LEMMA SpreadByPairs ==
  ASSUME NEW a \in Int, NEW c \in Int, NEW x, NEW y, NEW g, a <= c,
         Squares(y, x, a, c), SquaredGaps(g, x, a, c)
  PROVE  SumFunctionOnSet(g, Pairs(a, c))
           = (c - a + 1) * SumFunctionOnSet(y, a .. c)
             - SumFunctionOnSet(x, a .. c) * SumFunctionOnSet(x, a .. c)
<1> DEFINE n == c - a
<1>n. n \in Nat /\ a + n = c /\ Squares(y, x, a, a + n) /\ SquaredGaps(g, x, a, a + n)
  OBVIOUS
<1> HIDE DEF n
<1> DEFINE G(k) == SumFunctionOnSet(g, Pairs(a, a + k))
           Y(k) == SumFunctionOnSet(y, a .. a + k)
           X(k) == SumFunctionOnSet(x, a .. a + k)
           P(k) == G(k) = (k + 1) * Y(k) - X(k) * X(k)
           M == {k \in Nat : k <= n => P(k)}
<1>0. \A i \in a .. a + n : x[i] \in Int /\ y[i] = x[i] * x[i] /\ y[i] \in Int
  BY <1>n DEF Squares
<1>1. 0 \in M
  <2>1. a + 0 = a /\ a .. a + 0 = {a} /\ Pairs(a, a + 0) = {} /\ a .. a - 1 = {} /\ (a - 1) + 1 = a /\ a \in a .. a + n
    BY <1>n DEF Pairs
  <2>2. x[a] \in Int /\ y[a] = x[a] * x[a] /\ y[a] \in Int
    BY <1>0, <2>1
  <2>3. G(0) = 0
    BY <2>1, SumOfNone, Zenon
  <2>4. Y(0) = y[a]
    <3> DEFINE o == a - 1
    <3>1. o \in Int /\ a <= o + 1 /\ \A i \in a .. o + 1 : y[i] \in Int
      BY <2>2
    <3>2. SumFunctionOnSet(y, a .. o + 1) = SumFunctionOnSet(y, a .. o) + y[o + 1]
      <4> HIDE DEF o
      <4>1. QED
        BY <3>1, SumOverLonger
    <3>3. SumFunctionOnSet(y, a .. a - 1) = 0
      BY <2>1, SumOfNone, Zenon
    <3>4. QED
      BY <2>1, <2>2, <3>2, <3>3
  <2>5. X(0) = x[a]
    <3> DEFINE o == a - 1
    <3>1. o \in Int /\ a <= o + 1 /\ \A i \in a .. o + 1 : x[i] \in Int
      BY <2>2
    <3>2. SumFunctionOnSet(x, a .. o + 1) = SumFunctionOnSet(x, a .. o) + x[o + 1]
      <4> HIDE DEF o
      <4>1. QED
        BY <3>1, SumOverLonger
    <3>3. SumFunctionOnSet(x, a .. a - 1) = 0
      BY <2>1, SumOfNone, Zenon
    <3>4. QED
      BY <2>1, <2>2, <3>2, <3>3
  <2> HIDE DEF G, Y, X
  <2>6. G(0) = (0 + 1) * Y(0) - X(0) * X(0)
    BY <2>2, <2>3, <2>4, <2>5
  <2>7. QED
    BY <2>6
<1>2. ASSUME NEW k \in M PROVE k + 1 \in M
  <2> HIDE DEF P
  <2> SUFFICES ASSUME k + 1 <= n PROVE P(k + 1)
    BY k \in Nat
  <2> DEFINE b == a + k
             z == x[b + 1]
  <2>1. k \in Nat /\ G(k) = (k + 1) * Y(k) - X(k) * X(k)
    <3>1. k \in Nat /\ P(k)
      BY <1>n
    <3>2. QED
      BY <3>1 DEF P
  <2>2. /\ b \in Int /\ a + (k + 1) = b + 1 /\ a <= b /\ a <= b + 1 /\ b + 1 \in a .. a + n
        /\ k + 1 \in Nat /\ a + (k + 1) <= b + 1 /\ a + (k + 1) - 1 = b
    BY <1>n, <2>1
  <2>3. \A i \in a .. b + 1 : x[i] \in Int /\ y[i] = x[i] * x[i] /\ y[i] \in Int
    BY <1>n, <2>1, <1>0
  <2>4. SquaredGaps(g, x, a, b + 1) /\ Squares(y, x, a, b + 1)
    <3>0. b + 1 <= a + n /\ a + n \in Int
      BY <1>n, <2>1
    <3> HIDE DEF b
    <3>1. \A p \in Pairs(a, b + 1) : p \in Pairs(a, a + n)
      <4>1. a .. b + 1 \subseteq a .. a + n
        BY <2>2, <3>0
      <4>2. QED
        BY <4>1 DEF Pairs
    <3>2. SquaredGaps(g, x, a, b + 1)
      BY <1>n, <3>1 DEF SquaredGaps
    <3>3. QED
      BY <2>3, <3>2 DEF Squares
  <2>5. G(k + 1) = G(k) + Y(k) - 2 * (z * X(k)) + (k + 1) * (z * z)
    <3>2. b - a + 1 = k + 1
      BY <2>1
    <3> HIDE DEF b
    <3>3. SumFunctionOnSet(g, Pairs(a, b + 1))
            = SumFunctionOnSet(g, Pairs(a, b)) + SumFunctionOnSet(y, a .. b)
              - 2 * (x[b + 1] * SumFunctionOnSet(x, a .. b)) + (b - a + 1) * (x[b + 1] * x[b + 1])
      <4>1. a \in Int /\ b \in Int /\ a <= b
        BY <2>2
      <4>2. QED
        BY ONLY <2>4, <4>1, OneMoreColumn
    <3>4. QED
      BY <2>2, <3>2, <3>3, Zenon DEF b
  <2>6. Y(k) \in Int /\ Y(k + 1) = Y(k) + z * z
    <3>1. SumFunctionOnSet(y, a .. b) \in Int /\ SumFunctionOnSet(y, a .. b + 1) = SumFunctionOnSet(y, a .. b) + y[b + 1]
      BY <2>2, <2>3, SumOverLonger
    <3>2. y[b + 1] = z * z
      BY <2>2, <2>3
    <3>3. QED
      BY <2>2, <3>1, <3>2
  <2>7. X(k) \in Int /\ X(k + 1) = X(k) + z
    <3>1. SumFunctionOnSet(x, a .. b) \in Int /\ SumFunctionOnSet(x, a .. b + 1) = SumFunctionOnSet(x, a .. b) + x[b + 1]
      BY <2>2, <2>3, SumOverLonger
    <3>2. QED
      BY <2>2, <3>1
  <2>8. z \in Int
    BY <2>2, <2>3
  <2> HIDE DEF G, Y, X, z, b
  <2> DEFINE zz == z * z
             zX == z * X(k)
             XX == X(k) * X(k)
             kY == k * Y(k)
             kzz == k * (z * z)
  <2>9. zz \in Int /\ zX \in Int /\ XX \in Int /\ kY \in Int /\ kzz \in Int
    BY <2>1, <2>6, <2>7, <2>8
  <2>10. X(k + 1) * X(k + 1) = XX + 2 * zX + zz
    BY <2>7, <2>8
  <2>11. ((k + 1) + 1) * Y(k + 1) = kY + 2 * Y(k) + kzz + 2 * zz
    BY <2>1, <2>6, <2>8
  <2>12. (k + 1) * Y(k) = kY + Y(k) /\ (k + 1) * zz = kzz + zz
    BY <2>1, <2>6, <2>8
  <2>13. G(k) = (k + 1) * Y(k) - XX /\ G(k + 1) = G(k) + Y(k) - 2 * zX + (k + 1) * zz
    BY <2>1, <2>5, Zenon
  <2> HIDE DEF zz, zX, XX, kY, kzz
  <2>14. G(k + 1) = ((k + 1) + 1) * Y(k + 1) - X(k + 1) * X(k + 1)
    BY <2>6, <2>9, <2>10, <2>11, <2>12, <2>13
  <2>15. QED
    BY <2>14 DEF P
<1> HIDE DEF M, P
<1>3. M = Nat
  BY <1>1, <1>2, AllNats DEF M
<1>4. P(n)
  BY <1>n, <1>3 DEF M
<1>5. n + 1 = c - a + 1
  BY DEF n
<1>6. QED
  BY <1>n, <1>4, <1>5, Zenon DEF P

-----------------------------------------------------------------------------
LEMMA JitterStays ==
  ASSUME TimesInv, RingInv, JitterInv, TelemetryNext PROVE JitterInv'
<1>0. Window \in Nat /\ Enough \in Nat /\ Enough <= Window /\ m_window_count \in 0 .. Window
  <2>1. Window \in Nat /\ Enough \in Nat /\ Enough <= Window
    BY EstimatorAssumption
  <2>2. Known \in Nat /\ m_window_count = IF Known < Window THEN Known ELSE Window
    BY LastIsKnown DEF RingInv
  <2>3. QED
    BY <2>1, <2>2
<1>1. CASE UNCHANGED <<m_intervals, m_window_count, m_jitter_us>>
  BY <1>1 DEF JitterInv
<1>2. CASE NewStatus
  <2>1. MarkInterval(clock)
    BY <1>2 DEF NewStatus, markReceived
  <2>2. CASE m_prev_recv_time_us > 0
    <3>1. /\ m_window_count' = IF m_window_count < Window THEN m_window_count + 1 ELSE m_window_count
          /\ m_jitter_us' = IF m_window_count' >= Enough THEN Spread(m_intervals', m_window_count')
                                                        ELSE m_jitter_us
      BY <2>1, <2>2 DEF MarkInterval
    <3>2. m_window_count' \in Nat /\ (m_window_count' < Enough => m_window_count < Enough)
      BY <1>0, <3>1
    <3>3. CASE m_window_count' >= Enough
      BY <1>0, <3>1, <3>2, <3>3 DEF JitterInv, Spread, Sum
    <3>4. CASE ~(m_window_count' >= Enough)
      BY <1>0, <3>1, <3>2, <3>4 DEF JitterInv
    <3>5. QED
      BY <3>3, <3>4
  <2>3. CASE ~(m_prev_recv_time_us > 0)
    BY <1>1, <2>1, <2>3 DEF MarkInterval
  <2>4. QED
    BY <2>2, <2>3
<1>3. CASE Tick \/ StateAgeAsks \/ StateAgeReturns
  BY <1>1, <1>3 DEF Tick, StateAgeAsks, StateAgeReturns, history, estimator
<1>4. QED
  BY <1>2, <1>3 DEF TelemetryNext

(* The places of the ring hold these summands.                             *)
RingHolds(f, e, a, n) == \A j \in a .. n : f[j] \in Int /\ e[(j - 1) % Window] = f[j]

(* The last k of n intervals occupy the first k places of the ring, one    *)
(* each, so that any sum over the places is one over the intervals.        *)
LEMMA RingSum ==
  ASSUME NEW n \in Nat, NEW k \in Nat, NEW a \in Int, NEW f, NEW e,
         n < Window => k = n, n >= Window => k = Window, a = n - k + 1, RingHolds(f, e, a, n)
  PROVE  SumFunctionOnSet(f, a .. n) = SumFunctionOnSet(e, 0 .. k - 1)
<1> DEFINE recent == a .. n
           place == [j \in recent |-> (j - 1) % Window]
<1>0. Window \in Nat /\ 1 <= Window /\ k <= Window /\ k <= n
  BY EstimatorAssumption
<1>1. \A j \in recent : j - 1 \in Nat /\ place[j] = (j - 1) % Window
  BY <1>0
<1>2. ASSUME NEW i \in recent, NEW j \in recent, place[i] = place[j] PROVE i = j
  <2>1. i - 1 \in Nat /\ j - 1 \in Nat /\ (i - 1) % Window = (j - 1) % Window
    BY <1>1, <1>2
  <2>2. (i - 1) - (j - 1) < Window /\ (j - 1) - (i - 1) < Window
    BY <1>0
  <2>3. ~(i - 1 < j - 1) /\ ~(j - 1 < i - 1)
    BY <1>0, <2>1, <2>2, OtherPlace
  <2>4. QED
    BY <2>1, <2>3
<1>3. ASSUME NEW j \in recent PROVE place[j] \in 0 .. k - 1
  <2>1. CASE n < Window
    <3>1. j - 1 = Window * 0 + (j - 1) /\ j - 1 \in 0 .. Window - 1 /\ j - 1 \in 0 .. k - 1 /\ j - 1 \in Nat
      BY <1>0, <2>1
    <3>2. (j - 1) % Window = j - 1
      BY <1>0, <3>1, Rest
    <3>3. QED
      BY <1>1, <3>1, <3>2
  <2>2. CASE ~(n < Window)
    BY <1>0, <1>1, <2>2, Division
  <2>3. QED
    BY <2>1, <2>2
<1>4. ASSUME NEW r \in 0 .. k - 1 PROVE \E j \in recent : place[j] = r
  <2>1. CASE n < Window
    <3>1. r = Window * 0 + r /\ r \in 0 .. Window - 1 /\ r \in Nat /\ r + 1 \in recent /\ (r + 1) - 1 = r
      BY <1>0, <2>1
    <3>2. r % Window = r
      BY <1>0, <3>1, Rest
    <3>3. place[r + 1] = r
      BY <1>1, <3>1, <3>2
    <3>4. QED
      BY <3>1, <3>3
  <2>2. CASE ~(n < Window)
    <3> DEFINE q == n \div Window
               s == n % Window
               wq == Window * q
    <3>1. n = wq + s /\ s \in 0 .. Window - 1 /\ q \in Int
      BY <1>0, Division
    <3>2. wq \in Int /\ Window * (q - 1) = wq - Window
      BY <1>0, <3>1
    <3> HIDE DEF s, q, wq
    <3>3. r \in 0 .. Window - 1 /\ k = Window
      BY <1>0, <2>2
    <3>4. ASSUME NEW j \in Nat, j + 1 \in recent, \/ j = wq + r
                                                  \/ j = wq - Window + r
          PROVE  place[j + 1] = r
      <4>1. j % Window = r
        <5>1. q - 1 \in Int
          BY <3>1
        <5>2. CASE j = wq + r
          BY <1>0, <3>1, <3>3, <5>2, Rest DEF wq
        <5>3. CASE j = wq - Window + r
          <6>1. j = Window * (q - 1) + r
            BY <3>2, <5>3
          <6>2. QED
            BY <1>0, <3>3, <5>1, <6>1, Rest
        <5>4. QED
          BY <3>4, <5>2, <5>3
      <4>2. QED
        BY <1>1, <3>4, <4>1
    <3>5. CASE r < s
      <4>1. wq + r \in Nat /\ (wq + r) + 1 \in recent
        BY <2>2, <3>1, <3>2, <3>3, <3>5
      <4>2. QED
        BY <3>4, <4>1
    <3>6. CASE ~(r < s)
      <4>1. wq - Window + r \in Nat /\ (wq - Window + r) + 1 \in recent
        BY <1>0, <2>2, <3>1, <3>2, <3>3, <3>6
      <4>2. QED
        BY <3>4, <4>1
    <3>7. QED
      BY <3>5, <3>6
  <2>3. QED
    BY <2>1, <2>2
<1>5. IsFiniteSet(recent) /\ \A j \in recent : f[j] \in Int /\ e[place[j]] = f[j]
  BY <1>0, <1>1, FS_Interval DEF RingHolds
<1> HIDE DEF recent, place
<1>6. {place[j] : j \in recent} = 0 .. k - 1
  BY <1>3, <1>4
<1>7. SumFunctionOnSet(f, recent) = SumFunctionOnSet(e, {place[j] : j \in recent})
  BY <1>2, <1>5, SumsMatch
<1>8. QED
  BY <1>6, <1>7, Zenon DEF recent

(* The estimator's inductive invariant, for every window, smoothing and    *)
(* word: its times are those of the history, its ring holds the last       *)
(* Window intervals, each at its place, and its latency comes from round   *)
(* trips that were measured.                                               *)
THEOREM EstimatorInvariant == TelemetrySpec => []EstimatorInv
<1>1. TelemetryInit => EstimatorInv
  <2> SUFFICES ASSUME TelemetryInit PROVE EstimatorInv
    OBVIOUS
  <2>1. Last = 0 /\ Known = 0 /\ <<>> \in Seq(Nat \ {0}) /\ MaxTime \in Nat
    BY EmptySeq, TelemetryAssumption DEF TelemetryInit, Last, Known
  <2>2. TimesInv
    BY <2>1 DEF TelemetryInit, EstimatorInit, TimesInv
  <2>3. Window \in Nat /\ 1 <= Window /\ 0 = Window * 0 + 0 /\ 0 \in 0 .. Window - 1
    BY EstimatorAssumption
  <2>4. 0 % Window = 0
    BY <2>3, Rest
  <2>5. RingInv
    BY <2>1, <2>3, <2>4 DEF TelemetryInit, EstimatorInit, RingInv
  <2>6. RttInv
    BY DEF TelemetryInit, EstimatorInit, RttInv
  <2>7. JitterInv
    BY EstimatorAssumption DEF TelemetryInit, EstimatorInit, JitterInv
  <2>8. QED
    BY <2>2, <2>5, <2>6, <2>7 DEF EstimatorInv
<1>2. EstimatorInv /\ [TelemetryNext]_vars => EstimatorInv'
  <2> SUFFICES ASSUME EstimatorInv, [TelemetryNext]_vars PROVE EstimatorInv'
    OBVIOUS
  <2>1. CASE TelemetryNext
    BY <2>1, TimesStay, RingStays, JitterStays, RttStays DEF EstimatorInv
  <2>2. CASE UNCHANGED vars
    BY <2>2 DEF vars, history, estimator, EstimatorInv, TimesInv, RingInv, JitterInv, RttInv, Last, Known
  <2>3. QED
    BY <2>1, <2>2
<1>3. QED
  BY <1>1, <1>2, PTL DEF TelemetrySpec

(* The latency lies between measured round trips, none of them longer than *)
(* the process has lived unless the device echoed another process's stamp; *)
(* stateAge returns the time since the last status unless overtaken.       *)
THEOREM ReportsHold == TelemetrySpec => []ReportsAreMeasured
<1>1. EstimatorInv => ReportsAreMeasured
  <2> SUFFICES ASSUME EstimatorInv PROVE ReportsAreMeasured
    OBVIOUS
  <2>0. /\ clock \in 0 .. MaxTime /\ MaxTime \in Nat /\ MaxTime < Word /\ Word \in Nat
        /\ Last \in 0 .. clock /\ (Last = 0 <=> arrivals = <<>>)
    BY LastIsKnown, TelemetryAssumption, EstimatorAssumption DEF EstimatorInv, TimesInv
  <2>1. /\ m_has_valid_rtt => m_smoothed_rtt \in measured[1] .. measured[2]
        /\ ~m_has_valid_rtt => m_smoothed_rtt = 0
        /\ m_smoothed_rtt > clock => foreign
    BY <2>0 DEF EstimatorInv, RttInv
  <2>2. ASSUME asked # Idle, ~overtaken
        PROVE  stateAgeUs(asked) = IF arrivals = <<>> THEN 0 ELSE asked - arrivals[Len(arrivals)]
    <3>1. asked \in 0 .. clock /\ Last <= asked /\ m_recv_time_us = Last
      BY <2>2 DEF EstimatorInv, TimesInv
    <3>2. CASE arrivals = <<>>
      BY <2>0, <3>1, <3>2 DEF stateAgeUs
    <3>3. CASE arrivals # <<>>
      <4>1. asked - Last \in 0 .. Word - 1
        BY <2>0, <3>1
      <4>2. Elapsed(asked, Last) = asked - Last
        BY <4>1, NoWrap DEF Elapsed
      <4>3. Last = arrivals[Len(arrivals)] /\ Last # 0
        BY <2>0, <3>3 DEF Last
      <4>4. QED
        BY <3>1, <3>3, <4>2, <4>3 DEF stateAgeUs
    <3>4. QED
      BY <3>2, <3>3
  <2>3. QED
    BY <2>1, <2>2 DEF ReportsAreMeasured
<1>2. QED
  BY <1>1, EstimatorInvariant, PTL

-----------------------------------------------------------------------------
(* The intervals of the history, and what the ring holds of them.          *)
LEMMA IntervalsOfHistory ==
  ASSUME EstimatorInv
  PROVE  /\ Known \in Nat /\ Len(Intervals) = Known
         /\ \A j \in 1 .. Known + 1 : Known > 0 => arrivals[j] \in Int
         /\ \A j \in 1 .. Known : Intervals[j] = arrivals[j + 1] - arrivals[j] /\ Intervals[j] \in Int
<1>1. Known \in Nat /\ arrivals \in Seq(Nat \ {0})
  BY LastIsKnown DEF EstimatorInv, TimesInv
<1>2. 1 .. Len(arrivals) - 1 = 1 .. Known
  <2>1. CASE arrivals = <<>>
    BY <2>1 DEF Known
  <2>2. CASE arrivals # <<>>
    BY <2>2 DEF Known
  <2>3. QED
    BY <2>1, <2>2
<1>3. \A j \in 1 .. Known + 1 : Known > 0 => arrivals[j] \in Int
  <2>1. CASE arrivals = <<>>
    BY <2>1 DEF Known
  <2>2. CASE arrivals # <<>>
    <3>1. Len(arrivals) = Known + 1
      BY <2>2, LastIsKnown DEF EstimatorInv
    <3>2. QED
      BY <1>1, <3>1, LenProperties
  <2>3. QED
    BY <2>1, <2>2
<1>4. Intervals = [j \in 1 .. Known |-> arrivals[j + 1] - arrivals[j]]
  BY <1>2 DEF Intervals
<1>5. ASSUME NEW j \in 1 .. Known
      PROVE  Intervals[j] = arrivals[j + 1] - arrivals[j] /\ Intervals[j] \in Int
  <2>1. arrivals[j] \in Int /\ arrivals[j + 1] \in Int
    BY <1>1, <1>3
  <2>2. QED
    BY <1>4, <2>1
<1>6. Len(Intervals) = Known
  BY <1>1, <1>4
<1>7. QED
  BY <1>1, <1>3, <1>5, <1>6

LEMMA RatesAreRecent == ASSUME EstimatorInv PROVE RateAndJitterAreRecent
<1> DEFINE n      == Len(Intervals)
           k      == Min({n, Window})
           a      == n - k + 1
           recent == a .. n
           span   == arrivals[n + 1] - arrivals[a]
           pairs  == {p \in recent \X recent : p[1] < p[2]}
           Gap(p) == Intervals[p[1]] - Intervals[p[2]]
           gaps   == [p \in pairs |-> Gap(p) * Gap(p)]
           Recent == IF n < Enough THEN receiveHz = NoRate /\ m_jitter_us = 0
                     ELSE /\ receiveHz = IF span = 0 THEN NoRate ELSE [count |-> k, sum |-> span]
                          /\ m_jitter_us = SumFunction(gaps)
<1>0. SUFFICES Recent
  BY Zenon DEF RateAndJitterAreRecent
<1>1. /\ n = Known /\ n \in Nat /\ Window \in Nat /\ 1 <= Window /\ Enough \in Nat /\ 1 <= Enough /\ Enough <= Window
      /\ k \in Nat /\ k = IF n < Window THEN n ELSE Window
  <2>1. n = Known /\ n \in Nat /\ Window \in Nat /\ 1 <= Window /\ Enough \in Nat /\ 1 <= Enough /\ Enough <= Window
    BY IntervalsOfHistory, EstimatorAssumption
  <2> HIDE DEF n
  <2>2. k \in {n, Window} /\ k <= n /\ k <= Window
    BY <2>1, MinMaxOfTwo
  <2> HIDE DEF k
  <2>3. QED
    BY <2>1, <2>2
<1>2. /\ m_window_count = k
      /\ \A j \in 1 .. n : n - Window < j => m_intervals[(j - 1) % Window] = arrivals[j + 1] - arrivals[j]
  BY <1>1 DEF EstimatorInv, RingInv
<1>3. /\ \A j \in 1 .. n + 1 : n > 0 => arrivals[j] \in Int
      /\ \A j \in 1 .. n : Intervals[j] = arrivals[j + 1] - arrivals[j] /\ Intervals[j] \in Int
  BY <1>1, IntervalsOfHistory
<1>4. m_jitter_us = IF k < Enough THEN 0 ELSE Spread(m_intervals, k)
  BY <1>2 DEF EstimatorInv, JitterInv
<1> HIDE DEF n, k
<1>5. CASE n < Enough
  BY <1>1, <1>2, <1>4, <1>5 DEF receiveHz
<1>6. CASE ~(n < Enough)
  <2>1. /\ a \in 1 .. n /\ k \in 1 .. Window /\ ~(k < Enough) /\ n > 0
        /\ a + k = n + 1 /\ a + (k - 1) = n /\ a + k - 1 = n /\ k - 1 \in Nat /\ (k - 1) + 1 = k
    BY <1>1, <1>6
  <2>2. \A j \in recent : j \in 1 .. n /\ n - Window < j
    BY <1>1, <2>1
  <2>3. \A j \in recent : Intervals[j] \in Int /\ m_intervals[(j - 1) % Window] = Intervals[j]
    BY <1>2, <1>3, <2>2
  <2> DEFINE sq == [j \in recent |-> Intervals[j] * Intervals[j]]
             ringsq == [i \in 0 .. k - 1 |-> m_intervals[i] * m_intervals[i]]
             x == SumFunctionOnSet(Intervals, recent)
             y == SumFunctionOnSet(sq, recent)
  <2>a. n \in Nat /\ k \in Nat /\ (n < Window => k = n) /\ (n >= Window => k = Window) /\ a \in Int
    BY <1>1, <2>1
  <2>4. Sum(m_intervals, k) = x
    <3>1. a = n - k + 1 /\ RingHolds(Intervals, m_intervals, a, n)
      BY <2>3 DEF RingHolds
    <3> HIDE DEF a
    <3>2. SumFunctionOnSet(Intervals, a .. n) = SumFunctionOnSet(m_intervals, 0 .. k - 1)
      BY ONLY <2>a, <3>1, RingSum
    <3>3. QED
      BY <3>2 DEF Sum
  <2>5. Sum(ringsq, k) = y
    <3>1. \A j \in recent : (j - 1) % Window \in 0 .. k - 1
      BY <1>1, <2>1
    <3>2. \A j \in recent : sq[j] \in Int /\ ringsq[(j - 1) % Window] = sq[j]
      BY <2>3, <3>1
    <3>3. a = n - k + 1 /\ RingHolds(sq, ringsq, a, n)
      BY <3>2 DEF RingHolds
    <3> HIDE DEF a, sq, ringsq
    <3>4. SumFunctionOnSet(sq, a .. n) = SumFunctionOnSet(ringsq, 0 .. k - 1)
      BY ONLY <2>a, <3>3, RingSum
    <3>5. QED
      BY <3>4 DEF Sum
  <2>6. x = span
    <3>1. \A j \in a .. n + 1 : arrivals[j] \in Int
      BY <1>3, <2>1
    <3>2. \A j \in a .. n : Intervals[j] = arrivals[j + 1] - arrivals[j]
      BY <1>3, <2>1
    <3>3. a <= n + 1 /\ n \in Int
      BY <1>1, <2>1
    <3> HIDE DEF a
    <3>4. QED
      BY <2>a, <3>1, <3>2, <3>3, Telescopes
  <2>7. SumFunctionOnSet(gaps, pairs) = k * y - x * x
    <3>1. pairs = Pairs(a, n) /\ a \in Int /\ n \in Int /\ a <= n /\ n - a + 1 = k
      BY <1>1, <2>1 DEF Pairs
    <3>2. Squares(sq, Intervals, a, n)
      BY <2>3 DEF Squares
    <3>3. SquaredGaps(gaps, Intervals, a, n)
      BY <3>1 DEF SquaredGaps
    <3> HIDE DEF a, sq, gaps, pairs
    <3>4. SumFunctionOnSet(gaps, Pairs(a, n))
            = (n - a + 1) * SumFunctionOnSet(sq, a .. n)
              - SumFunctionOnSet(Intervals, a .. n) * SumFunctionOnSet(Intervals, a .. n)
      BY ONLY <3>1, <3>2, <3>3, SpreadByPairs
    <3>5. QED
      BY <3>1, <3>4, Zenon
  <2>8. Spread(m_intervals, k) = SumFunction(gaps)
    <3>1. Spread(m_intervals, k) = k * Sum(ringsq, k) - Sum(m_intervals, k) * Sum(m_intervals, k)
      BY DEF Spread
    <3>2. SumFunction(gaps) = SumFunctionOnSet(gaps, pairs)
      <4>1. DOMAIN gaps = pairs
        OBVIOUS
      <4> HIDE DEF gaps, pairs
      <4>2. QED
        BY <4>1, Zenon DEF SumFunction, SumFunctionOnSet
    <3> HIDE DEF x, y, ringsq, gaps, pairs
    <3>3. QED
      BY <2>4, <2>5, <2>7, <3>1, <3>2
  <2>9. receiveHz = IF span = 0 THEN NoRate ELSE [count |-> k, sum |-> span]
    <3> HIDE DEF x, span
    <3>1. QED
      BY <1>2, <2>1, <2>4, <2>6 DEF receiveHz
  <2>10. QED
    BY <1>4, <1>6, <2>1, <2>8, <2>9, Zenon
<1>7. QED
  BY <1>5, <1>6

(* Every rate is the number of the last intervals by the time they span,   *)
(* and every jitter their deviation, however often the ring has wrapped.   *)
THEOREM RateAndJitterHold == TelemetrySpec => []RateAndJitterAreRecent
<1>1. EstimatorInv => RateAndJitterAreRecent
  BY RatesAreRecent
<1>2. QED
  BY <1>1, EstimatorInvariant, PTL
=============================================================================
