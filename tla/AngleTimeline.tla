------------------------------- MODULE AngleTimeline -------------------------------
(***************************************************************************)
(* florid::recording::AngleTimeline: the last joint samples of the arm,    *)
(* ordered by the device's clock, and their interpolation at a trigger's   *)
(* time stamp.  Every method holds the object's mutex, so each is a step.  *)
(*                                                                         *)
(* A sample is a time stamp and one reading (the joints and grippers are   *)
(* interpolated alike).  Fractions are exact: an interpolated reading is   *)
(* given as its product with the gap.                                      *)
(***************************************************************************)
EXTENDS Integers, Sequences

CONSTANTS Capacity,   \* m_capacity; zero turns the timeline off
          MaxGapUs,   \* m_max_gap_us
          Times,      \* device time stamps
          Readings

ASSUME TimelineAssumption == /\ Capacity \in Nat /\ MaxGapUs \in Nat
                             /\ Times \subseteq Nat /\ Readings \subseteq Int

VARIABLE m_samples

Sample == [ts : Times, q : Readings]
Back   == m_samples[Len(m_samples)]

Init == m_samples = <<>>

(* push: a sample that is not newer than the newest is dropped; the oldest *)
(* one leaves when the capacity is exceeded.                               *)
RejectedIfFull(s)  == Len(m_samples) = Capacity \/ (m_samples # <<>> /\ s.ts <= Back.ts)
Rejected(s) == \/ Capacity = 0
               \/ m_samples # <<>> /\ s.ts <= Back.ts

push(s) ==
  IF Rejected(s) THEN UNCHANGED m_samples
  ELSE m_samples' = IF Len(m_samples) < Capacity THEN Append(m_samples, s)
                                                 ELSE Append(Tail(m_samples), s)

clear == m_samples' = <<>>

-----------------------------------------------------------------------------
(* interpolate(t): scan for the first sample that is not older than t.     *)

None == [status |-> "None"]
Exact(s) == [status |-> "Exact", before |-> s.ts, after |-> s.ts, q |-> s.q]
Between(b, a, t) ==
  [status |-> IF a.ts - b.ts > MaxGapUs THEN "Gap" ELSE "Interpolated",
   before |-> b.ts, after |-> a.ts,
   q |-> b.q * (a.ts - b.ts) + (t - b.ts) * (a.q - b.q)]

CoversNoLower(t) == m_samples # <<>> /\ t <= Back.ts
Covers(t) == m_samples # <<>> /\ m_samples[1].ts <= t /\ t <= Back.ts

FirstNotBefore(t) ==
  CHOOSE i \in 1 .. Len(m_samples) :
    m_samples[i].ts >= t /\ \A j \in 1 .. i - 1 : m_samples[j].ts < t

interpolate(t) ==
  IF ~Covers(t) THEN None
  ELSE LET i == FirstNotBefore(t)
           after == m_samples[i]
       IN  IF i = 1 \/ after.ts = t THEN Exact(after)
           ELSE Between(m_samples[i - 1], after, t)

-----------------------------------------------------------------------------
Next == \/ \E s \in Sample : push(s)
        \/ clear

Spec == Init /\ [][Next]_m_samples

-----------------------------------------------------------------------------
TypeOK == m_samples \in Seq(Sample)

(* At most Capacity samples, strictly ordered by device time: the scan and *)
(* the subtraction of time stamps in interpolate rely on both.             *)
SortedAndBounded ==
  /\ Len(m_samples) <= Capacity
  /\ \A i, j \in 1 .. Len(m_samples) : i < j => m_samples[i].ts < m_samples[j].ts

(* What interpolation means, on the set of samples held: the reading at t  *)
(* if t was sampled; else the straight line between the closest sample on  *)
(* each side, marked when they lie too far apart; else nothing.            *)
Held == {m_samples[i] : i \in 1 .. Len(m_samples)}
IsInterpolation(res, t) ==
  \/ \E s \in Held : s.ts = t /\ res = Exact(s)
  \/ \E b, a \in Held :
       /\ b.ts < t /\ t < a.ts
       /\ \A s \in Held : s.ts <= b.ts \/ a.ts <= s.ts
       /\ res = Between(b, a, t)
  \/ /\ res = None
     /\ (\A s \in Held : s.ts < t) \/ (\A s \in Held : t < s.ts)

(* interpolate answers every query as interpolation is defined: it never   *)
(* extrapolates, never skips a closer sample and never answers a sampled   *)
(* time with an estimate.                                                  *)
InterpolateCorrect == \A t \in Times : IsInterpolation(interpolate(t), t)
=============================================================================
