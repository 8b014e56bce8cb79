--------------------------------- MODULE Telemetry ---------------------------------
(***************************************************************************)
(* What ArmImpl derives from the stream of statuses: each new status is    *)
(* timed by the LatencyEstimator and pushed on the AngleTimeline, in that  *)
(* order, by the I/O thread, while the user's thread asks ArmControl for   *)
(* the age of the state and the arm for interpolated samples.              *)
(*                                                                         *)
(* The device is external: it stamps a status with its own clock, which    *)
(* goes back when it restarts, and echoes the stamp of the last command it *)
(* received: none, one of this process or, in its first statuses, one of   *)
(* the process that was connected before, whose clock had another origin.  *)
(***************************************************************************)
EXTENDS AngleTimeline, LatencyEstimator

CONSTANTS MaxStatuses,   \* bound on the statuses received
          MaxTime,       \* bound on the host's clock
          OwnEchoes,     \* zero and stamps of commands of this process
          ForeignEchoes  \* stamps left by another process

ASSUME TelemetryAssumption == /\ {MaxStatuses, MaxTime} \cup OwnEchoes \subseteq Nat /\ MaxTime < Word
                              /\ ForeignEchoes \subseteq 1 .. Word - 1

VARIABLES clock,       \* s_nowUs
          asked,       \* the time an unfinished stateAge has read, or Idle
          arrivals,    \* when each status was received, but for those at time zero, which the
                       \* estimator takes for no status
          overtaken,   \* a status was received within the last stateAge
          foreign,     \* the stamp of another process was echoed
          measured     \* least and largest round trip measured
history == <<arrivals, overtaken, foreign, measured>>
vars == <<m_samples, estimator, clock, asked, history>>

Idle == -1

TelemetryInit == /\ Init
                 /\ EstimatorInit
                 /\ clock = 0
                 /\ asked = Idle
                 /\ arrivals = <<>>
                 /\ overtaken = FALSE
                 /\ foreign = FALSE
                 /\ measured = <<>>

Tick == /\ clock < MaxTime
        /\ clock' = clock + 1
        /\ UNCHANGED <<m_samples, estimator, asked, history>>

Measure(rtt) == measured' = IF measured = <<>> THEN <<rtt, rtt>>
                            ELSE <<Min({measured[1], rtt}), Max({measured[2], rtt})>>

(* s_feedBytes on a status with a new sequence number. *)
NewStatus == \E s \in Sample, echo \in {e \in OwnEchoes : e <= clock} \cup ForeignEchoes :
  /\ Len(arrivals) < MaxStatuses
  /\ markReceived(echo, clock)
  /\ push(s)
  /\ arrivals' = IF clock > 0 THEN Append(arrivals, clock) ELSE arrivals
  /\ overtaken' = (overtaken \/ asked # Idle)
  /\ foreign' = (foreign \/ echo > clock)
  /\ IF echo > 0 THEN Measure(Elapsed(clock, echo)) ELSE UNCHANGED measured
  /\ UNCHANGED <<clock, asked>>

(* ArmControl::stateAge reads the clock, and then returns stateAgeUs(asked) *)
(* of the estimator as it is by then.                                      *)
StateAgeAsks == /\ asked = Idle
                /\ asked' = clock
                /\ overtaken' = FALSE
                /\ UNCHANGED <<m_samples, estimator, clock, arrivals, foreign, measured>>

StateAgeReturns == /\ asked # Idle
                   /\ asked' = Idle
                   /\ UNCHANGED <<m_samples, estimator, clock, history>>

TelemetryNext == Tick \/ NewStatus \/ StateAgeAsks \/ StateAgeReturns

TelemetrySpec == TelemetryInit /\ [][TelemetryNext]_vars

-----------------------------------------------------------------------------
Intervals == [i \in 1 .. Len(arrivals) - 1 |-> arrivals[i + 1] - arrivals[i]]

(* receiveHz is the number of the last Window intervals by the time they   *)
(* span, and the jitter is the deviation of exactly these intervals, given *)
(* here by their differences in pairs: the ring neither keeps an interval  *)
(* that has left the window nor counts one that was not written yet.       *)
RateAndJitterAreRecent ==
  LET n      == Len(Intervals)
      k      == Min({n, Window})
      recent == n - k + 1 .. n
      span   == arrivals[n + 1] - arrivals[n - k + 1]
      pairs  == {p \in recent \X recent : p[1] < p[2]}
      Gap(p) == Intervals[p[1]] - Intervals[p[2]]
  IN  IF n < Enough THEN receiveHz = NoRate /\ m_jitter_us = 0
      ELSE /\ receiveHz = IF span = 0 THEN NoRate ELSE [count |-> k, sum |-> span]
           /\ m_jitter_us = SumFunction([p \in pairs |-> Gap(p) * Gap(p)])

(* The latency lies between round trips that were measured, which the host *)
(* has lived through unless the device echoed another process's stamp (the *)
(* difference then wraps); and stateAge returns the time since the last    *)
(* status, unless one arrives after it read the clock (it then wraps too). *)
ReportsAreMeasured ==
  /\ m_has_valid_rtt => m_smoothed_rtt \in measured[1] .. measured[2]
  /\ ~m_has_valid_rtt => m_smoothed_rtt = 0
  /\ m_smoothed_rtt > clock => foreign
  /\ asked # Idle /\ ~overtaken =>
       stateAgeUs(asked) = IF arrivals = <<>> THEN 0 ELSE asked - arrivals[Len(arrivals)]
=============================================================================
