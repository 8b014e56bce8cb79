------------------------------ MODULE LatencyEstimator ------------------------------
(***************************************************************************)
(* florid::detail::LatencyEstimator: how regularly the statuses of the arm *)
(* arrive, and how old the command is that the newest one echoes.          *)
(*                                                                         *)
(* Times are microseconds since the process first read its clock, so zero  *)
(* is a time the clock can return.  A mean and a deviation are given as    *)
(* the whole numbers they are quotients of.                                *)
(***************************************************************************)
EXTENDS Integers, FiniteSetsExt

CONSTANTS Window,    \* g_window_size; 64 in the code
          Enough,    \* intervals needed for a mean; 4 in the code
          Alpha,     \* m_alpha, in tenths; 1 in the code unless setEmaAlpha is called
          Word       \* the unsigned time stamps wrap at this number; 2^64 in the code

ASSUME EstimatorAssumption == /\ {Window, Enough, Word} \subseteq Nat /\ Alpha \in 0 .. 10
                              /\ 1 <= Enough /\ Enough <= Window /\ 1 <= Word

VARIABLES m_recv_time_us, m_prev_recv_time_us,
          m_intervals, m_window_idx, m_window_count,
          m_jitter_us, m_smoothed_rtt, m_has_valid_rtt
estimator == <<m_recv_time_us, m_prev_recv_time_us, m_intervals, m_window_idx,
               m_window_count, m_jitter_us, m_smoothed_rtt, m_has_valid_rtt>>

EstimatorInit == /\ m_recv_time_us = 0
                 /\ m_prev_recv_time_us = 0
                 /\ m_intervals = [i \in 0 .. Window - 1 |-> 0]
                 /\ m_window_idx = 0
                 /\ m_window_count = 0
                 /\ m_jitter_us = 0
                 /\ m_smoothed_rtt = 0
                 /\ m_has_valid_rtt = FALSE

Elapsed(now, since) == (now - since) % Word

Sum(f, n) == SumFunctionOnSet(f, 0 .. n - 1)

(* n^2 times the variance of the first n intervals.                        *)
Spread(f, n) == n * Sum([i \in 0 .. n - 1 |-> f[i] * f[i]], n) - Sum(f, n) * Sum(f, n)

AdvanceStuck(idx) == IF idx + 1 < Window THEN idx + 1 ELSE idx     \* faulty: no wrap
Advance(idx)      == (idx + 1) % Window

MarkInterval(now) ==
  IF m_prev_recv_time_us > 0
  THEN /\ m_intervals' = [m_intervals EXCEPT ![m_window_idx] = Elapsed(now, m_prev_recv_time_us)]
       /\ m_window_idx' = Advance(m_window_idx)
       /\ m_window_count' = IF m_window_count < Window THEN m_window_count + 1 ELSE m_window_count
       /\ m_jitter_us' = IF m_window_count' >= Enough THEN Spread(m_intervals', m_window_count')
                                                      ELSE m_jitter_us
  ELSE UNCHANGED <<m_intervals, m_window_idx, m_window_count, m_jitter_us>>

(* m_alpha * new + (1 - m_alpha) * old, rounded down.                      *)
Smoothed(old, new) == (Alpha * new + (10 - Alpha) * old) \div 10

SmoothRttFromZero(rtt) ==     \* faulty: the first measurement is smoothed with the initial zero
  m_smoothed_rtt' = Smoothed(m_smoothed_rtt, rtt) /\ m_has_valid_rtt' = TRUE
SmoothRtt(rtt) ==
  IF m_has_valid_rtt
  THEN m_smoothed_rtt' = Smoothed(m_smoothed_rtt, rtt) /\ UNCHANGED m_has_valid_rtt
  ELSE m_smoothed_rtt' = rtt /\ m_has_valid_rtt' = TRUE

markReceived(echo, now) ==
  /\ m_recv_time_us' = now
  /\ MarkInterval(now)
  /\ m_prev_recv_time_us' = now
  /\ IF echo > 0 THEN SmoothRtt(Elapsed(now, echo))
                 ELSE UNCHANGED <<m_smoothed_rtt, m_has_valid_rtt>>

stateAgeUs(now) == IF m_recv_time_us = 0 THEN 0 ELSE Elapsed(now, m_recv_time_us)

(* 1e6 times the quotient of the two numbers; zero when there is none.     *)
NoRate == [count |-> 0, sum |-> 1]
receiveHz ==
  LET sum == Sum(m_intervals, m_window_count)
  IN  IF m_window_count < Enough \/ sum = 0 THEN NoRate
      ELSE [count |-> m_window_count, sum |-> sum]
=============================================================================
