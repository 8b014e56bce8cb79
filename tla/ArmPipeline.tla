-------------------------------- MODULE ArmPipeline --------------------------------
(***************************************************************************)
(* ArmImpl's threads and what they share.  The I/O thread turns each chunk *)
(* from the port into pool writes, trigger events, a timeline sample and a *)
(* queued status (s_feedBytes); the control thread waits on a semaphore,   *)
(* takes one status per turn, calls back and sends a command               *)
(* (s_controlLoop; s_gripperLoop has the same steps); a user thread may    *)
(* stop the loop, or read states while no loop runs.                       *)
(*                                                                         *)
(* A status is its sequence number, which is also its device time stamp.   *)
(* Steps are the accesses to shared state; what a thread does alone is     *)
(* part of the step before.                                                *)
(***************************************************************************)
EXTENDS Integers, Sequences

CONSTANTS MaxStatus, MaxTriggers,   \* statuses and triggers the device sends
          ChunkFrames,              \* most frames of a kind in one chunk
          MaxRuns, MaxStops,        \* control loops started, stop() calls
          Restarts,                 \* times the device restarts its counters
          MaxReads,                 \* readOnce calls between loops
          Capacity                  \* of the timeline

ASSUME PipelineAssumption ==
  {MaxStatus, MaxTriggers, ChunkFrames, MaxRuns, MaxStops, Restarts, MaxReads, Capacity}
    \subseteq Nat

VARIABLES
  nextSeq, nextTrigger, restarts,        \* the device's counters
  poolStatus, poolTrigger, poolVersion,  \* the deserializer's slots
  io, m_last_status_seq, m_last_trigger_version,
  m_samples, m_trigger_queue, m_rx_queue, m_data_ready,
  m_running, m_stop_flag,
  loop, runs,                            \* the control thread
  stopper, stops, reads,                 \* the user thread, in stop(); readOnce calls
  queued, taken, triggersTaken,          \* statuses enqueued, dequeued; triggers dequeued
  stopped, overrun                       \* stop() took effect; callbacks since
deviceVars == <<nextSeq, nextTrigger, restarts>>
poolVars   == <<poolStatus, poolTrigger, poolVersion>>
ioVars     == <<io, m_last_status_seq, m_last_trigger_version, m_samples>>
triggerVars == <<m_trigger_queue, triggersTaken>>
queueVars  == <<m_rx_queue, queued, taken>>
flagVars   == <<m_running, m_stop_flag>>
loopVars   == <<loop, runs, stopped, overrun>>
userVars   == <<stopper, stops, reads>>
vars == <<deviceVars, poolVars, ioVars, triggerVars, queueVars, m_data_ready, flagVars,
          loopVars, userVars>>

Timeline == INSTANCE AngleTimeline
              WITH MaxGapUs <- 0, Times <- 0 .. MaxStatus, Readings <- {0}

Init == /\ nextSeq = 1 /\ nextTrigger = 1 /\ restarts = 0
        /\ poolStatus = 0 /\ poolTrigger = 0 /\ poolVersion = 0
        /\ io = "idle" /\ m_last_status_seq = 0 /\ m_last_trigger_version = 0
        /\ m_samples = <<>> /\ m_trigger_queue = <<>> /\ m_rx_queue = <<>>
        /\ m_data_ready = 0
        /\ m_running = FALSE /\ m_stop_flag = FALSE
        /\ loop = "idle" /\ runs = 0
        /\ stopper = "idle" /\ stops = 0 /\ reads = 0
        /\ queued = <<>> /\ taken = <<>> /\ triggersTaken = <<>>
        /\ stopped = FALSE /\ overrun = 0

-----------------------------------------------------------------------------
(* The device's counters start over. *)
DeviceRestarts ==
  /\ restarts < Restarts
  /\ restarts' = restarts + 1
  /\ nextSeq' = 1
  /\ UNCHANGED <<nextTrigger, poolVars, ioVars, triggerVars, queueVars, m_data_ready, flagVars,
                 loopVars, userVars>>

-----------------------------------------------------------------------------
(* The I/O thread: s_feedBytes *)

(* receive: the parser leaves the last status and the last trigger of the  *)
(* chunk in the pool; a refused chunk is gone and ends the handler.        *)
Receive(statuses, triggers) ==
  /\ io = "idle"
  /\ statuses + triggers > 0
  /\ nextSeq + statuses <= MaxStatus + 1
  /\ nextTrigger + triggers <= MaxTriggers + 1
  /\ nextSeq' = nextSeq + statuses
  /\ nextTrigger' = nextTrigger + triggers
  /\ \/ /\ poolStatus' = IF statuses > 0 THEN nextSeq' - 1 ELSE poolStatus
        /\ poolTrigger' = IF triggers > 0 THEN nextTrigger' - 1 ELSE poolTrigger
        /\ poolVersion' = poolVersion + 2 * triggers
        /\ io' = "triggers"
     \/ UNCHANGED <<poolVars, io>>
  /\ UNCHANGED <<restarts, m_last_status_seq, m_last_trigger_version, m_samples,
                 triggerVars, queueVars, m_data_ready, flagVars, loopVars, userVars>>

s_pollTriggerAgain ==     \* faulty: the version seen is not kept
  /\ io = "triggers"
  /\ io' = "status"
  /\ m_trigger_queue' = IF poolVersion = m_last_trigger_version THEN m_trigger_queue
                        ELSE Append(m_trigger_queue, poolTrigger)
  /\ UNCHANGED <<deviceVars, poolVars, m_last_trigger_version, m_last_status_seq, m_samples,
                 triggersTaken, queueVars, m_data_ready, flagVars, loopVars, userVars>>

s_pollTrigger ==
  /\ io = "triggers"
  /\ io' = "status"
  /\ m_last_trigger_version' = poolVersion
  /\ m_trigger_queue' = IF poolVersion = m_last_trigger_version THEN m_trigger_queue
                        ELSE Append(m_trigger_queue, poolTrigger)
  /\ UNCHANGED <<deviceVars, poolVars, m_last_status_seq, m_samples, triggersTaken, queueVars,
                 m_data_ready, flagVars, loopVars, userVars>>

NewStatusAlways == TRUE
NewStatus == poolStatus # m_last_status_seq

AfterStatus == IF NewStatus THEN "release" ELSE "idle"

TakeStatus ==
  /\ io = "status"
  /\ io' = AfterStatus
  /\ \/ /\ ~NewStatus
        /\ UNCHANGED <<m_last_status_seq, m_samples, m_rx_queue, queued>>
     \/ /\ NewStatus
        /\ m_last_status_seq' = poolStatus
        /\ Timeline!push([ts |-> poolStatus, q |-> 0])
        /\ m_rx_queue' = Append(m_rx_queue, poolStatus)
        /\ queued' = Append(queued, poolStatus)
  /\ UNCHANGED <<deviceVars, poolVars, m_last_trigger_version, triggerVars, taken,
                 m_data_ready, flagVars, loopVars, userVars>>

ReleaseBinary ==     \* faulty: a binary semaphore
  /\ io = "release"
  /\ io' = "idle"
  /\ m_data_ready' = 1
  /\ UNCHANGED <<deviceVars, poolVars, m_last_status_seq, m_last_trigger_version, m_samples,
                 triggerVars, queueVars, flagVars, loopVars, userVars>>

Release ==
  /\ io = "release"
  /\ io' = "idle"
  /\ m_data_ready' = m_data_ready + 1
  /\ UNCHANGED <<deviceVars, poolVars, m_last_status_seq, m_last_trigger_version, m_samples,
                 triggerVars, queueVars, flagVars, loopVars, userVars>>

-----------------------------------------------------------------------------
(* The control thread: s_controlLoop *)

othersOfLoop == <<deviceVars, poolVars, ioVars, triggerVars, userVars>>

StartLoop ==
  /\ loop = "idle"
  /\ runs < MaxRuns
  /\ runs' = runs + 1
  /\ m_running' = TRUE
  /\ loop' = "starting"
  /\ stopped' = FALSE /\ overrun' = 0
  /\ UNCHANGED <<m_stop_flag, queueVars, m_data_ready, othersOfLoop>>

ClearStop ==      \* m_stop_flag = false, then s_requestPcMode
  /\ loop = "starting"
  /\ m_stop_flag' = FALSE
  /\ loop' = "test"
  /\ UNCHANGED <<m_running, runs, stopped, overrun, queueVars, m_data_ready, othersOfLoop>>

StayInLoopUnlessFlagged == ~m_stop_flag
StayInLoop == m_running /\ ~m_stop_flag

TestFlags ==
  /\ loop = "test"
  /\ loop' = IF StayInLoop THEN "acquire" ELSE "ending"
  /\ UNCHANGED <<flagVars, runs, stopped, overrun, queueVars, m_data_ready, othersOfLoop>>

Acquire ==
  /\ loop = "acquire"
  /\ m_data_ready > 0
  /\ m_data_ready' = m_data_ready - 1
  /\ loop' = "dequeue"
  /\ UNCHANGED <<flagVars, runs, stopped, overrun, queueVars, othersOfLoop>>

Dequeue ==
  /\ loop = "dequeue"
  /\ \/ /\ m_rx_queue = <<>>
        /\ loop' = "test"
        /\ UNCHANGED queueVars
     \/ /\ m_rx_queue # <<>>
        /\ m_rx_queue' = Tail(m_rx_queue)
        /\ taken' = Append(taken, Head(m_rx_queue))
        /\ loop' = "callback"
        /\ UNCHANGED queued
  /\ UNCHANGED <<flagVars, runs, stopped, overrun, m_data_ready, othersOfLoop>>

finishMotion == m_stop_flag' = TRUE /\ UNCHANGED m_running
stopControl  == m_stop_flag' = TRUE /\ m_running' = FALSE

(* The callback, the command it returns, and the break on a finished       *)
(* motion.  It may call finishMotion or stopControl on its ArmControl.     *)
Callback ==
  /\ loop = "callback"
  /\ overrun' = IF stopped THEN overrun + 1 ELSE overrun
  /\ finishMotion \/ stopControl \/ UNCHANGED flagVars
  /\ loop' \in {"test", "ending"}
  /\ UNCHANGED <<runs, stopped, queueVars, m_data_ready, othersOfLoop>>

EndLoop ==
  /\ loop = "ending"
  /\ m_running' = FALSE
  /\ loop' = "idle"
  /\ stopped' = FALSE /\ overrun' = 0
  /\ UNCHANGED <<m_stop_flag, runs, queueVars, m_data_ready, othersOfLoop>>

-----------------------------------------------------------------------------
(* The user thread: stop() writes both flags, then wakes the loop; readOnce *)
(* takes a status without taking its permit, readTriggerOnce a trigger.    *)

othersOfUser == <<deviceVars, poolVars, ioVars, loop, runs, overrun>>

StopFlag ==
  /\ stopper = "idle"
  /\ stops < MaxStops
  /\ stops' = stops + 1
  /\ m_stop_flag' = TRUE
  /\ stopper' = "flagged"
  /\ UNCHANGED <<m_running, stopped, reads, triggerVars, queueVars, m_data_ready, othersOfUser>>

StopRunning ==
  /\ stopper = "flagged"
  /\ m_running' = FALSE
  /\ stopped' = (loop # "idle")
  /\ stopper' = "cleared"
  /\ UNCHANGED <<m_stop_flag, stops, reads, triggerVars, queueVars, m_data_ready, othersOfUser>>

StopSilently ==     \* faulty: does not wake the loop
  /\ stopper = "cleared"
  /\ stopper' = "idle"
  /\ UNCHANGED <<m_data_ready, flagVars, stopped, stops, reads, triggerVars, queueVars, othersOfUser>>

StopRelease ==
  /\ stopper = "cleared"
  /\ m_data_ready' = m_data_ready + 1
  /\ stopper' = "idle"
  /\ UNCHANGED <<flagVars, stopped, stops, reads, triggerVars, queueVars, othersOfUser>>

readLatest ==     \* faulty: takes the newest status and drops the others
  /\ loop = "idle"
  /\ reads < MaxReads
  /\ reads' = reads + 1
  /\ m_rx_queue # <<>>
  /\ m_rx_queue' = <<>>
  /\ taken' = Append(taken, m_rx_queue[Len(m_rx_queue)])
  /\ UNCHANGED <<queued, m_data_ready, flagVars, stopped, stopper, stops, triggerVars, othersOfUser>>

readOnce ==
  /\ loop = "idle"
  /\ reads < MaxReads
  /\ reads' = reads + 1
  /\ m_rx_queue # <<>>
  /\ m_rx_queue' = Tail(m_rx_queue)
  /\ taken' = Append(taken, Head(m_rx_queue))
  /\ UNCHANGED <<queued, m_data_ready, flagVars, stopped, stopper, stops, triggerVars, othersOfUser>>

readTriggerOnce ==
  /\ m_trigger_queue # <<>>
  /\ m_trigger_queue' = Tail(m_trigger_queue)
  /\ triggersTaken' = Append(triggersTaken, Head(m_trigger_queue))
  /\ UNCHANGED <<queueVars, m_data_ready, flagVars, stopped, userVars, othersOfUser>>

IoThread   == s_pollTrigger \/ TakeStatus \/ Release
LoopThread == ClearStop \/ TestFlags \/ Acquire \/ Dequeue \/ Callback \/ EndLoop
StopThread == StopRunning \/ StopRelease

Next == \/ DeviceRestarts
        \/ \E s, t \in 0 .. ChunkFrames : Receive(s, t)
        \/ IoThread
        \/ StartLoop \/ LoopThread
        \/ StopFlag \/ StopThread
        \/ readOnce \/ readTriggerOnce

(* The three threads run; callbacks return.  Nothing makes the device      *)
(* send, the user start a loop or the user stop one.                       *)
Spec == Init /\ [][Next]_vars /\ WF_vars(IoThread) /\ WF_vars(LoopThread) /\ WF_vars(StopThread)

-----------------------------------------------------------------------------
TypeOK == /\ nextSeq \in Nat \ {0} /\ poolStatus \in Nat
          /\ io \in {"idle", "triggers", "status", "release"}
          /\ m_rx_queue \in Seq(Nat) /\ queued \in Seq(Nat) /\ taken \in Seq(Nat)
          /\ m_data_ready \in Nat
          /\ m_running \in BOOLEAN /\ m_stop_flag \in BOOLEAN
          /\ loop \in {"idle", "starting", "test", "acquire", "dequeue", "callback", "ending"}
          /\ stopper \in {"idle", "flagged", "cleared"}
          /\ stops \in Nat /\ reads \in Nat /\ overrun \in Nat /\ stopped \in BOOLEAN

(* No lost wake-up: every queued status has its permit, on the semaphore,  *)
(* about to be released, or just acquired.  A loop blocked in acquire      *)
(* never sits on a status.                                                 *)
Permits == m_data_ready + (IF io = "release" THEN 1 ELSE 0) + (IF loop = "dequeue" THEN 1 ELSE 0)

EveryStatusHasPermit == Len(m_rx_queue) <= Permits

(* The permits no status stands for come from stop() and from readOnce,    *)
(* one each: the semaphore's count exceeds the queue by no more, and each  *)
(* excess costs the loop one empty turn.                                   *)
PermitsBounded == m_data_ready <= Len(m_rx_queue) + stops + reads

(* The two consumers together see every queued status once and in order.   *)
TakenInOrder == queued = taken \o m_rx_queue

(* A status is queued once, however many chunks arrive while it is the     *)
(* pool's latest, and never after a newer one.                             *)
QueuedOnce ==
  restarts = 0 => \A i \in 1 .. Len(queued) - 1 : queued[i] < queued[i + 1]

(* The status last queued for control is the newest sample of the          *)
(* timeline, as long as the device's clock did not start over.             *)
TimelineFollows ==
  io # "status" /\ restarts = 0 /\ Capacity > 0 /\ m_last_status_seq # 0 =>
    m_samples # <<>> /\ m_samples[Len(m_samples)].ts = m_last_status_seq

(* After stop() took effect the loop calls back at most once more.         *)
AtMostOneMoreCallback == overrun <= 1

(* stop() is never lost: it ends the loop it found running, also one that  *)
(* is starting or is blocked with no data coming.                          *)
StopEndsLoop == stopped ~> loop = "idle"

(* A status queued while a loop runs is taken, or the loop ends.           *)
QueuedIsTaken ==
  (m_rx_queue # <<>> /\ loop \notin {"idle", "ending"}) ~> (m_rx_queue = <<>> \/ loop = "idle")

(* The trigger last parsed reaches the recorder's queue, and no trigger is *)
(* queued twice or out of order, although it is found by comparing pool    *)
(* versions.                                                               *)
Triggers == triggersTaken \o m_trigger_queue
TriggersQueued ==
  /\ \A i \in 1 .. Len(Triggers) - 1 : Triggers[i] < Triggers[i + 1]
  /\ io # "triggers" /\ poolTrigger # 0 =>
       Triggers # <<>> /\ Triggers[Len(Triggers)] = poolTrigger

(* Two triggers that arrive together are both received                     *)
(* (tests/test_recording.cpp, test_trigger_events_are_not_collapsed): the  *)
(* recorder's queue gets every trigger the parser delivered.               *)
TriggersNotCollapsed == io # "triggers" => 2 * Len(Triggers) = poolVersion

(* The pipeline implements what StatusStream promises: queue and semaphore *)
(* travel apart, but their difference is only the wake-ups to spare; two   *)
(* flags that stop(), the callbacks and the loop itself write one by one   *)
(* ask the loop to end as one would.                                       *)
Spare  == Permits - Len(m_rx_queue)
Phase  == CASE loop = "idle"     -> "off"
            [] loop = "callback" -> "holding"
            [] loop \in {"acquire", "dequeue"} -> "waiting"
            [] loop \in {"starting", "test", "ending"} -> "deciding"
Asked  == IF \/ loop = "ending"
             \/ loop # "idle" /\ ~m_running
             \/ loop \notin {"idle", "starting"} /\ m_stop_flag
          THEN "end" ELSE "run"
Caller == CASE stopper = "idle"    -> "away"
            [] stopper = "flagged" -> "asking"
            [] stopper = "cleared" -> "waking"
Stream == INSTANCE StatusStream WITH
  Statuses <- 0 .. MaxStatus, waiting <- m_rx_queue, spare <- Spare, phase <- Phase,
  asked <- Asked, caller <- Caller
PipelineIsStream == Stream!StreamSpec

-----------------------------------------------------------------------------
(* Strengthening: the permits, wherever they are, are the statuses queued, *)
(* the stop() calls that released one and the readOnce calls that left     *)
(* one; and what a stopped loop may still do.                              *)
PermitInv ==
  /\ EveryStatusHasPermit
  /\ Permits + (IF stopper = "idle" THEN 0 ELSE 1) <= Len(m_rx_queue) + stops + reads

StopInv ==
  /\ stopped => loop # "idle" /\ ~m_running
  /\ overrun > 0 => stopped /\ overrun = 1 /\ loop \in {"test", "ending"}

PipelineInv == TypeOK /\ PermitInv /\ StopInv /\ TakenInOrder
=============================================================================
