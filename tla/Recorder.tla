-------------------------------- MODULE Recorder --------------------------------
(***************************************************************************)
(* OpenCvRecorder.  A capture thread reads frames into a bounded queue, a  *)
(* worker thread pairs each frame with the pending trigger nearest in time *)
(* and publishes the pair as a record; one user starts and stops the two,  *)
(* and any thread reads records.                                           *)
(*                                                                         *)
(* Steps are the accesses to what the threads share: the flags, the two    *)
(* queues under their mutexes, and the arm's queue of triggers.  Pictures  *)
(* and interpolated states are left out of frames and records.             *)
(***************************************************************************)
EXTENDS Integers, SequencesExt

CONSTANTS Capacity,      \* queue_capacity, of the frames and of the records
          MaxTriggers,   \* bound on the triggers that arrive
          MaxFrames,     \* bound on the frames read in a session
          MaxSessions,   \* bound on the calls of start that go on to the camera
          MaxTime        \* bound on the host's clock

ASSUME RecorderAssumption ==
  /\ {Capacity, MaxTriggers, MaxFrames, MaxSessions, MaxTime} \subseteq Nat
  /\ Capacity > 0        \* the constructor refuses 0

VARIABLES
  m_running, m_dropped_records, capture_done, next_frame_index,
  frames, records, pending_triggers,
  user,               \* the caller of start and stop: where in stop it is
  capture, frame,     \* the capture thread, and the frame it holds
  worker, available,  \* the worker thread, and the frames it holds
  now,                \* the host's clock
  triggers, arrived,  \* the arm's queue of triggers; how many were put there
  session,            \* how often start reached the camera
  uses, published, taken   \* pairings of each trigger; records published and read
captureVars == <<capture, frame, next_frame_index>>
workerVars  == <<worker, available, pending_triggers, uses>>
recordVars  == <<records, m_dropped_records, published>>
armVars     == <<now, triggers, arrived>>
vars == <<m_running, capture_done, frames, user, captureVars, workerVars, recordVars, armVars,
          session, taken>>

NoFrame == [index |-> 0, t |-> 0, session |-> 0]

Init == /\ m_running = FALSE /\ capture_done = FALSE
        /\ m_dropped_records = 0 /\ next_frame_index = 0
        /\ frames = <<>> /\ records = <<>> /\ pending_triggers = <<>>
        /\ user = "free"
        /\ capture = "none" /\ frame = NoFrame
        /\ worker = "none" /\ available = <<>>
        /\ now = 0 /\ triggers = <<>> /\ arrived = 0
        /\ session = 0 /\ uses = [n \in 1 .. MaxTriggers |-> 0]
        /\ published = 0 /\ taken = 0

-----------------------------------------------------------------------------
(* The clock, and the triggers that reach the arm's queue.                 *)

Tick == /\ now < MaxTime
        /\ now' = now + 1
        /\ UNCHANGED <<m_running, capture_done, frames, user, captureVars, workerVars, recordVars,
                       triggers, arrived, session, taken>>

TriggerArrives ==
  /\ arrived < MaxTriggers
  /\ arrived' = arrived + 1
  /\ triggers' = Append(triggers, [seq |-> arrived', t |-> now])
  /\ UNCHANGED <<m_running, capture_done, frames, user, captureVars, workerVars, recordVars, now,
                 session, taken>>

-----------------------------------------------------------------------------
(* The user: start, stop, readOnce *)

ForgetNothing == UNCHANGED <<frames, records, pending_triggers>>    \* faulty: keeps the old session's
Forget == frames' = <<>> /\ records' = <<>> /\ pending_triggers' = <<>>

(* start that finds no recording running and a legal slot.  The camera     *)
(* opens, or does not, or std::stoi throws on its number: that leaves      *)
(* m_running set with no threads.  A start that throws before this changes *)
(* nothing.                                                                *)
Start(camera) ==
  /\ user = "free" /\ ~m_running
  /\ session < MaxSessions
  /\ session' = session + 1
  /\ Forget
  /\ m_dropped_records' = 0 /\ next_frame_index' = 0
  /\ published' = 0 /\ taken' = 0
  /\ m_running' = (camera # "refused")
  /\ \/ /\ camera = "opened"
        /\ capture_done' = FALSE
        /\ capture' = "test" /\ worker' = "test"
     \/ /\ camera # "opened"
        /\ UNCHANGED <<capture_done, capture, worker>>
  /\ UNCHANGED <<user, frame, available, uses, armVars>>

Stop == /\ user = "free" /\ m_running
        /\ m_running' = FALSE
        /\ user' = "joinCapture"
        /\ UNCHANGED <<capture_done, frames, captureVars, workerVars, recordVars, armVars, session, taken>>

(* join, or the test that there is nothing to join *)
JoinCapture == /\ user = "joinCapture" /\ capture \in {"none", "ended"}
               /\ user' = "joinWorker" /\ capture' = "none"
               /\ UNCHANGED <<m_running, capture_done, frames, frame, next_frame_index, workerVars,
                              recordVars, armVars, session, taken>>

JoinWorker == /\ user = "joinWorker" /\ worker \in {"none", "ended"}
              /\ user' = "free" /\ worker' = "none"
              /\ UNCHANGED <<m_running, capture_done, frames, captureVars, available,
                             pending_triggers, uses, recordVars, armVars, session, taken>>

ReadOnce == /\ records # <<>>
            /\ records' = Tail(records)
            /\ taken' = taken + 1
            /\ UNCHANGED <<m_running, capture_done, frames, user, captureVars, workerVars,
                           m_dropped_records, published, armVars, session>>

-----------------------------------------------------------------------------
(* The capture thread: captureLoop *)

othersOfCapture == <<m_running, user, workerVars, recordVars, armVars, session, taken>>

CaptureTest == /\ capture = "test"
               /\ capture' = IF m_running THEN "read" ELSE "done"
               /\ UNCHANGED <<frame, next_frame_index, frames, capture_done, othersOfCapture>>

(* No picture, or an empty one: the loop goes round.  A picture is numbered *)
(* and stamped once it was read and converted.                             *)
CaptureRead ==
  /\ capture = "read"
  /\ \/ /\ capture' = "test"
        /\ UNCHANGED <<frame, next_frame_index>>
     \/ /\ next_frame_index < MaxFrames
        /\ frame' = [index |-> next_frame_index, t |-> now, session |-> session]
        /\ next_frame_index' = next_frame_index + 1
        /\ capture' = "push"
  /\ UNCHANGED <<frames, capture_done, othersOfCapture>>

CapturePush ==
  /\ capture = "push"
  /\ frames' = Append(IF Len(frames) >= Capacity THEN Tail(frames) ELSE frames, frame)
  /\ frame' = NoFrame /\ capture' = "test"
  /\ UNCHANGED <<next_frame_index, capture_done, othersOfCapture>>

CaptureDone == /\ capture = "done"
               /\ capture_done' = TRUE
               /\ capture' = "ended"
               /\ UNCHANGED <<frame, next_frame_index, frames, othersOfCapture>>

-----------------------------------------------------------------------------
(* The worker thread: workerLoop *)

othersOfWorker == <<m_running, capture_done, user, captureVars, armVars, session, taken>>

StayInWorkerWhileCapturing == m_running \/ ~capture_done    \* faulty: leaves triggers behind
StayInWorker == m_running \/ ~capture_done \/ pending_triggers # <<>>

WorkerTest == /\ worker = "test"
              /\ worker' = IF StayInWorker THEN "drain" ELSE "ended"
              /\ UNCHANGED <<available, pending_triggers, uses, frames, recordVars, othersOfWorker>>

(* readTriggerOnce, until it has none *)
WorkerDrain ==
  /\ worker = "drain"
  /\ \/ /\ triggers # <<>>
        /\ pending_triggers' = Append(pending_triggers, Head(triggers))
        /\ triggers' = Tail(triggers)
        /\ UNCHANGED worker
     \/ /\ triggers = <<>>
        /\ worker' = IF pending_triggers = <<>> THEN "idle" ELSE "take"
        /\ UNCHANGED <<pending_triggers, triggers>>
  /\ UNCHANGED <<m_running, capture_done, user, captureVars, now, arrived, session, taken,
                 available, uses, frames, recordVars>>

WorkerIdle == /\ worker = "idle"
              /\ worker' = IF ~m_running /\ capture_done THEN "ended" ELSE "test"
              /\ UNCHANGED <<available, pending_triggers, uses, frames, recordVars, othersOfWorker>>

(* Waits two milliseconds at most for a frame: it may take none.           *)
WorkerTake == /\ worker = "take"
              /\ available' = frames /\ frames' = <<>>
              /\ worker' = "pair"
              /\ UNCHANGED <<pending_triggers, uses, recordVars, othersOfWorker>>

Distance(i) == LET d == pending_triggers[i].t - Head(available).t IN IF d < 0 THEN -d ELSE d

(* The first of the pending triggers nearest to the frame.                 *)
Best == CHOOSE i \in DOMAIN pending_triggers :
          \A j \in DOMAIN pending_triggers :
             /\ Distance(i) <= Distance(j)
             /\ j < i => Distance(i) < Distance(j)

KeepBest  == UNCHANGED pending_triggers                       \* faulty: not erased
EraseBest == pending_triggers' = RemoveAt(pending_triggers, Best)

DropSilently(record) ==      \* faulty: not counted
  /\ records' = IF Len(records) < Capacity THEN Append(records, record) ELSE records
  /\ UNCHANGED m_dropped_records

publish(record) ==
  \/ /\ Len(records) < Capacity
     /\ records' = Append(records, record)
     /\ UNCHANGED m_dropped_records
  \/ /\ Len(records) >= Capacity
     /\ m_dropped_records' = m_dropped_records + 1
     /\ UNCHANGED records

Pair(trigger) ==
  /\ EraseBest
  /\ uses' = [uses EXCEPT ![trigger.seq] = @ + 1]
  /\ published' = published + 1
  /\ publish([trigger |-> trigger.seq, frame |-> Head(available)])

(* Each frame takes a trigger; frames with no trigger left are dropped.    *)
WorkerPair ==
  /\ worker = "pair"
  /\ available # <<>>
  /\ available' = Tail(available)
  /\ \/ /\ pending_triggers # <<>>
        /\ Pair(pending_triggers[Best])
     \/ /\ pending_triggers = <<>>
        /\ UNCHANGED <<pending_triggers, uses, recordVars>>
  /\ UNCHANGED <<worker, frames, othersOfWorker>>

DiscardNever == FALSE        \* faulty: waits for frames that will not come
Discard == ~m_running /\ capture_done

WorkerClean ==
  /\ worker = "pair"
  /\ available = <<>>
  /\ pending_triggers' = IF Discard THEN <<>> ELSE pending_triggers
  /\ worker' = "test"
  /\ UNCHANGED <<available, uses, frames, recordVars, othersOfWorker>>

-----------------------------------------------------------------------------
CaptureThread == CaptureTest \/ CaptureRead \/ CapturePush \/ CaptureDone
WorkerThread  == WorkerTest \/ WorkerDrain \/ WorkerIdle \/ WorkerTake \/ WorkerPair \/ WorkerClean
Join          == JoinCapture \/ JoinWorker

Next == \/ Tick \/ TriggerArrives
        \/ \E camera \in {"opened", "refused", "overflow"} : Start(camera)
        \/ Stop \/ Join \/ ReadOnce
        \/ CaptureThread \/ WorkerThread

(* The threads run, and a read of the camera returns.  Nothing makes the   *)
(* user start or stop, a trigger arrive or somebody read.                  *)
Spec == Init /\ [][Next]_vars /\ WF_vars(CaptureThread) /\ WF_vars(WorkerThread) /\ WF_vars(Join)

-----------------------------------------------------------------------------
Frames   == [index : Nat, t : Nat, session : Nat]
Triggers == [seq : 1 .. MaxTriggers, t : Nat]

TypeOK == /\ m_running \in BOOLEAN /\ capture_done \in BOOLEAN
          /\ {m_dropped_records, next_frame_index, now, arrived, session, published, taken} \subseteq Nat
          /\ frame \in Frames /\ frames \in Seq(Frames) /\ available \in Seq(Frames)
          /\ triggers \in Seq(Triggers) /\ pending_triggers \in Seq(Triggers)
          /\ records \in Seq([trigger : 1 .. MaxTriggers, frame : Frames])
          /\ uses \in [1 .. MaxTriggers -> Nat]
          /\ arrived <= MaxTriggers
          /\ user \in {"free", "joinCapture", "joinWorker"}
          /\ capture \in {"none", "test", "read", "push", "done", "ended"}
          /\ worker \in {"none", "test", "drain", "idle", "take", "pair", "ended"}

(* What stop leaves: once it has returned no thread of the recorder runs,  *)
(* no trigger is pending and no frame is held, so that the next start may  *)
(* reset what the threads use, and the destructor free it.                 *)
StoppedIsQuiet ==
  ~m_running /\ user = "free" => /\ capture = "none" /\ worker = "none"
                                 /\ available = <<>> /\ pending_triggers = <<>>

(* The threads of a session: both or neither, and the capture thread says  *)
(* that it is done before it ends.                                         *)
ThreadsInv ==
  /\ capture \in {"test", "read", "push", "done"} => ~capture_done /\ worker \notin {"none", "ended"}
  /\ capture \in {"done", "ended"} => ~m_running
  /\ capture = "ended" => capture_done /\ worker # "none"
  /\ capture = "none" /\ worker # "none" => user = "joinWorker" /\ capture_done
  /\ user # "free" => ~m_running
  /\ user = "joinWorker" => capture = "none"
  /\ worker \in {"none", "ended"} => available = <<>> /\ pending_triggers = <<>>
  /\ worker # "pair" => available = <<>>
  /\ worker = "idle" => pending_triggers = <<>>
  /\ Len(frames) <= Capacity /\ Len(records) <= Capacity

RecorderInv == TypeOK /\ ThreadsInv /\ StoppedIsQuiet

(* A trigger makes one record at most, over all sessions: it is in the     *)
(* arm's queue, pending, paired or discarded, and in one place at a time.  *)
TriggersUsedOnce ==
  LET held == pending_triggers \o triggers IN
    /\ \A i, j \in DOMAIN held : i < j => held[i].seq < held[j].seq
    /\ \A n \in DOMAIN uses : uses[n] <= 1
    /\ \A i \in DOMAIN held : uses[held[i].seq] = 0

(* The frames in the records, in the worker's hands and in the queue are   *)
(* of this session and in the order they were taken, each once: a record   *)
(* read after start never shows a picture from before it.                  *)
FramesInOrder ==
  LET line == [i \in DOMAIN records |-> records[i].frame] \o available \o frames
                \o (IF capture = "push" THEN <<frame>> ELSE <<>>) IN
    /\ \A i \in DOMAIN line : line[i].session = session
    /\ \A i, j \in DOMAIN line : i < j => line[i].index < line[j].index /\ line[i].t <= line[j].t

(* droppedRecords tells how many records of the session nobody will see:   *)
(* every pairing was read, is waiting to be read, or was counted dropped.  *)
RecordsAccounted == published = taken + Len(records) + m_dropped_records

(* stop returns, whatever the threads were doing and whatever triggers are *)
(* left without a frame.                                                   *)
StopReturns == user # "free" ~> user = "free"
=============================================================================
