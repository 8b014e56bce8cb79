---------------------------- MODULE ArmPipeline_proofs ----------------------------
(***************************************************************************)
(* The statuses' way from the I/O thread to the control loop: no wake-up   *)
(* is lost, the semaphore stays bounded, nothing is lost or reordered, and *)
(* a stopped loop calls back at most once more; for every number of        *)
(* statuses, triggers, loops, stops and device restarts.                   *)
(***************************************************************************)
EXTENDS ArmPipeline, SequenceTheorems, TLAPS

(* A status moves from the queue to those taken, or joins the queue, and   *)
(* the two together stay what was queued.                                  *)
LEMMA TakeKeepsOrder ==
  ASSUME NEW t \in Seq(Nat), NEW q \in Seq(Nat), q # <<>>
  PROVE  /\ Append(t, Head(q)) \o Tail(q) = t \o q
         /\ Append(t, Head(q)) \in Seq(Nat)
         /\ Tail(q) \in Seq(Nat) /\ Len(Tail(q)) = Len(q) - 1 /\ Len(q) \in Nat
<1>1. Head(q) \in Nat /\ Tail(q) \in Seq(Nat) /\ Len(Tail(q)) = Len(q) - 1
  BY HeadTailProperties
<1>2. q = <<Head(q)>> \o Tail(q)
  <2>1. <<Head(q)>> \in Seq(Nat) /\ Len(<<Head(q)>>) = 1 /\ <<Head(q)>>[1] = q[1]
    BY <1>1
  <2>2. /\ <<Head(q)>> \o Tail(q) \in Seq(Nat)
        /\ Len(<<Head(q)>> \o Tail(q)) = Len(q)
        /\ \A i \in 1 .. Len(q) :
             (<<Head(q)>> \o Tail(q))[i] = IF i <= 1 THEN q[1] ELSE Tail(q)[i - 1]
    BY <1>1, <2>1, ConcatProperties
  <2>3. \A i \in 1 .. Len(q) : i > 1 => Tail(q)[i - 1] = q[i]
    BY HeadTailProperties, LenProperties
  <2>4. QED
    BY <2>2, <2>3, SeqEqual
<1>3. Append(t, Head(q)) = t \o <<Head(q)>> /\ Append(t, Head(q)) \in Seq(Nat)
  BY <1>1, AppendIsConcat, AppendProperties
<1>4. (t \o <<Head(q)>>) \o Tail(q) = t \o (<<Head(q)>> \o Tail(q))
  <2> DEFINE head == <<Head(q)>>  rest == Tail(q)
  <2>1. head \in Seq(Nat) /\ rest \in Seq(Nat)
    BY <1>1
  <2> HIDE DEF head, rest
  <2>2. (t \o head) \o rest = t \o (head \o rest)
    BY <2>1, ConcatAssociative, SMTT(30)
  <2>3. QED
    BY <2>2 DEF head, rest
<1>5. QED
  BY <1>1, <1>2, <1>3, <1>4, LenProperties

LEMMA QueueKeepsOrder ==
  ASSUME NEW t \in Seq(Nat), NEW q \in Seq(Nat), NEW x \in Nat
  PROVE  /\ Append(t \o q, x) = t \o Append(q, x)
         /\ Append(q, x) \in Seq(Nat) /\ Len(Append(q, x)) = Len(q) + 1
<1>1. t \o q \in Seq(Nat) /\ <<x>> \in Seq(Nat)
  BY ConcatProperties
<1>2. Append(t \o q, x) = (t \o q) \o <<x>> /\ Append(q, x) = q \o <<x>>
  BY <1>1, AppendIsConcat
<1>3. (t \o q) \o <<x>> = t \o (q \o <<x>>)
  BY <1>1, ConcatAssociative
<1>4. Append(q, x) \in Seq(Nat) /\ Len(Append(q, x)) = Len(q) + 1
  BY AppendProperties
<1>5. QED
  BY <1>2, <1>3, <1>4

-----------------------------------------------------------------------------
LEMMA InitEstablishes == Init => PipelineInv
<1> SUFFICES ASSUME Init PROVE PipelineInv
  OBVIOUS
<1>1. <<>> \in Seq(Nat) /\ Len(<<>>) = 0
  OBVIOUS
<1>2. TypeOK
  <2>1. /\ nextSeq \in Nat \ {0} /\ poolStatus \in Nat /\ m_data_ready \in Nat
        /\ stops \in Nat /\ overrun \in Nat
    BY DEF Init
  <2>2. m_rx_queue \in Seq(Nat) /\ queued \in Seq(Nat) /\ taken \in Seq(Nat)
    BY <1>1 DEF Init
  <2>3. QED
    BY <2>1, <2>2 DEF Init, TypeOK
<1>3. PermitInv /\ StopInv
  BY <1>1 DEF Init, PermitInv, EveryStatusHasPermit, Permits, StopInv
<1>4. TakenInOrder
  BY <1>1, ConcatEmptySeq DEF Init, TakenInOrder
<1>5. QED
  BY <1>2, <1>3, <1>4 DEF PipelineInv

(* The device and the first half of s_feedBytes touch nothing the          *)
(* invariant speaks of but the numbers of the statuses.                    *)
LEMMA DevicePreserves ==
  ASSUME PipelineInv,
         DeviceRestarts \/ (\E s, t \in 0 .. ChunkFrames : Receive(s, t)) \/ s_pollTrigger
  PROVE  PipelineInv'
<1> USE DEF PipelineInv, TypeOK, PermitInv, EveryStatusHasPermit, Permits, StopInv,
    TakenInOrder, queueVars, triggerVars, flagVars, loopVars, userVars, poolVars, deviceVars, ioVars
<1>1. CASE DeviceRestarts
  BY <1>1 DEF DeviceRestarts
<1>2. CASE \E s, t \in 0 .. ChunkFrames : Receive(s, t)
  <2>1. PICK s \in 0 .. ChunkFrames, t \in 0 .. ChunkFrames : Receive(s, t)
    BY <1>2
  <2>2. s \in Nat
    BY PipelineAssumption
  <2>3. nextSeq' \in Nat \ {0} /\ io = "idle" /\ io' \in {"idle", "triggers"}
    BY <2>1, <2>2 DEF Receive
  <2>4. poolStatus' = nextSeq' - 1 \/ poolStatus' = poolStatus
    BY <2>1 DEF Receive
  <2>5. poolStatus' \in Nat
    BY <2>3, <2>4
  <2>6. QED
    BY <2>1, <2>3, <2>5 DEF Receive
<1>3. CASE s_pollTrigger
  BY <1>3 DEF s_pollTrigger
<1>4. QED
  BY <1>1, <1>2, <1>3

LEMMA TakeStatusPreserves == ASSUME PipelineInv, TakeStatus PROVE PipelineInv'
<1> USE DEF PipelineInv, TypeOK, PermitInv, EveryStatusHasPermit, Permits, StopInv,
    TakenInOrder, flagVars, loopVars, userVars, poolVars, deviceVars
<1>1. /\ io = "status"
      /\ UNCHANGED <<deviceVars, poolVars, taken, m_data_ready, flagVars, loopVars, userVars>>
  BY DEF TakeStatus
<1>2. CASE ~NewStatus /\ UNCHANGED <<m_rx_queue, queued>>
  <2>1. io' = "idle"
    BY <1>2 DEF TakeStatus, AfterStatus
  <2>2. QED
    BY <1>1, <1>2, <2>1
<1>3. CASE /\ NewStatus
           /\ m_rx_queue' = Append(m_rx_queue, poolStatus)
           /\ queued' = Append(queued, poolStatus)
  <2>1. /\ m_rx_queue' \in Seq(Nat) /\ Len(m_rx_queue') = Len(m_rx_queue) + 1
        /\ queued' = taken \o m_rx_queue' /\ queued' \in Seq(Nat)
    BY <1>3, QueueKeepsOrder
  <2>2. io' = "release"
    BY <1>3 DEF TakeStatus, AfterStatus
  <2>3. QED
    BY <1>1, <1>3, <2>1, <2>2
<1>4. QED
  BY <1>2, <1>3 DEF TakeStatus

LEMMA ReleasePreserves == ASSUME PipelineInv, Release PROVE PipelineInv'
  BY DEF Release, PipelineInv, TypeOK, PermitInv, EveryStatusHasPermit, Permits, StopInv,
     TakenInOrder, queueVars, triggerVars, flagVars, loopVars, userVars, poolVars, deviceVars

(* The control loop: only Acquire and Dequeue move permits and statuses.   *)
LEMMA LoopFlagsPreserve ==
  ASSUME PipelineInv, StartLoop \/ ClearStop \/ TestFlags \/ Callback \/ EndLoop
  PROVE  PipelineInv'
<1> USE DEF PipelineInv, TypeOK, PermitInv, EveryStatusHasPermit, Permits, StopInv,
    TakenInOrder, queueVars, triggerVars, othersOfLoop, flagVars, userVars, poolVars, deviceVars, ioVars
<1>1. CASE StartLoop
  <2>1. TypeOK'
    BY <1>1 DEF StartLoop
  <2>2. PermitInv'
    BY <1>1 DEF StartLoop
  <2>3. StopInv' /\ TakenInOrder'
    BY <1>1 DEF StartLoop
  <2>4. QED
    BY <2>1, <2>2, <2>3
<1>2. CASE ClearStop
  BY <1>2 DEF ClearStop
<1>3. CASE TestFlags
  BY <1>3 DEF TestFlags, StayInLoop
<1>4. CASE Callback
  <2>1. /\ m_running' \in BOOLEAN /\ m_stop_flag' \in BOOLEAN
        /\ m_running' => m_running
    <3>1. CASE finishMotion
      BY <3>1 DEF finishMotion
    <3>2. CASE stopControl
      BY <3>2 DEF stopControl
    <3>3. CASE UNCHANGED flagVars
      BY <3>3
    <3>4. QED
      BY <1>4, <3>1, <3>2, <3>3 DEF Callback
  <2>2. /\ loop = "callback" /\ loop' \in {"test", "ending"}
        /\ overrun' = IF stopped THEN overrun + 1 ELSE overrun
        /\ UNCHANGED <<runs, stopped, queueVars, m_data_ready, othersOfLoop>>
    BY <1>4 DEF Callback
  <2>3. TypeOK'
    BY <2>1, <2>2
  <2>4. PermitInv'
    BY <2>2
  <2>5. StopInv' /\ TakenInOrder'
    BY <2>1, <2>2
  <2>6. QED
    BY <2>3, <2>4, <2>5
<1>5. CASE EndLoop
  <2>1. TypeOK'
    BY <1>5 DEF EndLoop
  <2>2. PermitInv'
    BY <1>5 DEF EndLoop
  <2>3. StopInv' /\ TakenInOrder'
    BY <1>5 DEF EndLoop
  <2>4. QED
    BY <2>1, <2>2, <2>3
<1>6. QED
  BY <1>1, <1>2, <1>3, <1>4, <1>5

LEMMA AcquirePreserves == ASSUME PipelineInv, Acquire PROVE PipelineInv'
  BY DEF Acquire, PipelineInv, TypeOK, PermitInv, EveryStatusHasPermit, Permits, StopInv,
     TakenInOrder, queueVars, triggerVars, othersOfLoop, flagVars, userVars, poolVars, deviceVars, ioVars

LEMMA DequeuePreserves == ASSUME PipelineInv, Dequeue PROVE PipelineInv'
<1> USE DEF PipelineInv, TypeOK, PermitInv, EveryStatusHasPermit, Permits, StopInv,
    TakenInOrder, othersOfLoop, flagVars, userVars, poolVars, deviceVars, ioVars
<1>1. loop = "dequeue" /\ UNCHANGED <<flagVars, runs, stopped, overrun, m_data_ready, othersOfLoop>>
  BY DEF Dequeue
<1>2. CASE m_rx_queue = <<>> /\ loop' = "test" /\ UNCHANGED queueVars
  BY <1>1, <1>2 DEF queueVars
<1>3. CASE /\ m_rx_queue # <<>>
           /\ m_rx_queue' = Tail(m_rx_queue)
           /\ taken' = Append(taken, Head(m_rx_queue))
           /\ loop' = "callback"
           /\ UNCHANGED queued
  <2>1. /\ m_rx_queue' \in Seq(Nat) /\ taken' \in Seq(Nat) /\ taken' \o m_rx_queue' = queued
        /\ Len(m_rx_queue') = Len(m_rx_queue) - 1
    BY <1>3, TakeKeepsOrder
  <2>2. TypeOK'
    BY <1>1, <1>3, <2>1
  <2>3. PermitInv'
    BY <1>1, <1>3, <2>1
  <2>4. StopInv' /\ TakenInOrder'
    BY <1>1, <1>3, <2>1
  <2>5. QED
    BY <2>2, <2>3, <2>4
<1>4. QED
  BY <1>2, <1>3 DEF Dequeue

(* The user: stop() releases the permit it counted, readOnce takes a       *)
(* status and leaves its permit.                                           *)
LEMMA StopPreserves == ASSUME PipelineInv, StopFlag \/ StopRunning \/ StopRelease PROVE PipelineInv'
<1> USE DEF PipelineInv, TypeOK, PermitInv, EveryStatusHasPermit, Permits, StopInv,
    TakenInOrder, queueVars, triggerVars, othersOfUser, flagVars, poolVars, deviceVars, ioVars
<1>1. CASE StopFlag
  BY <1>1 DEF StopFlag
<1>2. CASE StopRunning
  BY <1>2 DEF StopRunning
<1>3. CASE StopRelease
  BY <1>3 DEF StopRelease
<1>4. QED
  BY <1>1, <1>2, <1>3

LEMMA ReadOncePreserves == ASSUME PipelineInv, readOnce PROVE PipelineInv'
<1> USE DEF PipelineInv, TypeOK, PermitInv, EveryStatusHasPermit, Permits, StopInv,
    TakenInOrder, othersOfUser, flagVars, poolVars, deviceVars, ioVars, userVars
<1>1. /\ m_rx_queue' \in Seq(Nat) /\ taken' \in Seq(Nat) /\ taken' \o m_rx_queue' = queued
      /\ Len(m_rx_queue') = Len(m_rx_queue) - 1
  BY TakeKeepsOrder DEF readOnce
<1>2. TypeOK'
  BY <1>1, SMTT(30) DEF readOnce
<1>3. PermitInv'
  BY <1>1 DEF readOnce
<1>4. StopInv' /\ TakenInOrder'
  BY <1>1 DEF readOnce
<1>5. QED
  BY <1>2, <1>3, <1>4

LEMMA ReadTriggerPreserves == ASSUME PipelineInv, readTriggerOnce PROVE PipelineInv'
  BY DEF readTriggerOnce, PipelineInv, TypeOK, PermitInv, EveryStatusHasPermit, Permits, StopInv,
     TakenInOrder, queueVars, othersOfUser, userVars, flagVars, poolVars, deviceVars, ioVars

(* PipelineInv holds of every behaviour.                                   *)
THEOREM PipelineInvariant == Spec => []PipelineInv
<1>1. PipelineInv /\ UNCHANGED vars => PipelineInv'
  BY DEF PipelineInv, TypeOK, PermitInv, EveryStatusHasPermit, Permits, StopInv, TakenInOrder,
     vars, deviceVars, poolVars, ioVars, queueVars, triggerVars, flagVars, loopVars, userVars
<1>2. PipelineInv /\ [Next]_vars => PipelineInv'
  BY <1>1, DevicePreserves, TakeStatusPreserves, ReleasePreserves, LoopFlagsPreserve,
     AcquirePreserves, DequeuePreserves, StopPreserves, ReadOncePreserves,
     ReadTriggerPreserves
     DEF Next, IoThread, LoopThread, StopThread
<1>3. QED
  BY InitEstablishes, <1>2, PTL DEF Spec

(* No wake-up of the control loop is lost.                                 *)
THEOREM NoLostWakeUp == Spec => []EveryStatusHasPermit
<1>1. PipelineInv => EveryStatusHasPermit
  BY DEF PipelineInv, PermitInv
<1>2. QED
  BY <1>1, PipelineInvariant, PTL

(* Permits pile up on the semaphore only by stop() and readOnce.           *)
THEOREM SemaphoreBounded == Spec => []PermitsBounded
<1>1. PipelineInv => PermitsBounded
  BY DEF PipelineInv, TypeOK, PermitInv, Permits, PermitsBounded
<1>2. QED
  BY <1>1, PipelineInvariant, PTL

(* Statuses are taken in the order they were queued, none twice.           *)
THEOREM StatusesInOrder == Spec => []TakenInOrder
<1>1. PipelineInv => TakenInOrder
  BY DEF PipelineInv
<1>2. QED
  BY <1>1, PipelineInvariant, PTL

(* After stop() took effect there is at most one more callback.            *)
THEOREM StopIsPrompt == Spec => []AtMostOneMoreCallback
<1>1. PipelineInv => AtMostOneMoreCallback
  BY DEF PipelineInv, TypeOK, StopInv, AtMostOneMoreCallback
<1>2. QED
  BY <1>1, PipelineInvariant, PTL

-----------------------------------------------------------------------------
(* Statuses are numbered upwards until the device starts over: the pool    *)
(* holds one that was not queued yet, or the last that was; and the last   *)
(* queued is the newest sample of the timeline.                            *)
Back(s) == s[Len(s)]
Samples == [ts : Nat, q : {0}]
StatusOrder ==
  restarts = 0 =>
    /\ m_last_status_seq <= poolStatus /\ poolStatus < nextSeq
    /\ \A i \in 1 .. Len(queued) : queued[i] <= m_last_status_seq
    /\ \A i \in 1 .. Len(queued) - 1 : queued[i] < queued[i + 1]
    /\ m_last_status_seq = 0 => m_samples = <<>>
    /\ Capacity > 0 /\ m_last_status_seq # 0 =>
         m_samples # <<>> /\ Back(m_samples).ts = m_last_status_seq
StatusInv == /\ restarts \in Nat /\ m_last_status_seq \in Nat
             /\ m_samples \in Seq(Samples)
             /\ StatusOrder

LEMMA AppendKeepsIncreasing ==
  ASSUME NEW s \in Seq(Nat), NEW x \in Nat,
         \A i \in 1 .. Len(s) : s[i] < x,
         \A i \in 1 .. Len(s) - 1 : s[i] < s[i + 1]
  PROVE  /\ \A i \in 1 .. Len(Append(s, x)) : Append(s, x)[i] <= x
         /\ \A i \in 1 .. Len(Append(s, x)) - 1 : Append(s, x)[i] < Append(s, x)[i + 1]
<1>1. /\ Len(Append(s, x)) = Len(s) + 1 /\ Append(s, x)[Len(s) + 1] = x
      /\ \A i \in 1 .. Len(s) : Append(s, x)[i] = s[i] /\ s[i] \in Nat
      /\ Len(s) \in Nat
  BY AppendProperties, ElementOfSeq, LenProperties
<1>2. QED
  BY <1>1

LEMMA PushEnds ==
  ASSUME NEW S, NEW m \in Seq(S), NEW x \in S,
         NEW r, r = Append(m, x) \/ (m # <<>> /\ r = Append(Tail(m), x))
  PROVE  r \in Seq(S) /\ r # <<>> /\ Back(r) = x
<1>1. PICK n \in Seq(S) : r = Append(n, x)
  BY HeadTailProperties
<1>2. /\ Append(n, x) \in Seq(S) /\ Len(Append(n, x)) = Len(n) + 1
      /\ Append(n, x)[Len(n) + 1] = x
  BY AppendProperties
<1>3. Append(n, x) # <<>>
  <2>1. Len(n) \in Nat /\ Len(<<>>) = 0
    BY LenProperties
  <2>2. QED
    BY <1>2, <2>1
<1>4. QED
  BY <1>1, <1>2, <1>3 DEF Back

LEMMA TakeStatusOrders == ASSUME PipelineInv, StatusInv, TakeStatus PROVE StatusInv'
<1> DEFINE x == [ts |-> poolStatus, q |-> 0]
<1>1. UNCHANGED <<restarts, nextSeq, poolStatus>>
  BY DEF TakeStatus, deviceVars, poolVars
<1>2. poolStatus \in Nat /\ nextSeq \in Nat /\ queued \in Seq(Nat) /\ x \in Samples
  BY DEF PipelineInv, TypeOK, Samples
<1>3. CASE UNCHANGED <<m_last_status_seq, m_samples, m_rx_queue, queued>>
  BY <1>1, <1>3 DEF StatusInv, StatusOrder, Back
<1>4. CASE /\ NewStatus
           /\ m_last_status_seq' = poolStatus
           /\ Timeline!push(x)
           /\ queued' = Append(queued, poolStatus)
  <2>1. m_samples' = m_samples \/ m_samples' = Append(m_samples, x)
        \/ m_samples' = Append(Tail(m_samples), x)
    BY <1>4 DEF Timeline!push
  <2>2. Capacity = 0 => m_samples' = m_samples
    BY <1>4 DEF Timeline!push, Timeline!Rejected
  <2>3. ASSUME Capacity # 0, m_samples = <<>> \/ Back(m_samples).ts < poolStatus
        PROVE  \/ m_samples' = Append(m_samples, x)
               \/ m_samples # <<>> /\ m_samples' = Append(Tail(m_samples), x)
    <3>1. Capacity \in Nat /\ (m_samples = <<>> => Len(m_samples) < Capacity)
      BY <2>3, PipelineAssumption
    <3>2. m_samples # <<>> => Back(m_samples).ts \in Nat
      <4>1. m_samples # <<>> => Len(m_samples) \in 1 .. Len(m_samples)
        BY EmptySeq, LenProperties DEF StatusInv
      <4>2. \A i \in 1 .. Len(m_samples) : m_samples[i] \in Samples
        BY ElementOfSeq DEF StatusInv
      <4>3. QED
        BY <4>1, <4>2 DEF Back, Samples
    <3>3. ~Timeline!Rejected(x)
      BY <2>3, <3>2, <1>2 DEF Timeline!Rejected, Timeline!Back, Back
    <3>4. QED
      BY <1>4, <3>1, <3>3 DEF Timeline!push
  <2>4. m_samples' \in Seq(Samples)
    <3>1. CASE m_samples' = Append(Tail(m_samples), x) /\ m_samples = <<>>
      <4>1. Capacity = 0 \/ m_samples' = Append(m_samples, x)
        BY <3>1, <2>3
      <4>2. QED
        BY <4>1, <2>2, <1>2, PushEnds DEF StatusInv
    <3>2. QED
      BY <2>1, <3>1, <1>2, PushEnds DEF StatusInv
  <2>5. ASSUME restarts = 0 PROVE StatusOrder'
    <3>1. /\ m_last_status_seq < poolStatus /\ poolStatus < nextSeq
          /\ \A i \in 1 .. Len(queued) : queued[i] \in Nat /\ queued[i] < poolStatus
      BY <1>2, <1>4, <2>5, ElementOfSeq DEF StatusInv, StatusOrder, NewStatus
    <3>2. Capacity # 0 => m_samples' # <<>> /\ Back(m_samples') = x
      <4>1. Capacity # 0 => m_samples = <<>> \/ Back(m_samples).ts < poolStatus
        BY <2>5, <3>1, PipelineAssumption DEF StatusInv, StatusOrder
      <4>2. Capacity # 0 => \/ m_samples' = Append(m_samples, x)
                            \/ m_samples # <<>> /\ m_samples' = Append(Tail(m_samples), x)
        BY <2>3, <4>1
      <4>3. m_samples \in Seq(Samples)
        BY DEF StatusInv
      <4>4. x \in Samples
        BY <1>2
      <4> HIDE DEF x
      <4>5. QED
        BY <4>2, <4>3, <4>4, PushEnds
    <3>3. /\ \A i \in 1 .. Len(queued') : queued'[i] <= poolStatus
          /\ \A i \in 1 .. Len(queued') - 1 : queued'[i] < queued'[i + 1]
      BY <1>2, <1>4, <2>5, <3>1, AppendKeepsIncreasing DEF StatusInv, StatusOrder
    <3>4. m_last_status_seq' # 0 /\ m_last_status_seq' <= poolStatus'
      BY <1>1, <1>2, <1>4, <3>1 DEF StatusInv
    <3>5. Capacity > 0 => m_samples' # <<>> /\ Back(m_samples').ts = m_last_status_seq'
      BY <1>4, <3>2, PipelineAssumption
    <3>6. QED
      BY <1>1, <1>4, <3>1, <3>3, <3>4, <3>5 DEF StatusOrder, Back
  <2>6. QED
    BY <1>1, <1>2, <1>4, <2>4, <2>5 DEF StatusInv, StatusOrder
<1>5. QED
  BY <1>3, <1>4 DEF TakeStatus

LEMMA ReceiveOrders ==
  ASSUME PipelineInv, StatusInv, NEW s \in Nat, NEW t \in Nat, Receive(s, t) PROVE StatusInv'
<1>1. /\ nextSeq' = nextSeq + s /\ UNCHANGED <<restarts, m_last_status_seq, m_samples, queued>>
      /\ poolStatus' = poolStatus \/ (s > 0 /\ poolStatus' = nextSeq' - 1)
  BY DEF Receive, poolVars, queueVars
<1>2. poolStatus \in Nat /\ nextSeq \in Nat
  BY DEF PipelineInv, TypeOK
<1>3. QED
  BY <1>1, <1>2 DEF StatusInv, StatusOrder, Back

LEMMA StatusInvariant == Spec => []StatusInv
<1>1. Init => StatusInv
  <2>1. <<>> \in Seq(Samples) /\ Len(<<>>) = 0
    OBVIOUS
  <2>2. QED
    BY <2>1 DEF Init, StatusInv, StatusOrder
<1>2. PipelineInv /\ StatusInv /\ [Next]_vars => StatusInv'
  <2> SUFFICES ASSUME PipelineInv, StatusInv, [Next]_vars PROVE StatusInv'
    OBVIOUS
  <2>1. CASE DeviceRestarts
    BY <2>1 DEF DeviceRestarts, StatusInv, StatusOrder, ioVars
  <2>2. CASE \E s, t \in 0 .. ChunkFrames : Receive(s, t)
    BY <2>2, ReceiveOrders, PipelineAssumption
  <2>3. CASE TakeStatus
    BY <2>3, TakeStatusOrders
  <2>4. CASE UNCHANGED <<restarts, nextSeq, poolStatus, m_last_status_seq, m_samples, queued>>
    BY <2>4 DEF StatusInv, StatusOrder, Back
  <2>5. QED
    BY <2>1, <2>2, <2>3, <2>4 DEF Next, IoThread, s_pollTrigger, Release, StartLoop, LoopThread,
       ClearStop, TestFlags, Acquire, Dequeue, Callback, EndLoop, StopFlag, StopThread,
       StopRunning, StopRelease, readOnce, readTriggerOnce, othersOfLoop, othersOfUser,
       vars, deviceVars, poolVars, ioVars, queueVars
<1>3. QED
  BY <1>1, <1>2, PipelineInvariant, PTL DEF Spec

(* Until the device starts over no status is queued twice or out of order. *)
THEOREM StatusesQueuedOnce == Spec => []QueuedOnce
<1>1. StatusInv => QueuedOnce
  BY DEF StatusInv, StatusOrder, QueuedOnce
<1>2. QED
  BY <1>1, StatusInvariant, PTL

(* The timeline's newest sample is the status queued last.                 *)
THEOREM TimelineIsCurrent == Spec => []TimelineFollows
<1>1. StatusInv => TimelineFollows
  BY DEF StatusInv, StatusOrder, TimelineFollows, Back
<1>2. QED
  BY <1>1, StatusInvariant, PTL

-----------------------------------------------------------------------------
(* The pool's trigger is the last one queued, or a newer one that          *)
(* s_pollTrigger is about to find because its version is new.              *)
TriggerInv ==
  /\ m_trigger_queue \in Seq(Nat) /\ triggersTaken \in Seq(Nat)
  /\ poolTrigger \in Nat /\ nextTrigger \in Nat /\ poolTrigger < nextTrigger
  /\ poolVersion \in Nat /\ m_last_trigger_version \in Nat
  /\ m_last_trigger_version <= poolVersion
  /\ \A i \in 1 .. Len(Triggers) - 1 : Triggers[i] < Triggers[i + 1]
  /\ \A i \in 1 .. Len(Triggers) : Triggers[i] <= poolTrigger
  /\ m_last_trigger_version # poolVersion =>
       io = "triggers" /\ \A i \in 1 .. Len(Triggers) : Triggers[i] < poolTrigger
  /\ m_last_trigger_version = poolVersion =>
       \/ Triggers = <<>> /\ poolTrigger = 0
       \/ Triggers # <<>> /\ Triggers[Len(Triggers)] = poolTrigger

LEMMA PollKeepsTriggers == ASSUME TriggerInv, s_pollTrigger PROVE TriggerInv'
<1>1. /\ UNCHANGED <<poolTrigger, poolVersion, nextTrigger, triggersTaken>>
      /\ m_last_trigger_version' = poolVersion
  BY DEF s_pollTrigger, poolVars, deviceVars
<1>2. CASE m_last_trigger_version = poolVersion
  BY <1>1, <1>2 DEF s_pollTrigger, TriggerInv, Triggers
<1>3. CASE m_last_trigger_version # poolVersion
  <2>1. m_trigger_queue' = Append(m_trigger_queue, poolTrigger)
    BY <1>3 DEF s_pollTrigger
  <2>2. Triggers' = Append(Triggers, poolTrigger) /\ m_trigger_queue' \in Seq(Nat)
    BY <1>1, <2>1, QueueKeepsOrder DEF TriggerInv, Triggers
  <2>3. Triggers \in Seq(Nat) /\ poolTrigger \in Nat
    BY ConcatProperties DEF TriggerInv, Triggers
  <2>4. /\ \A i \in 1 .. Len(Triggers') : Triggers'[i] <= poolTrigger
        /\ \A i \in 1 .. Len(Triggers') - 1 : Triggers'[i] < Triggers'[i + 1]
    BY <1>3, <2>2, <2>3, AppendKeepsIncreasing DEF TriggerInv
  <2>5. Triggers' # <<>> /\ Triggers'[Len(Triggers')] = poolTrigger
    <3>1. /\ Append(Triggers, poolTrigger) \in Seq(Nat)
          /\ Len(Append(Triggers, poolTrigger)) = Len(Triggers) + 1
          /\ Append(Triggers, poolTrigger)[Len(Triggers) + 1] = poolTrigger
      BY <2>3, AppendProperties
    <3>2. Append(Triggers, poolTrigger) # <<>>
      BY <2>3, <3>1, LenProperties, EmptySeq
    <3>3. QED
      BY <2>2, <3>1, <3>2
  <2>6. QED
    BY <1>1, <2>2, <2>4, <2>5, SMTT(30) DEF TriggerInv
<1>4. QED
  BY <1>2, <1>3

LEMMA ReceiveKeepsTriggers ==
  ASSUME TriggerInv, NEW s \in Nat, NEW t \in Nat, Receive(s, t) PROVE TriggerInv'
<1>1. /\ io = "idle" /\ nextTrigger' = nextTrigger + t
      /\ UNCHANGED <<m_last_trigger_version, m_trigger_queue, triggersTaken, Triggers>>
  BY DEF Receive, triggerVars, Triggers
<1>2. m_last_trigger_version = poolVersion
  BY <1>1 DEF TriggerInv
<1>3. Triggers \in Seq(Nat) /\ \A i \in 1 .. Len(Triggers) : Triggers[i] \in Nat
  BY ConcatProperties, ElementOfSeq DEF TriggerInv, Triggers
<1>4. CASE UNCHANGED <<poolTrigger, poolVersion>>
  BY <1>1, <1>2, <1>4 DEF TriggerInv
<1>5. CASE t > 0 /\ poolTrigger' = nextTrigger' - 1 /\ poolVersion' = poolVersion + 2 * t
           /\ io' = "triggers"
  <2>1. poolTrigger < poolTrigger' /\ poolTrigger' \in Nat /\ poolTrigger' < nextTrigger'
    BY <1>1, <1>5 DEF TriggerInv
  <2>2. \A i \in 1 .. Len(Triggers) : Triggers[i] < poolTrigger'
    BY <1>3, <2>1 DEF TriggerInv
  <2>3. poolVersion' \in Nat /\ m_last_trigger_version' < poolVersion'
    BY <1>1, <1>2, <1>5 DEF TriggerInv
  <2>4. QED
    BY <1>1, <1>3, <1>5, <2>1, <2>2, <2>3 DEF TriggerInv
<1>6. QED
  <2>1. poolVersion + 2 * 0 = poolVersion
    BY DEF TriggerInv
  <2>2. QED
    BY <1>4, <1>5, <2>1 DEF Receive, poolVars

LEMMA ReadKeepsTriggers == ASSUME TriggerInv, readTriggerOnce PROVE TriggerInv'
<1>1. /\ UNCHANGED <<poolTrigger, poolVersion, nextTrigger, m_last_trigger_version, io>>
  BY DEF readTriggerOnce, othersOfUser, deviceVars, poolVars, ioVars
<1>2. /\ Triggers' = Triggers
      /\ m_trigger_queue' \in Seq(Nat) /\ triggersTaken' \in Seq(Nat)
  BY TakeKeepsOrder DEF readTriggerOnce, TriggerInv, Triggers
<1>3. QED
  BY <1>1, <1>2 DEF TriggerInv

LEMMA TriggerInvariant == Spec => []TriggerInv
<1>1. Init => TriggerInv
  <2> SUFFICES ASSUME Init PROVE TriggerInv
    OBVIOUS
  <2>1. Triggers = <<>> /\ <<>> \in Seq(Nat) /\ Len(<<>>) = 0
    BY ConcatEmptySeq DEF Init, Triggers
  <2>2. QED
    BY <2>1 DEF Init, TriggerInv
<1>2. TriggerInv /\ [Next]_vars => TriggerInv'
  <2> SUFFICES ASSUME TriggerInv, [Next]_vars PROVE TriggerInv'
    OBVIOUS
  <2>1. CASE s_pollTrigger
    BY <2>1, PollKeepsTriggers
  <2>2. CASE \E s, t \in 0 .. ChunkFrames : Receive(s, t)
    BY <2>2, ReceiveKeepsTriggers, PipelineAssumption
  <2>3. CASE readTriggerOnce
    BY <2>3, ReadKeepsTriggers
  <2>4. CASE /\ UNCHANGED <<nextTrigger, poolTrigger, poolVersion, m_last_trigger_version,
                            m_trigger_queue, triggersTaken>>
             /\ io' = io \/ io # "triggers"
    BY <2>4 DEF TriggerInv, Triggers
  <2>5. QED
    BY <2>1, <2>2, <2>3, <2>4 DEF Next, IoThread, DeviceRestarts, TakeStatus, Release, StartLoop,
       LoopThread, ClearStop, TestFlags, Acquire, Dequeue, Callback, EndLoop, StopFlag, StopThread,
       StopRunning, StopRelease, readOnce, othersOfLoop, othersOfUser,
       vars, deviceVars, poolVars, ioVars, triggerVars
<1>3. QED
  BY <1>1, <1>2, PTL DEF Spec

(* Every trigger the pool still shows after s_pollTrigger is in the queue, *)
(* and the queue never repeats or reorders one.                            *)
THEOREM TriggersReachQueue == Spec => []TriggersQueued
<1>1. TriggerInv => TriggersQueued
  BY DEF TriggerInv, TriggersQueued
<1>2. QED
  BY <1>1, TriggerInvariant, PTL

-----------------------------------------------------------------------------
(* The steps of the three threads as steps of the stream.  Statuses are    *)
(* those the device may number.                                            *)
Numbers == nextSeq \in 1 .. MaxStatus + 1 /\ poolStatus \in 0 .. MaxStatus

LEMMA NumbersInvariant == Spec => []Numbers
<1>1. Init => Numbers
  BY PipelineAssumption DEF Init, Numbers
<1>2. Numbers /\ [Next]_vars => Numbers'
  <2> SUFFICES ASSUME Numbers, [Next]_vars PROVE Numbers'
    OBVIOUS
  <2>1. CASE DeviceRestarts
    BY <2>1, PipelineAssumption DEF DeviceRestarts, Numbers, poolVars
  <2>2. CASE \E s, t \in 0 .. ChunkFrames : Receive(s, t)
    <3>1. PICK s \in 0 .. ChunkFrames, t \in 0 .. ChunkFrames : Receive(s, t)
      BY <2>2
    <3>2. /\ nextSeq' = nextSeq + s /\ nextSeq' <= MaxStatus + 1 /\ s \in Nat
          /\ poolStatus' = poolStatus \/ (s > 0 /\ poolStatus' = nextSeq' - 1)
      BY <3>1, PipelineAssumption DEF Receive, poolVars
    <3>3. QED
      BY <3>2, PipelineAssumption DEF Numbers
  <2>3. CASE UNCHANGED <<nextSeq, poolStatus>>
    BY <2>3 DEF Numbers
  <2>4. QED
    BY <2>1, <2>2, <2>3 DEF Next, IoThread, s_pollTrigger, TakeStatus, Release, StartLoop, LoopThread,
       ClearStop, TestFlags, Acquire, Dequeue, Callback, EndLoop, StopFlag, StopThread,
       StopRunning, StopRelease, readOnce, readTriggerOnce, othersOfLoop, othersOfUser,
       vars, deviceVars, poolVars
<1>3. QED
  BY <1>1, <1>2, PTL DEF Spec

(* The spare wake-ups are a number.                                        *)
LEMMA SpareIsNat ==
  ASSUME PipelineInv
  PROVE  /\ Len(m_rx_queue) \in Nat /\ m_data_ready \in Nat /\ Spare \in Nat
         /\ Spare = m_data_ready + (IF io = "release" THEN 1 ELSE 0)
                      + (IF loop = "dequeue" THEN 1 ELSE 0) - Len(m_rx_queue)
<1>1. Len(m_rx_queue) \in Nat /\ m_data_ready \in Nat /\ Len(m_rx_queue) <= Permits
  BY LenProperties DEF PipelineInv, TypeOK, PermitInv, EveryStatusHasPermit
<1>2. QED
  BY <1>1 DEF Spare, Permits

(* The I/O thread publishes when it queues; the permit follows.            *)
LEMMA IoRefines ==
  ASSUME PipelineInv, Numbers,
         DeviceRestarts \/ (\E s, t \in 0 .. ChunkFrames : Receive(s, t)) \/ IoThread
  PROVE  [Stream!StreamNext]_(Stream!streamVars)
<1>1. UNCHANGED <<taken, loop, m_running, m_stop_flag, stopper>>
  BY DEF DeviceRestarts, Receive, IoThread, s_pollTrigger, TakeStatus, Release, queueVars, loopVars,
     flagVars, userVars
<1>2. UNCHANGED <<taken, Phase, Asked, Caller>>
  BY <1>1 DEF Phase, Asked, Caller
<1>3. CASE DeviceRestarts \/ (\E s, t \in 0 .. ChunkFrames : Receive(s, t)) \/ s_pollTrigger
           \/ (TakeStatus /\ ~NewStatus)
  <2>1. UNCHANGED <<m_rx_queue, m_data_ready>> /\ (io = "release" <=> io' = "release")
    BY <1>3 DEF DeviceRestarts, Receive, s_pollTrigger, TakeStatus, AfterStatus, queueVars, ioVars
  <2>2. Spare' = Spare
    BY <1>1, <2>1 DEF Spare, Permits
  <2>3. QED
    BY <1>2, <2>1, <2>2 DEF Stream!streamVars
<1>4. CASE TakeStatus /\ NewStatus
  <2>1. /\ m_rx_queue' = Append(m_rx_queue, poolStatus) /\ m_data_ready' = m_data_ready
        /\ io = "status" /\ io' = "release"
    BY <1>4 DEF TakeStatus, AfterStatus
  <2>2. Len(m_rx_queue') = Len(m_rx_queue) + 1
    <3>1. m_rx_queue \in Seq(Nat) /\ poolStatus \in Nat
      BY DEF PipelineInv, TypeOK
    <3>2. QED
      BY <2>1, <3>1, AppendProperties
  <2>3. Spare' = Spare
    BY <1>1, <2>1, <2>2, SpareIsNat DEF Spare, Permits
  <2>4. Stream!Publish
    BY <1>2, <2>1, <2>3 DEF Stream!Publish, Numbers
  <2>5. QED
    BY <2>4 DEF Stream!StreamNext
<1>5. CASE Release
  <2>1. /\ m_rx_queue' = m_rx_queue /\ m_data_ready' = m_data_ready + 1
        /\ io = "release" /\ io' = "idle"
    BY <1>5 DEF Release, queueVars
  <2>2. Spare' = Spare
    BY <1>1, <2>1, SpareIsNat DEF Spare, Permits
  <2>3. QED
    BY <1>2, <2>1, <2>2 DEF Stream!streamVars
<1>6. QED
  BY <1>3, <1>4, <1>5 DEF IoThread

(* The loop's own steps: it reads off the two flags whether it was asked,  *)
(* and ClearStop may only forget what was asked of the loop before.        *)
LEMMA DecisionsRefine ==
  ASSUME PipelineInv, StartLoop \/ ClearStop \/ TestFlags \/ Callback \/ EndLoop
  PROVE  [Stream!StreamNext]_(Stream!streamVars)
<1>1. /\ UNCHANGED <<m_rx_queue, taken, m_data_ready, io, stopper>>
      /\ loop # "dequeue" /\ loop' # "dequeue"
  BY DEF StartLoop, ClearStop, TestFlags, Callback, EndLoop, queueVars, othersOfLoop, ioVars, userVars
<1>2. UNCHANGED <<m_rx_queue, taken, Spare, Caller>>
  BY <1>1 DEF Spare, Permits, Caller
<1>3. CASE StartLoop
  <2>1. loop = "idle" /\ loop' = "starting" /\ m_running'
    BY <1>3 DEF StartLoop
  <2>2. Phase = "off" /\ Phase' = "deciding" /\ Asked' = "run"
    BY <2>1 DEF Phase, Asked
  <2>3. QED
    BY <1>2, <2>2 DEF Stream!StreamNext, Stream!Begin, Stream!Enter
<1>4. CASE ClearStop
  <2>1. loop = "starting" /\ loop' = "test" /\ m_running' = m_running /\ ~m_stop_flag'
    BY <1>4 DEF ClearStop
  <2>2. Phase' = Phase /\ Asked' = Asked
    BY <2>1 DEF Phase, Asked
  <2>3. QED
    BY <1>2, <2>2 DEF Stream!streamVars
<1>5. CASE TestFlags /\ ~StayInLoop
  <2>1. loop = "test" /\ loop' = "ending" /\ (~m_running \/ m_stop_flag)
    BY <1>5 DEF TestFlags, StayInLoop
  <2>2. Phase' = Phase /\ Asked' = Asked
    BY <2>1 DEF Phase, Asked
  <2>3. QED
    BY <1>2, <2>2 DEF Stream!streamVars
<1>6. CASE TestFlags /\ StayInLoop
  <2>1. /\ loop = "test" /\ loop' = "acquire" /\ m_running /\ ~m_stop_flag
        /\ UNCHANGED <<m_running, m_stop_flag>>
    BY <1>6 DEF TestFlags, StayInLoop, flagVars
  <2>2. Phase = "deciding" /\ Phase' = "waiting" /\ Asked = "run" /\ Asked' = Asked
    BY <2>1 DEF Phase, Asked
  <2>3. QED
    BY <1>2, <2>2 DEF Stream!StreamNext, Stream!Turn, Stream!Enter
<1>7. CASE Callback
  <2>1. /\ loop = "callback" /\ loop' \in {"test", "ending"}
        /\ m_running' => m_running
        /\ m_stop_flag => m_stop_flag'
    BY <1>7 DEF Callback, finishMotion, stopControl, flagVars
  <2>2. Phase = "holding" /\ Phase' = "deciding" /\ (Asked' = Asked \/ Asked' = "end")
    BY <2>1 DEF Phase, Asked
  <2>3. QED
    BY <1>2, <2>2 DEF Stream!StreamNext, Stream!CallBack, Stream!Enter
<1>8. CASE EndLoop
  <2>1. loop = "ending" /\ loop' = "idle"
    BY <1>8 DEF EndLoop
  <2>2. Phase = "deciding" /\ Phase' = "off" /\ Asked = "end" /\ Asked' = "run"
    BY <2>1 DEF Phase, Asked
  <2>3. QED
    BY <1>2, <2>2 DEF Stream!StreamNext, Stream!End, Stream!Enter
<1>9. QED
  BY <1>3, <1>4, <1>5, <1>6, <1>7, <1>8

(* A permit acquired is in the loop's hand until it has looked for what it *)
(* stands for: a status, or nothing.                                       *)
LEMMA TurnsRefine ==
  ASSUME PipelineInv, Acquire \/ Dequeue
  PROVE  [Stream!StreamNext]_(Stream!streamVars)
<1>1. UNCHANGED <<io, stopper, Caller>> /\ Asked' = Asked
  <2>1. /\ UNCHANGED <<io, stopper, m_running, m_stop_flag>>
        /\ loop \in {"acquire", "dequeue"} /\ loop' \in {"dequeue", "test", "callback"}
    BY DEF Acquire, Dequeue, othersOfLoop, flagVars, ioVars, userVars
  <2>2. QED
    BY <2>1 DEF Caller, Asked
<1>2. Phase = "waiting"
  BY DEF Acquire, Dequeue, Phase
<1>3. CASE Acquire
  <2>1. /\ UNCHANGED <<m_rx_queue, taken>> /\ m_data_ready' = m_data_ready - 1
        /\ loop = "acquire" /\ loop' = "dequeue"
    BY <1>3 DEF Acquire, queueVars
  <2>2. Spare' = Spare /\ Phase' = Phase
    BY <1>1, <2>1, SpareIsNat DEF Spare, Permits, Phase
  <2>3. QED
    BY <1>1, <2>1, <2>2 DEF Stream!streamVars
<1>4. CASE Dequeue /\ m_rx_queue = <<>>
  <2>1. /\ UNCHANGED <<m_rx_queue, taken, m_data_ready>>
        /\ loop = "dequeue" /\ loop' = "test"
    BY <1>4 DEF Dequeue, queueVars
  <2>2. Phase' = "deciding"
    BY <2>1 DEF Phase
  <2>3. Spare > 0 /\ Spare' = Spare - 1
    <3>1. Len(m_rx_queue) = 0 /\ Len(m_rx_queue') = Len(m_rx_queue)
      BY <1>4, <2>1
    <3>2. QED
      BY <1>1, <2>1, <3>1, SpareIsNat DEF Spare, Permits
  <2>4. Stream!WakeForNothing
    BY <1>1, <1>2, <1>4, <2>1, <2>2, <2>3 DEF Stream!WakeForNothing, Stream!Enter
  <2>5. QED
    BY <2>4 DEF Stream!StreamNext
<1>5. CASE Dequeue /\ m_rx_queue # <<>>
  <2>1. /\ m_rx_queue' = Tail(m_rx_queue) /\ taken' = Append(taken, Head(m_rx_queue))
        /\ m_data_ready' = m_data_ready
        /\ loop = "dequeue" /\ loop' = "callback"
    BY <1>5 DEF Dequeue
  <2>2. Len(m_rx_queue') = Len(m_rx_queue) - 1
    BY <1>5, <2>1, HeadTailProperties DEF PipelineInv, TypeOK
  <2>3. Spare' = Spare
    BY <1>1, <2>1, <2>2, SpareIsNat DEF Spare, Permits
  <2>4. Phase' = "holding"
    BY <2>1 DEF Phase
  <2>5. Stream!Take
    BY <1>1, <1>2, <1>5, <2>1, <2>3, <2>4 DEF Stream!Take, Stream!TakeFirst, Stream!Enter
  <2>6. QED
    BY <2>5 DEF Stream!StreamNext
<1>6. QED
  BY <1>3, <1>4, <1>5

(* stop() asks, tells and wakes; asking is lost on a loop that starts.     *)
LEMMA StopRefines ==
  ASSUME PipelineInv, StopFlag \/ StopRunning \/ StopRelease
  PROVE  [Stream!StreamNext]_(Stream!streamVars)
<1>1. UNCHANGED <<m_rx_queue, taken, io, loop>> /\ Phase' = Phase
  BY DEF StopFlag, StopRunning, StopRelease, queueVars, othersOfUser, ioVars, Phase
<1>2. CASE StopFlag
  <2>1. /\ UNCHANGED <<m_data_ready, m_running>> /\ m_stop_flag'
        /\ Caller = "away" /\ Caller' = "asking"
    BY <1>2 DEF StopFlag, Caller
  <2>2. Spare' = Spare
    BY <1>1, <2>1 DEF Spare, Permits
  <2>3. Asked' = Asked \/ (Phase # "off" /\ Asked' = "end")
    BY <1>1, <2>1 DEF Phase, Asked, PipelineInv, TypeOK
  <2>4. Stream!Ask
    BY <1>1, <2>1, <2>2, <2>3 DEF Stream!Ask
  <2>5. QED
    BY <2>4 DEF Stream!StreamNext
<1>3. CASE StopRunning
  <2>1. /\ m_data_ready' = m_data_ready /\ m_running' = FALSE
        /\ Caller = "asking" /\ Caller' = "waking"
    BY <1>3 DEF StopRunning, Caller
  <2>2. Spare' = Spare
    BY <1>1, <2>1 DEF Spare, Permits
  <2>3. loop = "idle" <=> Phase = "off"
    BY DEF PipelineInv, TypeOK, Phase
  <2>4. Asked' = IF Phase = "off" THEN "run" ELSE "end"
    BY <1>1, <2>1, <2>3 DEF Asked
  <2>5. Stream!Tell
    BY <1>1, <2>1, <2>2, <2>4 DEF Stream!Tell
  <2>6. QED
    BY <2>5 DEF Stream!StreamNext
<1>4. CASE StopRelease
  <2>1. /\ m_data_ready' = m_data_ready + 1 /\ UNCHANGED <<m_running, m_stop_flag>>
        /\ Caller = "waking" /\ Caller' = "away"
    BY <1>4 DEF StopRelease, Caller, flagVars
  <2>2. Spare' = Spare + 1
    BY <1>1, <2>1, SpareIsNat DEF Spare, Permits
  <2>3. Asked' = Asked
    BY <1>1, <2>1 DEF Asked
  <2>4. Stream!Wake
    BY <1>1, <2>1, <2>2, <2>3 DEF Stream!Wake
  <2>5. QED
    BY <2>4 DEF Stream!StreamNext
<1>5. QED
  BY <1>2, <1>3, <1>4

LEMMA ReadsRefine ==
  ASSUME PipelineInv, readOnce \/ readTriggerOnce
  PROVE  [Stream!StreamNext]_(Stream!streamVars)
<1>1. UNCHANGED <<io, loop, stopper, m_data_ready, Phase, Asked, Caller>>
  <2>1. UNCHANGED <<io, loop, stopper, m_data_ready, m_running, m_stop_flag>>
    BY DEF readOnce, readTriggerOnce, othersOfUser, ioVars, flagVars, userVars
  <2>2. QED
    BY <2>1 DEF Phase, Asked, Caller
<1>2. CASE readOnce
  <2>1. /\ m_rx_queue # <<>> /\ m_rx_queue' = Tail(m_rx_queue)
        /\ taken' = Append(taken, Head(m_rx_queue)) /\ Phase = "off"
    BY <1>2 DEF readOnce, Phase
  <2>2. Len(m_rx_queue') = Len(m_rx_queue) - 1
    BY <2>1, HeadTailProperties DEF PipelineInv, TypeOK
  <2>3. Spare' = Spare + 1
    BY <1>1, <2>2, SpareIsNat DEF Spare, Permits
  <2>4. Stream!ReadOnce
    BY <1>1, <2>1, <2>3 DEF Stream!ReadOnce, Stream!TakeFirst
  <2>5. QED
    BY <2>4 DEF Stream!StreamNext
<1>3. CASE readTriggerOnce
  <2>1. UNCHANGED <<m_rx_queue, taken>>
    BY <1>3 DEF readTriggerOnce, queueVars
  <2>2. Spare' = Spare
    BY <1>1, <2>1 DEF Spare, Permits
  <2>3. QED
    BY <1>1, <2>1, <2>2 DEF Stream!streamVars
<1>4. QED
  BY <1>2, <1>3

(* The pipeline is a stream of statuses with wake-ups: its threads, flags  *)
(* and semaphore do what StatusStream does in single steps.                *)
THEOREM PipelineImplementsStream == Spec => PipelineIsStream
<1>1. Init => Stream!StreamInit
  <2> SUFFICES ASSUME Init PROVE Stream!StreamInit
    OBVIOUS
  <2>1. /\ m_rx_queue = <<>> /\ taken = <<>>
        /\ m_data_ready = 0 /\ io = "idle" /\ loop = "idle" /\ stopper = "idle"
    BY DEF Init
  <2>2. Phase = "off" /\ Asked = "run" /\ Caller = "away"
    BY <2>1 DEF Phase, Asked, Caller
  <2>3. Spare = 0
    <3>1. Len(m_rx_queue) = 0
      BY <2>1
    <3>2. Permits = 0
      BY <2>1 DEF Permits
    <3>3. QED
      BY ONLY <3>1, <3>2 DEF Spare
  <2>4. QED
    BY <2>1, <2>2, <2>3 DEF Stream!StreamInit
<1>2. PipelineInv /\ Numbers /\ [Next]_vars
        => [Stream!StreamNext]_(Stream!streamVars)
  <2>1. ASSUME UNCHANGED vars PROVE UNCHANGED Stream!streamVars
    BY <2>1 DEF vars, ioVars, queueVars, flagVars, loopVars, userVars, Stream!streamVars, Spare,
       Permits, Phase, Asked, Caller
  <2>2. QED
    BY <2>1, IoRefines, DecisionsRefine, TurnsRefine, StopRefines, ReadsRefine
       DEF Next, LoopThread, StopThread
<1>3. QED
  BY <1>1, <1>2, PipelineInvariant, NumbersInvariant, PTL
     DEF Spec, PipelineIsStream, Stream!StreamSpec
=============================================================================
