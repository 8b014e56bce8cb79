----------------------------- MODULE Recorder_proofs -----------------------------
(***************************************************************************)
(* The recorder's threads: what stop leaves behind, the account of the     *)
(* records, the use of each trigger and the order of the frames; for every *)
(* capacity and number of triggers, frames and sessions.                   *)
(***************************************************************************)
EXTENDS Recorder, SequenceTheorems, WellFoundedInduction, TLAPS

Recorded == [trigger : 1 .. MaxTriggers, frame : Frames]

(* A non-empty set of numbers has a least one.                             *)
LEMMA LeastNat == ASSUME NEW T, T \subseteq Nat, T # {} PROVE \E x \in T : \A y \in T : x <= y
<1> DEFINE R == OpToRel(<, Nat)
<1>1. IsWellFoundedOn(R, Nat)
  BY NatLessThanWellFounded
<1>2. \A x, y \in Nat : <<x, y>> \in R <=> x < y
  BY DEF OpToRel
<1> HIDE DEF R
<1>3. PICK x \in T : \A y \in T : ~ (<<y, x>> \in R)
  BY <1>1, WFMin
<1>4. \A y \in T : ~ (y < x)
  BY <1>2, <1>3, Zenon
<1>5. QED
  BY <1>4

(* The worker finds a nearest trigger whenever one is pending.             *)
LEMMA BestExists ==
  ASSUME TypeOK, pending_triggers # <<>>, available # <<>>
  PROVE  Best \in 1 .. Len(pending_triggers) /\ pending_triggers[Best] \in Triggers
<1>1. /\ DOMAIN pending_triggers = 1 .. Len(pending_triggers) /\ Len(pending_triggers) \in Nat \ {0}
      /\ \A i \in DOMAIN pending_triggers : pending_triggers[i] \in Triggers
  BY LenProperties, EmptySeq, ElementOfSeq DEF TypeOK
<1>2. Head(available) \in Frames
  BY HeadTailProperties DEF TypeOK
<1>3. \A i \in DOMAIN pending_triggers : Distance(i) \in Nat
  BY <1>1, <1>2 DEF Distance, Triggers, Frames
<1> DEFINE Distances == {Distance(i) : i \in DOMAIN pending_triggers}
<1>4. PICK d \in Distances : \A e \in Distances : d <= e
  <2>1. Distances \subseteq Nat /\ Distances # {}
    BY <1>1, <1>3
  <2> HIDE DEF Distances
  <2>2. QED
    BY <2>1, LeastNat
<1> DEFINE Nearest == {i \in DOMAIN pending_triggers : Distance(i) = d}
<1>5. PICK k \in Nearest : \A j \in Nearest : k <= j
  <2>1. Nearest \subseteq Nat /\ Nearest # {}
    BY <1>1, <1>4
  <2> HIDE DEF Nearest
  <2>2. QED
    BY <2>1, LeastNat
<1>6. \A j \in DOMAIN pending_triggers :
        /\ Distance(k) <= Distance(j)
        /\ j < k => Distance(k) < Distance(j)
  <2> SUFFICES ASSUME NEW j \in DOMAIN pending_triggers
               PROVE  Distance(k) <= Distance(j) /\ (j < k => Distance(k) < Distance(j))
    OBVIOUS
  <2>1. Distance(k) = d /\ k \in DOMAIN pending_triggers /\ d <= Distance(j)
    BY <1>4, <1>5
  <2>2. Distance(j) = d => k <= j
    BY <1>5
  <2>3. d \in Nat /\ Distance(j) \in Nat /\ k \in Nat /\ j \in Nat
    BY <1>1, <1>3, <2>1
  <2>4. QED
    BY <2>1, <2>2, <2>3
<1>7. Best \in DOMAIN pending_triggers
  <2>1. k \in DOMAIN pending_triggers
    BY <1>5
  <2>2. QED
    BY <1>6, <2>1 DEF Best
<1>8. QED
  BY <1>1, <1>7

LEMMA RemoveKeepsType ==
  ASSUME NEW S, NEW s \in Seq(S), NEW i \in 1 .. Len(s)
  PROVE  RemoveAt(s, i) \in Seq(S)
<1>1. Len(s) \in Nat /\ \A j \in 1 .. Len(s) : s[j] \in S
  BY LenProperties, ElementOfSeq
<1>2. SubSeq(s, 1, i - 1) \in Seq(S)
  BY <1>1, SubSeqProperties
<1>3. SubSeq(s, i + 1, Len(s)) \in Seq(S)
  BY <1>1, SubSeqProperties
<1>4. QED
  BY <1>2, <1>3, ConcatProperties DEF RemoveAt

-----------------------------------------------------------------------------
LEMMA InitEstablishes == Init => RecorderInv
<1> SUFFICES ASSUME Init PROVE RecorderInv
  OBVIOUS
<1>1. /\ <<>> \in Seq(Frames) /\ <<>> \in Seq(Triggers) /\ <<>> \in Seq(Recorded)
      /\ Len(<<>>) = 0
  BY EmptySeq
<1>2. TypeOK
  <2>1. frame \in Frames
    BY DEF Init, NoFrame, Frames
  <2>2. {m_dropped_records, next_frame_index, now, arrived, session, published, taken} \subseteq Nat
    BY DEF Init
  <2>3. uses \in [1 .. MaxTriggers -> Nat] /\ arrived <= MaxTriggers
    BY RecorderAssumption DEF Init
  <2>4. QED
    BY <1>1, <2>1, <2>2, <2>3 DEF Init, TypeOK, Recorded
<1>3. ThreadsInv /\ StoppedIsQuiet
  BY <1>1, RecorderAssumption DEF Init, ThreadsInv, StoppedIsQuiet
<1>4. QED
  BY <1>2, <1>3 DEF RecorderInv

(* The clock, the arm, the caller and the readers.                         *)
LEMMA ArmPreserves == ASSUME RecorderInv, Tick \/ TriggerArrives PROVE RecorderInv'
<1> USE DEF RecorderInv, captureVars, workerVars, recordVars
<1>1. CASE Tick
  BY <1>1 DEF Tick, TypeOK, ThreadsInv, StoppedIsQuiet
<1>2. CASE TriggerArrives
  <2>a. arrived \in Nat /\ now \in Nat /\ MaxTriggers \in Nat
    BY RecorderAssumption DEF TypeOK
  <2>1. [seq |-> arrived', t |-> now] \in Triggers
    BY <1>2, <2>a DEF TriggerArrives, Triggers
  <2>2. triggers' \in Seq(Triggers)
    BY <1>2, <2>1, AppendProperties DEF TriggerArrives, TypeOK
  <2>3. arrived' \in Nat /\ arrived' <= MaxTriggers
    BY <1>2, <2>a DEF TriggerArrives
  <2>4. TypeOK'
    BY <1>2, <2>2, <2>3 DEF TriggerArrives, TypeOK
  <2>5. ThreadsInv' /\ StoppedIsQuiet'
    BY <1>2 DEF TriggerArrives, ThreadsInv, StoppedIsQuiet
  <2>6. QED
    BY <2>4, <2>5
<1>3. QED
  BY <1>1, <1>2

LEMMA StartPreserves ==
  ASSUME RecorderInv, NEW camera \in {"opened", "refused", "overflow"}, Start(camera)
  PROVE  RecorderInv'
<1> USE DEF RecorderInv, Start, Forget, armVars
<1>1. /\ <<>> \in Seq(Frames) /\ <<>> \in Seq(Triggers) /\ <<>> \in Seq(Recorded)
      /\ Len(<<>>) = 0
  BY EmptySeq
<1>2. capture = "none" /\ worker = "none" /\ available = <<>>
  BY DEF StoppedIsQuiet
<1>3. TypeOK'
  <2>1. session' \in Nat /\ m_running' \in BOOLEAN
    BY DEF TypeOK
  <2>2. {m_dropped_records, next_frame_index, now, arrived, session, published, taken}' \subseteq Nat
    BY <2>1 DEF TypeOK
  <2>3. /\ capture' \in {"none", "test"} /\ worker' \in {"none", "test"}
        /\ capture_done' \in BOOLEAN
    BY <1>2 DEF TypeOK
  <2>4. QED
    BY <1>1, <2>1, <2>2, <2>3 DEF TypeOK, Recorded
<1>4. ThreadsInv' /\ StoppedIsQuiet'
  <2>1. /\ frames' = <<>> /\ records' = <<>> /\ pending_triggers' = <<>> /\ available' = <<>>
        /\ user' = "free" /\ Len(<<>>) = 0 /\ 0 <= Capacity
    BY <1>1, <1>2, RecorderAssumption
  <2>2. CASE camera = "opened"
    BY <2>1, <2>2 DEF ThreadsInv, StoppedIsQuiet
  <2>3. CASE camera # "opened"
    BY <1>2, <2>1, <2>3 DEF ThreadsInv, StoppedIsQuiet
  <2>4. QED
    BY <2>2, <2>3
<1>5. QED
  BY <1>3, <1>4

LEMMA StopPreserves == ASSUME RecorderInv, Stop \/ Join PROVE RecorderInv'
<1> USE DEF RecorderInv, captureVars, workerVars, recordVars, armVars
<1>1. CASE Stop
  <2>1. TypeOK'
    BY <1>1 DEF Stop, TypeOK
  <2>2. ThreadsInv' /\ StoppedIsQuiet'
    BY <1>1 DEF Stop, ThreadsInv, StoppedIsQuiet
  <2>3. QED
    BY <2>1, <2>2
<1>2. CASE JoinCapture
  <2>1. TypeOK'
    BY <1>2 DEF JoinCapture, TypeOK
  <2>2. ThreadsInv' /\ StoppedIsQuiet'
    BY <1>2 DEF JoinCapture, ThreadsInv, StoppedIsQuiet
  <2>3. QED
    BY <2>1, <2>2
<1>3. CASE JoinWorker
  <2>1. TypeOK'
    BY <1>3 DEF JoinWorker, TypeOK
  <2>2. ThreadsInv' /\ StoppedIsQuiet'
    BY <1>3 DEF JoinWorker, ThreadsInv, StoppedIsQuiet
  <2>3. QED
    BY <2>1, <2>2
<1>4. QED
  BY <1>1, <1>2, <1>3 DEF Join

LEMMA ReadPreserves == ASSUME RecorderInv, ReadOnce PROVE RecorderInv'
<1> USE DEF RecorderInv, captureVars, workerVars, armVars
<1>1. records' \in Seq(Recorded) /\ Len(records') = Len(records) - 1 /\ Len(records) \in Nat
  BY HeadTailProperties, LenProperties DEF ReadOnce, TypeOK, Recorded
<1>2. TypeOK'
  BY <1>1, SMTT(30) DEF ReadOnce, TypeOK, Recorded
<1>3. ThreadsInv' /\ StoppedIsQuiet'
  BY <1>1, RecorderAssumption DEF ReadOnce, ThreadsInv, StoppedIsQuiet
<1>4. QED
  BY <1>2, <1>3

-----------------------------------------------------------------------------
LEMMA CapturePreserves == ASSUME RecorderInv, CaptureThread PROVE RecorderInv'
<1> USE DEF RecorderInv, othersOfCapture, workerVars, recordVars, armVars
<1>1. CASE CaptureTest
  <2>1. TypeOK'
    BY <1>1 DEF CaptureTest, TypeOK
  <2>2. ThreadsInv' /\ StoppedIsQuiet'
    BY <1>1 DEF CaptureTest, ThreadsInv, StoppedIsQuiet
  <2>3. QED
    BY <2>1, <2>2
<1>2. CASE CaptureRead
  <2>1. frame' \in Frames /\ next_frame_index' \in Nat
    BY <1>2, SMTT(30) DEF CaptureRead, TypeOK, Frames
  <2>2. TypeOK'
    BY <1>2, <2>1 DEF CaptureRead, TypeOK
  <2>3. ThreadsInv' /\ StoppedIsQuiet'
    BY <1>2 DEF CaptureRead, ThreadsInv, StoppedIsQuiet
  <2>4. QED
    BY <2>2, <2>3
<1>3. CASE CapturePush
  <2> DEFINE kept == IF Len(frames) >= Capacity THEN Tail(frames) ELSE frames
  <2>1. kept \in Seq(Frames) /\ Len(kept) < Capacity /\ frame \in Frames
    <3>1. frames \in Seq(Frames) /\ Len(frames) <= Capacity /\ Len(frames) \in Nat
      BY LenProperties DEF TypeOK, ThreadsInv
    <3>2. CASE Len(frames) >= Capacity
      <4>1. frames # <<>>
        BY <3>1, <3>2, EmptySeq, RecorderAssumption
      <4>2. QED
        BY <3>1, <3>2, <4>1, HeadTailProperties, RecorderAssumption, SMTT(30) DEF TypeOK
    <3>3. QED
      BY <3>1, <3>2, RecorderAssumption, SMTT(30) DEF TypeOK
  <2>2. frames' = Append(kept, frame)
    BY <1>3 DEF CapturePush
  <2> HIDE DEF kept
  <2>3. frames' \in Seq(Frames) /\ Len(frames') = Len(kept) + 1 /\ Len(kept) \in Nat
    BY <2>1, <2>2, AppendProperties, LenProperties
  <2>4. TypeOK'
    BY <1>3, <2>3 DEF CapturePush, TypeOK, Frames, NoFrame
  <2>5. ThreadsInv' /\ StoppedIsQuiet'
    BY <1>3, <2>1, <2>3, RecorderAssumption DEF CapturePush, ThreadsInv, StoppedIsQuiet
  <2>6. QED
    BY <2>4, <2>5
<1>4. CASE CaptureDone
  BY <1>4 DEF CaptureDone, TypeOK, ThreadsInv, StoppedIsQuiet
<1>5. QED
  BY <1>1, <1>2, <1>3, <1>4 DEF CaptureThread

-----------------------------------------------------------------------------
LEMMA WorkerStepsPreserve ==
  ASSUME RecorderInv, WorkerTest \/ WorkerIdle \/ WorkerTake \/ WorkerClean
  PROVE  RecorderInv'
<1> USE DEF RecorderInv, othersOfWorker, captureVars, recordVars, armVars
<1>1. \A S : <<>> \in Seq(S) /\ Len(<<>>) = 0
  BY EmptySeq
<1>2. CASE WorkerTest
  BY <1>2 DEF WorkerTest, StayInWorker, TypeOK, ThreadsInv, StoppedIsQuiet
<1>3. CASE WorkerIdle
  BY <1>3 DEF WorkerIdle, TypeOK, ThreadsInv, StoppedIsQuiet
<1>4. CASE WorkerTake
  BY <1>1, <1>4, RecorderAssumption DEF WorkerTake, TypeOK, ThreadsInv, StoppedIsQuiet
<1>5. CASE WorkerClean
  BY <1>1, <1>5 DEF WorkerClean, Discard, TypeOK, ThreadsInv, StoppedIsQuiet
<1>6. QED
  BY <1>2, <1>3, <1>4, <1>5

LEMMA WorkerDrainPreserves == ASSUME RecorderInv, WorkerDrain PROVE RecorderInv'
<1> USE DEF RecorderInv, WorkerDrain, captureVars, recordVars
<1>1. pending_triggers' \in Seq(Triggers) /\ triggers' \in Seq(Triggers)
  <2>1. CASE triggers = <<>>
    BY <2>1 DEF TypeOK
  <2>2. CASE triggers # <<>>
    <3>1. triggers \in Seq(Triggers) /\ pending_triggers \in Seq(Triggers)
      BY DEF TypeOK
    <3>2. Head(triggers) \in Triggers /\ Tail(triggers) \in Seq(Triggers)
      BY <2>2, <3>1, HeadTailProperties
    <3>3. Append(pending_triggers, Head(triggers)) \in Seq(Triggers)
      BY <3>1, <3>2, AppendProperties
    <3>4. QED
      BY <2>2, <3>2, <3>3
  <2>3. QED
    BY <2>1, <2>2
<1>2. TypeOK'
  BY <1>1 DEF TypeOK
<1>3. ThreadsInv' /\ StoppedIsQuiet'
  BY DEF ThreadsInv, StoppedIsQuiet
<1>4. QED
  BY <1>2, <1>3

LEMMA WorkerPairPreserves == ASSUME RecorderInv, WorkerPair PROVE RecorderInv'
<1> USE DEF RecorderInv, WorkerPair, othersOfWorker, captureVars, armVars
<1>1. /\ available' \in Seq(Frames) /\ Head(available) \in Frames
      /\ Len(records) \in Nat /\ Len(frames) \in Nat
  BY HeadTailProperties, LenProperties DEF TypeOK
<1>2. CASE pending_triggers = <<>> /\ UNCHANGED <<pending_triggers, uses, recordVars>>
  <2>1. TypeOK'
    BY <1>1, <1>2 DEF TypeOK, recordVars
  <2>2. ThreadsInv' /\ StoppedIsQuiet'
    BY <1>2 DEF ThreadsInv, StoppedIsQuiet, recordVars
  <2>3. QED
    BY <2>1, <2>2
<1>3. CASE pending_triggers # <<>> /\ Pair(pending_triggers[Best])
  <2> DEFINE trigger == pending_triggers[Best]
             record == [trigger |-> trigger.seq, frame |-> Head(available)]
  <2>1. Best \in 1 .. Len(pending_triggers) /\ trigger \in Triggers
    BY <1>3, BestExists
  <2>2. /\ pending_triggers' \in Seq(Triggers)
        /\ uses' \in [1 .. MaxTriggers -> Nat] /\ published' \in Nat
    <3>1. pending_triggers' \in Seq(Triggers)
      BY <1>3, <2>1, RemoveKeepsType DEF Pair, EraseBest, TypeOK
    <3>2. trigger.seq \in 1 .. MaxTriggers
      BY <2>1 DEF Triggers
    <3>3. uses' = [uses EXCEPT ![trigger.seq] = @ + 1] /\ published' = published + 1
      BY <1>3 DEF Pair
    <3>4. published \in Nat /\ uses \in [1 .. MaxTriggers -> Nat]
      BY DEF TypeOK
    <3>5. uses' \in [1 .. MaxTriggers -> Nat]
      <4> HIDE DEF trigger
      <4>1. uses[trigger.seq] + 1 \in Nat
        BY <3>2, <3>4
      <4>2. QED
        BY <3>2, <3>3, <3>4, <4>1
    <3>6. QED
      BY <3>1, <3>3, <3>4, <3>5
  <2>3. record \in Recorded /\ publish(record)
    BY <1>1, <1>3, <2>1 DEF Pair, Recorded, Triggers
  <2> HIDE DEF record, trigger
  <2>4. records' \in Seq(Recorded) /\ Len(records') <= Capacity /\ m_dropped_records' \in Nat
    <3>1. /\ records \in Seq(Recorded) /\ Len(records) <= Capacity /\ m_dropped_records \in Nat
          /\ Capacity \in Nat
      BY RecorderAssumption DEF TypeOK, Recorded, ThreadsInv
    <3>2. CASE Len(records) < Capacity
      <4>1. /\ Append(records, record) \in Seq(Recorded)
            /\ Len(Append(records, record)) = Len(records) + 1
        BY <2>3, <3>1, AppendProperties
      <4>2. records' = Append(records, record) /\ UNCHANGED m_dropped_records
        BY <1>1, <2>3, <3>1, <3>2 DEF publish
      <4>3. QED
        BY <1>1, <3>1, <3>2, <4>1, <4>2
    <3>3. CASE Len(records) >= Capacity
      BY <1>1, <2>3, <3>1, <3>3 DEF publish
    <3>4. QED
      BY <1>1, <3>1, <3>2, <3>3
  <2>5. TypeOK'
    BY <1>1, <2>2, <2>4 DEF TypeOK, Recorded
  <2>6. ThreadsInv' /\ StoppedIsQuiet'
    BY <2>4 DEF ThreadsInv, StoppedIsQuiet
  <2>7. QED
    BY <2>5, <2>6
<1>4. QED
  BY <1>2, <1>3

(* Whatever interleaving of the threads, the caller and the readers: when  *)
(* stop has returned nothing of the recorder runs or is pending.           *)
THEOREM RecorderInvariant == Spec => []RecorderInv
<1>1. RecorderInv /\ UNCHANGED vars => RecorderInv'
  BY DEF RecorderInv, TypeOK, ThreadsInv, StoppedIsQuiet, vars, captureVars, workerVars,
     recordVars, armVars
<1>2. RecorderInv /\ [Next]_vars => RecorderInv'
  BY <1>1, ArmPreserves, StartPreserves, StopPreserves, ReadPreserves, CapturePreserves,
     WorkerStepsPreserve, WorkerDrainPreserves, WorkerPairPreserves
     DEF Next, WorkerThread
<1>3. QED
  BY InitEstablishes, <1>2, PTL DEF Spec

-----------------------------------------------------------------------------
LEMMA PairIsAccounted ==
  ASSUME RecorderInv, RecordsAccounted, WorkerPair PROVE RecordsAccounted'
<1>1. /\ {published, taken, m_dropped_records} \subseteq Nat
      /\ records \in Seq(Recorded) /\ Len(records) \in Nat /\ Capacity \in Nat
  BY RecorderAssumption, LenProperties DEF RecorderInv, TypeOK, Recorded
<1>2. CASE UNCHANGED recordVars
  BY <1>2 DEF WorkerPair, othersOfWorker, recordVars, RecordsAccounted
<1>3. CASE pending_triggers # <<>> /\ Pair(pending_triggers[Best])
  <2> DEFINE record == [trigger |-> pending_triggers[Best].seq, frame |-> Head(available)]
  <2>1. available # <<>> /\ UNCHANGED taken
    BY DEF WorkerPair, othersOfWorker
  <2>2. record \in Recorded
    BY <1>3, <2>1, BestExists, HeadTailProperties DEF RecorderInv, TypeOK, Recorded, Triggers
  <2>3. published' = published + 1 /\ publish(record)
    BY <1>3 DEF Pair
  <2> HIDE DEF record
  <2>4. Len(Append(records, record)) = Len(records) + 1
    BY <1>1, <2>2, AppendProperties
  <2>5. Len(records') + m_dropped_records' = Len(records) + m_dropped_records + 1
    BY <1>1, <2>3, <2>4 DEF publish
  <2>6. m_dropped_records' \in Nat /\ Len(records') \in Nat
    BY <1>1, <2>3, <2>4 DEF publish
  <2>7. QED
    BY <1>1, <2>1, <2>3, <2>5, <2>6, SMTT(30) DEF RecordsAccounted
<1>4. QED
  BY <1>2, <1>3 DEF WorkerPair

(* Every pairing of the session was read, waits to be read, or is counted  *)
(* as dropped.                                                             *)
THEOREM DroppedAreCounted == Spec => []RecordsAccounted
<1>1. Init => RecordsAccounted
  BY DEF Init, RecordsAccounted
<1>2. RecorderInv /\ RecordsAccounted /\ [Next]_vars => RecordsAccounted'
  <2> SUFFICES ASSUME RecorderInv, RecordsAccounted, [Next]_vars PROVE RecordsAccounted'
    OBVIOUS
  <2>1. CASE \E camera \in {"opened", "refused", "overflow"} : Start(camera)
    BY <2>1 DEF Start, Forget, RecordsAccounted
  <2>2. CASE ReadOnce
    <3>1. /\ {published, taken, m_dropped_records} \subseteq Nat
          /\ Len(records') = Len(records) - 1 /\ Len(records) \in Nat
      BY <2>2, HeadTailProperties, LenProperties DEF ReadOnce, RecorderInv, TypeOK
    <3>2. QED
      BY <2>2, <3>1 DEF ReadOnce, RecordsAccounted
  <2>3. CASE WorkerPair
    BY <2>3, PairIsAccounted
  <2>4. CASE UNCHANGED <<recordVars, taken>>
    BY <2>4 DEF recordVars, RecordsAccounted
  <2>5. QED
    BY <2>1, <2>2, <2>3, <2>4 DEF Next, Tick, TriggerArrives, Stop, Join, JoinCapture, JoinWorker,
       CaptureThread, CaptureTest, CaptureRead, CapturePush, CaptureDone, othersOfCapture,
       WorkerThread, WorkerTest, WorkerDrain, WorkerIdle, WorkerTake, WorkerClean, othersOfWorker,
       vars
<1>3. QED
  BY <1>1, <1>2, RecorderInvariant, PTL DEF Spec

-----------------------------------------------------------------------------
(* A sequence made of elements of another, in the same order.              *)
Picks(u, s) ==
  \E f \in [1 .. Len(u) -> 1 .. Len(s)] :
    /\ \A i \in 1 .. Len(u) : u[i] = s[f[i]]
    /\ \A i, j \in 1 .. Len(u) : i < j => f[i] < f[j]

LEMMA PicksItself == ASSUME NEW S, NEW s \in Seq(S) PROVE Picks(s, s)
<1> DEFINE f == [i \in 1 .. Len(s) |-> i]
<1>1. /\ f \in [1 .. Len(s) -> 1 .. Len(s)]
      /\ \A i \in 1 .. Len(s) : s[i] = s[f[i]]
      /\ \A i, j \in 1 .. Len(s) : i < j => f[i] < f[j]
  OBVIOUS
<1> HIDE DEF f
<1>2. QED
  BY <1>1 DEF Picks

LEMMA PicksNothing == ASSUME NEW S, NEW s \in Seq(S) PROVE Picks(<<>>, s)
<1> DEFINE f == [i \in {} |-> i]
<1>1. Len(<<>>) = 0 /\ 1 .. Len(<<>>) = {}
  BY EmptySeq
<1>2. f \in [{} -> 1 .. Len(s)]
  OBVIOUS
<1> HIDE DEF f
<1>3. QED
  BY <1>1, <1>2 DEF Picks

LEMMA PicksTail == ASSUME NEW S, NEW s \in Seq(S), s # <<>> PROVE Picks(Tail(s), s)
<1> DEFINE f == [i \in 1 .. Len(Tail(s)) |-> i + 1]
<1>1. /\ Len(Tail(s)) = Len(s) - 1 /\ Len(s) \in Nat
      /\ \A i \in 1 .. Len(Tail(s)) : Tail(s)[i] = s[i + 1]
  BY HeadTailProperties, LenProperties
<1>2. /\ f \in [1 .. Len(Tail(s)) -> 1 .. Len(s)]
      /\ \A i \in 1 .. Len(Tail(s)) : f[i] = i + 1
      /\ \A i, j \in 1 .. Len(Tail(s)) : i < j => f[i] < f[j]
  BY <1>1
<1> HIDE DEF f
<1>3. QED
  BY <1>1, <1>2 DEF Picks

LEMMA RemovedElements ==
  ASSUME NEW S, NEW s \in Seq(S), NEW k \in 1 .. Len(s)
  PROVE  /\ RemoveAt(s, k) \in Seq(S) /\ Len(RemoveAt(s, k)) = Len(s) - 1
         /\ \A i \in 1 .. Len(s) - 1 : RemoveAt(s, k)[i] = IF i < k THEN s[i] ELSE s[i + 1]
<1> DEFINE front == SubSeq(s, 1, k - 1)
           back  == SubSeq(s, k + 1, Len(s))
<1>1. Len(s) \in Nat /\ \A j \in 1 .. Len(s) : s[j] \in S
  BY LenProperties, ElementOfSeq
<1>2. /\ front \in Seq(S) /\ Len(front) = k - 1
      /\ \A i \in 1 .. k - 1 : front[i] = s[i]
  <2>1. /\ front \in Seq(S)
        /\ Len(front) = IF 1 <= k - 1 THEN k - 1 - 1 + 1 ELSE 0
        /\ \A i \in 1 .. k - 1 - 1 + 1 : front[i] = s[1 + i - 1]
    BY <1>1, SubSeqProperties
  <2> HIDE DEF front
  <2>2. k - 1 - 1 + 1 = k - 1 /\ \A i \in 1 .. k - 1 : 1 + i - 1 = i
    OBVIOUS
  <2>3. QED
    BY <2>1, <2>2
<1>3. /\ back \in Seq(S) /\ Len(back) = Len(s) - k
      /\ \A i \in 1 .. Len(s) - k : back[i] = s[k + i]
  <2>1. /\ back \in Seq(S)
        /\ Len(back) = IF k + 1 <= Len(s) THEN Len(s) - (k + 1) + 1 ELSE 0
        /\ \A i \in 1 .. Len(s) - (k + 1) + 1 : back[i] = s[k + 1 + i - 1]
    BY <1>1, SubSeqProperties
  <2> HIDE DEF back
  <2>2. Len(s) - (k + 1) + 1 = Len(s) - k /\ \A i \in 1 .. Len(s) - k : k + 1 + i - 1 = k + i
    BY <1>1
  <2>3. QED
    BY <1>1, <2>1, <2>2
<1> HIDE DEF front, back
<1> DEFINE rest == front \o back
<1>4. /\ rest \in Seq(S) /\ Len(rest) = Len(front) + Len(back)
      /\ \A i \in 1 .. Len(front) + Len(back) :
           rest[i] = IF i <= Len(front) THEN front[i] ELSE back[i - Len(front)]
  BY ONLY <1>2, <1>3, ConcatProperties
<1> HIDE DEF rest
<1>5. Len(front) + Len(back) = Len(s) - 1
  BY <1>1, <1>2, <1>3
<1>6. ASSUME NEW i \in 1 .. Len(s) - 1 PROVE rest[i] = IF i < k THEN s[i] ELSE s[i + 1]
  <2>1. CASE i < k
    <3>1. i \in 1 .. k - 1 /\ i <= Len(front)
      BY <1>2, <2>1
    <3>2. QED
      BY <1>2, <1>4, <1>5, <2>1, <3>1
  <2>2. CASE ~(i < k)
    <3>1. i - (k - 1) \in 1 .. Len(s) - k /\ ~(i <= Len(front)) /\ k + (i - (k - 1)) = i + 1
      BY <1>1, <1>2, <2>2
    <3>2. rest[i] = back[i - (k - 1)]
      BY <1>2, <1>4, <1>5, <3>1
    <3>3. QED
      BY <1>3, <2>2, <3>1, <3>2
  <2>3. QED
    BY <2>1, <2>2
<1>7. RemoveAt(s, k) = rest
  BY DEF RemoveAt, rest, front, back
<1>8. QED
  BY <1>4, <1>5, <1>6, <1>7

LEMMA PicksRemoved ==
  ASSUME NEW S, NEW s \in Seq(S), NEW k \in 1 .. Len(s) PROVE Picks(RemoveAt(s, k), s)
<1> DEFINE u == RemoveAt(s, k)
           f == [i \in 1 .. Len(u) |-> IF i < k THEN i ELSE i + 1]
<1>1. /\ Len(u) = Len(s) - 1 /\ Len(s) \in Nat
      /\ \A i \in 1 .. Len(s) - 1 : u[i] = IF i < k THEN s[i] ELSE s[i + 1]
  BY RemovedElements, LenProperties
<1> HIDE DEF u
<1>2. /\ f \in [1 .. Len(u) -> 1 .. Len(s)]
      /\ \A i \in 1 .. Len(u) : f[i] = IF i < k THEN i ELSE i + 1
      /\ \A i, j \in 1 .. Len(u) : i < j => f[i] < f[j]
  BY <1>1
<1> HIDE DEF f
<1>3. \A i \in 1 .. Len(u) : u[i] = s[f[i]]
  BY <1>1, <1>2
<1>4. Picks(u, s)
  BY <1>2, <1>3 DEF Picks
<1>5. QED
  BY <1>4 DEF u

(* Elements by index, of what is appended to and of what is left.          *)
LEMMA AppendedElements ==
  ASSUME NEW S, NEW s \in Seq(S), NEW e \in S
  PROVE  /\ Append(s, e) \in Seq(S) /\ Len(Append(s, e)) = Len(s) + 1 /\ Len(s) \in Nat
         /\ \A i \in 1 .. Len(Append(s, e)) :
              \/ i \in 1 .. Len(s) /\ Append(s, e)[i] = s[i]
              \/ i = Len(s) + 1 /\ Append(s, e)[i] = e
<1>1. /\ Append(s, e) \in Seq(S) /\ Len(Append(s, e)) = Len(s) + 1 /\ Len(s) \in Nat
      /\ \A i \in 1 .. Len(s) : Append(s, e)[i] = s[i]
      /\ Append(s, e)[Len(s) + 1] = e
  BY AppendProperties, LenProperties
<1>2. ASSUME NEW i \in 1 .. Len(Append(s, e)) PROVE i \in 1 .. Len(s) \/ i = Len(s) + 1
  BY <1>1
<1>3. QED
  BY <1>1, <1>2

-----------------------------------------------------------------------------
(* The triggers waiting, pending ones first: their numbers rise, are those *)
(* of triggers that arrived, and none was used.                            *)
Rising(s)    == \A i, j \in 1 .. Len(s) : i < j => s[i].seq < s[j].seq
Below(s, u)  == \A i \in 1 .. Len(s), j \in 1 .. Len(u) : s[i].seq < u[j].seq
Unused(s, used, n) == \A i \in 1 .. Len(s) : s[i].seq <= n /\ used[s[i].seq] = 0
UsedOnce(used, n)  == \A m \in 1 .. MaxTriggers : used[m] <= 1 /\ (m > n => used[m] = 0)

Waiting(p, q, used, n) ==
  /\ Rising(p) /\ Rising(q) /\ Below(p, q)
  /\ Unused(p, used, n) /\ Unused(q, used, n)
  /\ UsedOnce(used, n)

LEMMA FewerWait ==
  ASSUME NEW p, NEW q, NEW used, NEW n, Waiting(p, q, used, n),
         NEW p2, NEW q2, Picks(p2, p), Picks(q2, q)
  PROVE  Waiting(p2, q2, used, n)
<1>1. PICK f \in [1 .. Len(p2) -> 1 .. Len(p)] :
        /\ \A i \in 1 .. Len(p2) : p2[i] = p[f[i]]
        /\ \A i, j \in 1 .. Len(p2) : i < j => f[i] < f[j]
  BY DEF Picks
<1>2. PICK g \in [1 .. Len(q2) -> 1 .. Len(q)] :
        /\ \A i \in 1 .. Len(q2) : q2[i] = q[g[i]]
        /\ \A i, j \in 1 .. Len(q2) : i < j => g[i] < g[j]
  BY DEF Picks
<1>3. Rising(p2)
  BY <1>1, SMTT(30) DEF Waiting, Rising
<1>4. Rising(q2)
  BY <1>2 DEF Waiting, Rising
<1>5. Below(p2, q2)
  BY <1>1, <1>2 DEF Waiting, Below
<1>6. Unused(p2, used, n)
  BY <1>1 DEF Waiting, Unused
<1>7. Unused(q2, used, n)
  BY <1>2 DEF Waiting, Unused
<1>8. QED
  BY <1>3, <1>4, <1>5, <1>6, <1>7 DEF Waiting

LEMMA OneDrained ==
  ASSUME NEW p \in Seq(Triggers), NEW q \in Seq(Triggers), q # <<>>, NEW used, NEW n,
         Waiting(p, q, used, n)
  PROVE  Waiting(Append(p, Head(q)), Tail(q), used, n)
<1> DEFINE e == Head(q)
           more == Append(p, e)
           rest == Tail(q)
<1>1. /\ e \in Triggers /\ e = q[1] /\ 1 \in 1 .. Len(q)
      /\ \A i \in 1 .. Len(rest) : rest[i] = q[i + 1] /\ i + 1 \in 1 .. Len(q) /\ 1 < i + 1
  <2>1. /\ e \in Triggers /\ Len(q) \in Nat \ {0} /\ Len(rest) = Len(q) - 1
        /\ \A i \in 1 .. Len(rest) : rest[i] = q[i + 1]
    BY HeadTailProperties, EmptySeq
  <2>2. QED
    BY <2>1
<1> HIDE DEF e, rest
<1>2. /\ Len(p) \in Nat
      /\ \A i \in 1 .. Len(more) : \/ i \in 1 .. Len(p) /\ more[i] = p[i]
                                   \/ i = Len(p) + 1 /\ more[i] = e
  BY <1>1, AppendedElements
<1> HIDE DEF more
<1>3. \A i \in 1 .. Len(p) : p[i].seq < e.seq
  BY <1>1 DEF Waiting, Below
<1>4. Rising(more)
  <2> SUFFICES ASSUME NEW i \in 1 .. Len(more), NEW j \in 1 .. Len(more), i < j
               PROVE  more[i].seq < more[j].seq
    BY DEF Rising
  <2>1. i \in 1 .. Len(p) /\ more[i] = p[i]
    BY <1>2
  <2>2. QED
    BY <1>2, <1>3, <2>1 DEF Waiting, Rising
<1>5. Rising(rest)
  <2> SUFFICES ASSUME NEW i \in 1 .. Len(rest), NEW j \in 1 .. Len(rest), i < j
               PROVE  rest[i].seq < rest[j].seq
    BY DEF Rising
  <2>1. i + 1 < j + 1
    OBVIOUS
  <2>2. QED
    BY <1>1, <2>1 DEF Waiting, Rising
<1>6. Below(more, rest)
  <2> SUFFICES ASSUME NEW i \in 1 .. Len(more), NEW j \in 1 .. Len(rest)
               PROVE  more[i].seq < rest[j].seq
    BY DEF Below
  <2>1. more[i] = e => more[i].seq < rest[j].seq
    BY <1>1 DEF Waiting, Rising
  <2>2. i \in 1 .. Len(p) => p[i].seq < rest[j].seq
    BY <1>1 DEF Waiting, Below
  <2>3. QED
    BY <1>2, <2>1, <2>2
<1>7. Unused(more, used, n)
  BY <1>1, <1>2 DEF Waiting, Unused
<1>8. Unused(rest, used, n)
  BY <1>1 DEF Waiting, Unused
<1>9. Waiting(more, rest, used, n)
  BY <1>4, <1>5, <1>6, <1>7, <1>8 DEF Waiting
<1>10. QED
  BY <1>9 DEF more, rest, e

LEMMA OneArrived ==
  ASSUME NEW p \in Seq(Triggers), NEW q \in Seq(Triggers), NEW used, NEW n \in Nat,
         Waiting(p, q, used, n), NEW e \in Triggers, e.seq = n + 1
  PROVE  Waiting(p, Append(q, e), used, n + 1)
<1> DEFINE more == Append(q, e)
<1>1. /\ Len(q) \in Nat
      /\ \A i \in 1 .. Len(more) : \/ i \in 1 .. Len(q) /\ more[i] = q[i]
                                   \/ i = Len(q) + 1 /\ more[i] = e
  BY AppendedElements
<1> HIDE DEF more
<1>2. /\ \A i \in 1 .. Len(p) : p[i].seq \in Nat /\ p[i].seq <= n
      /\ \A i \in 1 .. Len(q) : q[i].seq \in Nat /\ q[i].seq <= n
  <2>1. \A i \in 1 .. Len(p) : p[i] \in Triggers
    BY ElementOfSeq
  <2>2. \A i \in 1 .. Len(q) : q[i] \in Triggers
    BY ElementOfSeq
  <2>3. QED
    BY <2>1, <2>2, SMTT(30) DEF Waiting, Unused, Triggers
<1>3. Rising(more)
  <2> SUFFICES ASSUME NEW i \in 1 .. Len(more), NEW j \in 1 .. Len(more), i < j
               PROVE  more[i].seq < more[j].seq
    BY DEF Rising
  <2>1. i \in 1 .. Len(q) /\ more[i] = q[i]
    BY <1>1
  <2>2. CASE j \in 1 .. Len(q)
    BY <1>1, <2>1, <2>2 DEF Waiting, Rising
  <2>3. CASE more[j] = e
    BY <1>2, <2>1, <2>3
  <2>4. QED
    BY <1>1, <2>2, <2>3
<1>4. Below(p, more)
  <2> SUFFICES ASSUME NEW i \in 1 .. Len(p), NEW j \in 1 .. Len(more)
               PROVE  p[i].seq < more[j].seq
    BY DEF Below
  <2>1. CASE j \in 1 .. Len(q)
    BY <1>1, <2>1 DEF Waiting, Below
  <2>2. CASE more[j] = e
    BY <1>2, <2>2
  <2>3. QED
    BY <1>1, <2>1, <2>2
<1>5. e.seq \in 1 .. MaxTriggers /\ used[e.seq] = 0
  BY DEF Triggers, Waiting, UsedOnce
<1>6. Unused(p, used, n + 1)
  BY <1>2 DEF Waiting, Unused
<1>7. Unused(more, used, n + 1)
  <2> SUFFICES ASSUME NEW i \in 1 .. Len(more)
               PROVE  more[i].seq <= n + 1 /\ used[more[i].seq] = 0
    BY DEF Unused
  <2>1. CASE i \in 1 .. Len(q) /\ more[i] = q[i]
    BY <1>2, <2>1 DEF Waiting, Unused
  <2>2. CASE more[i] = e
    BY <1>5, <2>2
  <2>3. QED
    BY <1>1, <2>1, <2>2
<1>8. UsedOnce(used, n + 1)
  <2>1. \A m \in 1 .. MaxTriggers : m > n + 1 => m > n
    BY RecorderAssumption
  <2>2. QED
    BY <2>1 DEF Waiting, UsedOnce
<1>9. Waiting(p, more, used, n + 1)
  BY <1>3, <1>4, <1>6, <1>7, <1>8 DEF Waiting
<1>10. QED
  BY <1>9 DEF more

LEMMA OneUsed ==
  ASSUME NEW p \in Seq(Triggers), NEW q \in Seq(Triggers), NEW used \in [1 .. MaxTriggers -> Nat],
         NEW n \in Nat, Waiting(p, q, used, n), NEW k \in 1 .. Len(p)
  PROVE  Waiting(RemoveAt(p, k), q, [used EXCEPT ![p[k].seq] = @ + 1], n)
<1> DEFINE e == p[k]
           rest == RemoveAt(p, k)
           now2 == [used EXCEPT ![e.seq] = @ + 1]
<1>1. Waiting(rest, q, used, n)
  BY PicksRemoved, PicksItself, FewerWait
<1>2. e \in Triggers /\ e.seq \in 1 .. MaxTriggers /\ used[e.seq] = 0 /\ e.seq <= n
  <2>1. e \in Triggers
    BY ElementOfSeq
  <2>2. used[e.seq] = 0 /\ e.seq <= n
    BY DEF Waiting, Unused
  <2>3. QED
    BY <2>1, <2>2 DEF Triggers
<1>3. \A i \in 1 .. Len(rest) : rest[i] \in Triggers /\ rest[i].seq # e.seq
  <2>1. /\ rest \in Seq(Triggers) /\ Len(rest) = Len(p) - 1 /\ Len(p) \in Nat
        /\ \A i \in 1 .. Len(p) - 1 : rest[i] = IF i < k THEN p[i] ELSE p[i + 1]
    BY RemovedElements, LenProperties
  <2>2. \A i \in 1 .. Len(p) : p[i] \in Triggers /\ p[i].seq \in Nat
    <3>1. \A i \in 1 .. Len(p) : p[i] \in Triggers
      BY ElementOfSeq
    <3>2. QED
      BY <3>1, SMTT(30) DEF Triggers
  <2>3. \A i \in 1 .. Len(p) : i # k => p[i].seq # e.seq
    BY <2>2 DEF Waiting, Rising
  <2>4. ASSUME NEW i \in 1 .. Len(p) - 1
        PROVE  (i < k => i \in 1 .. Len(p) /\ i # k) /\ (~(i < k) => i + 1 \in 1 .. Len(p) /\ i + 1 # k)
    BY <2>1
  <2>5. \A i \in 1 .. Len(p) - 1 : rest[i].seq # e.seq
    BY <2>1, <2>3, <2>4
  <2>6. \A i \in 1 .. Len(rest) : rest[i] \in Triggers
    BY <2>1, ElementOfSeq
  <2>7. QED
    BY <2>1, <2>5, <2>6
<1>4. \A j \in 1 .. Len(q) : q[j] \in Triggers /\ q[j].seq # e.seq
  <2>1. \A j \in 1 .. Len(q) : q[j] \in Triggers
    BY ElementOfSeq
  <2>2. \A j \in 1 .. Len(q) : e.seq < q[j].seq
    BY DEF Waiting, Below
  <2>3. \A j \in 1 .. Len(q) : q[j].seq \in Nat
    <3>1. \A x \in Triggers : x.seq \in Nat
      BY DEF Triggers
    <3>2. QED
      BY ONLY <2>1, <3>1
  <2>4. QED
    BY <1>2, <2>1, <2>2, <2>3
<1> HIDE DEF e, rest
<1>5. \A m \in 1 .. MaxTriggers : now2[m] = IF m = e.seq THEN used[m] + 1 ELSE used[m]
  BY <1>2
<1> HIDE DEF now2
<1>6. Unused(rest, now2, n)
  BY <1>1, <1>3, <1>5 DEF Waiting, Unused, Triggers
<1>7. Unused(q, now2, n)
  BY <1>1, <1>4, <1>5 DEF Waiting, Unused, Triggers
<1>8. UsedOnce(now2, n)
  <2> SUFFICES ASSUME NEW m \in 1 .. MaxTriggers
               PROVE  now2[m] <= 1 /\ (m > n => now2[m] = 0)
    BY DEF UsedOnce
  <2>1. CASE m = e.seq
    BY <1>2, <1>5, <2>1
  <2>2. CASE m # e.seq
    BY <1>1, <1>5, <2>2 DEF Waiting, UsedOnce
  <2>3. QED
    BY <2>1, <2>2
<1>9. Waiting(rest, q, now2, n)
  BY <1>1, <1>6, <1>7, <1>8 DEF Waiting
<1>10. QED
  BY <1>9 DEF rest, now2, e

TriggersInv == Waiting(pending_triggers, triggers, uses, arrived)

LEMMA TriggersInvHolds == Spec => []TriggersInv
<1>1. Init => TriggersInv
  <2> SUFFICES ASSUME Init PROVE TriggersInv
    OBVIOUS
  <2>1. pending_triggers = <<>> /\ triggers = <<>> /\ 1 .. Len(<<>>) = {}
    BY EmptySeq DEF Init
  <2>2. UsedOnce(uses, arrived)
    BY DEF Init, UsedOnce
  <2>3. QED
    BY <2>1, <2>2 DEF TriggersInv, Waiting, Rising, Below, Unused
<1>2. RecorderInv /\ TriggersInv /\ [Next]_vars => TriggersInv'
  <2> SUFFICES ASSUME RecorderInv, TriggersInv, [Next]_vars PROVE TriggersInv'
    OBVIOUS
  <2>0. /\ pending_triggers \in Seq(Triggers) /\ triggers \in Seq(Triggers)
        /\ uses \in [1 .. MaxTriggers -> Nat] /\ arrived \in Nat /\ now \in Nat
    BY DEF RecorderInv, TypeOK
  <2>1. CASE UNCHANGED <<pending_triggers, triggers, uses, arrived>>
    BY <2>1 DEF TriggersInv
  <2>2. CASE pending_triggers' = <<>> /\ UNCHANGED <<triggers, uses, arrived>>
    BY <2>0, <2>2, PicksNothing, PicksItself, FewerWait DEF TriggersInv
  <2>3. CASE TriggerArrives
    <3> DEFINE e == [seq |-> arrived + 1, t |-> now]
    <3>1. e \in Triggers /\ e.seq = arrived + 1
      BY <2>0, <2>3, RecorderAssumption DEF TriggerArrives, Triggers
    <3>2. /\ triggers' = Append(triggers, e) /\ arrived' = arrived + 1
          /\ UNCHANGED <<pending_triggers, uses>>
      BY <2>3 DEF TriggerArrives, workerVars
    <3> HIDE DEF e
    <3>3. QED
      BY <2>0, <3>1, <3>2, OneArrived DEF TriggersInv
  <2>4. CASE WorkerDrain
    <3>1. \/ UNCHANGED <<pending_triggers, triggers>>
          \/ /\ triggers # <<>> /\ triggers' = Tail(triggers)
             /\ pending_triggers' = Append(pending_triggers, Head(triggers))
      BY <2>4 DEF WorkerDrain
    <3>2. UNCHANGED <<uses, arrived>>
      BY <2>4 DEF WorkerDrain
    <3>3. QED
      BY <2>0, <3>1, <3>2, OneDrained DEF TriggersInv
  <2>5. CASE WorkerPair
    <3>1. \/ UNCHANGED <<pending_triggers, uses>>
          \/ /\ pending_triggers # <<>> /\ available # <<>>
             /\ EraseBest
             /\ uses' = [uses EXCEPT ![pending_triggers[Best].seq] = @ + 1]
      BY <2>5 DEF WorkerPair, Pair
    <3>2. UNCHANGED <<triggers, arrived>>
      BY <2>5 DEF WorkerPair, othersOfWorker, armVars
    <3>3. CASE EraseBest /\ pending_triggers # <<>> /\ available # <<>>
               /\ uses' = [uses EXCEPT ![pending_triggers[Best].seq] = @ + 1]
      <4>1. Best \in 1 .. Len(pending_triggers)
        BY <3>3, BestExists DEF RecorderInv
      <4>2. pending_triggers' = RemoveAt(pending_triggers, Best)
        BY <3>3 DEF EraseBest
      <4>3. QED
        BY <2>0, <3>2, <3>3, <4>1, <4>2, OneUsed DEF TriggersInv
    <3>4. QED
      BY <2>1, <3>1, <3>2, <3>3
  <2>6. CASE WorkerClean
    BY <2>1, <2>2, <2>6 DEF WorkerClean, othersOfWorker, armVars
  <2>7. CASE \E camera \in {"opened", "refused", "overflow"} : Start(camera)
    BY <2>2, <2>7 DEF Start, Forget, armVars
  <2>8. QED
    BY <2>1, <2>3, <2>4, <2>5, <2>6, <2>7
       DEF Next, Tick, Stop, Join, JoinCapture, JoinWorker, ReadOnce, CaptureThread, CaptureTest,
           CaptureRead, CapturePush, CaptureDone, othersOfCapture, WorkerThread, WorkerTest,
           WorkerIdle, WorkerTake, othersOfWorker, workerVars, armVars, vars
<1>3. QED
  BY <1>1, <1>2, RecorderInvariant, PTL DEF Spec

(* No trigger makes two records, over all sessions, whatever stop, start   *)
(* and the worker's discards come in between.                              *)
THEOREM NoTriggerUsedTwice == Spec => []TriggersUsedOnce
<1>1. RecorderInv /\ TriggersInv => TriggersUsedOnce
  <2> SUFFICES ASSUME RecorderInv, TriggersInv PROVE TriggersUsedOnce
    OBVIOUS
  <2> DEFINE held == pending_triggers \o triggers
             m    == Len(pending_triggers)
  <2>1. /\ pending_triggers \in Seq(Triggers) /\ triggers \in Seq(Triggers)
        /\ uses \in [1 .. MaxTriggers -> Nat]
    BY DEF RecorderInv, TypeOK
  <2>2. /\ held \in Seq(Triggers) /\ Len(held) = m + Len(triggers)
        /\ \A i \in 1 .. m + Len(triggers) :
             held[i] = IF i <= m THEN pending_triggers[i] ELSE triggers[i - m]
    BY ONLY <2>1, ConcatProperties
  <2>3. DOMAIN held = 1 .. m + Len(triggers) /\ m \in Nat /\ Len(triggers) \in Nat
    BY <2>1, <2>2, LenProperties
  <2> HIDE DEF held, m
  <2>4. \A i \in 1 .. m + Len(triggers) :
          \/ i \in 1 .. m /\ held[i] = pending_triggers[i]
          \/ i - m \in 1 .. Len(triggers) /\ held[i] = triggers[i - m] /\ ~(i <= m)
    <3> SUFFICES ASSUME NEW i \in 1 .. m + Len(triggers)
                 PROVE  \/ i \in 1 .. m /\ held[i] = pending_triggers[i]
                        \/ i - m \in 1 .. Len(triggers) /\ held[i] = triggers[i - m] /\ ~(i <= m)
      OBVIOUS
    <3>1. CASE i <= m
      BY <2>2, <2>3, <3>1
    <3>2. CASE ~(i <= m)
      BY <2>2, <2>3, <3>2
    <3>3. QED
      BY <3>1, <3>2
  <2>5. ASSUME NEW i \in 1 .. m + Len(triggers), NEW j \in 1 .. m + Len(triggers), i < j
        PROVE  held[i].seq < held[j].seq
    <3>1. CASE i \in 1 .. m /\ held[i] = pending_triggers[i]
               /\ j \in 1 .. m /\ held[j] = pending_triggers[j]
      BY <2>5, <3>1 DEF TriggersInv, Waiting, Rising, m
    <3>2. CASE i \in 1 .. m /\ held[i] = pending_triggers[i]
               /\ j - m \in 1 .. Len(triggers) /\ held[j] = triggers[j - m]
      BY <3>2 DEF TriggersInv, Waiting, Below, m
    <3>3. CASE i - m \in 1 .. Len(triggers) /\ held[i] = triggers[i - m]
               /\ j - m \in 1 .. Len(triggers) /\ held[j] = triggers[j - m]
      <4>1. i - m < j - m
        BY <2>3, <2>5
      <4>2. QED
        BY <3>3, <4>1 DEF TriggersInv, Waiting, Rising
    <3>4. ~(i - m \in 1 .. Len(triggers) /\ ~(i <= m) /\ j \in 1 .. m)
      BY <2>3, <2>5
    <3>5. QED
      BY <2>4, <3>1, <3>2, <3>3, <3>4
  <2>6. ASSUME NEW i \in 1 .. m + Len(triggers) PROVE uses[held[i].seq] = 0
    BY <2>4 DEF TriggersInv, Waiting, Unused, m
  <2>7. \A n \in DOMAIN uses : uses[n] <= 1
    BY <2>1 DEF TriggersInv, Waiting, UsedOnce
  <2>8. QED
    BY <2>3, <2>5, <2>6, <2>7 DEF TriggersUsedOnce, held
<1>2. QED
  BY <1>1, RecorderInvariant, TriggersInvHolds, PTL

-----------------------------------------------------------------------------
(* The line of frames, oldest first: in records, in the worker's hands, in *)
(* the queue, in the capture thread's hands.  Each was taken before those  *)
(* behind it, in this session.                                             *)
Precedes(f, g)  == f.index < g.index /\ f.t <= g.t
InOrder(s)      == \A i, j \in 1 .. Len(s) : i < j => Precedes(s[i], s[j])
Before(s, u)    == \A i \in 1 .. Len(s), j \in 1 .. Len(u) : Precedes(s[i], u[j])
Recent(f, ses, n, time)  == f.session = ses /\ f.index < n /\ f.t <= time
Current(s, ses, n, time) == \A i \in 1 .. Len(s) : Recent(s[i], ses, n, time)

Line(a, b, c, d) ==
  /\ InOrder(a) /\ InOrder(b) /\ InOrder(c) /\ InOrder(d)
  /\ Before(a, b) /\ Before(a, c) /\ Before(a, d)
  /\ Before(b, c) /\ Before(b, d)
  /\ Before(c, d)

AllCurrent(a, b, c, d, ses, n, time) ==
  /\ Current(a, ses, n, time) /\ Current(b, ses, n, time)
  /\ Current(c, ses, n, time) /\ Current(d, ses, n, time)

LEMMA PickedInOrder ==
  ASSUME NEW s, NEW u, Picks(u, s)
  PROVE  /\ InOrder(s) => InOrder(u)
         /\ \A x : Before(s, x) => Before(u, x)
         /\ \A x : Before(x, s) => Before(x, u)
         /\ \A ses, n, time : Current(s, ses, n, time) => Current(u, ses, n, time)
<1>1. PICK f \in [1 .. Len(u) -> 1 .. Len(s)] :
        /\ \A i \in 1 .. Len(u) : u[i] = s[f[i]]
        /\ \A i, j \in 1 .. Len(u) : i < j => f[i] < f[j]
  BY DEF Picks
<1>2. InOrder(s) => InOrder(u)
  BY <1>1 DEF InOrder
<1>3. \A x : Before(s, x) => Before(u, x)
  BY <1>1 DEF Before
<1>4. \A x : Before(x, s) => Before(x, u)
  BY <1>1 DEF Before
<1>5. \A ses, n, time : Current(s, ses, n, time) => Current(u, ses, n, time)
  BY <1>1 DEF Current
<1>6. QED
  BY <1>2, <1>3, <1>4, <1>5

LEMMA NothingInOrder ==
  /\ InOrder(<<>>)
  /\ \A x : Before(<<>>, x) /\ Before(x, <<>>)
  /\ \A ses, n, time : Current(<<>>, ses, n, time)
<1>1. 1 .. Len(<<>>) = {}
  BY EmptySeq
<1>2. QED
  BY <1>1 DEF InOrder, Before, Current

LEMMA OneInOrder ==
  ASSUME NEW e
  PROVE  /\ InOrder(<<e>>)
         /\ \A x : Before(<<e>>, x) <=> \A j \in 1 .. Len(x) : Precedes(e, x[j])
         /\ \A x : Before(x, <<e>>) <=> \A i \in 1 .. Len(x) : Precedes(x[i], e)
         /\ \A ses, n, time : Current(<<e>>, ses, n, time) <=> Recent(e, ses, n, time)
<1> DEFINE one == <<e>>
<1>1. 1 .. Len(one) = {1} /\ one[1] = e
  OBVIOUS
<1> HIDE DEF one
<1>2. InOrder(one)
  BY <1>1 DEF InOrder
<1>3. \A x : Before(one, x) <=> \A j \in 1 .. Len(x) : Precedes(e, x[j])
  BY <1>1 DEF Before
<1>4. \A x : Before(x, one) <=> \A i \in 1 .. Len(x) : Precedes(x[i], e)
  BY <1>1 DEF Before
<1>5. \A ses, n, time : Current(one, ses, n, time) <=> Recent(e, ses, n, time)
  BY <1>1 DEF Current
<1>6. QED
  BY <1>2, <1>3, <1>4, <1>5 DEF one

LEMMA AppendedInOrder ==
  ASSUME NEW s \in Seq(Frames), NEW e \in Frames
  PROVE  /\ InOrder(s) /\ Before(s, <<e>>) => InOrder(Append(s, e))
         /\ \A x : Before(s, x) /\ Before(<<e>>, x) => Before(Append(s, e), x)
         /\ \A x : Before(x, s) /\ Before(x, <<e>>) => Before(x, Append(s, e))
         /\ \A ses, n, time :
              Current(s, ses, n, time) /\ Recent(e, ses, n, time) => Current(Append(s, e), ses, n, time)
<1> DEFINE more == Append(s, e)
<1>1. /\ Len(s) \in Nat
      /\ \A i \in 1 .. Len(more) : \/ i \in 1 .. Len(s) /\ more[i] = s[i]
                                   \/ i = Len(s) + 1 /\ more[i] = e
  BY AppendedElements
<1> HIDE DEF more
<1>2. ASSUME InOrder(s), Before(s, <<e>>) PROVE InOrder(more)
  <2> SUFFICES ASSUME NEW i \in 1 .. Len(more), NEW j \in 1 .. Len(more), i < j
               PROVE  Precedes(more[i], more[j])
    BY DEF InOrder
  <2>1. i \in 1 .. Len(s) /\ more[i] = s[i]
    BY <1>1
  <2>2. Precedes(s[i], e)
    BY <1>2, <2>1, OneInOrder
  <2>3. QED
    BY <1>1, <1>2, <2>1, <2>2 DEF InOrder
<1>3. ASSUME NEW x, Before(s, x), Before(<<e>>, x) PROVE Before(more, x)
  <2>1. \A j \in 1 .. Len(x) : Precedes(e, x[j])
    BY <1>3, OneInOrder
  <2>2. QED
    BY <1>1, <1>3, <2>1 DEF Before
<1>4. ASSUME NEW x, Before(x, s), Before(x, <<e>>) PROVE Before(x, more)
  <2>1. \A i \in 1 .. Len(x) : Precedes(x[i], e)
    BY <1>4, OneInOrder
  <2>2. QED
    BY <1>1, <1>4, <2>1 DEF Before
<1>5. ASSUME NEW ses, NEW n, NEW time, Current(s, ses, n, time), Recent(e, ses, n, time)
      PROVE  Current(more, ses, n, time)
  BY <1>1, <1>5 DEF Current
<1>6. QED
  BY <1>2, <1>3, <1>4, <1>5 DEF more

LEMMA HeadInOrder ==
  ASSUME NEW s \in Seq(Frames), s # <<>>
  PROVE  /\ InOrder(s) => Before(<<Head(s)>>, Tail(s))
         /\ \A x : Before(s, x) => Before(<<Head(s)>>, x)
         /\ \A x : Before(x, s) => Before(x, <<Head(s)>>)
         /\ \A ses, n, time : Current(s, ses, n, time) => Recent(Head(s), ses, n, time)
<1> DEFINE e == Head(s)
           rest == Tail(s)
<1>1. /\ e = s[1] /\ 1 \in 1 .. Len(s)
      /\ \A i \in 1 .. Len(rest) : rest[i] = s[i + 1] /\ i + 1 \in 1 .. Len(s) /\ 1 < i + 1
  <2>1. /\ Len(s) \in Nat \ {0} /\ Len(rest) = Len(s) - 1 /\ e = s[1]
        /\ \A i \in 1 .. Len(rest) : rest[i] = s[i + 1]
    BY HeadTailProperties, EmptySeq
  <2>2. QED
    BY <2>1
<1> HIDE DEF e, rest
<1>2. ASSUME InOrder(s) PROVE Before(<<e>>, rest)
  <2>1. \A j \in 1 .. Len(rest) : Precedes(e, rest[j])
    BY <1>1, <1>2 DEF InOrder
  <2>2. QED
    BY <2>1, OneInOrder
<1>3. ASSUME NEW x, Before(s, x) PROVE Before(<<e>>, x)
  <2>1. \A j \in 1 .. Len(x) : Precedes(e, x[j])
    BY <1>1, <1>3 DEF Before
  <2>2. QED
    BY <2>1, OneInOrder
<1>4. ASSUME NEW x, Before(x, s) PROVE Before(x, <<e>>)
  <2>1. \A i \in 1 .. Len(x) : Precedes(x[i], e)
    BY <1>1, <1>4 DEF Before
  <2>2. QED
    BY <2>1, OneInOrder
<1>5. \A ses, n, time : Current(s, ses, n, time) => Recent(e, ses, n, time)
  BY <1>1 DEF Current
<1>6. QED
  BY <1>2, <1>3, <1>4, <1>5 DEF e, rest

(* The moves of a frame along the line, and of the ends of the line.       *)
LEMMA LineThinned ==
  ASSUME NEW a, NEW b, NEW c, NEW d, Line(a, b, c, d),
         NEW a2, NEW b2, NEW c2, NEW d2,
         Picks(a2, a), Picks(b2, b), Picks(c2, c), Picks(d2, d)
  PROVE  /\ Line(a2, b2, c2, d2)
         /\ \A ses, n, time :
              AllCurrent(a, b, c, d, ses, n, time) => AllCurrent(a2, b2, c2, d2, ses, n, time)
<1>1. Line(a2, b2, c2, d2)
  BY PickedInOrder DEF Line
<1>2. \A ses, n, time : AllCurrent(a, b, c, d, ses, n, time) => AllCurrent(a2, b2, c2, d2, ses, n, time)
  BY PickedInOrder DEF AllCurrent
<1>3. QED
  BY <1>1, <1>2

LEMMA HeadPublished ==
  ASSUME NEW a \in Seq(Frames), NEW b \in Seq(Frames), b # <<>>, NEW c, NEW d,
         Line(a, b, c, d), NEW ses, NEW n, NEW time, AllCurrent(a, b, c, d, ses, n, time)
  PROVE  /\ Line(Append(a, Head(b)), Tail(b), c, d)
         /\ AllCurrent(Append(a, Head(b)), Tail(b), c, d, ses, n, time)
<1> DEFINE e == Head(b)
           rest == Tail(b)
<1>1. e \in Frames /\ rest \in Seq(Frames)
  BY HeadTailProperties
<1>2. Picks(rest, b)
  BY PicksTail
<1>3. /\ InOrder(b) => Before(<<e>>, rest)
      /\ \A x : Before(b, x) => Before(<<e>>, x)
      /\ \A x : Before(x, b) => Before(x, <<e>>)
      /\ Current(b, ses, n, time) => Recent(e, ses, n, time)
  BY HeadInOrder
<1> HIDE DEF e, rest
<1>4. /\ InOrder(rest) /\ Before(a, rest) /\ Before(rest, c) /\ Before(rest, d)
      /\ Current(rest, ses, n, time)
  BY <1>2, PickedInOrder DEF Line, AllCurrent
<1>5. /\ InOrder(Append(a, e)) /\ Before(Append(a, e), rest) /\ Before(Append(a, e), c)
      /\ Before(Append(a, e), d) /\ Current(Append(a, e), ses, n, time)
  BY <1>1, <1>3, <1>4, AppendedInOrder DEF Line, AllCurrent
<1>6. Line(Append(a, e), rest, c, d) /\ AllCurrent(Append(a, e), rest, c, d, ses, n, time)
  BY <1>4, <1>5 DEF Line, AllCurrent
<1>7. QED
  BY <1>6 DEF e, rest

LEMMA QueueTaken ==
  ASSUME NEW a, NEW c, NEW d, Line(a, <<>>, c, d),
         NEW ses, NEW n, NEW time, AllCurrent(a, <<>>, c, d, ses, n, time)
  PROVE  Line(a, c, <<>>, d) /\ AllCurrent(a, c, <<>>, d, ses, n, time)
  BY NothingInOrder DEF Line, AllCurrent

LEMMA FramePushed ==
  ASSUME NEW a, NEW b, NEW c \in Seq(Frames), NEW e \in Frames, Line(a, b, c, <<e>>),
         NEW ses, NEW n, NEW time, AllCurrent(a, b, c, <<e>>, ses, n, time)
  PROVE  Line(a, b, Append(c, e), <<>>) /\ AllCurrent(a, b, Append(c, e), <<>>, ses, n, time)
<1>1. Recent(e, ses, n, time)
  BY OneInOrder DEF AllCurrent
<1>2. /\ InOrder(Append(c, e)) /\ Before(a, Append(c, e)) /\ Before(b, Append(c, e))
      /\ Current(Append(c, e), ses, n, time)
  BY <1>1, AppendedInOrder DEF Line, AllCurrent
<1>3. QED
  BY <1>2, NothingInOrder DEF Line, AllCurrent

LEMMA FrameRead ==
  ASSUME NEW a \in Seq(Frames), NEW b \in Seq(Frames), NEW c \in Seq(Frames), Line(a, b, c, <<>>),
         NEW ses, NEW n \in Nat, NEW time \in Nat, AllCurrent(a, b, c, <<>>, ses, n, time),
         NEW e \in Frames, e.index = n, e.t = time, e.session = ses
  PROVE  Line(a, b, c, <<e>>) /\ AllCurrent(a, b, c, <<e>>, ses, n + 1, time)
<1>1. ASSUME NEW s \in Seq(Frames), Current(s, ses, n, time)
      PROVE  Before(s, <<e>>) /\ Current(s, ses, n + 1, time)
  <2>1. \A i \in 1 .. Len(s) : s[i].index \in Nat
    <3>1. \A i \in 1 .. Len(s) : s[i] \in Frames
      BY ElementOfSeq
    <3>2. \A f \in Frames : f.index \in Nat
      BY DEF Frames
    <3>3. QED
      BY ONLY <3>1, <3>2
  <2>2. \A i \in 1 .. Len(s) : Precedes(s[i], e)
    BY <1>1 DEF Current, Recent, Precedes
  <2>3. \A i \in 1 .. Len(s) : s[i].index < n + 1
    BY <1>1, <2>1 DEF Current, Recent
  <2>4. QED
    BY <1>1, <2>2, <2>3, OneInOrder DEF Current, Recent
<1>2. Recent(e, ses, n + 1, time)
  BY DEF Recent
<1>3. InOrder(<<e>>) /\ Current(<<e>>, ses, n + 1, time)
  BY <1>2, OneInOrder
<1>4. Line(a, b, c, <<e>>)
  BY <1>1, <1>3 DEF Line, AllCurrent
<1>5. AllCurrent(a, b, c, <<e>>, ses, n + 1, time)
  BY <1>1, <1>3 DEF AllCurrent
<1>6. QED
  BY <1>4, <1>5

LEMMA TimePasses ==
  ASSUME NEW a \in Seq(Frames), NEW b \in Seq(Frames), NEW c \in Seq(Frames), NEW d \in Seq(Frames),
         NEW ses, NEW n, NEW time \in Nat, AllCurrent(a, b, c, d, ses, n, time)
  PROVE  AllCurrent(a, b, c, d, ses, n, time + 1)
<1>1. ASSUME NEW s \in Seq(Frames), Current(s, ses, n, time) PROVE Current(s, ses, n, time + 1)
  <2>1. \A i \in 1 .. Len(s) : s[i].t \in Nat
    <3>1. \A i \in 1 .. Len(s) : s[i] \in Frames
      BY ElementOfSeq
    <3>2. \A f \in Frames : f.t \in Nat
      BY DEF Frames
    <3>3. QED
      BY ONLY <3>1, <3>2
  <2>2. QED
    BY <1>1, <2>1 DEF Current, Recent
<1>2. QED
  BY <1>1 DEF AllCurrent

(* The frames that a queue of records shows.                               *)
Shown(r) == [i \in DOMAIN r |-> r[i].frame]

LEMMA ShownElements ==
  ASSUME NEW r \in Seq(Recorded)
  PROVE  /\ Shown(r) \in Seq(Frames) /\ Len(Shown(r)) = Len(r) /\ Len(r) \in Nat
         /\ \A i \in 1 .. Len(r) : Shown(r)[i] = r[i].frame
<1>1. DOMAIN r = 1 .. Len(r) /\ Len(r) \in Nat
  BY LenProperties
<1>2. \A i \in 1 .. Len(r) : r[i] \in Recorded
  BY ElementOfSeq
<1>3. \A i \in 1 .. Len(r) : r[i].frame \in Frames
  BY <1>2 DEF Recorded
<1>4. Shown(r) \in [1 .. Len(r) -> Frames]
  BY <1>1, <1>3 DEF Shown
<1>5. \A i \in 1 .. Len(r) : Shown(r)[i] = r[i].frame
  BY <1>1 DEF Shown
<1>6. Shown(r) \in Seq(Frames)
  BY <1>1, <1>4, SeqDef
<1>7. DOMAIN Shown(r) = 1 .. Len(r)
  BY <1>4
<1>8. Len(Shown(r)) = Len(r)
  BY <1>1, <1>6, <1>7, LenProperties
<1>9. QED
  BY <1>1, <1>5, <1>6, <1>8

LEMMA ShownAppended ==
  ASSUME NEW r \in Seq(Recorded), NEW e \in Recorded
  PROVE  Shown(Append(r, e)) = Append(Shown(r), e.frame)
<1> DEFINE more  == Append(r, e)
           shown == Append(Shown(r), e.frame)
<1>1. /\ Shown(r) \in Seq(Frames) /\ Len(Shown(r)) = Len(r) /\ Len(r) \in Nat
      /\ \A i \in 1 .. Len(r) : Shown(r)[i] = r[i].frame
  BY ShownElements
<1>2. e.frame \in Frames
  BY DEF Recorded
<1>3. /\ more \in Seq(Recorded) /\ Len(more) = Len(r) + 1
      /\ \A i \in 1 .. Len(more) : \/ i \in 1 .. Len(r) /\ more[i] = r[i]
                                   \/ i = Len(r) + 1 /\ more[i] = e
  BY AppendedElements
<1>4. /\ shown \in Seq(Frames) /\ Len(shown) = Len(r) + 1
      /\ \A i \in 1 .. Len(shown) : \/ i \in 1 .. Len(r) /\ shown[i] = Shown(r)[i]
                                    \/ i = Len(r) + 1 /\ shown[i] = e.frame
  BY <1>1, <1>2, AppendedElements
<1> HIDE DEF more, shown
<1>5. /\ Shown(more) \in Seq(Frames) /\ Len(Shown(more)) = Len(more)
      /\ \A i \in 1 .. Len(more) : Shown(more)[i] = more[i].frame
  BY <1>3, ShownElements
<1>6. \A i \in 1 .. Len(more) : Shown(more)[i] = shown[i]
  <2> SUFFICES ASSUME NEW i \in 1 .. Len(more) PROVE Shown(more)[i] = shown[i]
    OBVIOUS
  <2>1. ~(i \in 1 .. Len(r) /\ i = Len(r) + 1)
    BY <1>1
  <2>2. i \in 1 .. Len(shown)
    BY <1>3, <1>4
  <2>3. CASE i = Len(r) + 1
    BY <1>3, <1>4, <1>5, <2>1, <2>2, <2>3
  <2>4. CASE i # Len(r) + 1
    BY <1>1, <1>3, <1>4, <1>5, <2>2, <2>4
  <2>5. QED
    BY <2>3, <2>4
<1>7. Shown(more) = shown
  BY <1>3, <1>4, <1>5, <1>6, SeqEqual
<1>8. QED
  BY <1>7 DEF more, shown

LEMMA ShownTail ==
  ASSUME NEW r \in Seq(Recorded), r # <<>>
  PROVE  Shown(r) # <<>> /\ Shown(Tail(r)) = Tail(Shown(r))
<1> DEFINE s == Shown(r)
           rest == Tail(r)
<1>1. /\ s \in Seq(Frames) /\ Len(s) = Len(r) /\ Len(r) \in Nat /\ Len(r) # 0
      /\ \A i \in 1 .. Len(r) : s[i] = r[i].frame
  BY ShownElements, EmptySeq
<1>2. s # <<>>
  BY <1>1, EmptySeq
<1>3. /\ rest \in Seq(Recorded) /\ Len(rest) = Len(r) - 1
      /\ \A i \in 1 .. Len(rest) : rest[i] = r[i + 1]
  BY HeadTailProperties
<1> HIDE DEF s, rest
<1>4. /\ Shown(rest) \in Seq(Frames) /\ Len(Shown(rest)) = Len(rest)
      /\ \A i \in 1 .. Len(rest) : Shown(rest)[i] = rest[i].frame
  BY <1>3, ShownElements
<1>5. /\ Tail(s) \in Seq(Frames) /\ Len(Tail(s)) = Len(s) - 1
      /\ \A i \in 1 .. Len(Tail(s)) : Tail(s)[i] = s[i + 1]
  BY <1>1, <1>2, HeadTailProperties
<1>6. Len(Tail(s)) = Len(rest) /\ \A i \in 1 .. Len(rest) : i + 1 \in 1 .. Len(r)
  BY <1>1, <1>3, <1>5
<1>7. \A i \in 1 .. Len(rest) : Shown(rest)[i] = Tail(s)[i]
  BY <1>1, <1>3, <1>4, <1>5, <1>6
<1>8. Shown(rest) = Tail(s)
  BY <1>4, <1>5, <1>6, <1>7, SeqEqual
<1>9. QED
  BY <1>2, <1>8 DEF s, rest

LEMMA ShownNothing == Shown(<<>>) = <<>>
<1>1. <<>> \in Seq(Recorded) /\ <<>> \in Seq(Frames) /\ Len(<<>>) = 0
  BY EmptySeq
<1>2. QED
  BY <1>1, ShownElements, EmptySeq

InHand    == IF capture = "push" THEN <<frame>> ELSE <<>>
FramesInv == /\ Line(Shown(records), available, frames, InHand)
             /\ AllCurrent(Shown(records), available, frames, InHand, session, next_frame_index, now)

(* What the proofs below use of the types.                                 *)
LEMMA LineTypes ==
  ASSUME TypeOK
  PROVE  /\ Shown(records) \in Seq(Frames) /\ available \in Seq(Frames) /\ frames \in Seq(Frames)
         /\ InHand \in Seq(Frames) /\ frame \in Frames
         /\ records \in Seq(Recorded)
         /\ next_frame_index \in Nat /\ now \in Nat /\ session \in Nat
<1>1. records \in Seq(Recorded) /\ frame \in Frames
  BY DEF TypeOK, Recorded
<1>2. <<frame>> \in Seq(Frames) /\ <<>> \in Seq(Frames)
  <2> HIDE DEF Frames
  <2>1. QED
    BY <1>1, EmptySeq
<1>3. InHand \in Seq(Frames)
  BY <1>2 DEF InHand
<1>4. QED
  BY <1>1, <1>3, ShownElements DEF TypeOK

(* What start finds is empty, and it empties the rest.                     *)
LEMMA StartKeepsLine ==
  ASSUME RecorderInv, NEW camera \in {"opened", "refused", "overflow"}, Start(camera)
  PROVE  FramesInv'
<1>1. available' = <<>> /\ frames' = <<>> /\ records' = <<>>
  BY DEF Start, Forget, RecorderInv, StoppedIsQuiet
<1>2. capture' # "push"
  BY DEF Start, RecorderInv, StoppedIsQuiet
<1>3. Shown(records)' = <<>> /\ InHand' = <<>>
  BY <1>1, <1>2, ShownNothing DEF InHand
<1>4. QED
  BY <1>1, <1>3, NothingInOrder DEF FramesInv, Line, AllCurrent

LEMMA ReadKeepsLine == ASSUME TypeOK, FramesInv, ReadOnce PROVE FramesInv'
<1>1. /\ records # <<>> /\ records' = Tail(records)
      /\ UNCHANGED <<available, frames, capture, frame, session, next_frame_index, now>>
  BY DEF ReadOnce, workerVars, captureVars, armVars
<1>2. Shown(records)' = Tail(Shown(records)) /\ InHand' = InHand /\ Shown(records) # <<>>
  BY <1>1, LineTypes, ShownTail DEF InHand
<1>3. Picks(Tail(Shown(records)), Shown(records))
  BY <1>2, LineTypes, PicksTail
<1>4. Picks(available, available) /\ Picks(frames, frames) /\ Picks(InHand, InHand)
  BY LineTypes, PicksItself
<1>5. /\ Line(Tail(Shown(records)), available, frames, InHand)
      /\ AllCurrent(Tail(Shown(records)), available, frames, InHand, session, next_frame_index, now)
  BY <1>3, <1>4, LineThinned DEF FramesInv
<1>6. QED
  BY <1>1, <1>2, <1>5 DEF FramesInv

LEMMA CaptureKeepsLine == ASSUME TypeOK, FramesInv, CaptureThread PROVE FramesInv'
<1>0. UNCHANGED <<records, available, session, now>>
  BY DEF CaptureThread, CaptureTest, CaptureRead, CapturePush, CaptureDone, othersOfCapture,
         workerVars, recordVars, armVars
<1>1. CASE CaptureTest \/ CaptureDone
  <2>1. InHand = <<>> /\ InHand' = <<>> /\ UNCHANGED <<frames, next_frame_index>>
    BY <1>1 DEF InHand, CaptureTest, CaptureDone
  <2>2. QED
    BY <1>0, <2>1 DEF FramesInv
<1>2. CASE CaptureRead
  <2>0. InHand = <<>> /\ UNCHANGED frames
    BY <1>2 DEF CaptureRead, InHand
  <2>1. CASE capture' = "test" /\ UNCHANGED next_frame_index
    <3>1. InHand' = <<>>
      BY <2>1 DEF InHand
    <3>2. QED
      BY <1>0, <2>0, <2>1, <3>1 DEF FramesInv
  <2>2. CASE /\ frame' = [index |-> next_frame_index, t |-> now, session |-> session]
             /\ next_frame_index' = next_frame_index + 1 /\ capture' = "push"
    <3>1. frame' \in Frames /\ frame'.index = next_frame_index /\ frame'.t = now /\ frame'.session = session
      BY <2>2, LineTypes DEF Frames
    <3>2. /\ Line(Shown(records), available, frames, <<>>)
          /\ AllCurrent(Shown(records), available, frames, <<>>, session, next_frame_index, now)
      BY <2>0 DEF FramesInv
    <3>3. /\ Line(Shown(records), available, frames, <<frame'>>)
          /\ AllCurrent(Shown(records), available, frames, <<frame'>>, session, next_frame_index + 1, now)
      BY <3>1, <3>2, LineTypes, FrameRead
    <3>4. InHand' = <<frame'>>
      BY <2>2 DEF InHand
    <3>5. QED
      BY <1>0, <2>0, <2>2, <3>3, <3>4 DEF FramesInv
  <2>3. QED
    BY <1>2, <2>1, <2>2 DEF CaptureRead
<1>3. CASE CapturePush
  <2> DEFINE kept == IF Len(frames) >= Capacity THEN Tail(frames) ELSE frames
  <2>1. kept \in Seq(Frames) /\ Picks(kept, frames)
    <3>1. Capacity \in Nat /\ Capacity > 0
      BY RecorderAssumption
    <3>2. Len(frames) >= Capacity => frames # <<>>
      BY <3>1, EmptySeq
    <3>3. frames # <<>> => Tail(frames) \in Seq(Frames) /\ Picks(Tail(frames), frames)
      BY LineTypes, PicksTail, HeadTailProperties
    <3>4. Picks(frames, frames)
      BY LineTypes, PicksItself
    <3>5. QED
      BY <3>2, <3>3, <3>4, LineTypes
  <2>2. InHand = <<frame>> /\ InHand' = <<>> /\ frames' = Append(kept, frame) /\ UNCHANGED next_frame_index
    BY <1>3 DEF CapturePush, InHand
  <2> HIDE DEF kept
  <2>3. /\ Picks(Shown(records), Shown(records)) /\ Picks(available, available)
        /\ Picks(InHand, InHand)
    BY LineTypes, PicksItself
  <2>4. /\ Line(Shown(records), available, kept, <<frame>>)
        /\ AllCurrent(Shown(records), available, kept, <<frame>>, session, next_frame_index, now)
    BY <2>1, <2>2, <2>3, LineThinned DEF FramesInv
  <2>5. /\ Line(Shown(records), available, Append(kept, frame), <<>>)
        /\ AllCurrent(Shown(records), available, Append(kept, frame), <<>>, session, next_frame_index, now)
    BY <2>1, <2>4, LineTypes, FramePushed
  <2>6. QED
    BY <1>0, <2>2, <2>5 DEF FramesInv
<1>4. QED
  BY <1>1, <1>2, <1>3 DEF CaptureThread

LEMMA WorkerKeepsLine == ASSUME RecorderInv, FramesInv, WorkerThread PROVE FramesInv'
<1>0. UNCHANGED <<capture, frame, session, next_frame_index, now>> /\ InHand' = InHand
  BY DEF WorkerThread, WorkerTest, WorkerDrain, WorkerIdle, WorkerTake, WorkerPair, WorkerClean,
         othersOfWorker, captureVars, armVars, InHand
<1>1. CASE UNCHANGED <<available, frames, records>>
  BY <1>0, <1>1 DEF FramesInv
<1>2. CASE WorkerTake
  <2>1. available = <<>> /\ available' = frames /\ frames' = <<>> /\ UNCHANGED records
    BY <1>2 DEF WorkerTake, RecorderInv, ThreadsInv, recordVars
  <2>2. /\ Line(Shown(records), frames, <<>>, InHand)
        /\ AllCurrent(Shown(records), frames, <<>>, InHand, session, next_frame_index, now)
    BY <2>1, QueueTaken DEF FramesInv
  <2>3. QED
    BY <1>0, <2>1, <2>2 DEF FramesInv
<1>3. CASE WorkerPair
  <2>0. available # <<>> /\ available' = Tail(available) /\ UNCHANGED frames /\ TypeOK
    BY <1>3 DEF WorkerPair, RecorderInv
  <2>1. CASE UNCHANGED records
    <3>1. /\ Picks(Tail(available), available) /\ Picks(Shown(records), Shown(records))
          /\ Picks(frames, frames) /\ Picks(InHand, InHand)
      BY <2>0, LineTypes, PicksItself, PicksTail
    <3>2. /\ Line(Shown(records), Tail(available), frames, InHand)
          /\ AllCurrent(Shown(records), Tail(available), frames, InHand, session, next_frame_index, now)
      BY <3>1, LineThinned DEF FramesInv
    <3>3. QED
      BY <1>0, <2>0, <2>1, <3>2 DEF FramesInv
  <2> DEFINE record == [trigger |-> pending_triggers[Best].seq, frame |-> Head(available)]
  <2>2. CASE records' = Append(records, record) /\ pending_triggers # <<>>
    <3>1. pending_triggers[Best] \in Triggers
      BY <2>0, <2>2, BestExists
    <3>2. Head(available) \in Frames
      BY <2>0, LineTypes, HeadTailProperties
    <3>3. record \in Recorded /\ record.frame = Head(available)
      BY <3>1, <3>2 DEF Recorded, Triggers
    <3> HIDE DEF record
    <3>4. Shown(records)' = Append(Shown(records), Head(available))
      BY <2>0, <2>2, <3>3, LineTypes, ShownAppended
    <3>5. /\ Line(Append(Shown(records), Head(available)), Tail(available), frames, InHand)
          /\ AllCurrent(Append(Shown(records), Head(available)), Tail(available), frames, InHand,
                        session, next_frame_index, now)
      BY <2>0, LineTypes, HeadPublished DEF FramesInv
    <3>6. QED
      BY <1>0, <2>0, <3>4, <3>5 DEF FramesInv
  <2>3. QED
    BY <1>3, <2>1, <2>2 DEF WorkerPair, Pair, publish, recordVars
<1>4. QED
  BY <1>1, <1>2, <1>3
     DEF WorkerThread, WorkerTest, WorkerDrain, WorkerIdle, WorkerClean, recordVars

LEMMA FramesInvHolds == Spec => []FramesInv
<1>1. Init => FramesInv
  BY ShownNothing, NothingInOrder DEF Init, FramesInv, InHand, Line, AllCurrent
<1>2. RecorderInv /\ FramesInv /\ [Next]_vars => FramesInv'
  <2> SUFFICES ASSUME RecorderInv, FramesInv, [Next]_vars PROVE FramesInv'
    OBVIOUS
  <2>0. TypeOK
    BY DEF RecorderInv
  <2>1. CASE UNCHANGED <<records, available, frames, InHand, session, next_frame_index, now>>
    BY <2>1 DEF FramesInv
  <2>2. CASE Tick
    <3>1. UNCHANGED <<records, available, frames, InHand, session, next_frame_index>> /\ now' = now + 1
      BY <2>2 DEF Tick, captureVars, workerVars, recordVars, InHand
    <3>2. AllCurrent(Shown(records), available, frames, InHand, session, next_frame_index, now + 1)
      BY <2>0, LineTypes, TimePasses DEF FramesInv
    <3>3. QED
      BY <3>1, <3>2 DEF FramesInv
  <2>3. CASE \E camera \in {"opened", "refused", "overflow"} : Start(camera)
    BY <2>3, StartKeepsLine
  <2>4. CASE JoinCapture
    <3>1. InHand' = <<>> /\ InHand = <<>>
      BY <2>4 DEF JoinCapture, InHand
    <3>2. UNCHANGED <<records, available, frames, session, next_frame_index, now>>
      BY <2>4 DEF JoinCapture, recordVars, workerVars, armVars
    <3>3. QED
      BY <2>1, <3>1, <3>2
  <2>5. CASE TriggerArrives \/ Stop \/ JoinWorker \/ UNCHANGED vars
    BY <2>1, <2>5 DEF TriggerArrives, Stop, JoinWorker, vars, captureVars, recordVars, workerVars,
                      armVars, InHand
  <2>6. QED
    BY <2>0, <2>2, <2>3, <2>4, <2>5, ReadKeepsLine, CaptureKeepsLine, WorkerKeepsLine
       DEF Next, Join
<1>3. QED
  BY <1>1, <1>2, RecorderInvariant, PTL DEF Spec

LEMMA JoinedInOrder ==
  ASSUME NEW s \in Seq(Frames), NEW u \in Seq(Frames)
  PROVE  /\ InOrder(s) /\ InOrder(u) /\ Before(s, u) => InOrder(s \o u)
         /\ \A x : Before(s, x) /\ Before(u, x) => Before(s \o u, x)
         /\ \A ses, n, time : Current(s, ses, n, time) /\ Current(u, ses, n, time)
                                => Current(s \o u, ses, n, time)
<1> DEFINE both == s \o u
           m    == Len(s)
<1>1. /\ Len(both) = m + Len(u)
      /\ \A i \in 1 .. m + Len(u) : both[i] = IF i <= m THEN s[i] ELSE u[i - m]
  BY ONLY ConcatProperties, s \in Seq(Frames), u \in Seq(Frames)
<1>2. m \in Nat /\ Len(u) \in Nat
  BY LenProperties
<1> HIDE DEF both
<1>3. \A i \in 1 .. Len(both) :
        \/ i \in 1 .. m /\ both[i] = s[i]
        \/ i - m \in 1 .. Len(u) /\ both[i] = u[i - m] /\ ~(i <= m)
  <2> SUFFICES ASSUME NEW i \in 1 .. m + Len(u)
               PROVE  \/ i \in 1 .. m /\ both[i] = s[i]
                      \/ i - m \in 1 .. Len(u) /\ both[i] = u[i - m] /\ ~(i <= m)
    BY <1>1
  <2>1. CASE i <= m
    <3>1. i \in 1 .. m
      BY <1>2, <2>1
    <3>2. QED
      BY <1>1, <2>1, <3>1
  <2>2. CASE ~(i <= m)
    <3>1. i - m \in 1 .. Len(u)
      BY <1>2, <2>2
    <3>2. QED
      BY <1>1, <2>2, <3>1
  <2>3. QED
    BY <2>1, <2>2
<1>4. ASSUME InOrder(s), InOrder(u), Before(s, u) PROVE InOrder(both)
  <2> SUFFICES ASSUME NEW i \in 1 .. Len(both), NEW j \in 1 .. Len(both), i < j
               PROVE  Precedes(both[i], both[j])
    BY DEF InOrder
  <2>1. CASE i \in 1 .. m /\ both[i] = s[i] /\ j \in 1 .. m /\ both[j] = s[j]
    BY <1>4, <2>1 DEF InOrder, m
  <2>2. CASE i \in 1 .. m /\ both[i] = s[i] /\ j - m \in 1 .. Len(u) /\ both[j] = u[j - m]
    BY <1>4, <2>2 DEF Before, m
  <2>3. CASE /\ i - m \in 1 .. Len(u) /\ both[i] = u[i - m]
             /\ j - m \in 1 .. Len(u) /\ both[j] = u[j - m]
    <3>1. i - m < j - m
      BY <1>2
    <3>2. QED
      BY <1>4, <2>3, <3>1 DEF InOrder
  <2>4. ~(~(i <= m) /\ j \in 1 .. m)
    BY <1>2
  <2>5. QED
    BY <1>3, <2>1, <2>2, <2>3, <2>4
<1>5. ASSUME NEW x, Before(s, x), Before(u, x) PROVE Before(both, x)
  BY <1>3, <1>5 DEF Before, m
<1>6. ASSUME NEW ses, NEW n, NEW time, Current(s, ses, n, time), Current(u, ses, n, time)
      PROVE  Current(both, ses, n, time)
  BY <1>3, <1>6 DEF Current, m
<1>7. QED
  BY <1>4, <1>5, <1>6 DEF both

(* A record read after start never shows a picture from before it, and no  *)
(* picture is shown twice or out of order, whatever the two queues drop    *)
(* and whenever stop and start fall between the steps of the threads.      *)
THEOREM FramesStayInOrder == Spec => []FramesInOrder
<1>1. RecorderInv /\ FramesInv => FramesInOrder
  <2> SUFFICES ASSUME RecorderInv, FramesInv PROVE FramesInOrder
    OBVIOUS
  <2> DEFINE a    == Shown(records)
             ab   == a \o available
             abc  == ab \o frames
             line == abc \o InHand
  <2>1. a \in Seq(Frames) /\ available \in Seq(Frames) /\ frames \in Seq(Frames) /\ InHand \in Seq(Frames)
    BY LineTypes DEF RecorderInv
  <2>2. Line(a, available, frames, InHand)
        /\ AllCurrent(a, available, frames, InHand, session, next_frame_index, now)
    BY DEF FramesInv
  <2> HIDE DEF a
  <2>3. /\ ab \in Seq(Frames) /\ InOrder(ab) /\ Before(ab, frames) /\ Before(ab, InHand)
        /\ Current(ab, session, next_frame_index, now)
    <3>1. ab \in Seq(Frames)
      BY ONLY <2>1, ConcatProperties
    <3>2. QED
      BY <2>1, <2>2, <3>1, JoinedInOrder DEF Line, AllCurrent
  <2> HIDE DEF ab
  <2>4. /\ abc \in Seq(Frames) /\ InOrder(abc) /\ Before(abc, InHand)
        /\ Current(abc, session, next_frame_index, now)
    <3>1. abc \in Seq(Frames)
      BY ONLY <2>1, <2>3, ConcatProperties
    <3>2. QED
      BY <2>1, <2>2, <2>3, <3>1, JoinedInOrder DEF Line, AllCurrent
  <2> HIDE DEF abc
  <2>5. /\ line \in Seq(Frames) /\ InOrder(line) /\ Current(line, session, next_frame_index, now)
    <3>1. line \in Seq(Frames)
      BY ONLY <2>1, <2>4, ConcatProperties
    <3>2. QED
      BY <2>1, <2>2, <2>4, <3>1, JoinedInOrder DEF Line, AllCurrent
  <2> HIDE DEF line
  <2>6. DOMAIN line = 1 .. Len(line)
    BY <2>5, LenProperties
  <2>7. \A i \in DOMAIN line : line[i].session = session
    BY <2>5, <2>6 DEF Current, Recent
  <2>8. \A i, j \in DOMAIN line :
          i < j => line[i].index < line[j].index /\ line[i].t <= line[j].t
    BY <2>5, <2>6 DEF InOrder, Precedes
  <2>9. QED
    BY <2>7, <2>8 DEF FramesInOrder, line, abc, ab, a, Shown, InHand
<1>2. QED
  BY <1>1, RecorderInvariant, FramesInvHolds, PTL
=============================================================================
