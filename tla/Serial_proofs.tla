------------------------------ MODULE Serial_proofs ------------------------------
(***************************************************************************)
(* The port under the transport: no queued write is forgotten, a           *)
(* completion finds its request, and a connected port is read; for every   *)
(* number of writes, of losses of the device and of failures to open it.   *)
(***************************************************************************)
EXTENDS Serial, SequenceTheorems, TLAPS

Handlers == {"on_data", "start", "read", "write", "timer", "close"} \X {"none", "failed", "aborted"}

(* Among the handlers hs: one of op; at most one of a write. *)
Has(hs, op)  == \E i \in 1 .. Len(hs) : hs[i][1] = op
OneWrite(hs) == \A i, j \in 1 .. Len(hs) : hs[i][1] = "write" /\ hs[j][1] = "write" => i = j
ReadFails(hs) == \E i \in 1 .. Len(hs) : hs[i] = <<"read", "failed">>

SerialTypes ==
  /\ ready \in Seq(Handlers)
  /\ io \in {"idle", "pop", "subtract", "drain", "drain pop", "drain subtract"}
  /\ m_write_queue \in Seq(Nat)
  /\ readOp \in BOOLEAN /\ writeOp \in BOOLEAN /\ m_write_in_flight \in BOOLEAN
  /\ writer \in {"idle", "enqueue", "count", "wait"}
  /\ next \in 1 .. MaxWrites + 1
  /\ writer # "idle" => next <= MaxWrites
  /\ m_state \in {"Connected", "Reconnecting", "Disconnected"}

(* The write in flight completes once: it is pending in the port, or its   *)
(* completion is posted.                                                   *)
OneCompletion ==
  /\ writeOp => m_write_in_flight /\ ~Has(ready, "write")
  /\ Has(ready, "write") => m_write_in_flight
  /\ OneWrite(ready)

(* The last request queued.  Those in the queue are the ones up to it,     *)
(* without gaps, and none has its answer but the one about to be popped.   *)
Newest == IF writer \in {"count", "wait"} THEN next ELSE next - 1

QueueInOrder ==
  /\ Len(m_write_queue) <= Newest
  /\ \A i \in 1 .. Len(m_write_queue) : m_write_queue[i] = Newest - Len(m_write_queue) + i
  /\ answered \subseteq 1 .. Newest
  /\ \A i \in 1 .. Len(m_write_queue) :
       m_write_queue[i] \in answered => i = 1 /\ io \in {"pop", "drain pop"}

(* A handler under way pops a request that is there, with no write in      *)
(* flight; and after close no request waits for an answer.                 *)
HandlerAlone ==
  /\ io # "idle" => ~m_write_in_flight
  /\ io \in {"pop", "drain pop"} => m_write_queue # <<>>
  /\ closing # "no" => writer = "idle" /\ 1 .. next - 1 \subseteq answered
  /\ Has(ready, "close") => closing # "no"

(* NoStrandedWrite as it holds for a caller between Enqueue and Count: a   *)
(* request besides the one it is about to count is taken up already.       *)
Uncounted == IF writer = "count" THEN 1 ELSE 0
Popped    == IF io \in {"subtract", "drain subtract"} THEN 1 ELSE 0
Outstanding == Len(m_write_queue) - Uncounted + Popped
TakenUp ==
  Len(m_write_queue) > Uncounted => m_write_in_flight \/ Has(ready, "start") \/ io # "idle"

(* ReaderAlive without the reads aborted by an earlier loss of the device: *)
(* their handlers start nothing.                                           *)
FreshReader ==
  m_state = "Connected" /\ closing = "no" => readOp \/ Has(ready, "on_data") \/ ReadFails(ready)

(* The loop is marked as started only while it reads, or is about to learn *)
(* that its read failed: a port opened anew is never found marked.         *)
LoopMarked ==
  m_read_started /\ closing = "no" => readOp \/ ReadFails(ready)

WritesInv == /\ OneCompletion
             /\ RequestStaysQueued
             /\ QueueInOrder
             /\ HandlerAlone
             /\ CountMatchesQueue
             /\ TakenUp

SerialInv == SerialTypes /\ WritesInv /\ FreshReader

-----------------------------------------------------------------------------
LEMMA Constants == MaxWrites \in Nat /\ CountModulus \in Nat /\ CountModulus > MaxWrites + 1
  BY SerialAssumption

(* What posting a handler, taking one and closing the port do to those     *)
(* posted.                                                                 *)
LEMMA PostedOne ==
  ASSUME NEW hs \in Seq(Handlers), NEW h \in Handlers
  PROVE  /\ Append(hs, h) \in Seq(Handlers)
         /\ \A op : Has(Append(hs, h), op) <=> Has(hs, op) \/ h[1] = op
         /\ ReadFails(Append(hs, h)) <=> ReadFails(hs) \/ h = <<"read", "failed">>
         /\ OneWrite(hs) /\ (h[1] = "write" => ~Has(hs, "write")) => OneWrite(Append(hs, h))
<1> DEFINE more == Append(hs, h)
<1>1. /\ more \in Seq(Handlers) /\ Len(more) = Len(hs) + 1 /\ Len(hs) \in Nat
      /\ \A i \in 1 .. Len(hs) : more[i] = hs[i]
      /\ more[Len(hs) + 1] = h
      /\ 1 .. Len(more) = 1 .. Len(hs) \cup {Len(hs) + 1}
  <2>1. Len(hs) \in Nat /\ Len(more) = Len(hs) + 1
    BY AppendProperties, LenProperties
  <2>2. QED
    BY <2>1, AppendProperties
<1> HIDE DEF more
<1>2. \A op : Has(more, op) <=> Has(hs, op) \/ h[1] = op
  BY <1>1 DEF Has
<1>3. ReadFails(more) <=> ReadFails(hs) \/ h = <<"read", "failed">>
  BY <1>1 DEF ReadFails
<1>4. OneWrite(hs) /\ (h[1] = "write" => ~Has(hs, "write")) => OneWrite(more)
  BY <1>1 DEF Has, OneWrite
<1>5. QED
  BY <1>1, <1>2, <1>3, <1>4 DEF more

LEMMA TakenOne ==
  ASSUME NEW hs \in Seq(Handlers), hs # <<>>
  PROVE  /\ Tail(hs) \in Seq(Handlers)
         /\ \A op : Has(hs, op) <=> Head(hs)[1] = op \/ Has(Tail(hs), op)
         /\ ReadFails(hs) <=> Head(hs) = <<"read", "failed">> \/ ReadFails(Tail(hs))
         /\ OneWrite(hs) => /\ OneWrite(Tail(hs))
                            /\ Head(hs)[1] = "write" => ~Has(Tail(hs), "write")
<1> DEFINE rest == Tail(hs)
<1>1. /\ rest \in Seq(Handlers) /\ Len(rest) = Len(hs) - 1 /\ Len(hs) \in Nat \ {0}
      /\ \A i \in 1 .. Len(rest) : rest[i] = hs[i + 1]
      /\ Head(hs) = hs[1]
  BY HeadTailProperties, LenProperties, EmptySeq
<1> HIDE DEF rest
<1>2. /\ \A i \in 1 .. Len(hs) : i = 1 \/ (i - 1 \in 1 .. Len(rest) /\ rest[i - 1] = hs[i])
      /\ \A i \in 1 .. Len(rest) : i + 1 \in 1 .. Len(hs) /\ i + 1 # 1
      /\ 1 \in 1 .. Len(hs)
  BY <1>1
<1>3. ASSUME NEW op PROVE Has(hs, op) <=> Head(hs)[1] = op \/ Has(rest, op)
  <2>1. Has(rest, op) \/ Head(hs)[1] = op => Has(hs, op)
    BY <1>1, <1>2 DEF Has
  <2>2. Has(hs, op) => Has(rest, op) \/ Head(hs)[1] = op
    BY <1>1, <1>2 DEF Has
  <2>3. QED
    BY <2>1, <2>2
<1>4. ReadFails(hs) <=> Head(hs) = <<"read", "failed">> \/ ReadFails(rest)
  <2>1. ReadFails(rest) \/ Head(hs) = <<"read", "failed">> => ReadFails(hs)
    BY <1>1, <1>2 DEF ReadFails
  <2>2. ReadFails(hs) => ReadFails(rest) \/ Head(hs) = <<"read", "failed">>
    BY <1>1, <1>2 DEF ReadFails
  <2>3. QED
    BY <2>1, <2>2
<1>5. ASSUME OneWrite(hs)
      PROVE  OneWrite(rest) /\ (Head(hs)[1] = "write" => ~Has(rest, "write"))
  <2>1. OneWrite(rest)
    BY <1>1, <1>2, <1>5 DEF OneWrite
  <2>2. Head(hs)[1] = "write" => ~Has(rest, "write")
    BY <1>1, <1>2, <1>5 DEF OneWrite, Has
  <2>3. QED
    BY <2>1, <2>2
<1>6. QED
  BY <1>1, <1>3, <1>4, <1>5 DEF rest

LEMMA PostedAborted ==
  ASSUME NEW hs \in Seq(Handlers)
  PROVE  /\ hs \o Aborted \in Seq(Handlers)
         /\ \A op : Has(hs \o Aborted, op) <=> \/ Has(hs, op)
                                               \/ op = "read" /\ readOp
                                               \/ op = "write" /\ writeOp
         /\ ReadFails(hs \o Aborted) <=> ReadFails(hs)
         /\ OneWrite(hs) /\ (writeOp => ~Has(hs, "write")) => OneWrite(hs \o Aborted)
<1> DEFINE read  == <<"read", "aborted">>
           write == <<"write", "aborted">>
           more  == IF readOp THEN Append(hs, read) ELSE hs
<1>1. read \in Handlers /\ write \in Handlers /\ read[1] = "read" /\ write[1] = "write"
      /\ read # <<"read", "failed">> /\ write # <<"read", "failed">>
  BY DEF Handlers
<1>2. hs \o Aborted = IF writeOp THEN Append(more, write) ELSE more
  <2> DEFINE first  == IF readOp THEN <<read>> ELSE <<>>
             second == IF writeOp THEN <<write>> ELSE <<>>
  <2> HIDE DEF read, write
  <2>1. first \in Seq(Handlers) /\ second \in Seq(Handlers) /\ more \in Seq(Handlers)
    BY <1>1
  <2>2. hs \o first = more
    BY <1>1, AppendIsConcat, ConcatEmptySeq
  <2>3. more \o second = IF writeOp THEN Append(more, write) ELSE more
    BY <1>1, <2>1, AppendIsConcat, ConcatEmptySeq
  <2>4. Aborted = first \o second
    BY DEF Aborted, read, write
  <2> HIDE DEF first, second, more
  <2>5. hs \o (first \o second) = (hs \o first) \o second
    BY <2>1, ConcatAssociative, SMTT(30)
  <2>6. hs \o Aborted = more \o second
    BY <2>2, <2>4, <2>5
  <2>7. QED
    BY <2>3, <2>6
<1> HIDE DEF read, write
<1>3. /\ more \in Seq(Handlers)
      /\ \A op : Has(more, op) <=> Has(hs, op) \/ (op = "read" /\ readOp)
      /\ ReadFails(more) <=> ReadFails(hs)
      /\ OneWrite(hs) => OneWrite(more)
  BY <1>1, PostedOne
<1> HIDE DEF more
<1>4. CASE writeOp
  BY <1>1, <1>2, <1>3, <1>4, PostedOne
<1>5. CASE ~writeOp
  BY <1>2, <1>3, <1>5
<1>6. QED
  BY <1>4, <1>5

-----------------------------------------------------------------------------
(* A step that leaves the writes and close alone, whatever it does to the  *)
(* reading and the timer.                                                  *)
LEMMA WritesUndisturbed ==
  ASSUME SerialTypes, WritesInv, ready' \in Seq(Handlers), OneWrite(ready'),
         Has(ready', "write") => Has(ready, "write"),
         Has(ready, "start") => Has(ready', "start"),
         Has(ready', "close") => Has(ready, "close"),
         UNCHANGED <<writeVars, io, queueVars, callVars>>
  PROVE  WritesInv'
<1> USE DEF WritesInv, writeVars, queueVars, callVars
<1>1. OneCompletion' /\ RequestStaysQueued'
  BY DEF OneCompletion, RequestStaysQueued
<1>2. QueueInOrder' /\ HandlerAlone'
  BY DEF QueueInOrder, HandlerAlone, Newest
<1>3. CountMatchesQueue' /\ TakenUp'
  BY DEF CountMatchesQueue, TakenUp, Uncounted
<1>4. QED
  BY <1>1, <1>2, <1>3

(* start_write_loop, with handlers hs posted: the write it starts is the   *)
(* only one and of the first request.                                      *)
LEMMA LoopStarted ==
  ASSUME SerialTypes, NEW port, NEW hs \in Seq(Handlers), OneWrite(hs),
         Has(hs, "write") => m_write_in_flight,
         writeOp => m_write_in_flight /\ ~Has(hs, "write"),
         start_write_loop(port, hs)
  PROVE  /\ ready' \in Seq(Handlers) /\ writeOp' \in BOOLEAN /\ m_write_in_flight' \in BOOLEAN
         /\ OneCompletion'
         /\ \A op : op # "write" => (Has(ready', op) <=> Has(hs, op))
         /\ ReadFails(ready') <=> ReadFails(hs)
         /\ m_write_queue # <<>> => m_write_in_flight'
         /\ m_write_in_flight' => \/ m_write_in_flight /\ request' = request
                                  \/ m_write_queue # <<>> /\ request' = Head(m_write_queue)
<1> DEFINE failed == <<"write", "failed">>
<1>1. failed \in Handlers /\ failed[1] = "write" /\ failed # <<"read", "failed">>
  BY DEF Handlers
<1> HIDE DEF failed
<1>2. CASE m_write_in_flight \/ m_write_queue = <<>>
  <2>1. ready' = hs /\ UNCHANGED <<writeOp, m_write_in_flight, request>>
    BY <1>2 DEF start_write_loop, writeVars
  <2>2. OneCompletion'
    BY <2>1 DEF OneCompletion
  <2>3. QED
    BY <1>2, <2>1, <2>2 DEF SerialTypes
<1>3. CASE ~m_write_in_flight /\ m_write_queue # <<>>
  <2>1. /\ m_write_in_flight' = TRUE /\ request' = Head(m_write_queue)
        /\ writeOp' = (port # "closed")
        /\ ready' = IF port = "closed" THEN Append(hs, failed) ELSE hs
        /\ ~Has(hs, "write")
    BY <1>3 DEF start_write_loop, failed
  <2>2. CASE port = "closed"
    <3>1. ready' = Append(hs, failed) /\ writeOp' = FALSE /\ m_write_in_flight' = TRUE
      BY <2>1, <2>2
    <3>2. /\ ready' \in Seq(Handlers)
          /\ \A op : Has(ready', op) <=> Has(hs, op) \/ op = "write"
          /\ ReadFails(ready') <=> ReadFails(hs)
          /\ OneWrite(ready')
      BY <1>1, <2>1, <3>1, PostedOne
    <3>3. OneCompletion'
      BY <3>1, <3>2 DEF OneCompletion
    <3>4. QED
      BY <1>3, <2>1, <3>1, <3>2, <3>3
  <2>3. CASE port # "closed"
    <3>1. ready' = hs /\ writeOp' = TRUE /\ m_write_in_flight' = TRUE
      BY <2>1, <2>3
    <3>2. OneCompletion'
      BY <2>1, <3>1 DEF OneCompletion
    <3>3. QED
      BY <1>3, <2>1, <3>1, <3>2
  <2>4. QED
    BY <2>2, <2>3
<1>4. QED
  BY <1>2, <1>3

(* handle_disconnection, with handlers hs posted: a write it aborts has    *)
(* its completion posted, and what stays connected loses no read but one   *)
(* that had been aborted.                                                  *)
LEMMA DisconnectionHandled ==
  ASSUME SerialTypes, NEW error, NEW readStarted, NEW hs \in Seq(Handlers), OneWrite(hs),
         Has(hs, "write") => m_write_in_flight,
         writeOp => m_write_in_flight /\ ~Has(hs, "write"),
         handle_disconnection(error, readStarted, hs),
         UNCHANGED m_write_in_flight
  PROVE  /\ ready' \in Seq(Handlers) /\ readOp' \in BOOLEAN /\ writeOp' \in BOOLEAN
         /\ m_state' \in {"Connected", "Reconnecting", "Disconnected"}
         /\ OneCompletion'
         /\ \A op : op \notin {"read", "write"} => (Has(ready', op) <=> Has(hs, op))
         /\ m_state' = "Connected" => /\ m_state = "Connected" /\ error = "aborted"
                                      /\ readOp' = readOp /\ ready' = hs
<1>1. CASE (error = "aborted" \/ m_state # "Connected") /\ ready' = hs
           /\ UNCHANGED <<readOp, writeOp, m_state>>
  <2>1. OneCompletion'
    BY <1>1 DEF OneCompletion
  <2>2. m_state' = "Connected" => m_state = "Connected" /\ error = "aborted"
    BY <1>1
  <2>3. QED
    BY <1>1, <2>1, <2>2 DEF SerialTypes
<1>2. CASE error = "failed" /\ ready' = hs \o Aborted /\ readOp' = FALSE /\ writeOp' = FALSE
           /\ m_state' \in {"Reconnecting", "Disconnected"}
  <2>1. /\ ready' \in Seq(Handlers)
        /\ \A op : op \notin {"read", "write"} => (Has(ready', op) <=> Has(hs, op))
        /\ Has(ready', "write") <=> Has(hs, "write") \/ writeOp
        /\ OneWrite(ready')
    BY <1>2, PostedAborted
  <2>2. OneCompletion'
    BY <1>2, <2>1 DEF OneCompletion
  <2>3. QED
    BY <1>2, <2>1, <2>2
<1>3. QED
  BY <1>1, <1>2 DEF handle_disconnection, m_is_closed_by_user

-----------------------------------------------------------------------------
(* The requests in the queue are different, and as many as were issued at  *)
(* most.                                                                   *)
LEMMA QueueIs ==
  ASSUME SerialTypes, QueueInOrder
  PROVE  /\ next \in Nat /\ Newest \in 0 .. MaxWrites /\ MaxWrites \in Nat
         /\ Len(m_write_queue) \in 0 .. Newest /\ Len(m_write_queue) \in Nat
         /\ m_write_queue # <<>> => /\ Len(m_write_queue) >= 1
                                    /\ Head(m_write_queue) = m_write_queue[1]
                                    /\ m_write_queue[1] \in 1 .. Newest
         /\ \A i \in 1 .. Len(m_write_queue) : m_write_queue[i] = m_write_queue[1] => i = 1
<1> DEFINE q == m_write_queue
           n == Len(q)
<1>1. next \in 1 .. MaxWrites + 1 /\ (writer \in {"count", "wait"} => next <= MaxWrites)
  BY DEF SerialTypes
<1>2. next \in Nat /\ Newest \in 0 .. MaxWrites /\ MaxWrites \in Nat
  BY <1>1, Constants DEF Newest
<1>3. q \in Seq(Nat) /\ n \in Nat /\ n <= Newest
      /\ \A i \in 1 .. n : q[i] = Newest - n + i
  BY LenProperties DEF SerialTypes, QueueInOrder
<1>4. q # <<>> => n >= 1 /\ Head(q) = q[1]
  BY <1>3, EmptySeq
<1> HIDE DEF q
<1>5. n \in 0 .. Newest
  BY <1>2, <1>3
<1> HIDE DEF n
<1>6. n >= 1 => q[1] \in 1 .. Newest
  BY <1>2, <1>3
<1>7. ASSUME NEW i \in 1 .. n, q[i] = q[1] PROVE i = 1
  BY <1>2, <1>3, <1>7
<1>8. QED
  BY <1>2, <1>3, <1>4, <1>5, <1>6, <1>7 DEF q, n

(* The count of requests, modulo 2^w: it is exact but for a request popped *)
(* before it was counted, when it stands at SIZE_MAX.                      *)
LEMMA SmallModulus ==
  ASSUME NEW n \in -1 .. CountModulus
  PROVE  /\ n \in 0 .. CountModulus - 1 => n % CountModulus = n
         /\ n = -1 => n % CountModulus = CountModulus - 1
         /\ n = CountModulus => n % CountModulus = 0
  BY Constants

LEMMA CountIs ==
  ASSUME SerialTypes, QueueInOrder
  PROVE  /\ Outstanding \in -1 .. MaxWrites + 1
         /\ CountMatchesQueue <=> m_write_count = Outstanding % CountModulus
         /\ CountMatchesQueue /\ Outstanding >= 0 => m_write_count = Outstanding
         /\ CountMatchesQueue /\ Outstanding = -1 => m_write_count = CountModulus - 1
<1>1. Len(m_write_queue) \in 0 .. MaxWrites /\ MaxWrites \in Nat
  <2>1. /\ Newest \in 0 .. MaxWrites /\ MaxWrites \in Nat
        /\ Len(m_write_queue) \in 0 .. Newest
    BY QueueIs
  <2>2. QED
    BY <2>1
<1>2. Uncounted \in {0, 1} /\ Popped \in {0, 1}
  BY DEF Uncounted, Popped
<1>3. CountMatchesQueue <=> m_write_count = Outstanding % CountModulus
  BY DEF CountMatchesQueue, Uncounted, Popped, Outstanding
<1>4. Outstanding \in -1 .. MaxWrites + 1
  BY <1>1, <1>2 DEF Outstanding
<1>5. CountMatchesQueue /\ Outstanding >= 0 => m_write_count = Outstanding
  BY <1>1, <1>3, <1>4, SmallModulus, Constants
<1>6. CountMatchesQueue /\ Outstanding = -1 => m_write_count = CountModulus - 1
  BY <1>1, <1>3, <1>4, SmallModulus, Constants
<1>7. QED
  BY <1>3, <1>4, <1>5, <1>6

-----------------------------------------------------------------------------
LEMMA InitEstablishes == Init => SerialInv
<1> SUFFICES ASSUME Init PROVE SerialInv
  OBVIOUS
<1>1. ready = <<<<"on_data", "none">>>> /\ m_write_queue = <<>> /\ m_write_count = 0
  BY DEF Init
<1>2. /\ ready \in Seq(Handlers) /\ Len(ready) = 1 /\ ready[1] = <<"on_data", "none">>
      /\ m_write_queue \in Seq(Nat) /\ Len(m_write_queue) = 0
  BY <1>1 DEF Handlers
<1>3. /\ Has(ready, "on_data") /\ ~Has(ready, "write") /\ ~Has(ready, "close")
      /\ OneWrite(ready)
  BY <1>2 DEF Has, OneWrite
<1>4. SerialTypes
  <2>1. next \in 1 .. MaxWrites + 1 /\ writer = "idle"
    BY Constants DEF Init
  <2>2. QED
    BY <1>2, <2>1 DEF Init, SerialTypes
<1>5. OneCompletion /\ RequestStaysQueued /\ HandlerAlone /\ TakenUp /\ FreshReader
  BY <1>2, <1>3 DEF Init, OneCompletion, RequestStaysQueued, HandlerAlone, TakenUp, Uncounted,
     FreshReader
<1>6. QueueInOrder
  BY <1>2 DEF Init, QueueInOrder, Newest
<1>7. CountMatchesQueue
  <2>1. 0 \in 0 .. CountModulus - 1 /\ 0 \in -1 .. CountModulus
    BY Constants
  <2>2. 0 % CountModulus = 0
    BY <2>1, SmallModulus
  <2>3. QED
    BY <1>2, <2>2 DEF Init, CountMatchesQueue
<1>8. QED
  BY <1>4, <1>5, <1>6, <1>7 DEF SerialInv, WritesInv

(* The device, the timer, and the handlers that only read or open.         *)
LEMMA ReadingPreserves ==
  ASSUME SerialInv, LoopMarked,
         \/ Unplug \/ Plug \/ ReadEnds \/ TimerExpires
         \/ OnData \/ NotReopened \/ HalfReopened
  PROVE  SerialInv'
<1> USE DEF SerialInv, deviceVars, portVars
<1>1. ready \in Seq(Handlers) /\ OneWrite(ready)
  BY DEF SerialTypes, WritesInv, OneCompletion
<1>2. CASE Unplug \/ Plug
  <2>1. UNCHANGED <<readOp, m_state, writeVars, ready, io, queueVars, callVars>>
    BY <1>2 DEF Unplug, Plug
  <2>2. SerialTypes' /\ FreshReader'
    BY <2>1 DEF SerialTypes, FreshReader, writeVars, queueVars, callVars
  <2>3. QED
    BY <1>1, <2>1, <2>2, WritesUndisturbed
<1>3. CASE ReadEnds \/ TimerExpires
  <2>1. PICK h \in {<<"read", "failed">>, <<"timer", "none">>} : ready' = Append(ready, h)
    BY <1>3 DEF ReadEnds, TimerExpires
  <2>2. h \in Handlers /\ h[1] \in {"read", "timer"}
    BY DEF Handlers
  <2>3. /\ ready' \in Seq(Handlers) /\ OneWrite(ready')
        /\ \A op : Has(ready', op) <=> Has(ready, op) \/ h[1] = op
        /\ ReadFails(ready') <=> ReadFails(ready) \/ h = <<"read", "failed">>
    BY <1>1, <2>1, <2>2, PostedOne
  <2>4. /\ UNCHANGED <<m_state, writeVars, io, queueVars, callVars>>
        /\ \/ UNCHANGED readOp
           \/ readOp' = FALSE /\ ReadFails(ready')
    BY <1>1, <1>3, <2>3, PostedOne DEF ReadEnds, TimerExpires, Handlers
  <2>5. SerialTypes' /\ FreshReader'
    BY <2>3, <2>4 DEF SerialTypes, FreshReader, writeVars, queueVars, callVars
  <2>6. QED
    BY <2>2, <2>3, <2>4, <2>5, WritesUndisturbed
<1>4. CASE OnData \/ NotReopened \/ HalfReopened
  <2>1. /\ ready # <<>> /\ Head(ready) \in {<<"on_data", "none">>, <<"timer", "none">>}
        /\ ready' = Tail(ready)
        /\ UNCHANGED <<m_state, writeVars, io, queueVars, callVars>>
    BY <1>4 DEF OnData, NotReopened, HalfReopened, Runs
  <2>2. /\ ready' \in Seq(Handlers) /\ OneWrite(ready')
        /\ \A op : Has(ready, op) <=> Head(ready)[1] = op \/ Has(ready', op)
        /\ ReadFails(ready) <=> Head(ready) = <<"read", "failed">> \/ ReadFails(ready')
    BY <1>1, <2>1, TakenOne
  <2>3. \/ readOp' = TRUE
        \/ UNCHANGED readOp /\ m_read_started
        \/ UNCHANGED readOp /\ Head(ready) = <<"timer", "none">>
    BY <1>4 DEF OnData, NotReopened, HalfReopened, Runs, start_read_loop
  <2>4. FreshReader'
    BY <2>1, <2>2, <2>3 DEF FreshReader, LoopMarked, callVars
  <2>5. SerialTypes'
    BY <2>1, <2>2, <2>3 DEF SerialTypes, writeVars, queueVars, callVars
  <2>6. QED
    BY <2>1, <2>2, <2>4, <2>5, WritesUndisturbed
<1>5. QED
  BY <1>2, <1>3, <1>4

(* A handler that starts the write loop.                                   *)
LEMMA StartingPreserves ==
  ASSUME SerialInv, LoopMarked, StartWrites \/ Reopened PROVE SerialInv'
<1> USE DEF SerialInv, WritesInv, deviceVars, portVars, queueVars, callVars
<1>1. /\ ready # <<>> /\ Head(ready) \in {<<"start", "none">>, <<"timer", "none">>}
      /\ \E port \in {m_port, "good"} : start_write_loop(port, Tail(ready))
      /\ UNCHANGED <<io, queueVars, callVars>>
      /\ io = "idle"
  BY DEF StartWrites, Reopened, Runs
<1>2. /\ Tail(ready) \in Seq(Handlers) /\ OneWrite(Tail(ready))
      /\ \A op : Has(ready, op) <=> Head(ready)[1] = op \/ Has(Tail(ready), op)
      /\ ReadFails(ready) <=> Head(ready) = <<"read", "failed">> \/ ReadFails(Tail(ready))
  BY <1>1, TakenOne DEF SerialTypes, OneCompletion
<1>3. /\ ready' \in Seq(Handlers) /\ writeOp' \in BOOLEAN /\ m_write_in_flight' \in BOOLEAN
      /\ OneCompletion'
      /\ \A op : op # "write" => (Has(ready', op) <=> Has(Tail(ready), op))
      /\ ReadFails(ready') <=> ReadFails(Tail(ready))
      /\ m_write_queue # <<>> => m_write_in_flight'
      /\ m_write_in_flight' => \/ m_write_in_flight /\ request' = request
                               \/ m_write_queue # <<>> /\ request' = Head(m_write_queue)
  BY <1>1, <1>2, LoopStarted DEF OneCompletion
<1>4. RequestStaysQueued' /\ QueueInOrder' /\ HandlerAlone' /\ CountMatchesQueue'
  BY <1>1, <1>2, <1>3 DEF RequestStaysQueued, QueueInOrder, Newest, HandlerAlone,
     CountMatchesQueue
<1>5. TakenUp'
  <2>1. Len(m_write_queue) > Uncounted => m_write_queue # <<>>
    <3>1. Len(<<>>) = 0 /\ Uncounted \in {0, 1}
      BY DEF Uncounted
    <3>2. QED
      BY <3>1
  <2>2. QED
    BY <1>1, <1>3, <2>1 DEF TakenUp, Uncounted
<1>6. /\ \/ readOp' = TRUE /\ m_state' = "Connected"
         \/ UNCHANGED readOp /\ m_read_started /\ m_state' = "Connected"
         \/ UNCHANGED <<readOp, m_state>> /\ Head(ready) = <<"start", "none">>
  BY DEF StartWrites, Reopened, Runs, start_read_loop
<1>7. FreshReader'
  BY <1>1, <1>2, <1>3, <1>6 DEF FreshReader, LoopMarked
<1>8. SerialTypes'
  BY <1>1, <1>3, <1>6 DEF SerialTypes
<1>9. QED
  BY <1>3, <1>4, <1>5, <1>7, <1>8

LEMMA ReadFailedPreserves == ASSUME SerialInv, ReadFailed PROVE SerialInv'
<1> USE DEF SerialInv, WritesInv, deviceVars, queueVars, callVars
<1>1. PICK error \in {"failed", "aborted"} :
        /\ ready # <<>> /\ Head(ready) = <<"read", error>>
        /\ \E readStarted : handle_disconnection(error, readStarted, Tail(ready))
        /\ UNCHANGED <<m_write_in_flight, request, io, queueVars, callVars>>
  BY DEF ReadFailed, Runs
<1>2. /\ Tail(ready) \in Seq(Handlers) /\ OneWrite(Tail(ready))
      /\ \A op : Has(ready, op) <=> Head(ready)[1] = op \/ Has(Tail(ready), op)
      /\ ReadFails(ready) <=> Head(ready) = <<"read", "failed">> \/ ReadFails(Tail(ready))
  BY <1>1, TakenOne DEF SerialTypes, OneCompletion
<1>3. /\ ready' \in Seq(Handlers) /\ readOp' \in BOOLEAN /\ writeOp' \in BOOLEAN
      /\ m_state' \in {"Connected", "Reconnecting", "Disconnected"}
      /\ OneCompletion'
      /\ \A op : op \notin {"read", "write"} => (Has(ready', op) <=> Has(Tail(ready), op))
      /\ m_state' = "Connected" => /\ m_state = "Connected" /\ error = "aborted"
                                   /\ readOp' = readOp /\ ready' = Tail(ready)
  BY <1>1, <1>2, DisconnectionHandled DEF OneCompletion
<1>4. RequestStaysQueued' /\ QueueInOrder' /\ HandlerAlone' /\ CountMatchesQueue'
  BY <1>1, <1>2, <1>3 DEF RequestStaysQueued, QueueInOrder, Newest, HandlerAlone,
     CountMatchesQueue
<1>5. TakenUp'
  BY <1>1, <1>2, <1>3 DEF TakenUp, Uncounted
<1>6. FreshReader'
  <2>1. Head(ready)[1] = "read" /\ (error = "aborted" => Head(ready) # <<"read", "failed">>)
    BY <1>1
  <2>2. m_state' = "Connected" => /\ Has(ready, "on_data") => Has(ready', "on_data")
                                  /\ ReadFails(ready) => ReadFails(ready')
    BY <1>2, <1>3, <2>1
  <2>3. QED
    BY <1>1, <1>3, <2>2 DEF FreshReader
<1>7. SerialTypes'
  BY <1>1, <1>3 DEF SerialTypes
<1>8. QED
  BY <1>3, <1>4, <1>5, <1>6, <1>7

-----------------------------------------------------------------------------
(* The completion of a write: the operating system's, and its handlers.    *)
LEMMA WriteEndsPreserves == ASSUME SerialInv, WriteEnds PROVE SerialInv'
<1> USE DEF SerialInv, WritesInv, deviceVars, portVars, queueVars, callVars
<1>1. PICK h \in {<<"write", "none">>, <<"write", "failed">>} : ready' = Append(ready, h)
  BY DEF WriteEnds
<1>2. h \in Handlers /\ h[1] = "write" /\ h # <<"read", "failed">>
  BY DEF Handlers
<1>3. writeOp /\ writeOp' = FALSE
      /\ UNCHANGED <<readOp, m_state, m_write_in_flight, request, io, queueVars, callVars>>
  BY DEF WriteEnds
<1>4. m_write_in_flight /\ ~Has(ready, "write") /\ OneWrite(ready)
  BY <1>3 DEF OneCompletion
<1>5. /\ ready' \in Seq(Handlers) /\ OneWrite(ready')
      /\ \A op : Has(ready', op) <=> Has(ready, op) \/ "write" = op
      /\ ReadFails(ready') <=> ReadFails(ready)
  BY <1>1, <1>2, <1>4, PostedOne DEF SerialTypes
<1>6. OneCompletion'
  BY <1>3, <1>4, <1>5 DEF OneCompletion
<1>7. RequestStaysQueued' /\ QueueInOrder' /\ HandlerAlone' /\ CountMatchesQueue'
  BY <1>3, <1>5 DEF RequestStaysQueued, QueueInOrder, Newest, HandlerAlone,
     CountMatchesQueue
<1>8. TakenUp' /\ FreshReader'
  BY <1>3, <1>5 DEF TakenUp, Uncounted, FreshReader
<1>9. SerialTypes'
  BY <1>3, <1>5 DEF SerialTypes
<1>10. QED
  BY <1>6, <1>7, <1>8, <1>9

LEMMA HeadAnswered ==
  ASSUME SerialTypes, QueueInOrder, m_write_queue # <<>>, io \notin {"pop", "drain pop"},
         answered' = answered \cup {Head(m_write_queue)}, io' \in {"pop", "drain pop"},
         UNCHANGED <<m_write_queue, writer, next>>
  PROVE  QueueInOrder'
<1> DEFINE n == Len(m_write_queue)
<1>1. Newest' = Newest
  BY DEF Newest
<1>2. /\ Head(m_write_queue) = m_write_queue[1] /\ m_write_queue[1] \in 1 .. Newest
      /\ \A i \in 1 .. n : m_write_queue[i] = m_write_queue[1] => i = 1
  BY QueueIs
<1>3. /\ n <= Newest /\ answered \subseteq 1 .. Newest
      /\ \A i \in 1 .. n : m_write_queue[i] = Newest - n + i /\ m_write_queue[i] \notin answered
  BY DEF QueueInOrder
<1>4. \A i \in 1 .. n : m_write_queue[i] \in answered' => i = 1
  BY <1>2, <1>3
<1>5. answered' \subseteq 1 .. Newest
  BY <1>2, <1>3
<1>6. QED
  BY <1>1, <1>3, <1>4, <1>5 DEF QueueInOrder

LEMMA CompletionPreserves == ASSUME SerialInv, Written \/ WriteFailed PROVE SerialInv'
<1> USE DEF SerialInv, WritesInv, deviceVars, portVars, queueVars, callVars
<1>1. /\ ready # <<>> /\ Head(ready)[1] = "write" /\ ready' = Tail(ready)
      /\ io = "idle" /\ io' \in {"pop", "drain"}
      /\ m_write_in_flight' = FALSE
      /\ UNCHANGED <<readOp, writeOp, m_state, queueVars, writer, next, closing>>
  BY DEF Written, WriteFailed, Runs
<1>2. /\ Tail(ready) \in Seq(Handlers) /\ OneWrite(Tail(ready))
      /\ \A op : Has(ready, op) <=> "write" = op \/ Has(Tail(ready), op)
      /\ ReadFails(ready) <=> Head(ready) = <<"read", "failed">> \/ ReadFails(Tail(ready))
      /\ ~Has(Tail(ready), "write")
  BY <1>1, TakenOne DEF SerialTypes, OneCompletion
<1>3. /\ m_write_in_flight /\ ~writeOp
      /\ m_write_queue # <<>> /\ request = Head(m_write_queue)
  BY <1>2 DEF OneCompletion, RequestStaysQueued
<1>4. \/ io' = "pop" /\ answered' = answered \cup {Head(m_write_queue)}
      \/ io' = "drain" /\ answered' = answered
  BY <1>3 DEF Written, WriteFailed
<1>5. OneCompletion' /\ RequestStaysQueued'
  BY <1>1, <1>2, <1>3 DEF OneCompletion, RequestStaysQueued
<1>6. QueueInOrder'
  <2>1. CASE io' = "pop" /\ answered' = answered \cup {Head(m_write_queue)}
    BY <1>1, <1>3, <2>1, HeadAnswered
  <2>2. CASE io' = "drain" /\ answered' = answered
    BY <1>1, <2>2 DEF QueueInOrder, Newest
  <2>3. QED
    BY <1>4, <2>1, <2>2
<1>7. HandlerAlone'
  BY <1>1, <1>2, <1>3, <1>4 DEF HandlerAlone
<1>8. CountMatchesQueue' /\ TakenUp'
  BY <1>1 DEF CountMatchesQueue, TakenUp
<1>9. FreshReader'
  <2>1. Head(ready) # <<"read", "failed">>
    BY <1>1
  <2>2. QED
    BY <1>1, <1>2, <2>1 DEF FreshReader
<1>10. SerialTypes'
  BY <1>1, <1>2 DEF SerialTypes
<1>11. QED
  BY <1>5, <1>6, <1>7, <1>8, <1>9, <1>10

LEMMA PopPreserves == ASSUME SerialInv, Pop \/ DrainPop PROVE SerialInv'
<1> USE DEF SerialInv, WritesInv, deviceVars, portVars, writeVars, callVars
<1>1. /\ io \in {"pop", "drain pop"} /\ m_write_queue' = Tail(m_write_queue)
      /\ io' \in {"subtract", "drain subtract"}
      /\ UNCHANGED <<readOp, m_state, writeVars, ready, m_write_count, callVars>>
  BY DEF Pop, DrainPop
<1> DEFINE n == Len(m_write_queue)
<1>2. m_write_queue # <<>> /\ ~m_write_in_flight
  BY <1>1 DEF HandlerAlone
<1>3. /\ m_write_queue' \in Seq(Nat) /\ Len(m_write_queue') = n - 1 /\ n \in Nat \ {0}
      /\ \A i \in 1 .. n - 1 : m_write_queue'[i] = m_write_queue[i + 1]
  BY <1>1, <1>2, HeadTailProperties, EmptySeq DEF SerialTypes
<1>4. Newest' = Newest /\ Newest \in Nat /\ n <= Newest
  <2>1. Newest' = Newest
    BY <1>1 DEF Newest
  <2>2. Newest \in 0 .. MaxWrites /\ MaxWrites \in Nat /\ n \in 0 .. Newest
    BY QueueIs
  <2>3. QED
    BY <2>1, <2>2
<1>5. QueueInOrder'
  <2>1. /\ \A i \in 1 .. n : m_write_queue[i] = Newest - n + i
        /\ \A i \in 1 .. n : m_write_queue[i] \in answered => i = 1
        /\ answered' \subseteq 1 .. Newest' /\ answered' = answered
    BY <1>1, <1>4 DEF QueueInOrder
  <2> HIDE DEF n
  <2>2. ASSUME NEW i \in 1 .. n - 1
        PROVE  /\ m_write_queue'[i] = Newest - (n - 1) + i
               /\ m_write_queue'[i] \notin answered
    <3>1. i + 1 \in 1 .. n /\ i + 1 # 1 /\ m_write_queue'[i] = m_write_queue[i + 1]
      BY <1>3
    <3>2. m_write_queue[i + 1] = Newest - n + (i + 1) /\ m_write_queue[i + 1] \notin answered
      BY <2>1, <3>1
    <3>3. QED
      BY <1>3, <1>4, <3>1, <3>2
  <2>3. n - 1 <= Newest
    BY <1>3, <1>4
  <2>4. QED
    BY <1>3, <1>4, <2>1, <2>2, <2>3 DEF QueueInOrder
<1>6. OneCompletion' /\ RequestStaysQueued' /\ HandlerAlone' /\ TakenUp' /\ FreshReader'
  BY <1>1, <1>2 DEF OneCompletion, RequestStaysQueued, HandlerAlone, TakenUp, FreshReader
<1>7. CountMatchesQueue'
  <2>1. Len(m_write_queue') - Uncounted' + Popped' = Len(m_write_queue) - Uncounted + Popped
    <3>1. Uncounted' = Uncounted /\ Uncounted \in {0, 1} /\ Popped = 0 /\ Popped' = 1
      BY <1>1 DEF Uncounted, Popped
    <3>2. QED
      BY <1>3, <3>1
  <2>2. m_write_count = (Len(m_write_queue) - Uncounted + Popped) % CountModulus
    BY DEF CountMatchesQueue, Uncounted, Popped
  <2>3. m_write_count' = (Len(m_write_queue') - Uncounted' + Popped') % CountModulus
    BY <1>1, <2>1, <2>2
  <2>4. QED
    BY <2>3 DEF CountMatchesQueue, Uncounted, Popped
<1>8. SerialTypes'
  BY <1>1, <1>3 DEF SerialTypes
<1>9. QED
  BY <1>5, <1>6, <1>7, <1>8

(* The test after a completed write sees every request that is left.       *)
LEMMA BeforeSubtracting ==
  ASSUME SerialTypes, QueueInOrder, CountMatchesQueue,
         Popped = 1, Popped' = 0, UNCHANGED <<m_write_queue, writer>>
  PROVE  /\ m_write_count = Outstanding /\ Outstanding' = Outstanding - 1
         /\ Len(m_write_queue) > Uncounted => MoreToWrite
<1>1. Uncounted' = Uncounted /\ Uncounted \in {0, 1}
  BY DEF Uncounted
<1>2. Len(m_write_queue) \in Nat
  BY QueueIs
<1>3. /\ Outstanding = Len(m_write_queue) - Uncounted + 1 /\ Outstanding >= 0
      /\ Outstanding' = Outstanding - 1
  BY <1>1, <1>2 DEF Outstanding
<1>4. m_write_count = Outstanding
  BY <1>3, CountIs
<1>5. Len(m_write_queue) > Uncounted => MoreToWrite
  BY <1>1, <1>2, <1>3, <1>4 DEF MoreToWrite
<1>6. QED
  BY <1>3, <1>4, <1>5

LEMMA Subtracted ==
  ASSUME SerialTypes, QueueInOrder, CountMatchesQueue,
         io \in {"subtract", "drain subtract"}, io' \in {"idle", "drain"},
         m_write_count' = (m_write_count - 1) % CountModulus,
         UNCHANGED <<m_write_queue, writer>>
  PROVE  CountMatchesQueue' /\ (Len(m_write_queue) > Uncounted => MoreToWrite)
<1>1. /\ m_write_count = Outstanding /\ Outstanding' = Outstanding - 1
      /\ Len(m_write_queue) > Uncounted => MoreToWrite
  <2>1. Popped = 1 /\ Popped' = 0
    BY DEF Popped
  <2>2. QED
    BY <2>1, BeforeSubtracting
<1>2. m_write_count' = Outstanding' % CountModulus
  BY <1>1
<1>3. QED
  BY <1>1, <1>2 DEF CountMatchesQueue, Outstanding, Uncounted, Popped

LEMMA SubtractPreserves == ASSUME SerialInv, Subtract PROVE SerialInv'
<1> USE DEF SerialInv, WritesInv, deviceVars, portVars, callVars
<1>1. /\ io = "subtract" /\ io' = "idle" /\ ~m_write_in_flight
      /\ UNCHANGED <<readOp, m_state, m_write_queue, callVars>>
  BY DEF Subtract, HandlerAlone
<1>2. CountMatchesQueue' /\ (Len(m_write_queue) > Uncounted => MoreToWrite)
  BY <1>1, Subtracted DEF Subtract
<1>3. \/ MoreToWrite /\ start_write_loop(m_port, ready)
      \/ ~MoreToWrite /\ UNCHANGED <<writeVars, ready>>
  BY DEF Subtract
<1>4. /\ ready' \in Seq(Handlers) /\ writeOp' \in BOOLEAN /\ m_write_in_flight' \in BOOLEAN
      /\ OneCompletion'
      /\ \A op : op # "write" => (Has(ready', op) <=> Has(ready, op))
      /\ ReadFails(ready') <=> ReadFails(ready)
      /\ MoreToWrite /\ m_write_queue # <<>> => m_write_in_flight'
      /\ m_write_in_flight' => m_write_queue # <<>> /\ request' = Head(m_write_queue)
  <2>1. CASE MoreToWrite /\ start_write_loop(m_port, ready)
    BY <1>1, <2>1, LoopStarted DEF SerialTypes, OneCompletion
  <2>2. CASE ~MoreToWrite /\ UNCHANGED <<writeVars, ready>>
    <3>1. OneCompletion'
      BY <2>2 DEF OneCompletion, writeVars
    <3>2. QED
      BY <1>1, <2>2, <3>1 DEF SerialTypes, writeVars
  <2>3. QED
    BY <1>3, <2>1, <2>2
<1>5. TakenUp'
  <2>1. Len(m_write_queue) > Uncounted => m_write_queue # <<>>
    <3>1. Len(<<>>) = 0 /\ Uncounted \in {0, 1}
      BY DEF Uncounted
    <3>2. QED
      BY <3>1
  <2>2. QED
    BY <1>1, <1>2, <1>4, <2>1 DEF TakenUp, Uncounted
<1>6. RequestStaysQueued' /\ QueueInOrder' /\ HandlerAlone'
  BY <1>1, <1>4 DEF RequestStaysQueued, QueueInOrder, Newest, HandlerAlone
<1>7. FreshReader'
  BY <1>1, <1>4 DEF FreshReader
<1>8. SerialTypes'
  BY <1>1, <1>4 DEF SerialTypes
<1>9. QED
  BY <1>2, <1>4, <1>5, <1>6, <1>7, <1>8

LEMMA DrainPreserves == ASSUME SerialInv, Drain \/ DrainSubtract PROVE SerialInv'
<1> USE DEF SerialInv, WritesInv, deviceVars, portVars, writeVars
<1>1. /\ io \in {"drain", "drain subtract"} /\ io' \in {"drain", "drain pop"}
      /\ UNCHANGED <<readOp, m_state, writeVars, ready, m_write_queue, writer, next, closing>>
  BY DEF Drain, DrainSubtract, queueVars, callVars
<1>2. /\ answered \subseteq answered' /\ (io' = "drain pop" => m_write_queue # <<>>)
      /\ QueueInOrder' /\ CountMatchesQueue'
  <2>1. CASE Drain
    <3>1. QueueInOrder'
      BY <1>1, <2>1, HeadAnswered DEF Drain
    <3>2. CountMatchesQueue'
      BY <1>1, <2>1 DEF Drain, CountMatchesQueue, queueVars
    <3>3. QED
      BY <2>1, <3>1, <3>2 DEF Drain
  <2>2. CASE DrainSubtract
    <3>1. QueueInOrder'
      BY <1>1, <2>2 DEF DrainSubtract, QueueInOrder, Newest, callVars
    <3>2. CountMatchesQueue'
      BY <1>1, <2>2, Subtracted DEF DrainSubtract
    <3>3. QED
      BY <2>2, <3>1, <3>2 DEF DrainSubtract, callVars
  <2>3. QED
    BY <2>1, <2>2
<1>3. OneCompletion' /\ RequestStaysQueued' /\ HandlerAlone' /\ TakenUp' /\ FreshReader'
  BY <1>1, <1>2 DEF OneCompletion, RequestStaysQueued, HandlerAlone, TakenUp, FreshReader
<1>4. SerialTypes'
  BY <1>1 DEF SerialTypes
<1>5. QED
  BY <1>2, <1>3, <1>4

LEMMA DrainEndsPreserves == ASSUME SerialInv, DrainEnds PROVE SerialInv'
<1> USE DEF SerialInv, WritesInv, deviceVars, queueVars, callVars
<1>1. /\ io = "drain" /\ io' = "idle" /\ m_write_queue = <<>> /\ ~m_write_in_flight
      /\ handle_disconnection(ec, m_read_started, ready)
      /\ UNCHANGED <<m_write_in_flight, request, queueVars, callVars>>
  BY DEF DrainEnds, HandlerAlone
<1>2. /\ ready' \in Seq(Handlers) /\ readOp' \in BOOLEAN /\ writeOp' \in BOOLEAN
      /\ m_state' \in {"Connected", "Reconnecting", "Disconnected"}
      /\ OneCompletion'
      /\ \A op : op \notin {"read", "write"} => (Has(ready', op) <=> Has(ready, op))
      /\ m_state' = "Connected" => /\ m_state = "Connected" /\ ec = "aborted"
                                   /\ readOp' = readOp /\ ready' = ready
  BY <1>1, DisconnectionHandled DEF SerialTypes, OneCompletion
<1>3. RequestStaysQueued' /\ QueueInOrder' /\ HandlerAlone' /\ CountMatchesQueue'
  BY <1>1, <1>2 DEF RequestStaysQueued, QueueInOrder, Newest, HandlerAlone, CountMatchesQueue
<1>4. TakenUp'
  <2>1. Len(m_write_queue') = 0 /\ Uncounted' \in {0, 1}
    BY <1>1 DEF Uncounted
  <2>2. QED
    BY <2>1 DEF TakenUp
<1>5. FreshReader'
  BY <1>1, <1>2 DEF FreshReader
<1>6. SerialTypes'
  BY <1>1, <1>2 DEF SerialTypes
<1>7. QED
  BY <1>2, <1>3, <1>4, <1>5, <1>6

-----------------------------------------------------------------------------
(* The caller of write.                                                    *)
LEMMA AppendedInOrder ==
  ASSUME NEW q \in Seq(Nat), NEW k \in Nat, NEW done, done \subseteq 1 .. k - 1,
         Len(q) \in 0 .. k - 1, \A i \in 1 .. Len(q) : q[i] = k - 1 - Len(q) + i
  PROVE  /\ Append(q, k) \in Seq(Nat) /\ Len(Append(q, k)) = Len(q) + 1
         /\ \A i \in 1 .. Len(q) + 1 :
              /\ Append(q, k)[i] = k - (Len(q) + 1) + i
              /\ Append(q, k)[i] \in done => i \in 1 .. Len(q) /\ q[i] \in done
         /\ q # <<>> => Head(Append(q, k)) = Head(q)
         /\ Append(q, k) # <<>>
<1> DEFINE n == Len(q)
           more == Append(q, k)
<1>1. n \in Nat /\ n <= k - 1
  BY LenProperties
<1>2. /\ more \in Seq(Nat) /\ Len(more) = n + 1 /\ more # <<>>
      /\ \A i \in 1 .. n : more[i] = q[i]
      /\ more[n + 1] = k
  BY AppendProperties
<1>3. q # <<>> => Head(more) = Head(q)
  BY HeadTailAppend
<1> HIDE DEF more
<1>4. \A i \in 1 .. n : q[i] = k - 1 - n + i
  OBVIOUS
<1> HIDE DEF n
<1>5. ASSUME NEW i \in 1 .. n + 1
      PROVE  more[i] = k - (n + 1) + i /\ (more[i] \in done => i \in 1 .. n /\ q[i] \in done)
  <2>1. CASE i = n + 1
    BY <1>1, <1>2, <2>1
  <2>2. CASE i # n + 1
    <3>1. i \in 1 .. n
      BY <1>1, <2>2
    <3>2. more[i] = q[i] /\ q[i] = k - 1 - n + i
      BY <1>2, <1>4, <3>1
    <3>3. QED
      BY <1>1, <3>1, <3>2
  <2>3. QED
    BY <2>1, <2>2
<1>6. QED
  BY <1>2, <1>3, <1>5 DEF n, more

LEMMA EnqueuePreserves == ASSUME SerialInv, Enqueue PROVE SerialInv'
<1> USE DEF SerialInv, WritesInv, deviceVars, portVars, writeVars
<1>1. /\ writer = "enqueue" /\ writer' = "count" /\ m_write_queue' = Append(m_write_queue, next)
      /\ UNCHANGED <<readOp, m_state, writeVars, ready, io, m_write_count, next, answered, closing>>
  BY DEF Enqueue
<1> DEFINE n == Len(m_write_queue)
<1>2. Newest = next - 1 /\ Newest' = next
  BY <1>1 DEF Newest
<1>3. next \in Nat /\ n \in Nat /\ n \in 0 .. next - 1
  BY <1>2, QueueIs
<1>4. /\ m_write_queue' \in Seq(Nat) /\ Len(m_write_queue') = n + 1
      /\ \A i \in 1 .. n + 1 :
           /\ m_write_queue'[i] = next - (n + 1) + i
           /\ m_write_queue'[i] \in answered => i \in 1 .. n /\ m_write_queue[i] \in answered
      /\ m_write_queue # <<>> => Head(m_write_queue') = Head(m_write_queue)
      /\ m_write_queue' # <<>>
  <2>1. /\ m_write_queue \in Seq(Nat) /\ answered \subseteq 1 .. next - 1
        /\ \A i \in 1 .. n : m_write_queue[i] = next - 1 - n + i
    BY <1>2 DEF QueueInOrder, SerialTypes
  <2>2. QED
    BY <1>1, <1>3, <2>1, AppendedInOrder
<1>5. QueueInOrder'
  <2>1. /\ \A i \in 1 .. n : m_write_queue[i] \in answered => i = 1 /\ io \in {"pop", "drain pop"}
        /\ answered \subseteq 1 .. next - 1
    BY <1>2 DEF QueueInOrder
  <2> HIDE DEF n
  <2>2. n + 1 <= next /\ 1 .. next - 1 \subseteq 1 .. next
    BY <1>3
  <2>3. QED
    BY <1>1, <1>2, <1>4, <2>1, <2>2 DEF QueueInOrder
<1>6. CountMatchesQueue'
  <2>1. Outstanding' = Outstanding
    <3>1. Uncounted = 0 /\ Uncounted' = 1 /\ Popped' = Popped /\ Popped \in {0, 1}
      BY <1>1 DEF Uncounted, Popped
    <3>2. QED
      BY <1>3, <1>4, <3>1 DEF Outstanding
  <2>2. m_write_count' = Outstanding' % CountModulus
    BY <1>1, <2>1, CountIs
  <2>3. QED
    BY <2>2 DEF CountMatchesQueue, Outstanding, Uncounted, Popped
<1>7. TakenUp'
  <2>1. Uncounted = 0 /\ Uncounted' = 1
    BY <1>1 DEF Uncounted
  <2>2. Len(m_write_queue') > 1 => n > 0
    BY <1>3, <1>4
  <2>3. QED
    BY <1>1, <2>1, <2>2 DEF TakenUp
<1>8. OneCompletion' /\ RequestStaysQueued' /\ HandlerAlone' /\ FreshReader'
  BY <1>1, <1>4 DEF OneCompletion, RequestStaysQueued, HandlerAlone, FreshReader
<1>9. SerialTypes'
  BY <1>1, <1>4 DEF SerialTypes
<1>10. QED
  BY <1>5, <1>6, <1>7, <1>8, <1>9

(* Counted modulo 2^w, also when the count stood at SIZE_MAX.              *)
LEMMA Counted ==
  ASSUME NEW n \in -1 .. MaxWrites + 1,
         NEW c, c = n % CountModulus
  PROVE  (c + 1) % CountModulus = (n + 1) % CountModulus
<1>1. CASE n = -1
  <2>1. c + 1 = CountModulus /\ n + 1 = 0
    BY <1>1, SmallModulus, Constants
  <2>2. CountModulus % CountModulus = 0 /\ 0 % CountModulus = 0
    BY SmallModulus, Constants
  <2>3. QED
    BY <2>1, <2>2
<1>2. CASE n >= 0
  BY <1>2, SmallModulus, Constants
<1>3. QED
  BY <1>1, <1>2

LEMMA CountPreserves == ASSUME SerialInv, Count PROVE SerialInv'
<1> USE DEF SerialInv, WritesInv, deviceVars, portVars, writeVars
<1>1. /\ writer = "count" /\ writer' = "wait"
      /\ ready' = IF m_write_count = 0 THEN Append(ready, <<"start", "none">>) ELSE ready
      /\ UNCHANGED <<readOp, m_state, writeVars, io, m_write_queue, next, answered, closing>>
  BY DEF Count
<1>2. /\ ready' \in Seq(Handlers) /\ OneWrite(ready')
      /\ \A op : Has(ready', op) <=> Has(ready, op) \/ (op = "start" /\ m_write_count = 0)
      /\ ReadFails(ready') <=> ReadFails(ready)
  <2>1. <<"start", "none">> \in Handlers
    BY DEF Handlers
  <2>2. CASE m_write_count = 0
    BY <1>1, <2>1, <2>2, PostedOne DEF SerialTypes, OneCompletion
  <2>3. CASE m_write_count # 0
    BY <1>1, <2>3 DEF SerialTypes, OneCompletion
  <2>4. QED
    BY <2>2, <2>3
<1>3. /\ Uncounted = 1 /\ Uncounted' = 0 /\ Popped' = Popped /\ Popped \in {0, 1}
      /\ (io = "idle" => Popped = 0)
  BY <1>1 DEF Uncounted, Popped
<1>4. Len(m_write_queue) \in Nat
  BY QueueIs
<1>5. CountMatchesQueue'
  <2>1. Outstanding' = Outstanding + 1
    BY <1>1, <1>3, <1>4 DEF Outstanding
  <2>2. m_write_count' = Outstanding' % CountModulus
    BY <2>1, CountIs, Counted DEF Count
  <2>3. QED
    BY <2>2 DEF CountMatchesQueue, Outstanding, Uncounted, Popped
<1>6. TakenUp'
  <2> SUFFICES ASSUME Len(m_write_queue) > 0, io = "idle", ~m_write_in_flight
               PROVE  Has(ready', "start")
    BY <1>1, <1>3 DEF TakenUp
  <2>1. CASE Len(m_write_queue) > 1
    <3>1. Len(m_write_queue) > Uncounted
      BY <1>3, <2>1
    <3>2. Has(ready, "start")
      BY <3>1 DEF TakenUp
    <3>3. QED
      BY <1>2, <3>2
  <2>2. CASE Len(m_write_queue) = 1
    <3>1. Popped = 0
      BY <1>3
    <3>2. Outstanding = 0
      BY <1>3, <2>2, <3>1 DEF Outstanding
    <3>3. m_write_count = 0
      BY <3>2, CountIs
    <3>4. QED
      BY <1>2, <3>3
  <2>3. Len(m_write_queue) > 1 \/ Len(m_write_queue) = 1
    <3>1. \A n \in Nat : n > 0 => n > 1 \/ n = 1
      OBVIOUS
    <3>2. QED
      BY <1>4, <3>1
  <2>4. QED
    BY <2>1, <2>2, <2>3
<1>7. OneCompletion' /\ RequestStaysQueued'
  BY <1>1, <1>2 DEF OneCompletion, RequestStaysQueued
<1>8. QueueInOrder' /\ HandlerAlone'
  <2>1. Newest' = Newest
    BY <1>1 DEF Newest
  <2>2. QueueInOrder'
    BY <1>1, <2>1 DEF QueueInOrder
  <2>3. HandlerAlone'
    <3>1. closing = "no" /\ ~Has(ready, "close")
      BY <1>1 DEF HandlerAlone
    <3>2. closing' = "no" /\ ~Has(ready', "close")
      BY <1>1, <1>2, <3>1
    <3>3. QED
      BY <1>1, <3>2 DEF HandlerAlone
  <2>4. QED
    BY <2>2, <2>3
<1>9. FreshReader'
  BY <1>1, <1>2 DEF FreshReader
<1>10. SerialTypes'
  BY <1>1, <1>2 DEF SerialTypes
<1>11. QED
  BY <1>5, <1>6, <1>7, <1>8, <1>9, <1>10

LEMMA CallerPreserves == ASSUME SerialInv, Write \/ Return \/ GiveUp PROVE SerialInv'
<1> USE DEF SerialInv, WritesInv, deviceVars, portVars, writeVars, queueVars
<1>1. /\ UNCHANGED <<readOp, m_state, writeVars, ready, io, queueVars, answered, closing>>
      /\ writer # "count" /\ writer' # "count"
  BY DEF Write, Return, GiveUp
<1>2. \/ writer = "idle" /\ writer' = "enqueue" /\ next' = next /\ next <= MaxWrites
         /\ closing = "no"
      \/ writer = "wait" /\ writer' = "idle" /\ next' = next + 1
  BY DEF Write, Return, GiveUp
<1>3. /\ writer' \in {"idle", "enqueue", "count", "wait"}
      /\ next' \in 1 .. MaxWrites + 1
      /\ writer' # "idle" => next' <= MaxWrites
  <2>1. next \in 1 .. MaxWrites + 1 /\ (writer = "wait" => next <= MaxWrites)
    BY DEF SerialTypes
  <2>2. QED
    BY <1>2, <2>1, Constants
<1>4. Newest' = Newest
  <2>1. next \in Nat
    BY QueueIs
  <2>2. QED
    BY <1>2, <2>1 DEF Newest
<1>5. QueueInOrder'
  BY <1>1, <1>4 DEF QueueInOrder
<1>6. OneCompletion' /\ RequestStaysQueued' /\ FreshReader'
  BY <1>1 DEF OneCompletion, RequestStaysQueued, FreshReader
<1>7. CountMatchesQueue' /\ TakenUp'
  BY <1>1 DEF CountMatchesQueue, TakenUp, Uncounted
<1>8. HandlerAlone'
  <2>1. closing = "no"
    BY <1>2 DEF HandlerAlone
  <2>2. QED
    BY <1>1, <2>1 DEF HandlerAlone
<1>9. SerialTypes'
  BY <1>1, <1>3 DEF SerialTypes
<1>10. QED
  BY <1>5, <1>6, <1>7, <1>8, <1>9

-----------------------------------------------------------------------------
LEMMA ClosePreserves == ASSUME SerialInv, Close \/ Closing PROVE SerialInv'
<1> USE DEF SerialInv, WritesInv, deviceVars, portVars, writeVars, queueVars, callVars
<1>1. /\ UNCHANGED <<readOp, writeVars, io, queueVars, writer, next, answered>>
      /\ m_state' \in {m_state, "Disconnected"}
      /\ closing' # "no"
      /\ writer = "idle" /\ 1 .. next - 1 \subseteq answered
  BY DEF Close, Closing, ClosePosts, CloseStops, CloseJoins, HandlerAlone
<1>2. /\ ready' \in Seq(Handlers) /\ OneWrite(ready')
      /\ \A op : op # "close" => (Has(ready', op) <=> Has(ready, op))
  <2>1. CASE ready' = ready
    BY <2>1 DEF SerialTypes, OneCompletion
  <2>2. CASE ready' = Append(ready, <<"close", "none">>)
    <3>1. <<"close", "none">> \in Handlers
      BY DEF Handlers
    <3>2. QED
      BY <2>2, <3>1, PostedOne DEF SerialTypes, OneCompletion
  <2>3. QED
    BY <2>1, <2>2 DEF Close, Closing, ClosePosts, CloseStops, CloseJoins
<1>3. OneCompletion' /\ RequestStaysQueued' /\ HandlerAlone' /\ FreshReader'
  BY <1>1, <1>2 DEF OneCompletion, RequestStaysQueued, HandlerAlone, FreshReader
<1>4. QueueInOrder' /\ CountMatchesQueue' /\ TakenUp'
  BY <1>1, <1>2 DEF QueueInOrder, Newest, CountMatchesQueue, TakenUp, Uncounted
<1>5. SerialTypes'
  BY <1>1, <1>2 DEF SerialTypes
<1>6. QED
  BY <1>3, <1>4, <1>5

(* The port is closed by the I/O thread when no request is queued: the     *)
(* drain that follows pops nothing under a write.                          *)
LEMMA PortClosedPreserves == ASSUME SerialInv, PortClosed PROVE SerialInv'
<1> USE DEF SerialInv, WritesInv, deviceVars, queueVars, callVars
<1>1. /\ ready # <<>> /\ Head(ready) = <<"close", "none">>
      /\ ready' = Tail(ready) \o Aborted
      /\ readOp' = FALSE /\ writeOp' = FALSE
      /\ io = "idle" /\ io' = "drain"
      /\ UNCHANGED <<m_state, m_write_in_flight, request, queueVars, callVars>>
  BY DEF PortClosed, Runs
<1>2. /\ Tail(ready) \in Seq(Handlers) /\ OneWrite(Tail(ready))
      /\ \A op : Has(ready, op) <=> Head(ready)[1] = op \/ Has(Tail(ready), op)
  BY <1>1, TakenOne DEF SerialTypes, OneCompletion
<1>3. closing # "no" /\ writer = "idle" /\ 1 .. next - 1 \subseteq answered
  BY <1>1, <1>2 DEF HandlerAlone
<1>4. m_write_queue = <<>>
  <2>1. Newest = next - 1
    BY <1>3 DEF Newest
  <2>2. m_write_queue # <<>> => 1 \in 1 .. Len(m_write_queue) /\ m_write_queue[1] \in answered
    BY <1>3, <2>1, QueueIs
  <2>3. QED
    BY <1>1, <2>2 DEF QueueInOrder
<1>5. ~m_write_in_flight /\ ~writeOp /\ ~Has(ready, "write")
  BY <1>4 DEF RequestStaysQueued, OneCompletion
<1>6. /\ ready' \in Seq(Handlers) /\ OneWrite(ready')
      /\ Has(ready', "write") <=> Has(Tail(ready), "write")
  <2>1. writeOp => ~Has(Tail(ready), "write")
    BY <1>5
  <2>2. /\ Tail(ready) \o Aborted \in Seq(Handlers) /\ OneWrite(Tail(ready) \o Aborted)
        /\ Has(Tail(ready) \o Aborted, "write") <=> writeOp \/ Has(Tail(ready), "write")
    <3> DEFINE rest == Tail(ready)
    <3> HIDE DEF rest
    <3>1. rest \in Seq(Handlers) /\ OneWrite(rest) /\ (writeOp => ~Has(rest, "write"))
      BY <1>2, <2>1 DEF rest
    <3>2. /\ rest \o Aborted \in Seq(Handlers) /\ OneWrite(rest \o Aborted)
          /\ \A op : Has(rest \o Aborted, op) <=> \/ Has(rest, op)
                                                  \/ op = "read" /\ readOp
                                                  \/ op = "write" /\ writeOp
      BY ONLY <3>1, PostedAborted
    <3>3. QED
      BY ONLY <3>2 DEF rest
  <2>3. QED
    BY <1>1, <1>5, <2>2
<1>7. OneCompletion' /\ RequestStaysQueued'
  BY <1>1, <1>2, <1>5, <1>6 DEF OneCompletion, RequestStaysQueued
<1>8. HandlerAlone' /\ FreshReader'
  BY <1>1, <1>3, <1>5 DEF HandlerAlone, FreshReader
<1>9. QueueInOrder'
  BY <1>1 DEF QueueInOrder, Newest
<1>10. CountMatchesQueue' /\ TakenUp'
  BY <1>1 DEF CountMatchesQueue, TakenUp
<1>11. SerialTypes'
  BY <1>1, <1>6 DEF SerialTypes
<1>12. QED
  BY <1>7, <1>8, <1>9, <1>10, <1>11

-----------------------------------------------------------------------------
(* The mark of the read loop.  The failure of a read is not lost among the *)
(* handlers, and taking it clears the mark, as every loss of the device.   *)
LEMMA WriteLoopKeepsReads ==
  ASSUME NEW port, NEW hs \in Seq(Handlers), start_write_loop(port, hs), ReadFails(hs)
  PROVE  ReadFails(ready')
<1>1. <<"write", "failed">> \in Handlers
  BY DEF Handlers
<1>2. ReadFails(Append(hs, <<"write", "failed">>))
  BY <1>1, PostedOne
<1>3. QED
  BY <1>2 DEF start_write_loop

LEMMA AnotherHandler ==
  ASSUME SerialInv, ready # <<>>, Head(ready) # <<"read", "failed">>, ReadFails(ready)
  PROVE  Tail(ready) \in Seq(Handlers) /\ ReadFails(Tail(ready))
  BY TakenOne DEF SerialInv, SerialTypes

LEMMA ReadingKeepsMark ==
  ASSUME SerialInv, LoopMarked,
         \/ Unplug \/ Plug \/ ReadEnds \/ WriteEnds \/ TimerExpires
         \/ OnData \/ NotReopened \/ HalfReopened
  PROVE  LoopMarked'
<1>1. ready \in Seq(Handlers)
  BY DEF SerialInv, SerialTypes
<1>2. CASE Unplug \/ Plug
  BY <1>2 DEF Unplug, Plug, LoopMarked, portVars, callVars
<1>3. CASE ReadEnds
  <2>1. ready' = Append(ready, <<"read", "failed">>) /\ <<"read", "failed">> \in Handlers
    BY <1>3 DEF ReadEnds, Handlers
  <2>2. ReadFails(ready')
    BY <1>1, <2>1, PostedOne
  <2>3. QED
    BY <2>2 DEF LoopMarked
<1>4. CASE WriteEnds \/ TimerExpires
  <2>1. PICK h \in Handlers : ready' = Append(ready, h)
    BY <1>4 DEF WriteEnds, TimerExpires, Handlers
  <2>2. ReadFails(ready) => ReadFails(ready')
    BY <1>1, <2>1, PostedOne
  <2>3. UNCHANGED <<m_read_started, readOp, closing>>
    BY <1>4 DEF WriteEnds, TimerExpires, portVars, callVars
  <2>4. QED
    BY <2>2, <2>3 DEF LoopMarked
<1>5. CASE OnData \/ NotReopened \/ HalfReopened
  <2>1. /\ ready # <<>> /\ Head(ready) # <<"read", "failed">> /\ ready' = Tail(ready)
        /\ UNCHANGED closing
        /\ readOp' \/ UNCHANGED <<m_read_started, readOp>>
    BY <1>5 DEF OnData, NotReopened, HalfReopened, Runs, start_read_loop, callVars
  <2>2. ReadFails(ready) => ReadFails(ready')
    BY <2>1, AnotherHandler
  <2>3. CASE readOp'
    BY <2>3 DEF LoopMarked
  <2>4. CASE UNCHANGED <<m_read_started, readOp>>
    BY <2>1, <2>2, <2>4 DEF LoopMarked
  <2>5. QED
    BY <2>1, <2>3, <2>4
<1>6. QED
  BY <1>2, <1>3, <1>4, <1>5

LEMMA HandlersKeepMark ==
  ASSUME SerialInv, LoopMarked,
         \/ StartWrites \/ Reopened \/ ReadFailed \/ Written \/ WriteFailed
         \/ Pop \/ Subtract \/ Drain \/ DrainPop \/ DrainSubtract \/ DrainEnds
  PROVE  LoopMarked'
<1>0. UNCHANGED closing
  BY DEF StartWrites, Reopened, ReadFailed, Written, WriteFailed, Pop, Subtract, Drain, DrainPop,
         DrainSubtract, DrainEnds, callVars
<1>1. CASE StartWrites \/ Reopened
  <2>1. /\ ready # <<>> /\ Head(ready) # <<"read", "failed">>
        /\ \E port : start_write_loop(port, Tail(ready))
        /\ readOp' \/ UNCHANGED <<m_read_started, readOp>>
    BY <1>1 DEF StartWrites, Reopened, Runs, start_read_loop, portVars
  <2>2. ReadFails(ready) => ReadFails(ready')
    BY <2>1, AnotherHandler, WriteLoopKeepsReads
  <2>3. CASE readOp'
    BY <2>3 DEF LoopMarked
  <2>4. CASE UNCHANGED <<m_read_started, readOp>>
    BY <1>0, <2>2, <2>4 DEF LoopMarked
  <2>5. QED
    BY <2>1, <2>3, <2>4
<1>2. CASE ReadFailed
  <2>1. closing = "no" => m_read_started' = FALSE
    BY <1>2 DEF ReadFailed, handle_disconnection, m_is_closed_by_user
  <2>2. QED
    BY <1>0, <2>1 DEF LoopMarked
<1>3. CASE Written \/ WriteFailed
  <2>1. /\ ready # <<>> /\ Head(ready) # <<"read", "failed">> /\ ready' = Tail(ready)
        /\ UNCHANGED <<m_read_started, readOp>>
    BY <1>3 DEF Written, WriteFailed, Runs, portVars
  <2>2. QED
    BY <1>0, <2>1, AnotherHandler DEF LoopMarked
<1>4. CASE Pop \/ Drain \/ DrainPop \/ DrainSubtract
  BY <1>0, <1>4 DEF Pop, Drain, DrainPop, DrainSubtract, LoopMarked, portVars
<1>5. CASE Subtract
  <2>1. ready \in Seq(Handlers)
    BY DEF SerialInv, SerialTypes
  <2>2. ReadFails(ready) => ReadFails(ready')
    BY <1>5, <2>1, WriteLoopKeepsReads DEF Subtract
  <2>3. QED
    BY <1>0, <1>5, <2>2 DEF Subtract, LoopMarked, portVars
<1>6. CASE DrainEnds
  <2>1. m_read_started' = FALSE \/ UNCHANGED <<m_read_started, readOp, ready>>
    BY <1>6 DEF DrainEnds, handle_disconnection
  <2>2. QED
    BY <1>0, <2>1 DEF LoopMarked
<1>7. QED
  BY <1>1, <1>2, <1>3, <1>4, <1>5, <1>6

LEMMA CallersKeepMark ==
  ASSUME SerialInv, LoopMarked,
         \/ Write \/ Enqueue \/ Count \/ Return \/ GiveUp \/ Close \/ Closing \/ PortClosed
         \/ UNCHANGED vars
  PROVE  LoopMarked'
<1>1. CASE Write \/ Enqueue \/ Return \/ GiveUp \/ UNCHANGED vars
  BY <1>1 DEF Write, Enqueue, Return, GiveUp, vars, LoopMarked, portVars, callVars
<1>2. CASE Count
  <2>1. ready \in Seq(Handlers) /\ <<"start", "none">> \in Handlers
    BY DEF SerialInv, SerialTypes, Handlers
  <2>2. ReadFails(ready) => ReadFails(ready')
    BY <1>2, <2>1, PostedOne DEF Count
  <2>3. QED
    BY <1>2, <2>2 DEF Count, LoopMarked, portVars
<1>3. CASE Close \/ Closing
  BY <1>3 DEF Close, Closing, ClosePosts, CloseStops, CloseJoins, LoopMarked
<1>4. CASE PortClosed
  <2>1. ready # <<>> /\ Head(ready)[1] = "close" /\ UNCHANGED closing
    BY <1>4 DEF PortClosed, Runs, callVars
  <2>2. closing # "no"
    BY <2>1, TakenOne DEF SerialInv, WritesInv, HandlerAlone, SerialTypes
  <2>3. QED
    BY <2>1, <2>2 DEF LoopMarked
<1>5. QED
  BY <1>1, <1>2, <1>3, <1>4

(* The inductive invariant: SerialInv, which a port opened anew preserves  *)
(* because its read loop is not marked as started.                         *)
THEOREM SerialInvariant == Spec => [](SerialInv /\ LoopMarked)
<1>1. SerialInv /\ UNCHANGED vars => SerialInv'
  <2> SUFFICES ASSUME SerialInv, UNCHANGED vars PROVE SerialInv'
    OBVIOUS
  <2> USE DEF SerialInv, WritesInv, vars, deviceVars, portVars, writeVars, queueVars, callVars
  <2>1. SerialTypes'
    BY DEF SerialTypes
  <2>2. OneCompletion' /\ RequestStaysQueued'
    BY DEF OneCompletion, RequestStaysQueued
  <2>3. QueueInOrder' /\ HandlerAlone'
    BY DEF QueueInOrder, Newest, HandlerAlone
  <2>4. CountMatchesQueue' /\ TakenUp'
    BY DEF CountMatchesQueue, TakenUp, Uncounted
  <2>5. FreshReader'
    BY DEF FreshReader
  <2>6. QED
    BY <2>1, <2>2, <2>3, <2>4, <2>5
<1>2. SerialInv /\ LoopMarked /\ [Next]_vars => SerialInv'
  BY <1>1, ReadingPreserves, StartingPreserves, ReadFailedPreserves, WriteEndsPreserves,
     CompletionPreserves, PopPreserves, SubtractPreserves, DrainPreserves, DrainEndsPreserves,
     EnqueuePreserves, CountPreserves, CallerPreserves, ClosePreserves, PortClosedPreserves
     DEF Next, Handle
<1>3. SerialInv /\ LoopMarked /\ [Next]_vars => LoopMarked'
  BY ReadingKeepsMark, HandlersKeepMark, CallersKeepMark DEF Next, Handle
<1>4. Init => LoopMarked
  BY DEF Init, LoopMarked
<1>5. QED
  BY InitEstablishes, <1>2, <1>3, <1>4, PTL DEF Spec

(* No request is forgotten: as long as one is queued, somebody is about to *)
(* take it up, however the caller and the I/O thread interleave on the     *)
(* queue and on its count.                                                 *)
THEOREM NoWriteIsStranded == Spec => []NoStrandedWrite
<1>1. SerialInv => NoStrandedWrite
  <2> SUFFICES ASSUME SerialInv PROVE NoStrandedWrite
    OBVIOUS
  <2>1. ASSUME m_write_queue # <<>>, writer # "count"
        PROVE  m_write_in_flight \/ Posted("start") \/ io # "idle"
    <3>1. Len(m_write_queue) > 0 /\ Uncounted = 0
      BY <2>1, QueueIs DEF SerialInv, WritesInv, Uncounted
    <3>2. m_write_in_flight \/ Has(ready, "start") \/ io # "idle"
      BY <3>1 DEF SerialInv, WritesInv, TakenUp
    <3>3. QED
      BY <3>2 DEF Has, Posted
  <2>2. QED
    BY <2>1 DEF NoStrandedWrite, SerialInv, WritesInv
<1>2. QED
  BY <1>1, SerialInvariant, PTL

(* The completion of a write finds the request it was started for.         *)
THEOREM RequestsStayQueued == Spec => []RequestStaysQueued
<1>1. SerialInv => RequestStaysQueued
  BY DEF SerialInv, WritesInv
<1>2. QED
  BY <1>1, SerialInvariant, PTL

(* A connected port is being read, or is about to be: neither the losses   *)
(* of the device nor the reads they abort leave it deaf.                   *)
THEOREM ReaderStaysAlive == Spec => []ReaderAlive
<1>1. SerialInv => ReaderAlive
  <2>1. ReadFails(ready) => Posted("read")
    BY DEF ReadFails, Posted
  <2>2. Has(ready, "on_data") <=> Posted("on_data")
    BY DEF Has, Posted
  <2>3. QED
    BY <2>1, <2>2 DEF SerialInv, FreshReader, ReaderAlive, m_is_closed_by_user
<1>2. QED
  BY <1>1, SerialInvariant, PTL

(* The safe half of CloseIsFinal.  Once close() has returned the port is   *)
(* disconnected and stays so, no handler is half-way through, and every    *)
(* request that was ever made has its answer.                              *)
ClosedForGood ==
  closing = "closed" => /\ m_state = "Disconnected" /\ io = "idle"
                        /\ writer = "idle" /\ 1 .. next - 1 \subseteq answered

THEOREM ClosedStaysClosed ==
  Spec => []ClosedForGood /\ [][closing = "closed" => closing' = "closed" /\ ~Handle]_vars
<1> DEFINE AtRest == closing = "closed" => m_state = "Disconnected" /\ io = "idle"
<1>1. Init => AtRest
  BY DEF Init
<1>2. ASSUME AtRest, closing = "closed", Next PROVE ~Handle /\ UNCHANGED <<closing, m_state, io>>
  <2>1. ~Handle
    BY <1>2 DEF Handle, OnData, StartWrites, ReadFailed, Written, Pop, Subtract, WriteFailed, Drain,
                DrainPop, DrainSubtract, DrainEnds, NotReopened, HalfReopened, Reopened, PortClosed,
                Runs, Stopped
  <2>2. Unplug \/ Plug \/ ReadEnds \/ WriteEnds \/ TimerExpires \/ Write \/ Enqueue \/ Count \/ Return
          \/ GiveUp
    BY <1>2, <2>1 DEF Next, Close, Closing, ClosePosts, CloseStops, CloseJoins
  <2>3. QED
    BY <2>1, <2>2 DEF Unplug, Plug, ReadEnds, WriteEnds, TimerExpires, Write, Enqueue, Count, Return,
                      GiveUp, portVars, callVars
<1>3. ASSUME AtRest, closing # "closed", Next PROVE AtRest'
  <2>1. CASE CloseJoins
    BY <2>1 DEF CloseJoins
  <2>2. CASE ~CloseJoins
    <3>1. closing' # "closed"
      BY <1>3, <2>2 DEF Next, Unplug, Plug, ReadEnds, WriteEnds, TimerExpires, Write, Enqueue, Count,
                        Return, GiveUp, Close, Closing, ClosePosts, CloseStops, Handle, OnData,
                        StartWrites, ReadFailed, Written, Pop, Subtract, WriteFailed, Drain, DrainPop,
                        DrainSubtract, DrainEnds, NotReopened, HalfReopened, Reopened, PortClosed,
                        callVars
    <3>2. QED
      BY <3>1
  <2>3. QED
    BY <2>1, <2>2
<1>4. AtRest /\ UNCHANGED vars => AtRest'
  BY DEF vars, portVars, callVars
<1>5. AtRest /\ SerialInv => ClosedForGood
  BY DEF ClosedForGood, SerialInv, WritesInv, HandlerAlone
<1>6. AtRest /\ [Next]_vars => AtRest'
  BY <1>2, <1>3, <1>4
<1>7. AtRest /\ [Next]_vars => [closing = "closed" => closing' = "closed" /\ ~Handle]_vars
  BY <1>2
<1> HIDE DEF AtRest
<1>8. QED
  BY <1>1, <1>5, <1>6, <1>7, SerialInvariant, PTL DEF Spec
=============================================================================
