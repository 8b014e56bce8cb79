---------------------------------- MODULE Serial ----------------------------------
(***************************************************************************)
(* Astrial's Serial, the port under the USB transport.  The I/O thread     *)
(* runs handlers of one asio::io_context in the order they were posted;    *)
(* one writer at a time (the transport's mutex) queues requests and waits  *)
(* for their promises.  A lost device closes the port and a timer tries to *)
(* open it again.                                                          *)
(*                                                                         *)
(* Serial is opened by then, with auto_reconnect as by default, and        *)
(* on_data has been called once.  It is closed by the writer's side, as    *)
(* the transport does in its destructor.                                   *)
(*                                                                         *)
(* A system call interrupted by a signal is left out: its two branches     *)
(* start the same read, or the same request, again.                        *)
(***************************************************************************)
EXTENDS Integers, Sequences

CONSTANTS MaxWrites,      \* requests the writer issues
          MaxUnplugs,     \* times the device goes away
          MaxHalfOpens,   \* times the port opens but cannot be configured
          CountModulus    \* 2^w for size_t

ASSUME SerialAssumption ==
  /\ {MaxWrites, MaxUnplugs, MaxHalfOpens} \subseteq Nat
  /\ CountModulus \in Nat /\ CountModulus > MaxWrites + 1

VARIABLES
  plugged, unplugs,                      \* the device
  m_port, halfOpens,                     \* "closed"; "good" or "dead" with its device
  readOp, writeOp,                       \* operations pending in the port
  m_state, m_read_started, m_write_in_flight, timer,
  ready, io, ec,                         \* handlers posted; the one running; its error
  m_write_queue, m_write_count, request, \* request: the one being written
  writer, next, answered,                \* the caller of write; promises set
  closing                                \* how far close() got
deviceVars == <<plugged, unplugs>>
portVars   == <<m_port, halfOpens, readOp, m_state, m_read_started, timer>>
writeVars  == <<writeOp, m_write_in_flight, request>>
queueVars  == <<m_write_queue, m_write_count>>
callVars   == <<writer, next, answered, closing>>
vars == <<deviceVars, portVars, writeVars, ready, io, ec, queueVars, callVars>>

Init ==
  /\ plugged = TRUE /\ unplugs = 0
  /\ m_port = "good" /\ halfOpens = 0
  /\ readOp = FALSE /\ writeOp = FALSE
  /\ m_state = "Connected" /\ m_read_started = FALSE
  /\ m_write_in_flight = FALSE /\ timer = FALSE
  /\ ready = <<<<"on_data", "none">>>> /\ io = "idle" /\ ec = "none"
  /\ m_write_queue = <<>> /\ m_write_count = 0 /\ request = 0
  /\ writer = "idle" /\ next = 1 /\ answered = {} /\ closing = "no"

-----------------------------------------------------------------------------
(* The device, and the operating system completing what was started *)

Unplug ==
  /\ plugged /\ unplugs < MaxUnplugs
  /\ plugged' = FALSE
  /\ unplugs' = unplugs + 1
  /\ m_port' = IF m_port = "good" THEN "dead" ELSE m_port
  /\ UNCHANGED <<halfOpens, readOp, m_state, m_read_started, timer, writeVars, ready,
                 io, ec, queueVars, callVars>>

Plug ==
  /\ ~plugged
  /\ plugged' = TRUE
  /\ UNCHANGED <<unplugs, portVars, writeVars, ready, io, ec, queueVars, callVars>>

(* An operation pending in the port ends; a read that brings bytes is not  *)
(* modelled, nor a device that never takes what is written.                *)
ReadEnds ==
  /\ readOp /\ m_port = "dead"
  /\ readOp' = FALSE
  /\ ready' = Append(ready, <<"read", "failed">>)
  /\ UNCHANGED <<deviceVars, m_port, halfOpens, m_state, m_read_started, timer,
                 writeVars, io, ec, queueVars, callVars>>

WriteEnds ==
  /\ writeOp
  /\ writeOp' = FALSE
  /\ ready' = Append(ready, <<"write", IF m_port = "good" THEN "none" ELSE "failed">>)
  /\ UNCHANGED <<deviceVars, portVars, m_write_in_flight, request, io, ec, queueVars, callVars>>

TimerExpires ==
  /\ timer
  /\ timer' = FALSE
  /\ ready' = Append(ready, <<"timer", "none">>)
  /\ UNCHANGED <<deviceVars, m_port, halfOpens, readOp, m_state, m_read_started,
                 writeVars, io, ec, queueVars, callVars>>

-----------------------------------------------------------------------------
(* What handlers share *)

m_is_closed_by_user == closing # "no"
Stopped == closing \in {"stopped", "closed"}     \* the context runs no more handlers

(* The I/O thread takes the next handler: that of op, which ended in error. *)
RunsOn(op, error) ==     \* faulty: the context is not stopped
  io = "idle" /\ ready # <<>> /\ Head(ready) = <<op, error>>
Runs(op, error) == io = "idle" /\ ~Stopped /\ ready # <<>> /\ Head(ready) = <<op, error>>

(* A loop that is marked as started is not started again: the mark must    *)
(* have gone when the port is opened anew.                                 *)
start_read_loop ==
  \/ m_read_started /\ UNCHANGED <<m_read_started, readOp>>
  \/ ~m_read_started /\ m_read_started' = TRUE /\ readOp' = TRUE

(* start_write_loop on a port, when the handlers posted are hs: writing to *)
(* a closed port fails through the queue, like any other completion.       *)
start_write_loop(port, hs) ==
  \/ /\ m_write_in_flight \/ m_write_queue = <<>>
     /\ ready' = hs
     /\ UNCHANGED writeVars
  \/ /\ ~m_write_in_flight /\ m_write_queue # <<>>
     /\ m_write_in_flight' = TRUE
     /\ request' = Head(m_write_queue)
     /\ writeOp' = (port # "closed")
     /\ ready' = IF port = "closed" THEN Append(hs, <<"write", "failed">>) ELSE hs

(* Closing the port posts the operations pending in it as aborted. *)
Aborted == (IF readOp THEN <<<<"read", "aborted">>>> ELSE <<>>)
             \o (IF writeOp THEN <<<<"write", "aborted">>>> ELSE <<>>)

handle_disconnectionKeepsMark(error, readStarted, hs) ==   \* faulty: no reset of the mark
  \/ /\ error = "aborted" \/ m_state # "Connected"
     /\ ready' = hs
     /\ UNCHANGED <<m_port, readOp, writeOp, m_state, m_read_started, timer>>
  \/ /\ error = "failed" /\ m_state = "Connected"
     /\ ready' = hs \o Aborted
     /\ m_port' = "closed"
     /\ readOp' = FALSE /\ writeOp' = FALSE
     /\ m_state' = IF m_is_closed_by_user THEN "Disconnected" ELSE "Reconnecting"
     /\ timer' = ~m_is_closed_by_user
     /\ UNCHANGED m_read_started

(* Only the first error while connected closes the port and arms the timer. *)
handle_disconnection(error, readStarted, hs) ==
  \/ /\ error = "aborted" \/ m_state # "Connected"
     /\ ready' = hs
     /\ m_read_started' = readStarted
     /\ UNCHANGED <<m_port, readOp, writeOp, m_state, timer>>
  \/ /\ error = "failed" /\ m_state = "Connected"
     /\ ready' = hs \o Aborted
     /\ m_port' = "closed"
     /\ readOp' = FALSE /\ writeOp' = FALSE
     /\ m_read_started' = FALSE
     /\ m_state' = IF m_is_closed_by_user THEN "Disconnected" ELSE "Reconnecting"
     /\ timer' = ~m_is_closed_by_user

-----------------------------------------------------------------------------
(* The handlers *)

OnData ==
  /\ Runs("on_data", "none")
  /\ start_read_loop
  /\ ready' = Tail(ready)
  /\ UNCHANGED <<deviceVars, m_port, halfOpens, m_state, timer, writeVars, io, ec,
                 queueVars, callVars>>

StartWrites ==
  /\ Runs("start", "none")
  /\ start_write_loop(m_port, Tail(ready))
  /\ UNCHANGED <<deviceVars, portVars, io, ec, queueVars, callVars>>

ReadFailedDrains ==     \* faulty: a failed read gives up the queued writes too
  \E error \in {"failed", "aborted"} :
    /\ Runs("read", error)
    /\ io' = "drain" /\ ec' = error
    /\ m_read_started' = FALSE
    /\ ready' = Tail(ready)
    /\ UNCHANGED <<deviceVars, m_port, halfOpens, readOp, m_state, timer, writeVars,
                   queueVars, callVars>>

ReadFailed ==
  \E error \in {"failed", "aborted"} :
    /\ Runs("read", error)
    /\ LET quiet == error = "aborted" /\ m_is_closed_by_user
       IN  handle_disconnection(error, quiet /\ m_read_started, Tail(ready))
    /\ UNCHANGED <<deviceVars, halfOpens, m_write_in_flight, request, io, ec, queueVars,
                   callVars>>

(* A completed write sets the promise of its request, then pops it, then   *)
(* counts it off and starts on the next one, if the count says so.         *)
Written ==
  /\ Runs("write", "none")
  /\ m_write_in_flight' = FALSE
  /\ answered' = answered \cup {request}
  /\ ready' = Tail(ready)
  /\ io' = "pop"
  /\ UNCHANGED <<deviceVars, portVars, writeOp, request, ec, queueVars, writer, next, closing>>

Pop ==
  /\ io = "pop"
  /\ m_write_queue' = Tail(m_write_queue)
  /\ io' = "subtract"
  /\ UNCHANGED <<deviceVars, portVars, writeVars, ready, ec, m_write_count, callVars>>

MoreToWriteIfTwo == m_write_count > 2     \* faulty: off by one
MoreToWrite == m_write_count > 1

Subtract ==
  /\ io = "subtract"
  /\ m_write_count' = (m_write_count - 1) % CountModulus
  /\ io' = "idle"
  /\ \/ MoreToWrite /\ start_write_loop(m_port, ready)
     \/ ~MoreToWrite /\ UNCHANGED <<writeVars, ready>>
  /\ UNCHANGED <<deviceVars, portVars, ec, m_write_queue, callVars>>

(* A failed write answers every request queued, then reports the error. *)
WriteFailedAlone ==     \* faulty: the requests stay queued
  \E error \in {"failed", "aborted"} :
    /\ Runs("write", error)
    /\ m_write_in_flight' = FALSE
    /\ handle_disconnection(error, m_read_started, Tail(ready))
    /\ UNCHANGED <<deviceVars, halfOpens, request, io, ec, queueVars, callVars>>

WriteFailed ==
  \E error \in {"failed", "aborted"} :
    /\ Runs("write", error)
    /\ m_write_in_flight' = FALSE
    /\ ready' = Tail(ready)
    /\ io' = "drain" /\ ec' = error
    /\ UNCHANGED <<deviceVars, portVars, writeOp, request, queueVars, callVars>>

Drain ==
  /\ io = "drain" /\ m_write_queue # <<>>
  /\ answered' = answered \cup {Head(m_write_queue)}
  /\ io' = "drain pop"
  /\ UNCHANGED <<deviceVars, portVars, writeVars, ready, ec, queueVars, writer, next, closing>>

DrainPop ==
  /\ io = "drain pop"
  /\ m_write_queue' = Tail(m_write_queue)
  /\ io' = "drain subtract"
  /\ UNCHANGED <<deviceVars, portVars, writeVars, ready, ec, m_write_count, callVars>>

DrainSubtract ==
  /\ io = "drain subtract"
  /\ m_write_count' = (m_write_count - 1) % CountModulus
  /\ io' = "drain"
  /\ UNCHANGED <<deviceVars, portVars, writeVars, ready, ec, m_write_queue, callVars>>

DrainEnds ==
  /\ io = "drain" /\ m_write_queue = <<>>
  /\ io' = "idle" /\ ec' = "none"
  /\ handle_disconnection(ec, m_read_started, ready)
  /\ UNCHANGED <<deviceVars, halfOpens, m_write_in_flight, request, queueVars, callVars>>

-----------------------------------------------------------------------------
(* The reconnect timer *)

(* Opening fails without the device, and on a port that is open already. *)
NotReopenedGivesUp ==     \* faulty: no later try
  /\ Runs("timer", "none")
  /\ ~plugged \/ m_port # "closed"
  /\ ready' = Tail(ready)
  /\ UNCHANGED <<deviceVars, portVars, writeVars, io, ec, queueVars, callVars>>

NotReopened ==
  /\ Runs("timer", "none")
  /\ ~plugged \/ m_port # "closed"
  /\ timer' = ~m_is_closed_by_user
  /\ ready' = Tail(ready)
  /\ UNCHANGED <<deviceVars, m_port, halfOpens, readOp, m_state, m_read_started,
                 writeVars, io, ec, queueVars, callVars>>

(* The port opens, an option cannot be set: try later, the port stays open. *)
HalfReopened ==
  /\ Runs("timer", "none")
  /\ plugged /\ m_port = "closed" /\ halfOpens < MaxHalfOpens
  /\ halfOpens' = halfOpens + 1
  /\ m_port' = "good"
  /\ timer' = ~m_is_closed_by_user
  /\ ready' = Tail(ready)
  /\ UNCHANGED <<deviceVars, readOp, m_state, m_read_started, writeVars, io, ec,
                 queueVars, callVars>>

Reopened ==
  /\ Runs("timer", "none")
  /\ plugged /\ m_port = "closed"
  /\ m_port' = "good"
  /\ m_state' = "Connected"
  /\ start_read_loop
  /\ start_write_loop("good", Tail(ready))
  /\ UNCHANGED <<deviceVars, halfOpens, timer, io, ec, queueVars, callVars>>

-----------------------------------------------------------------------------
(* write *)

Write ==
  /\ writer = "idle" /\ next <= MaxWrites /\ closing = "no"
  /\ m_port # "closed"
  /\ writer' = "enqueue"
  /\ UNCHANGED <<deviceVars, portVars, writeVars, ready, io, ec, queueVars, next, answered,
                 closing>>

Enqueue ==
  /\ writer = "enqueue"
  /\ m_write_queue' = Append(m_write_queue, next)
  /\ writer' = "count"
  /\ UNCHANGED <<deviceVars, portVars, writeVars, ready, io, ec, m_write_count, next, answered,
                 closing>>

Count ==
  /\ writer = "count"
  /\ m_write_count' = (m_write_count + 1) % CountModulus
  /\ ready' = IF m_write_count = 0 THEN Append(ready, <<"start", "none">>) ELSE ready
  /\ writer' = "wait"
  /\ UNCHANGED <<deviceVars, portVars, writeVars, io, ec, m_write_queue, next, answered,
                 closing>>

Return ==
  /\ writer = "wait" /\ next \in answered
  /\ writer' = "idle" /\ next' = next + 1
  /\ UNCHANGED <<deviceVars, portVars, writeVars, ready, io, ec, queueVars, answered, closing>>

(* The overload with a timeout leaves its request queued. *)
GiveUp ==
  /\ writer = "wait" /\ next \notin answered
  /\ writer' = "idle" /\ next' = next + 1
  /\ UNCHANGED <<deviceVars, portVars, writeVars, ready, io, ec, queueVars, answered, closing>>

-----------------------------------------------------------------------------
(* close, by the thread whose writes have all returned with their answers  *)

(* The timer's handler, cancelled, does nothing. *)
Close ==
  /\ writer = "idle" /\ closing = "no" /\ 1 .. next - 1 \subseteq answered
  /\ closing' = "flagged"
  /\ timer' = FALSE
  /\ UNCHANGED <<deviceVars, m_port, halfOpens, readOp, m_state, m_read_started,
                 writeVars, ready, io, ec, queueVars, writer, next, answered>>

ClosePosts ==
  /\ closing = "flagged"
  /\ closing' = "posted"
  /\ ready' = Append(ready, <<"close", "none">>)
  /\ UNCHANGED <<deviceVars, portVars, writeVars, io, ec, queueVars, writer, next, answered>>

CloseStops ==
  /\ closing = "posted"
  /\ closing' = "stopped"
  /\ UNCHANGED <<deviceVars, portVars, writeVars, ready, io, ec, queueVars, writer, next,
                 answered>>

CloseJoins ==
  /\ closing = "stopped" /\ io = "idle"
  /\ closing' = "closed"
  /\ m_state' = "Disconnected"
  /\ UNCHANGED <<deviceVars, m_port, halfOpens, readOp, m_read_started, timer,
                 writeVars, ready, io, ec, queueVars, writer, next, answered>>

(* The handler posted, if it is reached before the context stops: a drain  *)
(* with the error handle_disconnection ignores.                            *)
PortClosed ==
  /\ Runs("close", "none")
  /\ m_port' = "closed"
  /\ readOp' = FALSE /\ writeOp' = FALSE
  /\ ready' = Tail(ready) \o Aborted
  /\ io' = "drain" /\ ec' = "aborted"
  /\ UNCHANGED <<deviceVars, halfOpens, m_state, m_read_started, timer,
                 m_write_in_flight, request, queueVars, callVars>>

-----------------------------------------------------------------------------
Handle == OnData \/ StartWrites \/ ReadFailed
          \/ Written \/ Pop \/ Subtract
          \/ WriteFailed \/ Drain \/ DrainPop \/ DrainSubtract \/ DrainEnds
          \/ NotReopened \/ HalfReopened \/ Reopened
          \/ PortClosed
Closing == ClosePosts \/ CloseStops \/ CloseJoins
Next == Unplug \/ Plug \/ ReadEnds \/ WriteEnds \/ TimerExpires
        \/ Handle
        \/ Write \/ Enqueue \/ Count \/ Return \/ GiveUp
        \/ Close \/ Closing

(* The I/O thread, the timer and a caller that has begun keep going, and   *)
(* the operating system ends what it was given.                            *)
Spec == Init /\ [][Next]_vars
        /\ WF_vars(Handle)
        /\ WF_vars(ReadEnds) /\ WF_vars(WriteEnds) /\ WF_vars(TimerExpires)
        /\ WF_vars(Enqueue) /\ WF_vars(Count) /\ WF_vars(Return)
        /\ WF_vars(Closing)

-----------------------------------------------------------------------------
Requests == 1 .. MaxWrites

(* The count is that of the queue but for a request one side has queued or *)
(* popped and not counted yet: it may pass below zero, to SIZE_MAX, and    *)
(* comes back.                                                             *)
CountMatchesQueue ==
  LET uncounted == IF writer = "count" THEN 1 ELSE 0
      popped    == IF io \in {"subtract", "drain subtract"} THEN 1 ELSE 0
  IN  m_write_count = (Len(m_write_queue) - uncounted + popped) % CountModulus

Posted(op) == \E i \in 1 .. Len(ready) : ready[i][1] = op

(* A queued request always has a step to come that will take it up: the    *)
(* write in flight, a start already posted, the caller about to post one,  *)
(* or the handler that runs; and the count that decides about posting one  *)
(* agrees with the queue, so that none is left out later.                  *)
NoStrandedWrite ==
  /\ m_write_queue # <<>> =>
       m_write_in_flight \/ Posted("start") \/ writer = "count" \/ io # "idle"
  /\ CountMatchesQueue

(* The completion of a write holds a pointer to its request: as long as it *)
(* may run, the request is still the first in the queue.                   *)
RequestStaysQueued ==
  m_write_in_flight => m_write_queue # <<>> /\ Head(m_write_queue) = request

(* While connected the port is being read, or a handler that will notice   *)
(* or start is posted: the arm is never silently deaf.                     *)
ReaderAlive ==
  m_state = "Connected" /\ ~m_is_closed_by_user =>
    readOp \/ Posted("on_data") \/ Posted("read")

(* A blocked write returns, device or no device. *)
WriteReturns ==
  \A r \in Requests : (writer = "wait" /\ next = r) ~> (next > r)

(* "try re-opening port ... failed, try later": once the device is back    *)
(* for good, the port ends up open, configured and connected.              *)
Reconnects == <>[]plugged => <>[](m_state = "Connected" /\ m_port = "good")

(* The same, unless opening the port failed half-way, or it was closed. *)
ReconnectsUnlessHalfOpen == Reconnects \/ <>(halfOpens > 0) \/ <>m_is_closed_by_user

(* close() returns, whatever the I/O thread was doing, and for good: a     *)
(* reconnection under way, or its handler posted, brings nothing back.     *)
CloseIsFinal == m_is_closed_by_user ~> [](closing = "closed" /\ m_state = "Disconnected")
=============================================================================
