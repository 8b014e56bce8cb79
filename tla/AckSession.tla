-------------------------------- MODULE AckSession --------------------------------
(***************************************************************************)
(* Reliable requests: RPL::AckManager and the request / receive pair of    *)
(* RPL::USBTransport, as ArmImpl uses them.  The constructor takes the     *)
(* first id for s_fetchDeviceInfo, which waits for no ack.  Then client    *)
(* threads allocate a request id, send the request and spin in wait_ack;   *)
(* the I/O thread resolves ids from the acks it recognises in the received *)
(* chunks.                                                                 *)
(*                                                                         *)
(* The device and the cable are external: a request may be answered, late  *)
(* or never, and telemetry frames travel between the acks.                 *)
(***************************************************************************)
EXTENDS Integers, Sequences

CONSTANTS Clients,       \* threads that issue requests
          IdCount,       \* number of request ids; 256 in the code
          MaxRequests,   \* bound on the ids allocated
          MaxTelemetry,  \* bound on the telemetry frames sent
          ChunkFrames,   \* most frames one read of the port returns together
          MaxCuts,       \* bound on the reads that end inside a frame
          Status         \* what an ack may say of its request

ASSUME AckAssumption ==
  /\ IdCount \in Nat /\ 2 <= IdCount
  /\ {MaxRequests, MaxTelemetry, ChunkFrames, MaxCuts} \subseteq Nat
  /\ Status \cap {"none", "timeout"} = {}

Ids  == 0 .. IdCount - 1
Free == IdCount - 1          \* 0xFF marks a free slot, and is also an id

VARIABLES next_id_, pending_,
          pc, req_id, answer,   \* per client: where it is, its id, its last result
          issued, number,       \* ids allocated so far; each client's request
          requests,             \* sent and not yet handled by the device
          inbound,              \* frames on their way to the host
          verdict,              \* the id and status the device answered, per request
          received,             \* requests whose ack reached the host
          headed,               \* those whose ack began a chunk that held its id and status
          raced,                \* two clients allocated at once
          disturbed,            \* requests whose slot another request took while they waited
          misread,              \* payload was taken for an ack
          telemetry,            \* telemetry frames sent
          splitting, cuts       \* the next chunk begins inside a frame; frames cut
managerVars == <<next_id_, pending_>>
clientVars  == <<pc, req_id, answer, number>>
deviceVars  == <<requests, verdict, telemetry>>
hazards     == <<raced, disturbed, misread>>
vars == <<managerVars, clientVars, deviceVars, issued, inbound, received, headed, hazards,
          splitting, cuts>>

Init == /\ next_id_ = 1 % IdCount
        /\ pending_ = [i \in Ids |-> [req_id |-> Free, status |-> "none", resolved |-> FALSE]]
        /\ pc = [c \in Clients |-> "idle"]
        /\ req_id = [c \in Clients |-> 0]
        /\ answer = [c \in Clients |-> "none"]
        /\ number = [c \in Clients |-> 0]
        /\ issued = 0
        /\ requests = {}
        /\ inbound = <<>>
        /\ verdict = [r \in 1 .. MaxRequests |-> <<>>]
        /\ received = {} /\ headed = {}
        /\ raced = FALSE /\ disturbed = {} /\ misread = FALSE
        /\ telemetry = 0
        /\ splitting = FALSE /\ cuts = 0

-----------------------------------------------------------------------------
(* The constructor: s_fetchDeviceInfo allocates an id, which is number 1,  *)
(* and polls the pool for the answer.  The arm sends no ack for it, and    *)
(* the slot is given back by nobody.                                       *)
InfoId == 1 % IdCount

Taken(id) == [pending_ EXCEPT ![id] = [req_id |-> id, status |-> "none", resolved |-> FALSE]]

FetchDeviceInfo ==
  /\ issued = 0
  /\ issued < MaxRequests
  /\ issued' = 1
  /\ next_id_' = (next_id_ + 1) % IdCount
  /\ pending_' = Taken(next_id_)
  /\ UNCHANGED <<clientVars, deviceVars, inbound, received, headed, hazards, splitting, cuts>>

-----------------------------------------------------------------------------
(* Client threads: USBTransport::request *)

Goto(c, l) == pc' = [pc EXCEPT ![c] = l]

NextIdStuck(id) == id
NextId(id)      == (id + 1) % IdCount

(* allocate: next_id_++ is a read and a write with no lock around them. *)
AllocateRead(c) ==
  /\ pc[c] = "idle"
  /\ 0 < issued /\ issued < MaxRequests
  /\ issued' = issued + 1
  /\ number' = [number EXCEPT ![c] = issued + 1]
  /\ req_id' = [req_id EXCEPT ![c] = next_id_]
  /\ answer' = [answer EXCEPT ![c] = "none"]
  /\ raced' = (raced \/ \E d \in Clients : pc[d] = "allocate")
  /\ Goto(c, "allocate")
  /\ UNCHANGED <<managerVars, deviceVars, inbound, received, headed, disturbed, misread,
                 splitting, cuts>>

AllocateStore(c) ==
  /\ pc[c] = "allocate"
  /\ next_id_' = NextId(req_id[c])
  /\ pending_' = Taken(req_id[c])
  /\ disturbed' = disturbed \cup
                    LET sharing == {d \in Clients : pc[d] # "idle" /\ req_id[d] = req_id[c]}
                    IN  IF sharing = {c} THEN {} ELSE {number[d] : d \in sharing}
  /\ Goto(c, "send")
  /\ UNCHANGED <<req_id, answer, number, deviceVars, issued, inbound, received, headed,
                 raced, misread, splitting, cuts>>

Send(c) ==
  /\ pc[c] = "send"
  /\ requests' = requests \cup {[id |-> req_id[c], number |-> number[c]]}
  /\ Goto(c, "wait")
  /\ UNCHANGED <<managerVars, req_id, answer, number, verdict, telemetry,
                 issued, inbound, received, headed, hazards, splitting, cuts>>

(* wait_ack: leave the loop with a resolved slot, or on the clock; the     *)
(* clock may strike although the ack has just come in.                     *)
SeeResolved(c) ==
  /\ pc[c] = "wait"
  /\ pending_[req_id[c]].resolved
  /\ Goto(c, "resolved")
  /\ UNCHANGED <<managerVars, req_id, answer, number, deviceVars, issued, inbound,
                 received, headed, hazards, splitting, cuts>>

TimeUp(c) ==
  /\ pc[c] = "wait"
  /\ Goto(c, "timeout")
  /\ UNCHANGED <<managerVars, req_id, answer, number, deviceVars, issued, inbound,
                 received, headed, hazards, splitting, cuts>>

ReturnKeepsSlot(c) ==     \* faulty: a timeout leaves the slot taken
  /\ pc[c] \in {"resolved", "timeout"}
  /\ pending_' = IF pc[c] = "timeout" THEN pending_
                 ELSE [pending_ EXCEPT ![req_id[c]].req_id = Free]
  /\ answer' = [answer EXCEPT ![c] =
                  IF pc[c] = "timeout" THEN "timeout" ELSE pending_[req_id[c]].status]
  /\ Goto(c, "idle")
  /\ UNCHANGED <<next_id_, req_id, number, deviceVars, issued, inbound, received, headed,
                 hazards, splitting, cuts>>

Return(c) ==
  /\ pc[c] \in {"resolved", "timeout"}
  /\ pending_' = [pending_ EXCEPT ![req_id[c]].req_id = Free]
  /\ answer' = [answer EXCEPT ![c] =
                  IF pc[c] = "timeout" THEN "timeout" ELSE pending_[req_id[c]].status]
  /\ Goto(c, "idle")
  /\ UNCHANGED <<next_id_, req_id, number, deviceVars, issued, inbound, received, headed,
                 hazards, splitting, cuts>>

-----------------------------------------------------------------------------
(* The device and the cable (external): a request that is never taken      *)
(* from requests is one that was lost or ignored.                          *)

Ack(r, s) == [kind |-> "ack", id |-> r.id, status |-> s, number |-> r.number]
Telemetry == [kind |-> "telemetry"]

DeviceAnswers == \E r \in requests, s \in Status :
  /\ requests' = requests \ {r}
  /\ verdict' = [verdict EXCEPT ![r.number] = <<r.id, s>>]
  /\ inbound' = Append(inbound, Ack(r, s))
  /\ UNCHANGED <<managerVars, clientVars, telemetry, issued, received, headed, hazards,
                 splitting, cuts>>

DeviceReports ==
  /\ telemetry < MaxTelemetry
  /\ telemetry' = telemetry + 1
  /\ inbound' = Append(inbound, Telemetry)
  /\ UNCHANGED <<managerVars, clientVars, requests, verdict, issued, received, headed,
                 hazards, splitting, cuts>>

-----------------------------------------------------------------------------
(* The I/O thread: USBTransport::receive on one chunk.  Only the bytes at  *)
(* the very start of the chunk are looked at: their command field, and     *)
(* whether the chunk holds the id and the status of an ack (s_min_len).    *)
(* The parser then drops the acks further back, which have no slot.        *)

ResolveStatus(id, s) == pending_' = [pending_ EXCEPT ![id].status = s]     \* faulty
Resolve(id, s) ==
  pending_' = IF pending_[id].req_id = id
              THEN [pending_ EXCEPT ![id].status = s, ![id].resolved = TRUE]
              ELSE pending_

AcksIn(frames) == {f.number : f \in {g \in frames : g.kind = "ack"}}

(* After k whole frames a chunk may hold a first part of the next one.     *)
CutAfter(k) ==
  \/ splitting' = FALSE /\ UNCHANGED cuts
  \/ k < Len(inbound) /\ cuts < MaxCuts /\ splitting' = TRUE /\ cuts' = cuts + 1

Receive(k) ==
  /\ ~splitting
  /\ k <= Len(inbound)
  /\ IF inbound[1].kind = "ack"
     THEN Resolve(inbound[1].id, inbound[1].status)
     ELSE UNCHANGED pending_
  /\ received' = received \cup AcksIn({inbound[i] : i \in 1 .. k})
  /\ headed' = headed \cup AcksIn({inbound[1]})
  /\ inbound' = SubSeq(inbound, k + 1, Len(inbound))
  /\ CutAfter(k)
  /\ UNCHANGED <<next_id_, clientVars, deviceVars, issued, hazards>>

(* A chunk that is the first part of one frame: of an ack it resolves the  *)
(* request only if just the end of the frame's tail is missing.            *)
ReceiveFirstHalf ==
  /\ cuts < MaxCuts
  /\ ~splitting
  /\ inbound # <<>>
  /\ \/ UNCHANGED <<pending_, headed>>
     \/ /\ inbound[1].kind = "ack"
        /\ Resolve(inbound[1].id, inbound[1].status)
        /\ headed' = headed \cup {inbound[1].number}
  /\ splitting' = TRUE /\ cuts' = cuts + 1
  /\ UNCHANGED <<next_id_, clientVars, deviceVars, issued, inbound, received, hazards>>

(* A chunk that begins with the rest of a frame, k frames in all: the      *)
(* bytes at its start can read as an ack command, an id and a status, and  *)
(* the acks after them do not start the chunk.                             *)
ReceiveSecondHalf(k) ==
  /\ splitting
  /\ k <= Len(inbound)
  /\ \/ misread' = TRUE /\ \E id \in Ids, s \in Status : Resolve(id, s)
     \/ UNCHANGED <<pending_, misread>>
  /\ received' = received \cup AcksIn({inbound[i] : i \in 1 .. k})
  /\ inbound' = SubSeq(inbound, k + 1, Len(inbound))
  /\ CutAfter(k)
  /\ UNCHANGED <<next_id_, clientVars, deviceVars, issued, headed, raced, disturbed>>

Client(c) == \/ AllocateRead(c) \/ AllocateStore(c) \/ Send(c)
             \/ SeeResolved(c) \/ TimeUp(c) \/ Return(c)
Device == DeviceAnswers \/ DeviceReports
Io     == (\E k \in 1 .. ChunkFrames : Receive(k) \/ ReceiveSecondHalf(k)) \/ ReceiveFirstHalf

Next == FetchDeviceInfo \/ (\E c \in Clients : Client(c)) \/ Device \/ Io

Spec == Init /\ [][Next]_vars

-----------------------------------------------------------------------------
(* A request returns the device's answer to that very request, however     *)
(* many earlier ones timed out and are answered late.  Three things can    *)
(* take this away: an answer late by a whole round of the 256 ids,        *)
(* two threads in the unlocked allocate, and payload read as an ack.       *)
AnswerIsMine == \A c \in Clients :
  pc[c] = "idle" /\ answer[c] \in Status /\ ~raced /\ ~misread =>
    \E r \in 1 .. issued : /\ r % IdCount = number[c] % IdCount
                           /\ verdict[r] = <<req_id[c], answer[c]>>

(* "Reliable requests (response via Ack status)": once the ack of a        *)
(* request has been received, the client waiting for it finds it.          *)
ReceivedAckIsSeen == \A c \in Clients :
  pc[c] = "wait" /\ number[c] \in received => pending_[req_id[c]].resolved

(* What holds of it: a chunk must begin with the ack and hold its id and   *)
(* status, and no other request may have taken the slot in the meantime.   *)
HeadAckIsSeen == \A c \in Clients :
  pc[c] = "wait" /\ number[c] \in headed \ disturbed => pending_[req_id[c]].resolved

(* When no request is under way no slot of a request counts as pending:    *)
(* timed-out and answered requests both give theirs back.  The slot of     *)
(* s_fetchDeviceInfo stays pending, until the ids have come round to it    *)
(* (unless two threads in allocate at once upset the round).               *)
Pending == {i \in Ids : pending_[i].req_id # Free /\ ~pending_[i].resolved}
NoSlotLeaks == (\A c \in Clients : pc[c] = "idle") =>
  /\ Pending \subseteq {InfoId}
  /\ issued > IdCount /\ ~raced => Pending = {}
=============================================================================
