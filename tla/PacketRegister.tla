------------------------------ MODULE PacketRegister ------------------------------
(***************************************************************************)
(* What a packet slot promises its readers: a register that takes effect   *)
(* at one moment.  The packets delivered are numbered, and each lays its   *)
(* own number over the first parts of what the slot held: over all of them *)
(* if the frame was as long as the packet.  get answers what the slot held *)
(* at some moment between its call and its return.  So a get that begins   *)
(* after another has returned never answers older contents, whichever      *)
(* threads made the two calls.                                             *)
(*                                                                         *)
(* Nothing is promised to a get during which a frame of another packet,    *)
(* longer than that packet, runs over into the slot.                       *)
(***************************************************************************)
EXTENDS Integers, Sequences

CONSTANTS Callers, Parts,
          Foreign    \* stands for bytes of another packet

VARIABLES history,   \* what the slot has held, oldest first
          packets,   \* packets delivered
          stage,     \* "idle", "called" or "answered", per caller
          from,      \* the place in history when the caller's get began
          spoiled,   \* the slot was run over while the caller's get had no answer
          answer     \* what get returns while the stage is "answered"
registerVars == <<history, packets, stage, from, spoiled, answer>>

Nothing == [p \in Parts |-> 0]
Held    == history[Len(history)]

RegisterInit == /\ history = <<Nothing>>
                /\ packets = 0
                /\ stage   = [r \in Callers |-> "idle"]
                /\ from    = [r \in Callers |-> 1]
                /\ spoiled = [r \in Callers |-> FALSE]
                /\ answer  = [r \in Callers |-> Nothing]

(* A frame of n parts; n = 0 is one without a payload. *)
Deliver(n) ==
  /\ packets' = packets + 1
  /\ history' = Append(history, [p \in Parts |-> IF p <= n THEN packets + 1 ELSE Held[p]])
  /\ UNCHANGED <<stage, from, spoiled, answer>>

RunOverPart(p) ==
  /\ history' = Append(history, [Held EXCEPT ![p] = Foreign])
  /\ spoiled' = [r \in Callers |-> spoiled[r] \/ stage[r] = "called"]
  /\ UNCHANGED <<packets, stage, from, answer>>

Call(r) == /\ stage[r] = "idle"
           /\ stage' = [stage EXCEPT ![r] = "called"]
           /\ from'  = [from EXCEPT ![r] = Len(history)]
           /\ spoiled' = [spoiled EXCEPT ![r] = FALSE]
           /\ UNCHANGED <<history, packets, answer>>

Answer(r) == /\ stage[r] = "called"
             /\ stage' = [stage EXCEPT ![r] = "answered"]
             /\ \/ \E n \in from[r] .. Len(history) : answer' = [answer EXCEPT ![r] = history[n]]
                \/ spoiled[r] /\ answer' = [answer EXCEPT ![r] = answer'[r]]
             /\ UNCHANGED <<history, packets, from, spoiled>>

Leave(r) == /\ stage[r] = "answered"
            /\ stage'  = [stage EXCEPT ![r] = "idle"]
            /\ answer' = [answer EXCEPT ![r] = Nothing]
            /\ UNCHANGED <<history, packets, from, spoiled>>

RegisterNext == \/ \E p \in Parts : Deliver(p) \/ RunOverPart(p)
                \/ Deliver(0)
                \/ \E r \in Callers : Call(r) \/ Answer(r) \/ Leave(r)

RegisterSpec == RegisterInit /\ [][RegisterNext]_registerVars
=============================================================================
