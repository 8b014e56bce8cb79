------------------------------- MODULE BipBuffer -------------------------------
(***************************************************************************)
(* RPL::Containers::BipBuffer<SIZE>, the receive buffer of RPL's parser: a *)
(* byte memory in which the unread bytes occupy at most two regions.  The  *)
(* oldest bytes are region A, [region_a_start, +region_a_size); bytes      *)
(* written after a wrap are region B, which always starts at 0.            *)
(*                                                                         *)
(* This module is the data structure: its state, its observers and one     *)
(* action per state-changing method.  BipBufferCalls drives the whole      *)
(* interface; StreamParser is the parser that uses it.                     *)
(***************************************************************************)
EXTENDS Integers, Sequences

CONSTANTS SIZE,    \* capacity; the code fixes a power of two
          Bytes    \* the values a cell can hold; the memory starts zeroed

ASSUME BipAssumption == SIZE \in Nat \ {0} /\ Bytes \subseteq Nat /\ 0 \in Bytes

VARIABLES buffer, region_a_start, region_a_size, region_b_size
regions == <<region_a_start, region_a_size, region_b_size>>
bipVars == <<buffer, regions>>

BipInit == /\ buffer = [i \in 0 .. SIZE - 1 |-> 0]
           /\ region_a_start = 0
           /\ region_a_size = 0
           /\ region_b_size = 0

-----------------------------------------------------------------------------
(* Observers *)

AEnd       == region_a_start + region_a_size
available  == region_a_size + region_b_size
(* Faulty variants of an operator, named after it and defined just before  *)
(* it, serve in all modules to show that a property can fail.              *)
space      == IF region_b_size > 0 THEN region_a_start - region_b_size
                                   ELSE (SIZE - AEnd) + region_a_start

(* The span get_write_buffer offers: after B, else after A, else a new B.  *)
WriteSpan ==
  IF region_b_size > 0 THEN [at |-> region_b_size, size |-> region_a_start - region_b_size]
  ELSE IF AEnd < SIZE  THEN [at |-> AEnd, size |-> SIZE - AEnd]
  ELSE [at |-> 0, size |-> region_a_start]

(* get_write_buffer_force_wrap: B even when A's tail has room. *)
WrapSpan == IF region_b_size > 0 THEN WriteSpan ELSE [at |-> 0, size |-> region_a_start]

(* The unread byte at an offset, and the bytes get_read_spans and peek     *)
(* return: a first part from A and a second from B.                        *)
ByteAt(off) == IF off < region_a_size THEN buffer[region_a_start + off]
                                      ELSE buffer[off - region_a_size]
ReadSpansFromZero(off, n) ==     \* faulty: B's part always from its first byte
  LET inA == IF off >= region_a_size THEN 0
             ELSE IF n <= region_a_size - off THEN n ELSE region_a_size - off
  IN  <<[i \in 1 .. inA     |-> buffer[region_a_start + off + i - 1]],
        [i \in 1 .. n - inA |-> buffer[i - 1]]>>

ReadSpans(off, n) ==
  LET inA == IF off >= region_a_size THEN 0
             ELSE IF n <= region_a_size - off THEN n ELSE region_a_size - off
      fromB == IF off >= region_a_size THEN off - region_a_size ELSE 0
  IN  <<[i \in 1 .. inA     |-> buffer[region_a_start + off + i - 1]],
        [i \in 1 .. n - inA |-> buffer[fromB + i - 1]]>>

PeekBytes(off, n) == [i \in 1 .. n |-> ByteAt(off + i - 1)]

-----------------------------------------------------------------------------
(* State-changing methods.  A method that can refuse has a predicate for   *)
(* when it answers true; its action is the change it then makes.           *)

CopyTo(at, data) ==
  buffer' = [i \in 0 .. SIZE - 1 |-> IF i \in at .. at + Len(data) - 1
                                     THEN data[i - at + 1] ELSE buffer[i]]

AppendToA(n) == /\ region_a_size' = region_a_size + n
                /\ UNCHANGED <<region_a_start, region_b_size>>
AppendToB(n) == /\ region_b_size' = region_b_size + n
                /\ UNCHANGED <<region_a_start, region_a_size>>

(* advance_write_index(n): the code's branches in its order.  The third    *)
(* one takes any length while the buffer is empty.                         *)
AdvanceAccepts(n) ==
  \/ n = 0
  \/ region_b_size > 0 /\ region_b_size + n <= region_a_start
  \/ region_b_size = 0 /\ (n <= SIZE - AEnd \/ region_a_size = 0)
  \/ region_b_size = 0 /\ AEnd = SIZE /\ n <= region_a_start

advance_write_index(n) ==
  IF n = 0 THEN UNCHANGED regions
  ELSE IF region_b_size = 0 /\ (n <= SIZE - AEnd \/ region_a_size = 0)
       THEN AppendToA(n) ELSE AppendToB(n)

(* advance_write_index_wrapped(n), the commit after a forced wrap. *)
WrappedAccepts(n) == IF region_b_size > 0 THEN AdvanceAccepts(n) ELSE n <= region_a_start
advance_write_index_wrapped(n) == AppendToB(n)

(* write(data, n): the offered span if the data fits, else a fresh B. *)
WriteFitsNoWrap(n) == n <= WriteSpan.size

WriteFits(n) ==
  \/ n <= WriteSpan.size
  \/ region_b_size = 0 /\ n <= region_a_start

write(data) ==
  IF Len(data) <= WriteSpan.size
  THEN CopyTo(WriteSpan.at, data) /\ advance_write_index(Len(data))
  ELSE CopyTo(0, data) /\ AppendToB(Len(data))

(* discard(n): consume from A; on crossing into B, or when A runs out, B   *)
(* becomes A; an empty buffer starts again at 0.                           *)
DiscardAccepts(n) == n <= available

discardNoReset(n) ==     \* faulty: an emptied buffer does not start again at 0
  /\ UNCHANGED buffer
  /\ region_b_size' = IF n < region_a_size THEN region_b_size ELSE 0
  /\ region_a_size' = IF n < region_a_size THEN region_a_size - n ELSE available - n
  /\ region_a_start' = IF n < region_a_size THEN region_a_start + n ELSE n - region_a_size

discard(n) ==
  /\ UNCHANGED buffer
  /\ IF n < region_a_size \/ n = 0
     THEN /\ region_a_start' = region_a_start + n
          /\ region_a_size' = region_a_size - n
          /\ UNCHANGED region_b_size
     ELSE /\ region_a_size' = available - n
          /\ region_a_start' = IF n = available THEN 0 ELSE n - region_a_size
          /\ region_b_size' = 0

clear == /\ UNCHANGED buffer
         /\ region_a_start' = 0
         /\ region_a_size' = 0
         /\ region_b_size' = 0

-----------------------------------------------------------------------------
BipTypeOK == /\ buffer \in [0 .. SIZE - 1 -> Bytes]
             /\ region_a_start \in Nat
             /\ region_a_size \in Nat
             /\ region_b_size \in Nat

(* The regions never overlap, never leave the memory, and B exists only    *)
(* behind a non-empty A: what every memcpy of the class relies on.         *)
RegionsOK == /\ AEnd <= SIZE
             /\ region_b_size <= region_a_start
             /\ region_b_size > 0 => region_a_size > 0
             /\ available = 0 => region_a_start = 0
=============================================================================
