-------------------------------- MODULE ByteFifo --------------------------------
(***************************************************************************)
(* What a receive buffer promises its user: a bounded FIFO of bytes.  A    *)
(* write is taken whole or refused without a trace; a buffer with nothing  *)
(* unread refuses only what exceeds its capacity; discard, peek and read   *)
(* succeed exactly when that many bytes are unread, and what they return   *)
(* are the oldest bytes in the order they were written.                    *)
(*                                                                         *)
(* "last" is the last completed call with its offset and length, its       *)
(* verdict and the bytes that passed through it.                           *)
(***************************************************************************)
EXTENDS Integers, Sequences

CONSTANT Capacity

VARIABLES fifo, last
fifoVars == <<fifo, last>>

Call(op, at, n, ok, data) == [op |-> op, at |-> at, n |-> n, ok |-> ok, data |-> data]
Refused == UNCHANGED fifo /\ last'.ok = FALSE /\ last'.data = <<>>

FifoInit == fifo = <<>> /\ last = Call("none", 0, 0, TRUE, <<>>)

(* write, and a commit of bytes placed in an offered span *)
Put == /\ last'.op \in {"write", "commit"}
       /\ \/ /\ last'.ok
             /\ Len(last'.data) = last'.n
             /\ fifo' = fifo \o last'.data
             /\ Len(fifo') <= Capacity
          \/ /\ Refused
             /\ last'.op = "write" => fifo # <<>> \/ last'.n > Capacity

Drop == /\ last'.op = "discard"
        /\ \/ /\ last'.n <= Len(fifo)
              /\ last'.ok
              /\ fifo' = SubSeq(fifo, last'.n + 1, Len(fifo))
           \/ last'.n > Len(fifo) /\ Refused

Look == /\ last'.op = "look"
        /\ \/ /\ last'.at + last'.n <= Len(fifo)
              /\ last'.ok
              /\ last'.data = SubSeq(fifo, last'.at + 1, last'.at + last'.n)
              /\ UNCHANGED fifo
           \/ last'.at + last'.n > Len(fifo) /\ Refused

Take == /\ last'.op = "read"
        /\ \/ /\ last'.n <= Len(fifo)
              /\ last'.ok
              /\ last'.data = SubSeq(fifo, 1, last'.n)
              /\ fifo' = SubSeq(fifo, last'.n + 1, Len(fifo))
           \/ last'.n > Len(fifo) /\ Refused

Clear == last'.op = "clear" /\ fifo' = <<>>

FifoNext == Put \/ Drop \/ Look \/ Take \/ Clear

FifoSpec == FifoInit /\ [][FifoNext]_fifoVars
=============================================================================
