------------------------------ MODULE BipBufferCalls ------------------------------
(***************************************************************************)
(* A client calling every method of one BipBuffer in any order.  The       *)
(* zero-copy pair get_write_buffer / advance_write_index is one call here: *)
(* the client fills the offered span and commits the length.               *)
(***************************************************************************)
EXTENDS BipBuffer

CONSTANTS Lengths,      \* the lengths a client asks for
          WrongCommits  \* the lengths a client commits without having the room

ASSUME CallsAssumption == Lengths \subseteq Nat /\ WrongCommits \subseteq Nat

VARIABLE last
callVars == <<bipVars, last>>

AnswerAt(op, at, n, ok, data) ==
  last' = [op |-> op, at |-> at, n |-> n, ok |-> ok, data |-> data]
Answer(op, n, ok, data) == AnswerAt(op, 0, n, ok, data)
SomeData(n) == [1 .. n -> Bytes]

Write(n) == \E data \in SomeData(n) :
  \/ WriteFits(n) /\ write(data) /\ Answer("write", n, TRUE, data)
  \/ ~WriteFits(n) /\ UNCHANGED bipVars /\ Answer("write", n, FALSE, <<>>)

Commit(n) ==
  /\ n <= WriteSpan.size
  /\ AdvanceAccepts(n)
  /\ \E data \in SomeData(n) :
       CopyTo(WriteSpan.at, data) /\ advance_write_index(n) /\ Answer("commit", n, TRUE, data)

CommitWrapped(n) ==
  /\ n <= WrapSpan.size
  /\ WrappedAccepts(n)
  /\ \E data \in SomeData(n) :
       CopyTo(WrapSpan.at, data) /\ advance_write_index_wrapped(n) /\ Answer("commit", n, TRUE, data)

(* A commit of more than the span that was offered. *)
CommitTooMuch(n) ==
  /\ n > WriteSpan.size
  /\ \/ /\ AdvanceAccepts(n)
        /\ advance_write_index(n)
        /\ UNCHANGED buffer
        /\ Answer("commit", n, TRUE, <<>>)
     \/ ~AdvanceAccepts(n) /\ UNCHANGED bipVars /\ Answer("commit", n, FALSE, <<>>)

Discard(n) ==
  \/ DiscardAccepts(n) /\ discard(n) /\ Answer("discard", n, TRUE, <<>>)
  \/ ~DiscardAccepts(n) /\ UNCHANGED bipVars /\ Answer("discard", n, FALSE, <<>>)

(* get_read_spans and peek, which copies what the spans show. *)
GetReadSpans(off, n) ==
  /\ UNCHANGED bipVars
  /\ \/ /\ off + n <= available
        /\ AnswerAt("look", off, n, TRUE, ReadSpans(off, n)[1] \o ReadSpans(off, n)[2])
     \/ off + n > available /\ AnswerAt("look", off, n, FALSE, <<>>)

Peek(off, n) ==
  /\ UNCHANGED bipVars
  /\ \/ off + n <= available /\ AnswerAt("look", off, n, TRUE, PeekBytes(off, n))
     \/ off + n > available /\ AnswerAt("look", off, n, FALSE, <<>>)

Read(n) ==
  \/ n <= available /\ discard(n) /\ Answer("read", n, TRUE, PeekBytes(0, n))
  \/ n > available /\ UNCHANGED bipVars /\ Answer("read", n, FALSE, <<>>)

Clear == clear /\ Answer("clear", 0, TRUE, <<>>)

CallsInit == BipInit /\ last = [op |-> "none", at |-> 0, n |-> 0, ok |-> TRUE, data |-> <<>>]

CallsNext ==
  \/ \E n \in Lengths : \/ Write(n)
                        \/ Commit(n)
                        \/ CommitWrapped(n)
                        \/ Discard(n)
                        \/ Read(n)
                        \/ \E off \in Lengths : GetReadSpans(off, n) \/ Peek(off, n)
  \/ \E n \in WrongCommits : CommitTooMuch(n)
  \/ Clear

CallsSpec == CallsInit /\ [][CallsNext]_callVars

-----------------------------------------------------------------------------
(* The unread bytes, oldest first: the abstract FIFO. *)
Contents == PeekBytes(0, available)

(* Every method keeps the two regions disjoint and inside the memory.      *)
CallsTypeOK == BipTypeOK /\ RegionsOK

(* BipBuffer is a FIFO of bytes: no sequence of writes, zero-copy commits, *)
(* forced wraps, discards and reads loses, repeats, reorders or invents a  *)
(* byte, and each method answers what ByteFifo promises.                   *)
Fifo == INSTANCE ByteFifo WITH Capacity <- SIZE, fifo <- Contents
IsFifo == Fifo!FifoSpec
=============================================================================
