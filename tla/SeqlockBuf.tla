------------------------------- MODULE SeqlockBuf -------------------------------
(***************************************************************************)
(* florid::detail::SeqlockBuf<T> (include/florid/detail/Seqlock.hpp): one  *)
(* value, one writer thread that calls write or manipulate, and one reader *)
(* thread that calls read.                                                 *)
(*                                                                         *)
(* read's loop is a do-while whose body says "continue" when the version   *)
(* is odd.  In C++ that jumps to the loop's condition, v1 != v2, where v2  *)
(* is still the value an earlier round loaded.                             *)
(***************************************************************************)
EXTENDS Integers

CONSTANTS Cells, MaxWrites

VARIABLES m_version, m_data, filled,     \* the buffer, and the writer's progress
          pc, v1, v2, val, copied        \* read()'s locals
writerVars == <<m_version, m_data, filled>>
readerVars == <<pc, v1, v2, val, copied>>
vars == <<writerVars, readerVars>>

Cell == 1 .. Cells

Init == /\ m_version = 0
        /\ m_data = [c \in Cell |-> 0]
        /\ filled = 0
        /\ pc = "idle"
        /\ v1 = 0 /\ v2 = 0 /\ copied = 0
        /\ val = m_data

Writing == m_version % 2 = 1

(* write(val) and manipulate(func): odd version, the data, even version.   *)
BeginWrite == /\ ~Writing
              /\ m_version < 2 * MaxWrites
              /\ m_version' = m_version + 1
              /\ filled' = 0
              /\ UNCHANGED <<m_data, readerVars>>

WriteCell == /\ Writing
             /\ filled < Cells
             /\ filled' = filled + 1
             /\ m_data' = [m_data EXCEPT ![filled + 1] = (m_version + 1) \div 2]
             /\ UNCHANGED <<m_version, readerVars>>

EndWrite == /\ Writing
            /\ filled = Cells
            /\ m_version' = m_version + 1
            /\ UNCHANGED <<m_data, filled, readerVars>>

Read == /\ pc = "idle"
        /\ pc' = "load"
        /\ v2' = 0
        /\ UNCHANGED <<writerVars, v1, val, copied>>

(* The loop's condition, reached from the bottom and from "continue". *)
LoopTest(first, second) == pc' = IF first # second THEN "load" ELSE "done"

LoadFirst == /\ pc = "load"
             /\ v1' = m_version
             /\ copied' = 0
             /\ IF m_version % 2 = 1 THEN LoopTest(m_version, v2) ELSE pc' = "copy"
             /\ UNCHANGED <<writerVars, v2, val>>

CopyCell == /\ pc = "copy"
            /\ copied < Cells
            /\ copied' = copied + 1
            /\ val' = [val EXCEPT ![copied + 1] = m_data[copied + 1]]
            /\ UNCHANGED <<writerVars, pc, v1, v2>>

LoadSecond == /\ pc = "copy"
              /\ copied = Cells
              /\ v2' = m_version
              /\ LoopTest(v1, m_version)
              /\ UNCHANGED <<writerVars, v1, val, copied>>

Return == pc = "done" /\ pc' = "idle" /\ UNCHANGED <<writerVars, v1, v2, val, copied>>

Next == \/ BeginWrite \/ WriteCell \/ EndWrite
        \/ Read \/ LoadFirst \/ CopyCell \/ LoadSecond \/ Return

Spec == Init /\ [][Next]_vars

-----------------------------------------------------------------------------
TypeOK == /\ m_version \in 0 .. 2 * MaxWrites
          /\ m_data \in [Cell -> 0 .. MaxWrites]
          /\ filled \in 0 .. Cells
          /\ pc \in {"idle", "load", "copy", "done"}
          /\ v1 \in 0 .. 2 * MaxWrites /\ v2 \in 0 .. 2 * MaxWrites
          /\ val \in [Cell -> 0 .. MaxWrites]
          /\ copied \in 0 .. Cells

(* "version changed(v1 != v2) means data corrupted, retry." and "odd ->    *)
(* someone's writing, keep waiting..." (Seqlock.hpp): read never returns a *)
(* value whose parts come from two writes.                                 *)
NoTornRead == pc = "done" => \A c, d \in Cell : val[c] = val[d]
=============================================================================
