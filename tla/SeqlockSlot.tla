------------------------------- MODULE SeqlockSlot -------------------------------
(***************************************************************************)
(* One slot of RPL::Deserializer's packet pool, and its version counter.   *)
(* The I/O thread writes it when the parser delivers a packet (write,      *)
(* write_segmented); any thread reads it with get, which copies without a  *)
(* lock and retries when the version moved.                                *)
(*                                                                         *)
(* A write copies as many cells as the frame declares: the parser bounds   *)
(* that number by the size of its buffer only, it is not compared with the *)
(* size of the packet.  A shorter frame leaves the last cells as they      *)
(* were; a longer one runs over into the slot behind, whose version does   *)
(* not move.  (What leaves the pool altogether is not modelled.)           *)
(*                                                                         *)
(* A cell holds the number of the write it came from, 0 for the zeroed     *)
(* pool, Foreign for bytes of the packet in front.  Memory is sequentially *)
(* consistent; the version counter does not wrap (it counts 2^31 writes).  *)
(***************************************************************************)
EXTENDS Integers, Sequences

CONSTANTS Readers,      \* threads that call get
          Cells,        \* the size of the packet
          Lengths,      \* sizes that frames of this packet declare
          Overruns,     \* how far frames of the packet in front come into this slot
          MaxWrites,    \* bound on the packets delivered
          MaxOverruns   \* bound on the frames in front that are too long

ASSUME SlotAssumption ==
  /\ Cells \in Nat \ {0}
  /\ Lengths \subseteq Nat /\ Overruns \subseteq 0 .. Cells
  /\ {MaxWrites, MaxOverruns} \subseteq Nat

VARIABLES versions,       \* versions_[seq_idx]
          pool,           \* the packet in memory
          len, filled,    \* cells the current write has to copy; has copied
          overruns,       \* frames in front that were too long
          pc,             \* where each reader is in get
          v1, result,     \* each reader's locals
          copied,         \* cells the reader has copied in this round
          log,            \* what the slot held after each write and each cell run over
          since,          \* the length of log when the reader's get began
          spoiled         \* the slot was run over before the reader's get had finished
writerVars == <<versions, pool, len, filled, overruns, log>>
readerVars == <<pc, v1, result, copied, since>>
vars == <<writerVars, readerVars, spoiled>>

Cell    == 1 .. Cells
Foreign == -1

Init == /\ versions = 0
        /\ pool = [c \in Cell |-> 0]
        /\ len = 0 /\ filled = 0 /\ overruns = 0
        /\ pc = [r \in Readers |-> "idle"]
        /\ v1 = [r \in Readers |-> 0]
        /\ result = [r \in Readers |-> [c \in Cell |-> 0]]
        /\ copied = [r \in Readers |-> 0]
        /\ log = <<[c \in Cell |-> 0]>>
        /\ since = [r \in Readers |-> 1]
        /\ spoiled = [r \in Readers |-> FALSE]

Writing == versions % 2 = 1
Started == (versions + 1) \div 2     \* the number of the latest write begun
Complete == versions \div 2          \* the number of the latest one complete

-----------------------------------------------------------------------------
(* The I/O thread, which writes one packet after the other *)

BeginWrite == /\ ~Writing /\ filled = len
              /\ Complete < MaxWrites
              /\ versions' = versions + 1
              /\ len' \in Lengths
              /\ filled' = 0
              /\ UNCHANGED <<pool, overruns, log, readerVars, spoiled>>

(* Cells after the last one of the packet are in the slot behind. *)
CopyIn == /\ Writing
          /\ filled < len
          /\ filled' = filled + 1
          /\ pool' = [c \in Cell |-> IF c = filled + 1 THEN Started ELSE pool[c]]
          /\ UNCHANGED <<versions, len, overruns, log, readerVars, spoiled>>

EndWrite == /\ Writing
            /\ filled = len
            /\ versions' = versions + 1
            /\ log' = Append(log, pool)
            /\ UNCHANGED <<pool, len, filled, overruns, readerVars, spoiled>>

(* The same code with the packet in front, between the two steps of its    *)
(* own version.                                                            *)
BeginOverrun == /\ ~Writing /\ filled = len
                /\ overruns < MaxOverruns
                /\ overruns' = overruns + 1
                /\ len' \in Overruns
                /\ filled' = 0
                /\ UNCHANGED <<versions, pool, log, readerVars, spoiled>>

RunOver == /\ ~Writing
           /\ filled < len
           /\ filled' = filled + 1
           /\ pool' = [pool EXCEPT ![filled + 1] = Foreign]
           /\ log' = Append(log, pool')
           /\ spoiled' = [r \in Readers |-> spoiled[r] \/ pc[r] \in {"load", "copy"}]
           /\ UNCHANGED <<versions, len, overruns, readerVars>>

-----------------------------------------------------------------------------
(* get(), on thread r *)

Goto(r, l) == pc' = [pc EXCEPT ![r] = l]

Get(r) == /\ pc[r] = "idle"
          /\ Goto(r, "load")
          /\ since' = [since EXCEPT ![r] = Len(log)]
          /\ spoiled' = [spoiled EXCEPT ![r] = FALSE]
          /\ UNCHANGED <<writerVars, v1, result, copied>>

LoadFirst(r) == /\ pc[r] = "load"
                /\ v1' = [v1 EXCEPT ![r] = versions]
                /\ copied' = [copied EXCEPT ![r] = 0]
                /\ Goto(r, "copy")
                /\ UNCHANGED <<writerVars, result, since, spoiled>>

CopyOut(r) == /\ pc[r] = "copy"
              /\ copied[r] < Cells
              /\ copied' = [copied EXCEPT ![r] = @ + 1]
              /\ result' = [result EXCEPT ![r] =
                              [@ EXCEPT ![copied[r] + 1] = pool[copied[r] + 1]]]
              /\ UNCHANGED <<writerVars, pc, v1, since, spoiled>>

(* The second load is v2: retry if it differs from v1 or v1 was odd. *)
RetryIfOdd(r)   == v1[r] % 2 = 1
RetryIfMoved(r) == v1[r] # versions
RetryIfSame(r)  == v1[r] = versions \/ v1[r] % 2 = 1
Retry(r) == v1[r] # versions \/ v1[r] % 2 = 1

LoadSecond(r) == /\ pc[r] = "copy"
                 /\ copied[r] = Cells
                 /\ Goto(r, IF Retry(r) THEN "load" ELSE "done")
                 /\ UNCHANGED <<writerVars, v1, result, copied, since, spoiled>>

Return(r) == /\ pc[r] = "done"
             /\ Goto(r, "idle")
             /\ UNCHANGED <<writerVars, v1, result, copied, since, spoiled>>

Writer    == BeginWrite \/ CopyIn \/ EndWrite \/ BeginOverrun \/ RunOver
Reader(r) == Get(r) \/ LoadFirst(r) \/ CopyOut(r) \/ LoadSecond(r) \/ Return(r)
Next == Writer \/ \E r \in Readers : Reader(r)

(* Both sides are straight-line code that is never suspended for good; no  *)
(* packet need ever arrive and no thread need ever call get.               *)
Fairness == /\ WF_vars(CopyIn \/ EndWrite \/ RunOver)
            /\ \A r \in Readers :
                 WF_vars(LoadFirst(r) \/ CopyOut(r) \/ LoadSecond(r) \/ Return(r))

Spec == Init /\ [][Next]_vars /\ Fairness

-----------------------------------------------------------------------------
TypeOK == /\ versions \in Nat
          /\ pool \in [Cell -> Int]
          /\ len \in Nat /\ filled \in 0 .. len /\ overruns \in Nat
          /\ ~Writing => len <= Cells \/ filled = len
          /\ pc \in [Readers -> {"idle", "load", "copy", "done"}]
          /\ v1 \in [Readers -> Nat]
          /\ result \in [Readers -> [Cell -> Int]]
          /\ copied \in [Readers -> 0 .. Cells]
          /\ log \in Seq([Cell -> Int]) /\ log # <<>>
          /\ since \in [Readers -> Nat \ {0}]
          /\ spoiled \in [Readers -> BOOLEAN]

(* What a get returns is put together from several packets only if the     *)
(* slot held such a mix itself during the get, which takes a frame shorter *)
(* than the packet; and unless the slot was run over meanwhile.            *)
Whole(packet) == \A c, d \in Cell : packet[c] = packet[d]
NoTornRead ==
  \A r \in Readers : pc[r] = "done" /\ ~spoiled[r] /\ ~Whole(result[r]) =>
    \E n \in since[r] .. Len(log) : ~Whole(log[n])

(* Each cell get returns is at least as new as it was when get was called, *)
(* and never from a write that was not complete.                           *)
ReadIsFresh ==
  \A r \in Readers : pc[r] = "done" /\ ~spoiled[r] =>
    \A c \in Cell : log[since[r]][c] <= result[r][c] /\ result[r][c] <= Complete

(* The slot is a register: for its readers a get happens at one moment     *)
(* between its call and its return, though copy and write take many steps. *)
Stage == [r \in Readers |-> IF pc[r] = "done" THEN "answered"
                            ELSE IF pc[r] = "idle" THEN "idle" ELSE "called"]
Reply == [r \in Readers |-> IF pc[r] = "done" THEN result[r] ELSE [c \in Cell |-> 0]]
Register == INSTANCE PacketRegister WITH
  Callers <- Readers, Parts <- Cell, history <- log, packets <- Complete, stage <- Stage,
  from <- since, answer <- Reply
SlotIsRegister == Register!RegisterSpec

(* While packets stop coming in at some point, every get returns.          *)
GetReturns == \A r \in Readers : pc[r] = "load" ~> pc[r] = "idle"

-----------------------------------------------------------------------------
(* Strengthening: what the slot holds between writes and within one, and   *)
(* what a reader has copied as long as the version is the one it loaded.   *)
Newest == log[Len(log)]
PoolInv == /\ ~Writing => pool = Newest
           /\ Writing => pool = [c \in Cell |-> IF c <= filled THEN Started ELSE Newest[c]]
           /\ \A n \in 1 .. Len(log), c \in Cell : log[n][c] <= Complete

ReaderInv == \A r \in Readers :
  /\ v1[r] <= versions
  /\ since[r] <= Len(log)
  /\ pc[r] = "copy" /\ v1[r] = versions /\ ~Writing /\ ~spoiled[r] =>
       \A c \in 1 .. copied[r] : result[r][c] = pool[c]
  /\ pc[r] \in {"load", "copy"} /\ ~spoiled[r] =>
       \A n \in since[r] .. Len(log), c \in Cell : log[since[r]][c] <= log[n][c]
  /\ pc[r] = "done" /\ ~spoiled[r] =>
       /\ \E n \in since[r] .. Len(log) : result[r] = log[n]
       /\ \A c \in Cell : log[since[r]][c] <= result[r][c]

SlotInv == TypeOK /\ PoolInv /\ ReaderInv
=============================================================================
