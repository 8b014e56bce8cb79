---------------------------- MODULE SeqlockSlot_proofs ----------------------------
(***************************************************************************)
(* What a get returns, for any number of readers, cells and writes, and    *)
(* for frames of any length.  A reader that finds the version it started   *)
(* with saw no write in between, so all it copied was in the slot at one   *)
(* moment, unless the slot was run over from the packet in front.          *)
(***************************************************************************)
EXTENDS SeqlockSlot, SequenceTheorems, TLAPS

USE SlotAssumption

Packet == [Cell -> Int]

(* What Append makes of the log.                                           *)
LEMMA LogGrows ==
  ASSUME log \in Seq(Packet), NEW packet \in Packet, log' = Append(log, packet)
  PROVE  /\ log' \in Seq(Packet) /\ log' # <<>>
         /\ Len(log) \in Nat /\ Len(log') = Len(log) + 1
         /\ \A n \in 1 .. Len(log) : log'[n] = log[n]
         /\ log'[Len(log) + 1] = packet
  BY AppendProperties, LenProperties

LEMMA LogElements ==
  ASSUME SlotInv
  PROVE  /\ Len(log) \in Nat \ {0}
         /\ \A n \in 1 .. Len(log) : log[n] \in Packet
         /\ \A n \in 1 .. Len(log), c \in Cell : log[n][c] \in Int
         /\ Newest \in Packet
<1>1. log \in Seq(Packet) /\ log # <<>>
  BY DEF SlotInv, TypeOK, Packet
<1>2. Len(log) \in Nat \ {0} /\ \A n \in 1 .. Len(log) : log[n] \in Packet
  BY <1>1, LenProperties, ElementOfSeq, EmptySeq
<1>3. QED
  BY <1>2 DEF Packet, Newest

LEMMA InitEstablishes == Init => SlotInv
<1> SUFFICES ASSUME Init PROVE SlotInv
  OBVIOUS
<1>1. [c \in Cell |-> 0] \in Packet
  BY DEF Packet
<1>2. log \in Seq(Packet) /\ log # <<>> /\ Len(log) = 1 /\ log[1] = [c \in Cell |-> 0]
  BY <1>1 DEF Init
<1>3. TypeOK
  BY <1>2 DEF Init, TypeOK, Cell, Packet
<1>4. PoolInv
  BY <1>2 DEF Init, PoolInv, Writing, Started, Complete, Newest
<1>5. ASSUME NEW r \in Readers
      PROVE  v1[r] = 0 /\ versions = 0 /\ since[r] = 1 /\ pc[r] = "idle"
  BY DEF Init
<1>6. ReaderInv
  <2> SUFFICES ASSUME NEW r \in Readers PROVE ReaderInv!(r)
    BY DEF ReaderInv
  <2>1. v1[r] <= versions /\ since[r] <= Len(log) /\ pc[r] = "idle"
    BY <1>2, <1>5
  <2>2. QED
    BY ONLY <2>1
<1>7. QED
  BY <1>3, <1>4, <1>6 DEF SlotInv

(* Parity of the version, and the number of the write.                     *)
LEMMA Versions ==
  ASSUME versions \in Nat
  PROVE  /\ Complete \in Nat
         /\ Writing => Started = Complete + 1 /\ (versions + 1) \div 2 = Complete + 1
                       /\ (versions + 1) % 2 = 0
         /\ ~Writing => versions % 2 = 0 /\ (versions + 1) \div 2 = Complete
                        /\ (versions + 1) % 2 = 1
  BY DEF Writing, Started, Complete

(* The writer: the version moves away from what any reader loaded, and     *)
(* never comes back.                                                       *)
LEMMA BeginWritePreserves == ASSUME SlotInv, BeginWrite PROVE SlotInv'
<1> USE DEF SlotInv, BeginWrite, readerVars
<1>1. versions \in Nat /\ ~Writing /\ Writing' /\ Complete' = Complete
      /\ Started' = Complete + 1
  BY Versions DEF TypeOK, Writing, Complete, Started
<1>2. TypeOK'
  BY <1>1 DEF TypeOK
<1>3. PoolInv'
  <2>1. pool \in [Cell -> Int] /\ \A c \in Cell : ~(c <= 0)
    BY DEF TypeOK, Cell
  <2>2. QED
    BY <1>1, <2>1 DEF PoolInv, Newest
<1>4. ReaderInv'
  BY <1>1, LogElements DEF TypeOK, ReaderInv
<1>5. QED
  BY <1>2, <1>3, <1>4

LEMMA CopyInPreserves == ASSUME SlotInv, CopyIn PROVE SlotInv'
<1> USE DEF SlotInv, CopyIn, readerVars
<1>1. /\ Writing /\ Writing' /\ Complete' = Complete /\ Started' = Started
      /\ Started \in Int /\ Newest' = Newest
  BY Versions DEF TypeOK, Writing, Complete, Started, Newest
<1>2. TypeOK'
  BY <1>1 DEF TypeOK, Cell
<1>3. PoolInv'
  <2>1. \A c \in Cell : c <= filled + 1 <=> c = filled + 1 \/ c <= filled
    BY DEF TypeOK, Cell
  <2>2. QED
    BY <1>1, <2>1 DEF PoolInv
<1>4. ReaderInv'
  BY <1>1, LogElements DEF TypeOK, ReaderInv
<1>5. QED
  BY <1>2, <1>3, <1>4

LEMMA EndWritePreserves == ASSUME SlotInv, EndWrite PROVE SlotInv'
<1> USE DEF SlotInv
<1>1. /\ versions \in Nat /\ versions' = versions + 1 /\ Writing /\ ~Writing'
      /\ Complete \in Nat /\ Complete' = Complete + 1 /\ Started = Complete + 1
  BY Versions DEF EndWrite, TypeOK, Writing, Complete
<1>2. /\ pool \in Packet /\ pool' = pool /\ filled = len
      /\ log \in Seq(Packet) /\ log' = Append(log, pool)
      /\ \A c \in Cell : pool[c] = IF c <= filled THEN Complete + 1 ELSE Newest[c]
  BY <1>1 DEF EndWrite, TypeOK, PoolInv, Packet
<1>3. /\ log' \in Seq(Packet) /\ log' # <<>>
      /\ Len(log) \in Nat \ {0} /\ Len(log') = Len(log) + 1
      /\ \A n \in 1 .. Len(log) : log'[n] = log[n]
      /\ log'[Len(log) + 1] = pool
  BY <1>2, LogGrows, LogElements
<1>4. TypeOK'
  BY <1>1, <1>2, <1>3 DEF EndWrite, readerVars, TypeOK, Packet
<1>5. \A c \in Cell : pool[c] \in Int /\ Newest[c] <= pool[c] /\ pool[c] <= Complete + 1
                      /\ Newest[c] \in Int
  BY <1>1, <1>2, LogElements DEF PoolInv, Newest, Packet
<1>6. PoolInv'
  <2>1. ASSUME NEW n \in 1 .. Len(log'), NEW c \in Cell PROVE log'[n][c] <= Complete'
    BY <1>1, <1>3, <1>5, LogElements DEF PoolInv
  <2>2. QED
    BY <1>1, <1>2, <1>3, <2>1 DEF PoolInv, Newest
<1>7. ReaderInv'
  <2> SUFFICES ASSUME NEW r \in Readers PROVE ReaderInv!(r)'
    BY DEF ReaderInv
  <2>1. UNCHANGED <<pc, v1, result, copied, since, spoiled>>
    BY DEF EndWrite, readerVars
  <2>2. /\ v1[r] \in Nat /\ since[r] \in Nat \ {0} /\ v1[r] <= versions
        /\ since[r] <= Len(log)
    BY DEF TypeOK, ReaderInv
  <2>3. log'[since[r]] = log[since[r]] /\ since[r] \in 1 .. Len(log)
    BY <1>3, <2>2
  <2>4. v1'[r] <= versions' /\ v1'[r] # versions' /\ since'[r] <= Len(log')
    BY <1>1, <1>3, <2>1, <2>2
  <2>5. ASSUME pc[r] \in {"load", "copy"}, ~spoiled[r],
               NEW n \in since[r] .. Len(log'), NEW c \in Cell
        PROVE  log'[since[r]][c] <= log'[n][c]
    <3>1. CASE n <= Len(log)
      BY <1>3, <2>2, <2>3, <2>5, <3>1 DEF ReaderInv
    <3>2. CASE n = Len(log) + 1
      <4>1. log[since[r]][c] <= Newest[c]
        BY <1>3, <2>2, <2>5 DEF ReaderInv, Newest
      <4>2. QED
        BY <1>3, <1>5, <2>3, <3>2, <4>1, LogElements
    <3>3. QED
      BY <1>3, <2>2, <3>1, <3>2
  <2>6. ASSUME pc[r] = "done", ~spoiled[r]
        PROVE  /\ \E n \in since[r] .. Len(log') : result[r] = log'[n]
               /\ \A c \in Cell : log'[since[r]][c] <= result[r][c]
    <3>1. PICK n \in since[r] .. Len(log) : result[r] = log[n]
      BY <2>6 DEF ReaderInv
    <3>2. n \in since[r] .. Len(log') /\ result[r] = log'[n]
      BY <1>3, <2>2, <3>1
    <3>3. QED
      BY <2>3, <2>6, <3>2 DEF ReaderInv
  <2>7. QED
    BY <2>1, <2>4, <2>5, <2>6
<1>8. QED
  BY <1>4, <1>6, <1>7

LEMMA BeginOverrunPreserves == ASSUME SlotInv, BeginOverrun PROVE SlotInv'
<1> USE DEF SlotInv, BeginOverrun, readerVars
<1>1. ~Writing /\ Writing' = Writing /\ Complete' = Complete /\ Started' = Started
  BY DEF Writing, Complete, Started
<1>2. TypeOK'
  BY <1>1 DEF TypeOK
<1>3. PoolInv'
  BY <1>1 DEF PoolInv, Newest
<1>4. ReaderInv'
  BY <1>1, LogElements DEF TypeOK, ReaderInv
<1>5. QED
  BY <1>2, <1>3, <1>4

(* A get under way while the slot is run over is spoiled by it; one that   *)
(* has its answer is not.                                                  *)
LEMMA RunOverPreserves == ASSUME SlotInv, RunOver PROVE SlotInv'
<1> USE DEF SlotInv
<1>1. /\ ~Writing /\ Writing' = Writing /\ Complete' = Complete /\ Complete \in Nat
      /\ versions' = versions
  BY Versions DEF RunOver, TypeOK, Writing, Complete
<1>2. filled + 1 \in Cell /\ filled + 1 \in 0 .. len /\ len <= Cells
  BY <1>1 DEF RunOver, TypeOK, Cell
<1>3. /\ pool' \in Packet /\ log \in Seq(Packet) /\ log' = Append(log, pool')
      /\ \A c \in Cell : pool'[c] = IF c = filled + 1 THEN -1 ELSE pool[c]
      /\ pool = Newest
  BY <1>1, <1>2 DEF RunOver, TypeOK, PoolInv, Packet, Foreign
<1>4. /\ log' \in Seq(Packet) /\ log' # <<>>
      /\ Len(log) \in Nat \ {0} /\ Len(log') = Len(log) + 1
      /\ \A n \in 1 .. Len(log) : log'[n] = log[n]
      /\ log'[Len(log) + 1] = pool'
  BY <1>3, LogGrows, LogElements
<1>5. TypeOK'
  BY <1>1, <1>2, <1>3, <1>4 DEF RunOver, readerVars, TypeOK, Packet
<1>6. PoolInv'
  <2>1. \A c \in Cell : pool'[c] <= Complete
    BY <1>1, <1>3, <1>4 DEF PoolInv, Newest
  <2>2. \A n \in 1 .. Len(log'), c \in Cell : log'[n][c] <= Complete'
    BY <1>1, <1>4, <2>1 DEF PoolInv
  <2>3. QED
    BY <1>1, <1>4, <2>2 DEF PoolInv, Newest
<1>7. ReaderInv'
  <2> SUFFICES ASSUME NEW r \in Readers PROVE ReaderInv!(r)'
    BY DEF ReaderInv
  <2>1. /\ UNCHANGED <<pc, v1, result, copied, since>>
        /\ spoiled'[r] = (spoiled[r] \/ pc[r] \in {"load", "copy"})
    BY DEF RunOver, readerVars
  <2>2. /\ since[r] \in Nat \ {0} /\ v1[r] <= versions /\ since[r] <= Len(log)
    BY DEF TypeOK, ReaderInv
  <2>3. v1'[r] <= versions' /\ since'[r] <= Len(log')
    BY <1>1, <1>4, <2>1, <2>2
  <2>4. pc[r] \in {"load", "copy"} => spoiled'[r]
    BY <2>1
  <2>5. ASSUME pc[r] = "done", ~spoiled'[r]
        PROVE  /\ \E n \in since[r] .. Len(log') : result[r] = log'[n]
               /\ \A c \in Cell : log'[since[r]][c] <= result[r][c]
    <3>1. ~spoiled[r]
      BY <2>1, <2>5
    <3>2. PICK n \in since[r] .. Len(log) : result[r] = log[n]
      BY <2>5, <3>1 DEF ReaderInv
    <3>3. /\ n \in since[r] .. Len(log') /\ result[r] = log'[n]
          /\ log'[since[r]] = log[since[r]]
      BY <1>4, <2>2, <3>2
    <3>4. QED
      BY <2>5, <3>1, <3>3 DEF ReaderInv
  <2>6. QED
    BY <2>1, <2>3, <2>4, <2>5
<1>8. QED
  BY <1>5, <1>6, <1>7

(* A reader's step leaves the slot and the other readers alone.            *)
LEMMA SlotUntouched ==
  ASSUME SlotInv, UNCHANGED writerVars
  PROVE  PoolInv' /\ Newest' = Newest /\ Writing' = Writing /\ Complete' = Complete
  BY DEF SlotInv, PoolInv, writerVars, Newest, Writing, Started, Complete

LEMMA GetPreserves == ASSUME SlotInv, NEW r \in Readers, Get(r) PROVE SlotInv'
<1> USE DEF SlotInv, Get, Goto, writerVars
<1>1. PoolInv' /\ Writing' = Writing
  BY SlotUntouched
<1>2. TypeOK'
  BY <1>1, LogElements DEF TypeOK
<1>3. ReaderInv'
  <2> SUFFICES ASSUME NEW s \in Readers PROVE ReaderInv!(s)'
    BY DEF ReaderInv
  <2>1. CASE s # r
    BY <1>1, <2>1 DEF TypeOK, ReaderInv
  <2>2. CASE s = r
    BY <1>1, <2>2, LogElements DEF TypeOK, ReaderInv
  <2>3. QED
    BY <2>1, <2>2
<1>4. QED
  BY <1>1, <1>2, <1>3

LEMMA LoadFirstPreserves == ASSUME SlotInv, NEW r \in Readers, LoadFirst(r) PROVE SlotInv'
<1> USE DEF SlotInv, LoadFirst, Goto, writerVars
<1>1. PoolInv' /\ Writing' = Writing
  BY SlotUntouched
<1>2. TypeOK'
  BY <1>1 DEF TypeOK
<1>3. ReaderInv'
  <2> SUFFICES ASSUME NEW s \in Readers PROVE ReaderInv!(s)'
    BY DEF ReaderInv
  <2>1. CASE s # r
    BY <1>1, <2>1 DEF TypeOK, ReaderInv
  <2>2. CASE s = r
    <3>1. pc'[r] = "copy" /\ copied'[r] = 0 /\ v1'[r] = versions /\ versions \in Nat
      BY DEF TypeOK
    <3>2. \A c \in 1 .. copied'[r] : FALSE
      BY <3>1
    <3>3. QED
      BY <1>1, <2>2, <3>1, <3>2 DEF ReaderInv
  <2>3. QED
    BY <2>1, <2>2
<1>4. QED
  BY <1>1, <1>2, <1>3

(* The cell just copied is what the slot holds.                            *)
LEMMA CopyOutPreserves == ASSUME SlotInv, NEW r \in Readers, CopyOut(r) PROVE SlotInv'
<1> USE DEF SlotInv
<1>1. PoolInv' /\ Writing' = Writing /\ UNCHANGED writerVars
  BY SlotUntouched DEF CopyOut
<1>2. /\ copied[r] + 1 \in Cell /\ copied[r] \in Nat /\ copied[r] + 1 \in 0 .. Cells
      /\ pool[copied[r] + 1] \in Int
  <2>1. pool \in [Cell -> Int] /\ copied[r] \in 0 .. Cells /\ copied[r] < Cells
    BY DEF TypeOK, CopyOut
  <2>2. copied[r] + 1 \in Cell
    BY <2>1 DEF Cell
  <2>3. QED
    BY <2>1, <2>2
<1>3. /\ UNCHANGED <<pc, v1, since, spoiled>> /\ pc[r] = "copy"
      /\ copied' = [copied EXCEPT ![r] = copied[r] + 1]
      /\ result' = [result EXCEPT ![r] = [result[r] EXCEPT ![copied[r] + 1] = pool[copied[r] + 1]]]
  BY DEF CopyOut
<1>4. TypeOK'
  BY <1>1, <1>2, <1>3 DEF TypeOK, writerVars, Writing
<1>5. ReaderInv'
  <2> SUFFICES ASSUME NEW s \in Readers PROVE ReaderInv!(s)'
    BY DEF ReaderInv
  <2>1. CASE s # r
    BY <1>1, <1>3, <2>1 DEF TypeOK, ReaderInv, writerVars
  <2>2. CASE s = r
    <3>1. ASSUME NEW c \in 1 .. copied[r] + 1, v1[r] = versions, ~Writing, ~spoiled[r]
          PROVE  result'[r][c] = pool[c]
      <4>1. c \in Cell /\ result[r] \in [Cell -> Int]
        <5>1. result[r] \in [Cell -> Int]
          BY DEF TypeOK
        <5>2. c \in Cell
          BY <1>2 DEF Cell
        <5>3. QED
          BY <5>1, <5>2
      <4>2. result'[r] = [result[r] EXCEPT ![copied[r] + 1] = pool[copied[r] + 1]]
        BY <1>3 DEF TypeOK
      <4>3. CASE c = copied[r] + 1
        BY <4>1, <4>2, <4>3
      <4>4. CASE c # copied[r] + 1
        <5>1. c \in 1 .. copied[r] /\ result'[r][c] = result[r][c]
          BY <1>2, <4>1, <4>2, <4>4
        <5>2. QED
          BY <1>3, <3>1, <5>1 DEF ReaderInv
      <4>5. QED
        BY <4>3, <4>4
    <3>2. copied'[r] = copied[r] + 1
      BY <1>3 DEF TypeOK
    <3>3. QED
      BY <1>1, <1>3, <2>2, <3>1, <3>2 DEF ReaderInv, writerVars
  <2>3. QED
    BY <2>1, <2>2
<1>6. QED
  BY <1>1, <1>4, <1>5

(* Once every cell is copied and the version is still the one loaded, the  *)
(* reader holds what the slot holds.                                       *)
LEMMA AllCopied ==
  ASSUME SlotInv, NEW r \in Readers, LoadSecond(r), ~Retry(r), ~spoiled[r]
  PROVE  /\ ~Writing /\ result[r] = Newest /\ Len(log) \in since[r] .. Len(log)
         /\ \A c \in Cell : log[since[r]][c] <= result[r][c]
<1>1. /\ pc[r] = "copy" /\ copied[r] = Cells /\ v1[r] = versions /\ ~Writing
  BY DEF LoadSecond, Retry, Writing
<1>2. pool = Newest /\ pool \in [Cell -> Int] /\ result[r] \in [Cell -> Int]
  BY <1>1 DEF SlotInv, PoolInv, TypeOK
<1>3. \A c \in Cell : result[r][c] = pool[c]
  BY <1>1 DEF SlotInv, ReaderInv, Cell
<1>4. result[r] = Newest
  BY <1>2, <1>3
<1>5. since[r] \in Nat \ {0} /\ since[r] <= Len(log) /\ Len(log) \in Nat
  BY LogElements DEF SlotInv, TypeOK, ReaderInv
<1>6. \A c \in Cell : log[since[r]][c] <= Newest[c]
  BY <1>1, <1>5 DEF SlotInv, ReaderInv, Newest
<1>7. QED
  BY <1>1, <1>4, <1>5, <1>6

LEMMA LoadSecondPreserves == ASSUME SlotInv, NEW r \in Readers, LoadSecond(r) PROVE SlotInv'
<1> USE DEF SlotInv
<1>1. PoolInv' /\ Writing' = Writing /\ UNCHANGED writerVars
  BY SlotUntouched DEF LoadSecond
<1>2. /\ UNCHANGED <<v1, result, copied, since, spoiled>> /\ pc[r] = "copy"
      /\ pc' = [pc EXCEPT ![r] = IF Retry(r) THEN "load" ELSE "done"]
  BY DEF LoadSecond, Goto
<1>3. TypeOK'
  BY <1>1, <1>2 DEF TypeOK, writerVars, Writing
<1>4. ReaderInv'
  <2> SUFFICES ASSUME NEW s \in Readers PROVE ReaderInv!(s)'
    BY DEF ReaderInv
  <2>1. CASE s # r
    BY <1>1, <1>2, <2>1 DEF TypeOK, ReaderInv, writerVars
  <2>2. CASE s = r /\ Retry(r)
    BY <1>1, <1>2, <2>2 DEF TypeOK, ReaderInv, writerVars
  <2>3. CASE s = r /\ ~Retry(r)
    <3>1. pc'[r] = "done"
      BY <1>2, <2>3 DEF TypeOK
    <3>2. ~spoiled[r] => \E n \in since[r] .. Len(log) : result[r] = log[n]
      BY <2>3, AllCopied DEF Newest
    <3>3. ~spoiled[r] => \A c \in Cell : log[since[r]][c] <= result[r][c]
      BY <2>3, AllCopied
    <3>4. QED
      BY <1>1, <1>2, <2>3, <3>1, <3>2, <3>3 DEF ReaderInv, writerVars
  <2>4. QED
    BY <2>1, <2>2, <2>3
<1>5. QED
  BY <1>1, <1>3, <1>4

LEMMA ReturnPreserves == ASSUME SlotInv, NEW r \in Readers, Return(r) PROVE SlotInv'
<1> USE DEF SlotInv, Return, Goto, writerVars
<1>1. PoolInv' /\ Writing' = Writing
  BY SlotUntouched
<1>2. TypeOK'
  BY <1>1 DEF TypeOK
<1>3. ReaderInv'
  BY <1>1 DEF TypeOK, ReaderInv
<1>4. QED
  BY <1>1, <1>2, <1>3

(* SlotInv holds of every behaviour.                                       *)
THEOREM SlotInvariant == Spec => []SlotInv
<1>1. SlotInv /\ UNCHANGED vars => SlotInv'
  BY DEF vars, writerVars, readerVars, SlotInv, TypeOK, PoolInv, ReaderInv, Writing, Started,
     Complete, Newest
<1>2. SlotInv /\ [Next]_vars => SlotInv'
  BY <1>1, BeginWritePreserves, CopyInPreserves, EndWritePreserves, BeginOverrunPreserves,
     RunOverPreserves, GetPreserves, LoadFirstPreserves, CopyOutPreserves, LoadSecondPreserves,
     ReturnPreserves DEF Next, Writer, Reader
<1>3. QED
  BY InitEstablishes, <1>2, PTL DEF Spec

(* Deserializer::get never returns a mix of packets that the slot did not  *)
(* hold itself at some moment of the get, whatever lengths the frames of   *)
(* the packet declare, unless a frame in front runs over meanwhile.        *)
THEOREM NoTornReads == Spec => []NoTornRead
<1>1. SlotInv => NoTornRead
  BY DEF SlotInv, ReaderInv, NoTornRead
<1>2. QED
  BY <1>1, SlotInvariant, PTL

(* Deserializer::get returns no byte older than what the slot held when it *)
(* was called, and none of a packet that is still being written.           *)
THEOREM ReadsAreFresh == Spec => []ReadIsFresh
<1>1. SlotInv => ReadIsFresh
  <2> SUFFICES ASSUME SlotInv, NEW r \in Readers, pc[r] = "done", ~spoiled[r], NEW c \in Cell
               PROVE  log[since[r]][c] <= result[r][c] /\ result[r][c] <= Complete
    BY DEF ReadIsFresh
  <2>1. PICK n \in since[r] .. Len(log) : result[r] = log[n]
    BY DEF SlotInv, ReaderInv
  <2>2. n \in 1 .. Len(log)
    BY <2>1, LogElements DEF SlotInv, TypeOK
  <2>3. QED
    BY <2>1, <2>2 DEF SlotInv, PoolInv, ReaderInv
<1>2. QED
  BY <1>1, SlotInvariant, PTL

-----------------------------------------------------------------------------
(* The refinement of PacketRegister.  A write takes effect when it ends, a *)
(* get when its second load finds the version of its first.                *)

(* What a reader's step makes of the stages and replies.                   *)
LEMMA OneStage ==
  ASSUME SlotInv, NEW r \in Readers, NEW l \in {"idle", "load", "copy", "done"},
         NEW s, Goto(r, l), UNCHANGED result,
         s = IF l = "done" THEN "answered" ELSE IF l = "idle" THEN "idle" ELSE "called"
  PROVE  /\ Stage' = [Stage EXCEPT ![r] = s]
         /\ Reply' = [Reply EXCEPT ![r] = IF l = "done" THEN result[r] ELSE [c \in Cell |-> 0]]
<1>1. pc' = [pc EXCEPT ![r] = l] /\ result' = result /\ pc \in [Readers -> {"idle", "load", "copy", "done"}]
  BY DEF Goto, SlotInv, TypeOK
<1>2. ASSUME NEW q \in Readers
      PROVE  /\ Stage'[q] = [Stage EXCEPT ![r] = s][q]
             /\ Reply'[q] = [Reply EXCEPT ![r] = IF l = "done" THEN result[r] ELSE [c \in Cell |-> 0]][q]
  BY <1>1 DEF Stage, Reply
<1>3. QED
  BY <1>2 DEF Stage, Reply

LEMMA EndWriteDelivers ==
  ASSUME SlotInv, EndWrite
  PROVE  Register!RegisterNext
<1>1. /\ versions \in Nat /\ Writing /\ filled = len /\ Complete' = Complete + 1
      /\ Started = Complete + 1 /\ log' = Append(log, pool) /\ len \in Nat
      /\ pool = [c \in Cell |-> IF c <= filled THEN Started ELSE Newest[c]]
  BY Versions DEF SlotInv, TypeOK, PoolInv, EndWrite, Writing, Complete
<1>2. UNCHANGED <<Stage, Reply, since, spoiled>>
  BY DEF EndWrite, readerVars, Stage, Reply
<1>3. PICK n \in 0 .. Cells : \A c \in Cell : c <= filled <=> c <= n
  <2>1. CASE len <= Cells
    BY <1>1, <2>1
  <2>2. CASE ~(len <= Cells)
    <3>1. \A c \in Cell : c <= filled <=> c <= Cells
      BY <1>1, <2>2 DEF Cell
    <3>2. QED
      BY <3>1
  <2>3. QED
    BY <2>1, <2>2
<1>4. pool = [c \in Cell |-> IF c <= n THEN Complete + 1 ELSE Newest[c]]
  BY <1>1, <1>3
<1>5. Register!Deliver(n)
  BY <1>1, <1>2, <1>4 DEF Register!Deliver, Register!Held, Newest
<1>6. n = 0 \/ n \in Cell
  BY DEF Cell
<1>7. QED
  BY <1>5, <1>6 DEF Register!RegisterNext

LEMMA RunOverRefines ==
  ASSUME SlotInv, RunOver
  PROVE  Register!RegisterNext
<1>1. filled + 1 \in Cell
  BY DEF SlotInv, RunOver, TypeOK, Cell
<1>2. /\ Complete' = Complete /\ pool = Newest
      /\ log' = Append(log, [Newest EXCEPT ![filled + 1] = Foreign])
  BY DEF SlotInv, RunOver, PoolInv, Complete
<1>3. UNCHANGED <<Stage, Reply, since>>
  BY DEF RunOver, readerVars, Stage, Reply
<1>4. spoiled' = [r \in Readers |-> spoiled[r] \/ Stage[r] = "called"]
  <2>1. \A r \in Readers : pc[r] \in {"load", "copy"} <=> Stage[r] = "called"
    BY DEF SlotInv, TypeOK, Stage
  <2>2. QED
    BY <2>1 DEF RunOver
<1>5. Register!RunOverPart(filled + 1)
  BY <1>2, <1>3, <1>4 DEF Register!RunOverPart, Register!Held, Newest
<1>6. QED
  BY <1>1, <1>5 DEF Register!RegisterNext

LEMMA WriterRefines ==
  ASSUME SlotInv, Writer
  PROVE  [Register!RegisterNext]_(Register!registerVars)
<1>1. ASSUME BeginWrite \/ CopyIn \/ BeginOverrun PROVE UNCHANGED Register!registerVars
  <2>1. Complete' = Complete
    BY <1>1, Versions DEF SlotInv, TypeOK, BeginWrite, CopyIn, BeginOverrun, Complete
  <2>2. UNCHANGED <<log, since, spoiled, Stage, Reply>>
    BY <1>1 DEF BeginWrite, CopyIn, BeginOverrun, readerVars, Stage, Reply
  <2>3. QED
    BY <2>1, <2>2 DEF Register!registerVars
<1>2. QED
  BY <1>1, EndWriteDelivers, RunOverRefines DEF Writer

LEMMA ReaderRefines ==
  ASSUME SlotInv, NEW r \in Readers, Reader(r)
  PROVE  [Register!RegisterNext]_(Register!registerVars)
<1>1. pc \in [Readers -> {"idle", "load", "copy", "done"}]
  BY DEF SlotInv, TypeOK
<1>2. Complete' = Complete /\ log' = log
  BY DEF Reader, Get, LoadFirst, CopyOut, LoadSecond, Return, writerVars, Complete
<1>3. Stage[r] = IF pc[r] = "done" THEN "answered" ELSE IF pc[r] = "idle" THEN "idle" ELSE "called"
  BY DEF Stage
<1>4. CASE Get(r)
  <2>1. /\ Goto(r, "load") /\ UNCHANGED result /\ pc[r] = "idle"
        /\ since' = [since EXCEPT ![r] = Len(log)]
        /\ spoiled' = [spoiled EXCEPT ![r] = FALSE]
    BY <1>4 DEF Get
  <2>2. Stage' = [Stage EXCEPT ![r] = "called"] /\ Reply' = [Reply EXCEPT ![r] = [c \in Cell |-> 0]]
    BY <2>1, OneStage
  <2>3. Reply' = Reply
    BY <2>1, <2>2 DEF Reply
  <2>4. Register!Call(r)
    BY <1>2, <1>3, <2>1, <2>2, <2>3 DEF Register!Call
  <2>5. QED
    BY <2>4 DEF Register!RegisterNext
<1>5. CASE LoadFirst(r)
  <2>1. Goto(r, "copy") /\ UNCHANGED <<result, since, spoiled>> /\ pc[r] = "load"
    BY <1>5 DEF LoadFirst
  <2>2. Stage' = [Stage EXCEPT ![r] = "called"] /\ Reply' = [Reply EXCEPT ![r] = [c \in Cell |-> 0]]
    BY <2>1, OneStage
  <2>3. Stage' = Stage /\ Reply' = Reply
    BY <2>1, <2>2 DEF Stage, Reply
  <2>4. QED
    BY <1>2, <2>1, <2>3 DEF Register!registerVars
<1>6. CASE CopyOut(r)
  <2>1. /\ pc' = pc /\ UNCHANGED <<since, spoiled>> /\ pc[r] = "copy"
        /\ \A q \in Readers : q # r => result'[q] = result[q]
    BY <1>6 DEF CopyOut, SlotInv, TypeOK
  <2>2. Stage' = Stage
    BY <2>1 DEF Stage
  <2>3. \A q \in Readers : pc[q] = "done" => result'[q] = result[q]
    BY <2>1
  <2>4. Reply' = Reply
    BY <2>1, <2>3 DEF Reply
  <2>5. QED
    BY <1>2, <2>1, <2>2, <2>4 DEF Register!registerVars
<1>7. CASE LoadSecond(r) /\ Retry(r)
  <2>1. Goto(r, "load") /\ UNCHANGED <<result, since, spoiled>> /\ pc[r] = "copy"
    BY <1>7 DEF LoadSecond
  <2>2. Stage' = [Stage EXCEPT ![r] = "called"] /\ Reply' = [Reply EXCEPT ![r] = [c \in Cell |-> 0]]
    BY <2>1, OneStage
  <2>3. Stage' = Stage /\ Reply' = Reply
    BY <2>1, <2>2 DEF Stage, Reply
  <2>4. QED
    BY <1>2, <2>1, <2>3 DEF Register!registerVars
<1>8. CASE LoadSecond(r) /\ ~Retry(r)
  <2>1. Goto(r, "done") /\ UNCHANGED <<result, since, spoiled>> /\ pc[r] = "copy"
    BY <1>8 DEF LoadSecond
  <2>2. Stage' = [Stage EXCEPT ![r] = "answered"] /\ Reply' = [Reply EXCEPT ![r] = result[r]]
    BY <2>1, OneStage
  <2>3. \/ \E n \in since[r] .. Len(log) : Reply' = [Reply EXCEPT ![r] = log[n]]
        \/ spoiled[r] /\ Reply' = [Reply EXCEPT ![r] = Reply'[r]]
    <3>1. CASE ~spoiled[r]
      <4>1. Len(log) \in since[r] .. Len(log) /\ result[r] = log[Len(log)]
        BY <1>8, <3>1, AllCopied DEF Newest
      <4>2. QED
        BY <2>2, <4>1
    <3>2. CASE spoiled[r]
      <4>1. Reply'[r] = result[r]
        BY <2>2 DEF Reply
      <4>2. QED
        BY <2>2, <3>2, <4>1
    <3>3. QED
      BY <3>1, <3>2
  <2>4. Register!Answer(r)
    BY <1>2, <1>3, <2>1, <2>2, <2>3 DEF Register!Answer
  <2>5. QED
    BY <2>4 DEF Register!RegisterNext
<1>9. CASE Return(r)
  <2>1. Goto(r, "idle") /\ UNCHANGED <<result, since, spoiled>> /\ pc[r] = "done"
    BY <1>9 DEF Return
  <2>2. Stage' = [Stage EXCEPT ![r] = "idle"] /\ Reply' = [Reply EXCEPT ![r] = [c \in Cell |-> 0]]
    BY <2>1, OneStage
  <2>3. Register!Leave(r)
    BY <1>2, <1>3, <2>1, <2>2 DEF Register!Leave, Register!Nothing
  <2>4. QED
    BY <2>3 DEF Register!RegisterNext
<1>10. QED
  BY <1>4, <1>5, <1>6, <1>7, <1>8, <1>9 DEF Reader

(* get is atomic: every behaviour of the slot is one of a register.        *)
THEOREM SlotImplementsRegister == Spec => SlotIsRegister
<1>1. Init => Register!RegisterInit
  <2> SUFFICES ASSUME Init PROVE Register!RegisterInit
    OBVIOUS
  <2>1. /\ Complete = 0 /\ log = <<[c \in Cell |-> 0]>>
        /\ since = [r \in Readers |-> 1] /\ spoiled = [r \in Readers |-> FALSE]
    BY DEF Init, Complete
  <2>2. Stage = [r \in Readers |-> "idle"] /\ Reply = [r \in Readers |-> [c \in Cell |-> 0]]
    BY DEF Init, Stage, Reply
  <2>3. QED
    BY <2>1, <2>2 DEF Register!RegisterInit, Register!Nothing
<1>2. SlotInv /\ [Next]_vars => [Register!RegisterNext]_(Register!registerVars)
  <2>1. ASSUME UNCHANGED vars PROVE UNCHANGED Register!registerVars
    BY <2>1 DEF vars, writerVars, readerVars, Register!registerVars, Complete, Stage, Reply
  <2>2. QED
    BY <2>1, WriterRefines, ReaderRefines DEF Next
<1>3. QED
  BY <1>1, <1>2, SlotInvariant, PTL DEF Spec, SlotIsRegister, Register!RegisterSpec
=============================================================================
