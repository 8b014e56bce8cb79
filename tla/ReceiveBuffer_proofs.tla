---------------------------- MODULE ReceiveBuffer_proofs ----------------------------
(***************************************************************************)
(* BipBuffer and the parser that uses it, for every size, byte set, frame  *)
(* length and stream: the two regions stay disjoint, the buffer is a FIFO  *)
(* of bytes, and the parser leaves no whole frame behind, always finds     *)
(* room for a chunk of bounded length, and delivers the frames of the      *)
(* stream however it was cut.                                              *)
(***************************************************************************)
EXTENDS BipBufferCalls, StreamParser, SequenceTheorems, WellFoundedInduction, TLAPS

(* Every method of BipBuffer keeps the region invariant: one lemma each.   *)
USE BipAssumption

(* A copy keeps the memory a function from cells to bytes.                 *)
LEMMA CopyToType ==
  ASSUME BipTypeOK, NEW at \in Nat, NEW n \in Nat, NEW data \in [1 .. n -> Bytes],
         CopyTo(at, data)
  PROVE  buffer' \in [0 .. SIZE - 1 -> Bytes]
<1>1. data \in Seq(Bytes) /\ Len(data) = n
  OBVIOUS
<1>2. ASSUME NEW i \in 0 .. SIZE - 1
      PROVE  (IF i \in at .. at + Len(data) - 1 THEN data[i - at + 1] ELSE buffer[i]) \in Bytes
  <2>1. CASE i \in at .. at + n - 1
    <3>1. i - at + 1 \in 1 .. n
      BY <2>1
    <3>2. QED
      BY <1>1, <2>1, <3>1
  <2>2. CASE i \notin at .. at + n - 1
    BY <1>1, <2>2 DEF BipTypeOK
  <2>3. QED
    BY <2>1, <2>2
<1>3. QED
  BY <1>2 DEF CopyTo

(* A commit that fits the offered span keeps the regions apart.            *)
LEMMA AdvanceKeepsRegions ==
  ASSUME BipTypeOK, RegionsOK, NEW n \in Nat, n <= WriteSpan.size, advance_write_index(n)
  PROVE  RegionsOK' /\ <<region_a_start, region_a_size, region_b_size>>' \in Nat \X Nat \X Nat
  BY DEF BipTypeOK, RegionsOK, WriteSpan, AEnd, available, advance_write_index, AppendToA,
         AppendToB, regions

(* So does an accepted commit of more than was offered, short of SIZE.     *)
LEMMA OverlongCommitKeepsRegions ==
  ASSUME BipTypeOK, RegionsOK, NEW n \in 0 .. SIZE, AdvanceAccepts(n), advance_write_index(n)
  PROVE  RegionsOK' /\ <<region_a_start, region_a_size, region_b_size>>' \in Nat \X Nat \X Nat
  BY DEF BipTypeOK, RegionsOK, AdvanceAccepts, AEnd, available, advance_write_index, AppendToA,
         AppendToB, regions

LEMMA WrapKeepsRegions ==
  ASSUME BipTypeOK, RegionsOK, NEW n \in Nat, n <= WrapSpan.size, WrappedAccepts(n),
         advance_write_index_wrapped(n)
  PROVE  RegionsOK' /\ <<region_a_start, region_a_size, region_b_size>>' \in Nat \X Nat \X Nat
  BY DEF BipTypeOK, RegionsOK, WrapSpan, WriteSpan, WrappedAccepts, AdvanceAccepts, AEnd,
         available, advance_write_index_wrapped, AppendToB

(* write, whether it uses the offered span or opens region B.              *)
LEMMA WriteKeepsRegions ==
  ASSUME BipTypeOK, RegionsOK, NEW n \in Nat, NEW data \in [1 .. n -> Bytes],
         WriteFits(n), write(data)
  PROVE  BipTypeOK' /\ RegionsOK'
<1>1. Len(data) = n
  OBVIOUS
<1>2. WriteSpan.at \in Nat
  BY DEF WriteSpan, BipTypeOK, AEnd
<1>3. CASE n <= WriteSpan.size
  <2>1. CopyTo(WriteSpan.at, data) /\ advance_write_index(n)
    BY <1>1, <1>3 DEF write
  <2>2. QED
    BY <2>1, <1>2, <1>3, CopyToType, AdvanceKeepsRegions DEF BipTypeOK
<1>4. CASE ~(n <= WriteSpan.size)
  <2>1. CopyTo(0, data) /\ AppendToB(n) /\ region_b_size = 0 /\ n <= region_a_start
    BY <1>1, <1>4 DEF write, WriteFits
  <2>2. buffer' \in [0 .. SIZE - 1 -> Bytes]
    BY <2>1, CopyToType
  <2>3. QED
    BY <2>1, <2>2 DEF BipTypeOK, RegionsOK, AppendToB, AEnd, available
<1>5. QED
  BY <1>3, <1>4

LEMMA DiscardKeepsRegions ==
  ASSUME BipTypeOK, RegionsOK, NEW n \in Nat, DiscardAccepts(n), discard(n)
  PROVE  BipTypeOK' /\ RegionsOK'
<1> USE DEF BipTypeOK, RegionsOK, DiscardAccepts, discard, AEnd, available
<1>1. CASE n < region_a_size \/ n = 0
  <2>1. /\ region_a_start' = region_a_start + n
        /\ region_a_size' = region_a_size - n
        /\ region_b_size' = region_b_size
        /\ buffer' = buffer
    BY <1>1
  <2>2. region_a_start' \in Nat /\ region_a_size' \in Nat
    BY <1>1, <2>1
  <2>3. QED
    BY <1>1, <2>1, <2>2
<1>2. CASE ~(n < region_a_size \/ n = 0)
  <2>1. /\ region_a_size' = region_a_size + region_b_size - n
        /\ region_b_size' = 0
        /\ region_a_start' = IF n = region_a_size + region_b_size
                             THEN 0 ELSE n - region_a_size
        /\ buffer' = buffer
    BY <1>2
  <2>2. region_a_size <= n /\ n <= region_a_size + region_b_size
    BY <1>2
  <2>3. region_a_size' \in Nat /\ region_a_start' \in Nat
    BY <2>1, <2>2
  <2>4. region_a_start' + region_a_size' <= SIZE
    BY <2>1, <2>2
  <2>5. QED
    BY <2>1, <2>2, <2>3, <2>4
<1>3. QED
  BY <1>1, <1>2
-----------------------------------------------------------------------------
(* The regions stay disjoint and inside the memory under every sequence of *)
(* calls, provided no commit exceeds the capacity itself (CallsTypeOK).         *)
THEOREM RegionsSafe == ASSUME WrongCommits \subseteq 0 .. SIZE PROVE CallsSpec => []CallsTypeOK
<1> USE BipAssumption, CallsAssumption
<1>1. CallsInit => CallsTypeOK
  BY DEF CallsInit, BipInit, CallsTypeOK, BipTypeOK, RegionsOK, AEnd, available
<1>2. CallsTypeOK /\ [CallsNext]_callVars => CallsTypeOK'
  <2> SUFFICES ASSUME BipTypeOK, RegionsOK, [CallsNext]_callVars PROVE BipTypeOK' /\ RegionsOK'
    BY DEF CallsTypeOK
  <2>0. ASSUME UNCHANGED bipVars PROVE BipTypeOK' /\ RegionsOK'
    BY <2>0 DEF bipVars, regions, BipTypeOK, RegionsOK, AEnd, available
  <2>1. ASSUME NEW n \in Lengths, Write(n) PROVE BipTypeOK' /\ RegionsOK'
    <3>1. PICK data \in SomeData(n) :
            (WriteFits(n) /\ write(data)) \/ UNCHANGED bipVars
      BY <2>1 DEF Write
    <3>2. QED
      BY <3>1, <2>0, WriteKeepsRegions DEF SomeData
  <2>2. ASSUME NEW n \in Lengths, Commit(n) PROVE BipTypeOK' /\ RegionsOK'
    <3>1. PICK data \in SomeData(n) : CopyTo(WriteSpan.at, data) /\ advance_write_index(n)
      BY <2>2 DEF Commit
    <3>2. n <= WriteSpan.size /\ WriteSpan.at \in Nat
      BY <2>2 DEF Commit, WriteSpan, BipTypeOK, AEnd
    <3>3. QED
      BY <3>1, <3>2, CopyToType, AdvanceKeepsRegions DEF SomeData, BipTypeOK
  <2>3. ASSUME NEW n \in Lengths, CommitWrapped(n) PROVE BipTypeOK' /\ RegionsOK'
    <3>1. PICK data \in SomeData(n) :
            CopyTo(WrapSpan.at, data) /\ advance_write_index_wrapped(n)
      BY <2>3 DEF CommitWrapped
    <3>2. n <= WrapSpan.size /\ WrappedAccepts(n) /\ WrapSpan.at \in Nat
      BY <2>3 DEF CommitWrapped, WrapSpan, WriteSpan, BipTypeOK, AEnd
    <3>3. QED
      BY <3>1, <3>2, CopyToType, WrapKeepsRegions DEF SomeData, BipTypeOK
  <2>4. ASSUME NEW n \in Lengths, Discard(n) \/ Read(n) PROVE BipTypeOK' /\ RegionsOK'
    <3>1. (DiscardAccepts(n) /\ discard(n)) \/ UNCHANGED bipVars
      BY <2>4 DEF Discard, Read, DiscardAccepts
    <3>2. QED
      BY <3>1, <2>0, DiscardKeepsRegions
  <2>5. ASSUME NEW n \in Lengths, NEW off \in Lengths, GetReadSpans(off, n) \/ Peek(off, n)
        PROVE  BipTypeOK' /\ RegionsOK'
    BY <2>5, <2>0 DEF GetReadSpans, Peek
  <2>6. ASSUME NEW n \in WrongCommits, CommitTooMuch(n) PROVE BipTypeOK' /\ RegionsOK'
    <3>1. \/ AdvanceAccepts(n) /\ advance_write_index(n) /\ UNCHANGED buffer
          \/ UNCHANGED bipVars
      BY <2>6 DEF CommitTooMuch
    <3>2. QED
      BY <3>1, <2>0, OverlongCommitKeepsRegions DEF BipTypeOK
  <2>7. CASE Clear
    BY <2>7 DEF Clear, clear, BipTypeOK, RegionsOK, AEnd, available
  <2>8. CASE UNCHANGED callVars
    BY <2>8, <2>0 DEF callVars
  <2>9. QED
    BY <2>1, <2>2, <2>3, <2>4, <2>5, <2>6, <2>7, <2>8 DEF CallsNext
<1>3. QED
  BY <1>1, <1>2, PTL DEF CallsSpec
-----------------------------------------------------------------------------
(* What the buffer holds, as a relation between a sequence, the memory and *)
(* the regions, so that it can be compared before and after a call.        *)
Holds(s, mem, start, a, b) ==
  /\ s \in Seq(Bytes) /\ Len(s) = a + b
  /\ \A i \in 1 .. a + b : s[i] = IF i <= a THEN mem[start + i - 1] ELSE mem[i - a - 1]

Copied(new, mem, at, data) ==
  \A c \in 0 .. SIZE - 1 :
    new[c] = IF c \in at .. at + Len(data) - 1 THEN data[c - at + 1] ELSE mem[c]

ByteIn(mem, start, a, off) == IF off < a THEN mem[start + off] ELSE mem[off - a]
Unread(mem, start, a, b)   == [i \in 1 .. a + b |-> ByteIn(mem, start, a, 0 + i - 1)]

LEMMA UnreadBytes ==
  ASSUME NEW mem \in [0 .. SIZE - 1 -> Bytes], NEW start \in Nat, NEW a \in Nat, NEW b \in Nat,
         start + a <= SIZE, b <= SIZE
  PROVE  Holds(Unread(mem, start, a, b), mem, start, a, b)
<1>1. ASSUME NEW i \in 1 .. a + b
      PROVE  /\ ByteIn(mem, start, a, 0 + i - 1) \in Bytes
             /\ ByteIn(mem, start, a, 0 + i - 1) =
                  IF i <= a THEN mem[start + i - 1] ELSE mem[i - a - 1]
  <2>1. CASE i <= a
    <3>1. /\ start + i - 1 \in 0 .. SIZE - 1
          /\ start + (0 + i - 1) = start + i - 1
          /\ 0 + i - 1 < a
      BY <2>1
    <3>2. QED
      BY <2>1, <3>1 DEF ByteIn
  <2>2. CASE ~(i <= a)
    <3>1. i - a - 1 \in 0 .. SIZE - 1 /\ 0 + i - 1 - a = i - a - 1 /\ ~(0 + i - 1 < a)
      BY <2>2
    <3>2. QED
      BY <2>2, <3>1 DEF ByteIn
  <2>3. QED
    BY <2>1, <2>2
<1>2. Unread(mem, start, a, b) \in [1 .. a + b -> Bytes]
  BY <1>1 DEF Unread
<1>3. a + b \in Nat
  OBVIOUS
<1>4. Unread(mem, start, a, b) \in Seq(Bytes) /\ Len(Unread(mem, start, a, b)) = a + b
  BY <1>2, <1>3
<1>5. \A i \in 1 .. a + b : Unread(mem, start, a, b)[i] = ByteIn(mem, start, a, 0 + i - 1)
  BY DEF Unread
<1>6. QED
  BY <1>1, <1>4, <1>5 DEF Holds

(* A copy behind the last unread byte, in A's tail or behind B, with the   *)
(* region it lies in extended over it, appends to what is held.            *)
LEMMA CopyAppends ==
  ASSUME NEW mem, NEW new, NEW start \in Nat, NEW a \in Nat, NEW b \in Nat,
         NEW a2 \in Nat, NEW b2 \in Nat, NEW at \in Nat,
         NEW n \in Nat, NEW data \in Seq(Bytes), Len(data) = n,
         NEW before, Holds(before, mem, start, a, b),
         NEW after, Holds(after, new, start, a2, b2),
         Copied(new, mem, at, data),
         start + a <= SIZE, b <= start,
         \/ b = 0 /\ b2 = 0 /\ a2 = a + n /\ at = start + a /\ at + n <= SIZE
         \/ a2 = a /\ b2 = b + n /\ at = b /\ at + n <= start
  PROVE  after = before \o data
<1> DEFINE joined == before \o data
<1>1. /\ before \in Seq(Bytes) /\ Len(before) = a + b
      /\ after \in Seq(Bytes) /\ Len(after) = a2 + b2
  BY DEF Holds
<1>2. /\ joined \in Seq(Bytes) /\ Len(joined) = Len(before) + Len(data)
      /\ \A i \in 1 .. Len(before) + Len(data) :
           joined[i] = IF i <= Len(before) THEN before[i] ELSE data[i - Len(before)]
  BY ONLY <1>1, data \in Seq(Bytes), ConcatProperties
<1> HIDE DEF joined
<1>3. Len(before) + Len(data) = a + b + n /\ a2 + b2 = a + b + n
  BY <1>1
<1>4. ASSUME NEW i \in 1 .. a + b + n PROVE after[i] = joined[i]
  <2>1. i \in 1 .. a2 + b2 /\ i \in 1 .. Len(before) + Len(data)
    BY <1>3
  <2>2. CASE i <= a
    <3>1. /\ start + i - 1 \in 0 .. SIZE - 1 /\ ~(start + i - 1 \in at .. at + n - 1)
          /\ i <= a2 /\ i <= a + b /\ i \in 1 .. a + b
      BY <2>2
    <3>2. joined[i] = before[i]
      BY <1>1, <1>2, <2>1, <3>1
    <3>3. before[i] = mem[start + i - 1] /\ after[i] = new[start + i - 1]
      BY <2>1, <2>2, <3>1 DEF Holds
    <3>4. new[start + i - 1] = mem[start + i - 1]
      BY <3>1 DEF Copied
    <3>5. QED
      BY <3>2, <3>3, <3>4
  <2>3. CASE a < i /\ i <= a + b
    <3>1. /\ i - a - 1 \in 0 .. SIZE - 1 /\ ~(i - a - 1 \in at .. at + n - 1)
          /\ a2 = a /\ ~(i <= a) /\ i \in 1 .. a + b
      BY <2>3
    <3>2. joined[i] = before[i]
      BY <1>1, <1>2, <2>1, <2>3
    <3>3. before[i] = mem[i - a - 1] /\ after[i] = new[i - a - 1]
      BY <2>1, <3>1 DEF Holds
    <3>4. new[i - a - 1] = mem[i - a - 1]
      BY <3>1 DEF Copied
    <3>5. QED
      BY <3>2, <3>3, <3>4
  <2>4. CASE a + b < i /\ b = 0 /\ b2 = 0 /\ a2 = a + n /\ at = start + a /\ at + n <= SIZE
    <3> DEFINE c == start + i - 1
    <3>1. /\ c \in 0 .. SIZE - 1 /\ c \in at .. at + n - 1
          /\ i <= a2 /\ ~(i <= a + b) /\ c - at + 1 = i - (a + b)
      BY <2>4
    <3>2. joined[i] = data[i - (a + b)]
      BY <1>1, <1>2, <2>1, <3>1
    <3>3. after[i] = new[c]
      BY <2>1, <3>1 DEF Holds
    <3>4. new[c] = data[c - at + 1]
      <4> HIDE DEF c
      <4>1. QED
        BY <3>1 DEF Copied
    <3>5. QED
      BY <3>1, <3>2, <3>3, <3>4
  <2>5. CASE a + b < i /\ a2 = a /\ b2 = b + n /\ at = b /\ at + n <= start
    <3> DEFINE c == i - a2 - 1
    <3>1. /\ c \in 0 .. SIZE - 1 /\ c \in at .. at + n - 1
          /\ ~(i <= a2) /\ ~(i <= a + b) /\ c - at + 1 = i - (a + b)
      BY <2>5
    <3>2. joined[i] = data[i - (a + b)]
      BY <1>1, <1>2, <2>1, <3>1
    <3>3. after[i] = new[c]
      BY <2>1, <3>1 DEF Holds
    <3>4. new[c] = data[c - at + 1]
      <4> HIDE DEF c
      <4>1. QED
        BY <3>1 DEF Copied
    <3>5. QED
      BY <3>1, <3>2, <3>3, <3>4
  <2>6. QED
    BY <2>2, <2>3, <2>4, <2>5
<1>5. after = joined
  <2>1. /\ Len(after) = Len(joined)
        /\ \A i \in 1 .. Len(after) : after[i] = joined[i]
    BY <1>1, <1>2, <1>3, <1>4
  <2>2. QED
    BY ONLY <1>1, <1>2, <2>1, SeqEqual
<1>6. QED
  BY <1>5 DEF joined

(* What the invariant says of the regions, and of those after a step.      *)
LEMMA InMemory ==
  ASSUME BipTypeOK, RegionsOK
  PROVE  /\ buffer \in [0 .. SIZE - 1 -> Bytes]
         /\ region_a_start \in Nat /\ region_a_size \in Nat /\ region_b_size \in Nat
         /\ region_a_start + region_a_size <= SIZE /\ region_b_size <= SIZE
         /\ region_b_size <= region_a_start
<1>1. region_b_size <= region_a_start /\ region_a_start + region_a_size <= SIZE
  BY DEF RegionsOK, AEnd
<1>2. /\ buffer \in [0 .. SIZE - 1 -> Bytes]
      /\ region_a_start \in Nat /\ region_a_size \in Nat /\ region_b_size \in Nat
  BY DEF BipTypeOK
<1>3. region_b_size <= SIZE
  BY <1>1, <1>2
<1>4. QED
  BY <1>1, <1>2, <1>3

LEMMA InMemoryNext ==
  ASSUME BipTypeOK', RegionsOK'
  PROVE  /\ buffer' \in [0 .. SIZE - 1 -> Bytes]
         /\ region_a_start' \in Nat /\ region_a_size' \in Nat /\ region_b_size' \in Nat
         /\ region_a_start' + region_a_size' <= SIZE /\ region_b_size' <= SIZE
<1>1. region_b_size' <= region_a_start' /\ region_a_start' + region_a_size' <= SIZE
  BY DEF RegionsOK, AEnd
<1>2. buffer' \in [0 .. SIZE - 1 -> Bytes]
  BY DEF BipTypeOK
<1>3. region_a_start' \in Nat /\ region_a_size' \in Nat /\ region_b_size' \in Nat
  BY DEF BipTypeOK
<1>4. \A x, y, z \in Nat : z <= x /\ x + y <= SIZE => z <= SIZE
  OBVIOUS
<1>5. region_b_size' <= SIZE
  BY <1>1, <1>3, <1>4
<1>6. QED
  BY <1>1, <1>2, <1>3, <1>5

LEMMA ContentsHeld ==
  ASSUME BipTypeOK, RegionsOK
  PROVE  Holds(Contents, buffer, region_a_start, region_a_size, region_b_size)
<1>1. Contents = Unread(buffer, region_a_start, region_a_size, region_b_size)
  BY DEF Contents, PeekBytes, ByteAt, available, Unread, ByteIn
<1>2. QED
  BY <1>1, InMemory, UnreadBytes

LEMMA ContentsHeldNext ==
  ASSUME BipTypeOK', RegionsOK'
  PROVE  Holds(Contents', buffer', region_a_start', region_a_size', region_b_size')
<1>1. Contents' = Unread(buffer', region_a_start', region_a_size', region_b_size')
  BY DEF Contents, PeekBytes, ByteAt, available, Unread, ByteIn
<1>2. QED
  BY <1>1, InMemoryNext, UnreadBytes

LEMMA Appended ==
  ASSUME BipTypeOK, RegionsOK, BipTypeOK', RegionsOK', NEW n \in Nat, NEW at \in Nat,
         NEW data \in [1 .. n -> Bytes], CopyTo(at, data),
         \/ AppendToA(n) /\ region_b_size = 0 /\ at = AEnd /\ at + n <= SIZE
         \/ AppendToB(n) /\ at = region_b_size /\ at + n <= region_a_start
  PROVE  Contents' = Contents \o data
<1>1. data \in Seq(Bytes) /\ Len(data) = n
  OBVIOUS
<1>2. Copied(buffer', buffer, at, data)
  BY DEF CopyTo, Copied
<1>3. /\ region_a_start' = region_a_start
      /\ \/ /\ region_b_size = 0 /\ region_b_size' = 0 /\ region_a_size' = region_a_size + n
            /\ at = region_a_start + region_a_size /\ at + n <= SIZE
         \/ /\ region_a_size' = region_a_size /\ region_b_size' = region_b_size + n
            /\ at = region_b_size /\ at + n <= region_a_start
  BY DEF AppendToA, AppendToB, AEnd
<1>4. Holds(Contents', buffer', region_a_start, region_a_size', region_b_size')
  BY <1>3, ContentsHeldNext
<1>5. region_a_size' \in Nat /\ region_b_size' \in Nat
  BY InMemoryNext
<1>6. QED
  BY <1>1, <1>2, <1>3, <1>4, <1>5, InMemory, ContentsHeld, CopyAppends

(* A sequence with the elements of a part of another is that part.         *)
Tuple(part, n) == DOMAIN part = 1 .. n /\ part = [i \in 1 .. n |-> part[i]]
Copies(part, n, s, off) == \A i \in 1 .. n : part[i] = s[off + i]

LEMMA IsPart ==
  ASSUME NEW S, NEW s \in Seq(S), NEW off \in Nat, NEW n \in Nat, off + n <= Len(s),
         NEW part, Tuple(part, n), Copies(part, n, s, off)
  PROVE  part = SubSeq(s, off + 1, off + n)
<1> DEFINE sub == SubSeq(s, off + 1, off + n)
<1>1. \A i \in off + 1 .. off + n : s[i] \in S
  <2>1. Len(s) \in Nat
    BY LenProperties
  <2>2. ASSUME NEW i \in off + 1 .. off + n PROVE i \in 1 .. Len(s)
    BY <2>1
  <2>3. QED
    BY <2>2, ElementOfSeq
<1>2. off + 1 \in Int /\ off + n \in Int
  OBVIOUS
<1>3. /\ sub \in Seq(S)
      /\ Len(sub) = IF off + 1 <= off + n THEN off + n - (off + 1) + 1 ELSE 0
      /\ \A i \in 1 .. off + n - (off + 1) + 1 : sub[i] = s[off + 1 + i - 1]
  BY ONLY <1>1, <1>2, SubSeqProperties
<1> HIDE DEF sub
<1>4. off + n - (off + 1) + 1 = n /\ \A i \in 1 .. n : off + 1 + i - 1 = off + i
  OBVIOUS
<1>5. Len(sub) = n /\ \A i \in 1 .. n : sub[i] = s[off + i]
  BY <1>3, <1>4
<1>6. Tuple(sub, n)
  BY <1>3, <1>5, LenProperties DEF Tuple
<1>7. part = sub
  BY <1>5, <1>6 DEF Tuple, Copies
<1>8. QED
  BY <1>7 DEF sub

(* The bytes peek and get_read_spans return are a part of the contents.    *)
LEMMA ContentsBytes ==
  ASSUME BipTypeOK, RegionsOK
  PROVE  /\ Contents \in Seq(Bytes) /\ Len(Contents) = available /\ available \in Nat
         /\ \A i \in 1 .. available : Contents[i] = ByteAt(i - 1)
         /\ \A k \in 1 .. available :
              /\ k <= region_a_size => Contents[k] = buffer[region_a_start + k - 1]
              /\ ~(k <= region_a_size) => Contents[k] = buffer[k - region_a_size - 1]
<1>1. Contents \in Seq(Bytes) /\ Len(Contents) = available
  BY ContentsHeld DEF Holds, available
<1>2. available \in Nat
  BY DEF available, BipTypeOK
<1>3. ASSUME NEW i \in 1 .. available PROVE Contents[i] = ByteAt(i - 1)
  <2>1. 0 + i - 1 = i - 1
    OBVIOUS
  <2>2. Contents[i] = ByteAt(0 + i - 1)
    BY DEF Contents, PeekBytes
  <2>3. QED
    BY <2>1, <2>2
<1>4. ASSUME NEW k \in 1 .. available
      PROVE  Contents[k] = IF k <= region_a_size THEN buffer[region_a_start + k - 1]
                                                 ELSE buffer[k - region_a_size - 1]
  BY ContentsHeld DEF Holds, available
<1>5. QED
  BY <1>1, <1>2, <1>3, <1>4

LEMMA PeekIsPart ==
  ASSUME BipTypeOK, RegionsOK, NEW off \in Nat, NEW n \in Nat, off + n <= available
  PROVE  PeekBytes(off, n) = SubSeq(Contents, off + 1, off + n)
<1> DEFINE part == PeekBytes(off, n)
<1>1. Tuple(part, n)
  BY DEF PeekBytes, Tuple
<1>2. ASSUME NEW i \in 1 .. n PROVE part[i] = Contents[off + i]
  <2>1. off + i \in 1 .. available /\ off + i - 1 \in Int
    BY ContentsBytes
  <2>2. part[i] = ByteAt(off + i - 1)
    BY DEF PeekBytes
  <2>3. QED
    BY <2>1, <2>2, ContentsBytes
<1> HIDE DEF part
<1>3. off + n <= Len(Contents) /\ Contents \in Seq(Bytes)
  BY ContentsBytes
<1>4. Copies(part, n, Contents, off)
  BY <1>2 DEF Copies
<1>5. part = SubSeq(Contents, off + 1, off + n)
  BY <1>1, <1>3, <1>4, IsPart
<1>6. QED
  BY <1>5 DEF part

LEMMA SpansArePart ==
  ASSUME BipTypeOK, RegionsOK, NEW off \in Nat, NEW n \in Nat, off + n <= available
  PROVE  ReadSpans(off, n)[1] \o ReadSpans(off, n)[2] = SubSeq(Contents, off + 1, off + n)
<1> DEFINE inA == IF off >= region_a_size THEN 0
                  ELSE IF n <= region_a_size - off THEN n ELSE region_a_size - off
           fromB == IF off >= region_a_size THEN off - region_a_size ELSE 0
           first  == [i \in 1 .. inA     |-> buffer[region_a_start + off + i - 1]]
           second == [i \in 1 .. n - inA |-> buffer[fromB + i - 1]]
<1>1. ReadSpans(off, n)[1] = first /\ ReadSpans(off, n)[2] = second
  BY DEF ReadSpans
<1>2. /\ region_a_size \in Nat /\ region_b_size \in Nat /\ region_a_start \in Nat
      /\ region_a_start + region_a_size <= SIZE /\ region_b_size <= SIZE
      /\ available = region_a_size + region_b_size
  BY InMemory DEF available
<1>3. /\ inA \in Nat /\ inA <= n /\ fromB \in Nat
      /\ inA > 0 => off + inA <= region_a_size
      /\ n - inA > 0 => inA + off - region_a_size = fromB /\ off + inA >= region_a_size
  BY <1>2
<1> HIDE DEF inA, fromB
<1>4. ASSUME NEW i \in 1 .. inA
      PROVE  /\ buffer[region_a_start + off + i - 1] = Contents[off + i]
             /\ buffer[region_a_start + off + i - 1] \in Bytes
  <2>1. /\ off + i \in 1 .. available /\ off + i <= region_a_size
        /\ region_a_start + (off + i) - 1 = region_a_start + off + i - 1
    BY <1>2, <1>3
  <2>2. Contents[off + i] = buffer[region_a_start + (off + i) - 1]
    BY <1>2, <2>1, ContentsHeld DEF Holds
  <2>3. QED
    BY <2>1, <2>2, ContentsBytes, ElementOfSeq
<1>5. ASSUME NEW i \in 1 .. n - inA
      PROVE  /\ buffer[fromB + i - 1] = Contents[off + inA + i]
             /\ buffer[fromB + i - 1] \in Bytes
  <2>1. /\ off + inA + i \in 1 .. available /\ ~(off + inA + i <= region_a_size)
        /\ off + inA + i - region_a_size - 1 = fromB + i - 1
    BY <1>2, <1>3
  <2>2. Contents[off + inA + i] = buffer[off + inA + i - region_a_size - 1]
    <3>1. ASSUME NEW k \in 1 .. available, ~(k <= region_a_size)
          PROVE  Contents[k] = buffer[k - region_a_size - 1]
      BY <3>1, ContentsBytes
    <3>2. QED
      <4>1. off \in Int /\ inA \in Int /\ i \in Int
        BY <1>3
      <4>2. QED
        BY ONLY <1>2, <2>1, <3>1, <4>1
  <2>3. QED
    BY <2>1, <2>2, ContentsBytes, ElementOfSeq
<1>6. /\ first \in Seq(Bytes) /\ Len(first) = inA
      /\ \A i \in 1 .. inA : first[i] = Contents[off + i]
  <2>1. first \in [1 .. inA -> Bytes]
    BY <1>4
  <2>2. first \in Seq(Bytes) /\ Len(first) = inA
    BY <1>3, <2>1
  <2>3. QED
    BY <1>4, <2>2
<1>7. /\ second \in Seq(Bytes) /\ Len(second) = n - inA
      /\ \A i \in 1 .. n - inA : second[i] = Contents[off + inA + i]
  <2>1. second \in [1 .. n - inA -> Bytes] /\ n - inA \in Nat
    BY <1>3, <1>5
  <2>2. second \in Seq(Bytes) /\ Len(second) = n - inA
    BY <2>1
  <2>3. QED
    BY <1>5, <2>2
<1> DEFINE part == first \o second
<1> HIDE DEF first, second
<1>8. /\ part \in Seq(Bytes) /\ Len(part) = Len(first) + Len(second)
      /\ \A i \in 1 .. Len(first) + Len(second) :
           part[i] = IF i <= Len(first) THEN first[i] ELSE second[i - Len(first)]
  BY ONLY <1>6, <1>7, ConcatProperties
<1> HIDE DEF part
<1>9. Len(first) + Len(second) = n
  BY <1>3, <1>6, <1>7
<1>10. Tuple(part, n)
  BY <1>8, <1>9, LenProperties DEF Tuple
<1>11. Copies(part, n, Contents, off)
  <2> SUFFICES ASSUME NEW i \in 1 .. n PROVE part[i] = Contents[off + i]
    BY DEF Copies
  <2>1. CASE i <= inA
    BY <1>6, <1>8, <1>9, <2>1
  <2>2. CASE ~(i <= inA)
    <3>1. i - inA \in 1 .. n - inA /\ off + inA + (i - inA) = off + i
      BY <1>3, <2>2
    <3>2. part[i] = second[i - inA]
      BY <1>6, <1>8, <1>9, <2>2
    <3>3. QED
      BY <1>7, <3>1, <3>2
  <2>3. QED
    BY <2>1, <2>2
<1>12. off + n <= Len(Contents) /\ Contents \in Seq(Bytes)
  BY ContentsBytes
<1>13. part = SubSeq(Contents, off + 1, off + n)
  BY <1>10, <1>11, <1>12, IsPart
<1>14. QED
  BY <1>1, <1>13 DEF part

(* What discard leaves is the rest of the contents.                        *)
LEMMA Discarded ==
  ASSUME BipTypeOK, RegionsOK, BipTypeOK', RegionsOK', NEW n \in Nat,
         DiscardAccepts(n), discard(n)
  PROVE  Contents' = SubSeq(Contents, n + 1, Len(Contents))
<1> DEFINE rest == Contents'
           left == available - n
<1>1. /\ region_a_size \in Nat /\ region_b_size \in Nat /\ region_a_start \in Nat
      /\ available = region_a_size + region_b_size /\ n <= available
      /\ buffer' = buffer
  BY InMemory DEF available, DiscardAccepts, discard
<1>2. \/ /\ n < region_a_size \/ n = 0
         /\ region_a_start' = region_a_start + n /\ region_a_size' = region_a_size - n
         /\ region_b_size' = region_b_size
      \/ /\ region_a_size <= n /\ n # 0 /\ region_a_size' = left /\ region_b_size' = 0
         /\ left = 0 \/ region_a_start' = n - region_a_size
  BY <1>1 DEF discard
<1>3. left \in Nat /\ n + left = available /\ region_a_size' + region_b_size' = left
  BY <1>1, <1>2
<1>4. /\ rest \in Seq(Bytes) /\ Len(rest) = left
      /\ \A i \in 1 .. left : rest[i] = IF i <= region_a_size' THEN buffer[region_a_start' + i - 1]
                                        ELSE buffer[i - region_a_size' - 1]
  BY <1>1, <1>3, ContentsHeldNext DEF Holds
<1> HIDE DEF rest, left
<1>5. Copies(rest, left, Contents, n)
  <2> SUFFICES ASSUME NEW i \in 1 .. left PROVE rest[i] = Contents[n + i]
    BY DEF Copies
  <2>1. n + i \in 1 .. available
    BY <1>1, <1>3
  <2>2. /\ n + i <= region_a_size => Contents[n + i] = buffer[region_a_start + (n + i) - 1]
        /\ ~(n + i <= region_a_size) => Contents[n + i] = buffer[n + i - region_a_size - 1]
    <3>1. ASSUME NEW k \in 1 .. available
          PROVE  /\ k <= region_a_size => Contents[k] = buffer[region_a_start + k - 1]
                 /\ ~(k <= region_a_size) => Contents[k] = buffer[k - region_a_size - 1]
      BY ContentsBytes
    <3>2. QED
      <4>1. n \in Int /\ i \in Int
        BY <1>3
      <4>2. QED
        BY ONLY <1>1, <2>1, <3>1, <4>1
  <2>3. CASE n + i <= region_a_size /\ n < region_a_size
    <3>1. i <= region_a_size' /\ region_a_start' + i - 1 = region_a_start + (n + i) - 1
      BY <1>1, <1>2, <2>3
    <3>2. QED
      BY <1>4, <2>2, <2>3, <3>1
  <2>4. CASE ~(n + i <= region_a_size) /\ (n < region_a_size \/ n = 0)
    <3>1. ~(i <= region_a_size') /\ i - region_a_size' - 1 = n + i - region_a_size - 1
      BY <1>1, <1>2, <1>3, <2>4
    <3>2. QED
      BY <1>4, <2>2, <2>4, <3>1
  <2>5. CASE ~(n < region_a_size \/ n = 0)
    <3>1. /\ i <= region_a_size' /\ ~(n + i <= region_a_size)
          /\ region_a_start' + i - 1 = n + i - region_a_size - 1
      BY <1>1, <1>2, <1>3, <2>5
    <3>2. QED
      BY <1>4, <2>2, <3>1
  <2>6. QED
    BY <1>1, <2>3, <2>4, <2>5
<1>6. Tuple(rest, left)
  BY <1>4, LenProperties DEF Tuple
<1>7. Contents \in Seq(Bytes) /\ Len(Contents) = n + left
  BY <1>3, ContentsBytes
<1>8. rest = SubSeq(Contents, n + 1, n + left)
  BY <1>3, <1>5, <1>6, <1>7, IsPart
<1>9. QED
  BY <1>7, <1>8 DEF rest

-----------------------------------------------------------------------------
(* The calls, each as a step of ByteFifo.                                  *)
LEMMA SpanCommitted ==
  ASSUME CallsTypeOK, CallsTypeOK', NEW n \in Nat, n <= WriteSpan.size,
         NEW data \in [1 .. n -> Bytes], CopyTo(WriteSpan.at, data), advance_write_index(n)
  PROVE  Contents' = Contents \o data
<1> USE DEF CallsTypeOK
<1>1. /\ region_a_size \in Nat /\ region_b_size \in Nat /\ region_a_start \in Nat
      /\ AEnd = region_a_start + region_a_size /\ AEnd <= SIZE
      /\ region_b_size <= region_a_start
      /\ region_a_size + region_b_size = 0 => region_a_start = 0
  BY InMemory DEF AEnd, RegionsOK, available
<1>2. WriteSpan.at \in Nat
  BY <1>1 DEF WriteSpan
<1>3. \/ AppendToA(n) /\ region_b_size = 0 /\ WriteSpan.at = AEnd /\ WriteSpan.at + n <= SIZE
      \/ AppendToB(n) /\ WriteSpan.at = region_b_size /\ WriteSpan.at + n <= region_a_start
  <2>1. CASE n = 0
    <3>1. AppendToA(n) /\ AppendToB(n)
      BY <1>1, <2>1 DEF advance_write_index, AppendToA, AppendToB, regions
    <3>2. QED
      BY <1>1, <2>1, <3>1 DEF WriteSpan
  <2>2. CASE n # 0 /\ region_b_size > 0
    <3>1. AppendToB(n)
      BY <1>1, <2>2 DEF advance_write_index
    <3>2. QED
      BY <1>1, <2>2, <3>1 DEF WriteSpan
  <2>3. CASE n # 0 /\ region_b_size = 0 /\ AEnd < SIZE
    <3>1. WriteSpan.at = AEnd /\ n <= SIZE - AEnd
      BY <2>3 DEF WriteSpan
    <3>2. AppendToA(n)
      BY <2>3, <3>1 DEF advance_write_index
    <3>3. QED
      BY <1>1, <2>3, <3>1, <3>2
  <2>4. CASE n # 0 /\ region_b_size = 0 /\ ~(AEnd < SIZE)
    <3>1. WriteSpan.at = 0 /\ n <= region_a_start /\ region_a_size # 0 /\ ~(n <= SIZE - AEnd)
      BY <1>1, <2>4 DEF WriteSpan
    <3>2. AppendToB(n)
      BY <2>4, <3>1 DEF advance_write_index
    <3>3. QED
      BY <2>4, <3>1, <3>2
  <2>5. QED
    BY <1>1, <2>1, <2>2, <2>3, <2>4
<1>4. QED
  BY <1>2, <1>3, Appended

LEMMA Written ==
  ASSUME CallsTypeOK, CallsTypeOK', NEW n \in Nat, WriteFits(n),
         NEW data \in [1 .. n -> Bytes], write(data)
  PROVE  Contents' = Contents \o data
<1>1. Len(data) = n
  OBVIOUS
<1>2. CASE n <= WriteSpan.size
  BY <1>1, <1>2, SpanCommitted DEF write
<1>3. CASE ~(n <= WriteSpan.size)
  <2>1. CopyTo(0, data) /\ AppendToB(n) /\ region_b_size = 0 /\ n <= region_a_start
    BY <1>1, <1>3 DEF write, WriteFits
  <2>2. QED
    BY <2>1, Appended DEF CallsTypeOK
<1>4. QED
  BY <1>2, <1>3

LEMMA WrapCommitted ==
  ASSUME CallsTypeOK, CallsTypeOK', NEW n \in Nat, n <= WrapSpan.size,
         NEW data \in [1 .. n -> Bytes], CopyTo(WrapSpan.at, data), advance_write_index_wrapped(n)
  PROVE  Contents' = Contents \o data
<1>1. region_b_size \in Nat /\ region_a_start \in Nat
  BY InMemory DEF CallsTypeOK
<1>2. WrapSpan.at = region_b_size /\ WrapSpan.at \in Nat /\ WrapSpan.at + n <= region_a_start
  BY <1>1 DEF WrapSpan, WriteSpan
<1>3. AppendToB(n)
  BY DEF advance_write_index_wrapped
<1>4. QED
  BY <1>2, <1>3, Appended DEF CallsTypeOK

(* Nothing is refused while nothing is unread, and nothing longer than the *)
(* offered span is committed, short of SIZE.                               *)
LEMMA RefusedWhenFull ==
  ASSUME CallsTypeOK, NEW n \in Nat, ~WriteFits(n)
  PROVE  Contents # <<>> \/ n > SIZE
<1>1. /\ region_a_size \in Nat /\ region_b_size \in Nat /\ region_a_start \in Nat
      /\ available = region_a_size + region_b_size
      /\ available = 0 => region_a_start = 0
  BY InMemory DEF CallsTypeOK, RegionsOK, available
<1>2. available = 0 => n > SIZE
  BY <1>1 DEF WriteFits, WriteSpan, AEnd
<1>3. Contents = <<>> => available = 0
  BY ContentsBytes DEF CallsTypeOK
<1>4. QED
  BY <1>2, <1>3

LEMMA OverlongRefused ==
  ASSUME CallsTypeOK, NEW n \in 0 .. SIZE, n > WriteSpan.size PROVE ~AdvanceAccepts(n)
<1>1. /\ region_a_size \in Nat /\ region_b_size \in Nat /\ region_a_start \in Nat
      /\ region_a_size + region_b_size = 0 => region_a_start = 0
      /\ region_b_size <= region_a_start /\ AEnd = region_a_start + region_a_size /\ AEnd <= SIZE
  BY InMemory DEF CallsTypeOK, RegionsOK, available, AEnd
<1>2. QED
  BY <1>1 DEF AdvanceAccepts, WriteSpan

LEMMA FitsCapacity == ASSUME CallsTypeOK' PROVE Len(Contents') <= SIZE
<1>1. Len(Contents') = region_a_size' + region_b_size'
  BY ContentsHeldNext DEF Holds, CallsTypeOK
<1>2. region_a_start' + region_a_size' <= SIZE /\ region_b_size' <= region_a_start'
  BY DEF CallsTypeOK, RegionsOK, AEnd
<1>3. region_a_start' \in Nat /\ region_a_size' \in Nat /\ region_b_size' \in Nat
  BY InMemoryNext DEF CallsTypeOK
<1>4. \A x, y, z \in Nat : z <= x /\ x + y <= SIZE => y + z <= SIZE
  OBVIOUS
<1>5. QED
  BY <1>1, <1>2, <1>3, <1>4

LEMMA CallIsFifoStep ==
  ASSUME WrongCommits \subseteq 0 .. SIZE, CallsTypeOK, CallsTypeOK', CallsNext
  PROVE  Fifo!FifoNext
<1> USE CallsAssumption
<1>1. Contents \in Seq(Bytes) /\ Len(Contents) = available /\ available \in Nat
  BY ContentsBytes DEF CallsTypeOK
<1>2. ASSUME UNCHANGED bipVars PROVE Contents' = Contents
  BY <1>2 DEF Contents, PeekBytes, ByteAt, available, bipVars, regions
<1>3. ASSUME NEW n \in Lengths, Write(n) PROVE Fifo!Put
  <2>1. CASE \E data \in SomeData(n) : WriteFits(n) /\ write(data) /\ Answer("write", n, TRUE, data)
    <3>1. PICK data \in SomeData(n) : WriteFits(n) /\ write(data) /\ Answer("write", n, TRUE, data)
      BY <2>1
    <3>2. Contents' = Contents \o data /\ Len(data) = n
      BY <3>1, Written DEF SomeData
    <3>3. QED
      BY <3>1, <3>2, FitsCapacity DEF Answer, AnswerAt, Fifo!Put
  <2>2. CASE ~WriteFits(n) /\ UNCHANGED bipVars /\ Answer("write", n, FALSE, <<>>)
    BY <2>2, <1>2, RefusedWhenFull DEF Answer, AnswerAt, Fifo!Put, Fifo!Refused
  <2>3. QED
    BY <1>3, <2>1, <2>2 DEF Write
<1>4. ASSUME NEW n \in Lengths, Commit(n) \/ CommitWrapped(n) PROVE Fifo!Put
  <2>1. PICK data \in SomeData(n) :
          /\ Answer("commit", n, TRUE, data)
          /\ \/ n <= WriteSpan.size /\ CopyTo(WriteSpan.at, data) /\ advance_write_index(n)
             \/ n <= WrapSpan.size /\ CopyTo(WrapSpan.at, data) /\ advance_write_index_wrapped(n)
    BY <1>4 DEF Commit, CommitWrapped
  <2>2. Contents' = Contents \o data /\ Len(data) = n
    BY <2>1, SpanCommitted, WrapCommitted DEF SomeData
  <2>3. QED
    BY <2>1, <2>2, FitsCapacity DEF Answer, AnswerAt, Fifo!Put
<1>5. ASSUME NEW n \in WrongCommits, CommitTooMuch(n) PROVE Fifo!Put
  <2>1. UNCHANGED bipVars /\ Answer("commit", n, FALSE, <<>>)
    BY <1>5, OverlongRefused DEF CommitTooMuch
  <2>2. QED
    BY <2>1, <1>2 DEF Answer, AnswerAt, Fifo!Put, Fifo!Refused
<1>6. ASSUME NEW n \in Lengths, Discard(n) PROVE Fifo!Drop
  <2>1. CASE DiscardAccepts(n) /\ discard(n) /\ Answer("discard", n, TRUE, <<>>)
    <3>1. Contents' = SubSeq(Contents, n + 1, Len(Contents))
      BY <2>1, Discarded DEF CallsTypeOK
    <3>2. QED
      BY <1>1, <2>1, <3>1 DEF Answer, AnswerAt, Fifo!Drop, DiscardAccepts
  <2>2. CASE ~DiscardAccepts(n) /\ UNCHANGED bipVars /\ Answer("discard", n, FALSE, <<>>)
    <3>1. n > available
      BY <1>1, <2>2 DEF DiscardAccepts
    <3>2. QED
      BY <1>1, <1>2, <2>2, <3>1 DEF Answer, AnswerAt, Fifo!Drop, Fifo!Refused
  <2>3. QED
    BY <1>6, <2>1, <2>2 DEF Discard
<1>7. ASSUME NEW n \in Lengths, NEW off \in Lengths, GetReadSpans(off, n) \/ Peek(off, n)
      PROVE  Fifo!Look
  <2>1. CASE off + n > available /\ AnswerAt("look", off, n, FALSE, <<>>)
    BY <1>1, <1>2, <1>7, <2>1 DEF AnswerAt, Fifo!Look, Fifo!Refused, GetReadSpans, Peek
  <2>2. CASE off + n <= available
    <3>1. /\ PeekBytes(off, n) = SubSeq(Contents, off + 1, off + n)
          /\ ReadSpans(off, n)[1] \o ReadSpans(off, n)[2] = SubSeq(Contents, off + 1, off + n)
      BY <2>2, PeekIsPart, SpansArePart DEF CallsTypeOK
    <3>2. AnswerAt("look", off, n, TRUE, SubSeq(Contents, off + 1, off + n))
      <4>1. ~(off + n > available)
        BY <1>1, <2>2
      <4>2. QED
        BY <1>7, <3>1, <4>1 DEF GetReadSpans, Peek
    <3>3. QED
      BY <1>1, <1>2, <1>7, <2>2, <3>2 DEF AnswerAt, Fifo!Look, GetReadSpans, Peek
  <2>3. QED
    BY <1>7, <2>1, <2>2 DEF GetReadSpans, Peek
<1>8. ASSUME NEW n \in Lengths, Read(n) PROVE Fifo!Take
  <2>1. CASE n <= available /\ discard(n) /\ Answer("read", n, TRUE, PeekBytes(0, n))
    <3>1. Contents' = SubSeq(Contents, n + 1, Len(Contents))
      BY <2>1, Discarded DEF CallsTypeOK, DiscardAccepts
    <3>2. PeekBytes(0, n) = SubSeq(Contents, 1, n)
      <4>1. 0 + n <= available /\ 0 + n = n /\ 0 + 1 = 1
        BY <2>1
      <4>2. PeekBytes(0, n) = SubSeq(Contents, 0 + 1, 0 + n)
        BY <4>1, PeekIsPart DEF CallsTypeOK
      <4>3. QED
        BY <4>1, <4>2
    <3>3. QED
      BY <1>1, <2>1, <3>1, <3>2 DEF Answer, AnswerAt, Fifo!Take
  <2>2. CASE n > available /\ UNCHANGED bipVars /\ Answer("read", n, FALSE, <<>>)
    BY <1>1, <1>2, <2>2 DEF Answer, AnswerAt, Fifo!Take, Fifo!Refused
  <2>3. QED
    BY <1>8, <2>1, <2>2 DEF Read
<1>9. ASSUME Clear PROVE Fifo!Clear
  <2>1. Len(Contents') = 0 /\ Contents' \in Seq(Bytes)
    BY <1>9, ContentsHeldNext DEF Holds, CallsTypeOK, Clear, clear
  <2>2. Contents' = <<>>
    BY <2>1, EmptySeq
  <2>3. QED
    BY <1>9, <2>2 DEF Clear, Answer, AnswerAt, Fifo!Clear
<1>10. QED
  BY <1>3, <1>4, <1>5, <1>6, <1>7, <1>8, <1>9 DEF CallsNext, Fifo!FifoNext

(* BipBuffer implements a bounded FIFO of bytes: whatever the calls, their *)
(* order and their lengths, no byte is lost, repeated, reordered or made   *)
(* up, and every call gets the answer ByteFifo gives.                      *)
THEOREM BufferIsFifo == ASSUME WrongCommits \subseteq 0 .. SIZE PROVE CallsSpec => IsFifo
<1>1. CallsInit => Fifo!FifoInit
  <2> SUFFICES ASSUME CallsInit PROVE Fifo!FifoInit
    OBVIOUS
  <2>1. Contents = <<>>
    BY DEF CallsInit, BipInit, Contents, PeekBytes, available
  <2>2. QED
    BY <2>1 DEF CallsInit, Fifo!FifoInit, Fifo!Call
<1>2. CallsTypeOK /\ CallsTypeOK' /\ [CallsNext]_callVars => [Fifo!FifoNext]_Fifo!fifoVars
  <2>1. ASSUME UNCHANGED callVars PROVE UNCHANGED Fifo!fifoVars
    BY <2>1 DEF callVars, bipVars, regions, Fifo!fifoVars, Contents, PeekBytes, ByteAt, available
  <2>2. QED
    BY <2>1, CallIsFifoStep
<1>3. CallsSpec => []CallsTypeOK
  BY RegionsSafe
<1>4. QED
  BY <1>1, <1>2, <1>3, PTL DEF CallsSpec, IsFifo, Fifo!FifoSpec

-----------------------------------------------------------------------------
USE ParserAssumption, BipAssumption

(* A header read while at least one header is unread yields a byte.        *)
LEMMA ByteAtIsByte ==
  ASSUME BipTypeOK, RegionsOK, NEW off \in Nat, off < available
  PROVE  ByteAt(off) \in Nat
<1>1. CASE off < region_a_size
  <2>1. region_a_start + off \in 0 .. SIZE - 1
    BY <1>1 DEF BipTypeOK, RegionsOK, AEnd
  <2>2. QED
    BY <1>1, <2>1 DEF ByteAt, BipTypeOK
<1>2. CASE ~(off < region_a_size)
  <2>1. off - region_a_size \in 0 .. SIZE - 1
    BY <1>2 DEF BipTypeOK, RegionsOK, AEnd, available
  <2>2. QED
    BY <1>2, <2>1 DEF ByteAt, BipTypeOK
<1>3. QED
  BY <1>1, <1>2

(* Storing a chunk adds its length and opens region B only when it must.   *)
LEMMA WriteAdds ==
  ASSUME BipTypeOK, RegionsOK, WrappedLate, NEW n \in Nat \ {0},
         NEW data \in [1 .. n -> Bytes], WriteFits(n), write(data)
  PROVE  available' = available + n /\ WrappedLate'
<1>1. Len(data) = n
  OBVIOUS
<1>2. CASE n <= WriteSpan.size
  BY <1>1, <1>2 DEF write, advance_write_index, AppendToA, AppendToB, WriteSpan, available,
     AEnd, BipTypeOK, RegionsOK, WrappedLate
<1>3. CASE ~(n <= WriteSpan.size)
  BY <1>1, <1>3 DEF write, WriteFits, AppendToB, WriteSpan, available,
     AEnd, BipTypeOK, RegionsOK, WrappedLate
<1>4. QED
  BY <1>2, <1>3

(* Discarding subtracts the length and never moves the end of A apart from *)
(* B, short of giving B up.                                                *)
LEMMA DiscardSubtracts ==
  ASSUME BipTypeOK, RegionsOK, WrappedLate, NEW n \in Nat, DiscardAccepts(n), discard(n)
  PROVE  available' = available - n /\ WrappedLate'
<1>1. CASE n < region_a_size \/ n = 0
  <2>1. /\ region_a_start' = region_a_start + n
        /\ region_a_size' = region_a_size - n
        /\ region_b_size' = region_b_size
    BY <1>1 DEF discard
  <2>2. QED
    BY <2>1 DEF BipTypeOK, available, AEnd, WrappedLate
<1>2. CASE ~(n < region_a_size \/ n = 0)
  BY <1>2 DEF discard, BipTypeOK, available, AEnd, WrappedLate
<1>3. QED
  BY <1>1, <1>2

-----------------------------------------------------------------------------
LEMMA InitEstablishes == Init => ParserInv
<1> SUFFICES ASSUME Init PROVE ParserInv
  OBVIOUS
<1>1. buffer \in [0 .. SIZE - 1 -> Bytes]
  BY DEF Init, BipInit
<1>2. region_a_start = 0 /\ region_a_size = 0 /\ region_b_size = 0
  BY DEF Init, BipInit
<1>3. BipTypeOK /\ RegionsOK
  BY <1>1, <1>2 DEF BipTypeOK, RegionsOK, AEnd, available
<1>4. available = 0 /\ 0 < MaxFrame /\ WrappedLate
  BY <1>2 DEF available, WrappedLate
<1>5. QED
  BY <1>3, <1>4 DEF Init, ParserInv, TypeOK, CountExact, ResidueBounded

(* A chunk is a sequence of its length.                                    *)
LEMMA ChunkOfWire ==
  ASSUME NEW w \in Seq(Bytes), NEW s \in Nat, NEW n \in Nat \ {0}, s + n <= Len(w)
  PROVE  SubSeq(w, s + 1, s + n) \in [1 .. n -> Bytes]
<1> DEFINE chunk == SubSeq(w, s + 1, s + n)
<1>1. /\ s + 1 \in 1 .. Len(w) + 1 /\ s + n \in s .. Len(w)
      /\ s + n - (s + 1) + 1 = n
  OBVIOUS
<1>2. chunk \in Seq(Bytes) /\ Len(chunk) = n
  BY <1>1, SubSeqProperties
<1> HIDE DEF chunk
<1>3. chunk \in [1 .. n -> Bytes]
  BY <1>2, LenProperties
<1>4. QED
  BY <1>3 DEF chunk

LEMMA PushPreserves == ASSUME ParserInv, NEW n \in 1 .. MaxChunk, PushData(n) PROVE ParserInv'
<1> USE DEF ParserInv, TypeOK, CountExact, ResidueBounded
<1>1. n \in Nat \ {0} /\ wire \in Seq(Bytes) /\ sent \in Nat /\ sent + n <= Len(wire)
  BY DEF PushData
<1>2. SubSeq(wire, sent + 1, sent + n) \in [1 .. n -> Bytes]
  BY <1>1, ChunkOfWire
<1>3. CASE WriteFits(n) /\ write(SubSeq(wire, sent + 1, sent + n)) /\ pc' = "scan"
           /\ available_bytes' = available + n
           /\ kept' = kept \o SubSeq(wire, sent + 1, sent + n)
  <2>1. BipTypeOK' /\ RegionsOK'
    BY <1>1, <1>2, <1>3, WriteKeepsRegions
  <2>2. available' = available + n /\ WrappedLate'
    BY <1>1, <1>2, <1>3, WriteAdds
  <2>3. available \in Nat
    BY DEF available, BipTypeOK
  <2>4. kept' \in Seq(Bytes)
    <3> DEFINE chunk == SubSeq(wire, sent + 1, sent + n)
    <3>1. kept' = kept \o chunk
      BY <1>3
    <3>2. kept \in Seq(Bytes) /\ chunk \in Seq(Bytes)
      BY <1>1, <1>2
    <3> HIDE DEF chunk
    <3>3. QED
      BY ONLY <3>1, <3>2, ConcatProperties
  <2>5. QED
    BY <1>1, <1>3, <2>1, <2>2, <2>3, <2>4 DEF PushData
<1>4. CASE ~WriteFits(n) /\ UNCHANGED <<bipVars, kept, pc, available_bytes>>
  BY <1>1, <1>4 DEF PushData, bipVars, regions, BipTypeOK, RegionsOK, WrappedLate, AEnd, available
<1>5. QED
  BY <1>3, <1>4 DEF PushData

LEMMA ScanPreserves == ASSUME ParserInv, Scan PROVE ParserInv'
<1> USE DEF ParserInv, TypeOK, CountExact, ResidueBounded
<1>1. pc = "scan" /\ available_bytes = available /\ UNCHANGED <<wire, sent, kept>>
  BY DEF Scan
<1>2. ASSUME NEW n \in Nat, n <= available, discard(n), available_bytes' = available_bytes - n,
             pc' \in {"scan", "frame"}
      PROVE  ParserInv'
  <2>1. BipTypeOK' /\ RegionsOK'
    BY <1>2, DiscardKeepsRegions DEF DiscardAccepts
  <2>2. available' = available - n /\ WrappedLate'
    BY <1>2, DiscardSubtracts DEF DiscardAccepts
  <2>3. available \in Nat
    BY DEF available, BipTypeOK
  <2>4. QED
    BY <1>1, <1>2, <2>1, <2>2, <2>3
<1>3. CASE available_bytes = 0 /\ pc' = "idle" /\ UNCHANGED <<bipVars, available_bytes>>
  BY <1>1, <1>3 DEF bipVars, regions, BipTypeOK, RegionsOK, WrappedLate, AEnd, available
<1>4. CASE Consume(region_a_size) /\ pc' = "scan"
  <2>1. region_a_size \in Nat /\ region_a_size <= available
    BY DEF available, BipTypeOK
  <2>2. QED
    BY <1>2, <1>4, <2>1 DEF Consume
<1>5. CASE \E k \in 0 .. region_a_size - 1 : Consume(k) /\ pc' = "frame"
  <2>1. PICK k \in 0 .. region_a_size - 1 : Consume(k) /\ pc' = "frame"
    BY <1>5
  <2>2. k \in Nat /\ k <= available
    BY <2>1 DEF available, BipTypeOK
  <2>3. QED
    BY <1>2, <2>1, <2>2 DEF Consume
<1>6. QED
  BY <1>3, <1>4, <1>5 DEF Scan

LEMMA FramePreserves == ASSUME ParserInv, Frame PROVE ParserInv'
<1> USE DEF ParserInv, TypeOK, CountExact, ResidueBounded
<1>1. pc = "frame" /\ available_bytes = available /\ UNCHANGED <<wire, sent, kept>>
  BY DEF Frame
<1>2. available \in Nat
  BY DEF available, BipTypeOK
<1>3. available >= HeaderSize => DataLen \in Nat
  BY <1>2, ByteAtIsByte DEF DataLen
<1>4. CASE Incomplete /\ pc' = "idle" /\ UNCHANGED <<bipVars, available_bytes, delivered>>
  <2>1. available < MaxFrame
    BY <1>2, <1>3, <1>4 DEF Incomplete, Malformed, TotalLen
  <2>2. QED
    BY <1>1, <1>4, <2>1 DEF bipVars, regions, BipTypeOK, RegionsOK, WrappedLate, AEnd, available
<1>5. ASSUME NEW n \in Nat, n <= available, discard(n), available_bytes' = available - n,
             pc' = "scan"
      PROVE  ParserInv'
  <2>1. BipTypeOK' /\ RegionsOK'
    BY <1>5, DiscardKeepsRegions DEF DiscardAccepts
  <2>2. available' = available - n /\ WrappedLate'
    BY <1>5, DiscardSubtracts DEF DiscardAccepts
  <2>3. QED
    BY <1>1, <1>2, <1>5, <2>1, <2>2
<1>6. CASE Failure /\ Consume(1) /\ pc' = "scan"
  <2>1. 1 <= available
    BY <1>2, <1>6 DEF Failure
  <2>2. QED
    BY <1>1, <1>5, <1>6, <2>1 DEF Consume
<1>7. CASE Success /\ discard(TotalLen) /\ available_bytes' = available - TotalLen /\ pc' = "scan"
  <2>1. TotalLen \in Nat /\ TotalLen <= available
    BY <1>2, <1>3, <1>7 DEF Success, TotalLen
  <2>2. QED
    BY <1>5, <1>7, <2>1
<1>8. QED
  BY <1>4, <1>6, <1>7 DEF Frame

(* ParserInv holds of every behaviour.                                     *)
THEOREM ParserInvariant == Spec => []ParserInv
<1>1. ParserInv /\ [Next]_vars => ParserInv'
  <2>1. ASSUME ParserInv, UNCHANGED vars PROVE ParserInv'
    BY <2>1 DEF vars, parserVars, bipVars, regions, ParserInv, TypeOK, BipTypeOK, RegionsOK,
       CountExact, ResidueBounded, WrappedLate, AEnd, available
  <2>2. QED
    BY <2>1, PushPreserves, ScanPreserves, FramePreserves DEF Next
<1>2. QED
  BY InitEstablishes, <1>1, PTL DEF Spec

(* Whatever was pushed before, also when longer chunks were refused, a     *)
(* chunk of at most half of SIZE + 1 - MaxFrame bytes is taken: in the     *)
(* worst case the residue of a frame splits the free space evenly.         *)
THEOREM AlwaysRoom == Spec => []RoomForChunk
<1>1. ParserInv => RoomForChunk
  <2> SUFFICES ASSUME ParserInv, pc = "idle", NEW n \in 0 .. SIZE, 2 * n + MaxFrame <= SIZE + 1
               PROVE  WriteFits(n)
    BY DEF RoomForChunk
  <2>1. available < MaxFrame
    BY DEF ParserInv, ResidueBounded
  <2>2. CASE region_b_size = 0
    BY <2>1, <2>2 DEF WriteFits, WriteSpan, AEnd, available, ParserInv, TypeOK,
       BipTypeOK, RegionsOK
  <2>3. CASE region_b_size > 0
    <3>1. AEnd + region_b_size > SIZE /\ region_a_size > 0
      BY <2>3 DEF ParserInv, WrappedLate, TypeOK, RegionsOK
    <3>2. n <= region_a_start - region_b_size
      BY <2>1, <2>3, <3>1 DEF AEnd, available, ParserInv, TypeOK, BipTypeOK
    <3>3. QED
      BY <2>3, <3>2 DEF WriteFits, WriteSpan
  <2>4. QED
    BY <2>2, <2>3 DEF ParserInv, TypeOK, BipTypeOK
<1>2. QED
  BY <1>1, ParserInvariant, PTL

(* When push_data returns, less than one frame is left unread.             *)
THEOREM ResidueIsShort == Spec => []ResidueBounded
<1>1. ParserInv => ResidueBounded
  BY DEF ParserInv
<1>2. QED
  BY <1>1, ParserInvariant, PTL

(* The parse loop makes progress: of the turns of one push there are no    *)
(* more than twice the bytes in the buffer and one, whatever they are.     *)
THEOREM ParsingProgresses == Spec => TurnsShorten
<1>1. ASSUME ParserInv, NEW n \in Nat, n <= available, discard(n)
      PROVE  available \in Nat /\ available' = available - n
  <2>1. available \in Nat
    BY <1>1 DEF ParserInv, TypeOK, BipTypeOK, available
  <2>2. QED
    BY <1>1, <2>1, DiscardSubtracts DEF DiscardAccepts, ParserInv, TypeOK
<1>2. ASSUME ParserInv, Scan, pc' # "idle" PROVE Remaining' < Remaining
  <2>1. pc = "scan" /\ available_bytes = available
    BY <1>2 DEF Scan, ParserInv, CountExact
  <2>2. CASE available_bytes > 0 /\ discard(region_a_size) /\ pc' = "scan"
    <3>1. region_a_size \in Nat /\ region_a_size <= available /\ region_a_size > 0
      BY <1>2, <2>1, <2>2 DEF ParserInv, TypeOK, BipTypeOK, RegionsOK, available
    <3>2. QED
      BY <1>1, <1>2, <2>1, <2>2, <3>1 DEF Remaining
  <2>3. CASE \E k \in 0 .. region_a_size - 1 : discard(k) /\ pc' = "frame"
    <3>1. PICK k \in 0 .. region_a_size - 1 : discard(k) /\ pc' = "frame"
      BY <2>3
    <3>2. k \in Nat /\ k <= available
      BY <1>2, <3>1 DEF ParserInv, TypeOK, BipTypeOK, available
    <3>3. QED
      BY <1>1, <1>2, <2>1, <3>1, <3>2 DEF Remaining
  <2>4. QED
    BY <1>2, <2>2, <2>3 DEF Scan, Consume
<1>3. ASSUME ParserInv, Frame, pc' # "idle" PROVE Remaining' < Remaining
  <2>1. pc = "frame" /\ pc' = "scan" /\ available \in Nat
    BY <1>3 DEF Frame, ParserInv, TypeOK, BipTypeOK, available
  <2>2. PICK n \in Nat : 0 < n /\ n <= available /\ discard(n)
    <3>1. CASE Failure /\ discard(1)
      BY <2>1, <3>1, ParserAssumption DEF Failure
    <3>2. CASE Success /\ discard(TotalLen)
      <4>1. DataLen \in Nat
        BY <1>3, <2>1, <3>2, ByteAtIsByte, ParserAssumption DEF Success, DataLen, ParserInv, TypeOK
      <4>2. TotalLen \in Nat /\ 0 < TotalLen /\ TotalLen <= available
        BY <2>1, <3>2, <4>1, ParserAssumption DEF Success, TotalLen
      <4>3. QED
        BY <3>2, <4>2
    <3>3. QED
      BY <1>3, <3>1, <3>2 DEF Frame, Consume
  <2>3. QED
    BY <1>1, <1>3, <2>1, <2>2 DEF Remaining
<1>4. ParserInv /\ [Next]_vars => [pc # "idle" /\ pc' # "idle" => Remaining' < Remaining]_vars
  <2>1. ASSUME NEW n \in 1 .. MaxChunk, PushData(n) PROVE pc = "idle"
    BY <2>1 DEF PushData
  <2>2. QED
    BY <1>2, <1>3, <2>1 DEF Next
<1>5. QED
  BY <1>4, ParserInvariant, PTL DEF Spec, TurnsShorten

-----------------------------------------------------------------------------
(* Every set of numbers that is not empty has a least one.                *)
LEMMA LeastNat ==
  ASSUME NEW T, T \subseteq Nat, T # {} PROVE \E x \in T : \A y \in T : x <= y
<1> DEFINE R == OpToRel(<, Nat)
<1>1. IsWellFoundedOn(R, Nat)
  BY NatLessThanWellFounded
<1>2. \A x, y \in Nat : <<x, y>> \in R <=> x < y
  BY DEF OpToRel
<1> HIDE DEF R
<1>3. PICK x \in T : \A y \in T : ~ (<<y, x>> \in R)
  BY <1>1, WFMin
<1>4. ASSUME NEW y \in T PROVE x <= y
  <2>1. x \in Nat /\ y \in Nat
    OBVIOUS
  <2>2. ~(y < x)
    BY <1>2, <1>3, <2>1, Zenon
  <2>3. QED
    BY <2>1, <2>2
<1>5. QED
  BY <1>4

(* Induction, for a set of numbers rather than a predicate.                *)
LEMMA AllNats ==
  ASSUME NEW N, N \subseteq Nat, 0 \in N, \A n \in N : n + 1 \in N
  PROVE  N = Nat
<1> SUFFICES ASSUME Nat \ N # {} PROVE FALSE
  OBVIOUS
<1>1. PICK n \in Nat \ N : \A m \in Nat \ N : n <= m
  BY LeastNat
<1>2. n # 0 /\ n - 1 \in Nat /\ ~(n <= n - 1)
  BY <1>1
<1>3. n - 1 \in N
  BY <1>1, <1>2
<1>4. (n - 1) + 1 \in N /\ (n - 1) + 1 = n
  BY <1>2, <1>3
<1>5. QED
  BY <1>1, <1>4

-----------------------------------------------------------------------------
(* The frames of a stream: what the definition of FramesFrom says of each  *)
(* place.  That a function so defined exists is proved from the last place *)
(* backwards.                                                              *)
Delivery == Bytes \X Seq(Bytes)
FramesAt(w, g, i) ==
  IF i > Len(w) THEN <<>>
  ELSE IF w[i] # StartByte THEN g[i + 1]
  ELSE IF i + HeaderSize - 1 > Len(w) THEN <<>>
  ELSE IF w[i + 1] > MaxFrame - HeaderSize THEN g[i + 1]
  ELSE IF FrameEnd(w, i) > Len(w) + 1 THEN <<>>
  ELSE FrameAt(w, i) \o g[FrameEnd(w, i)]

LEMMA Cells ==
  ASSUME NEW w \in Seq(Bytes)
  PROVE  Len(w) \in Nat /\ \A i \in 1 .. Len(w) : w[i] \in Bytes /\ w[i] \in Nat
<1>1. Len(w) \in Nat /\ \A i \in 1 .. Len(w) : w[i] \in Bytes
  OBVIOUS
<1>2. QED
  BY <1>1

(* What FramesAt looks up lies behind its place.                           *)
LEMMA LooksBehind ==
  ASSUME NEW w \in Seq(Bytes), NEW i \in 1 .. Len(w) + 1, NEW g, NEW h,
         \A j \in i + 1 .. Len(w) + 1 : g[j] = h[j]
  PROVE  FramesAt(w, g, i) = FramesAt(w, h, i)
<1>1. Len(w) \in Nat /\ \A j \in 1 .. Len(w) : w[j] \in Nat
  BY Cells
<1>2. CASE i > Len(w)
  BY <1>2 DEF FramesAt
<1>3. CASE ~(i > Len(w))
  <2>1. g[i + 1] = h[i + 1]
    BY <1>1, <1>3
  <2>2. ASSUME ~(i + HeaderSize - 1 > Len(w)), ~(FrameEnd(w, i) > Len(w) + 1)
        PROVE  g[FrameEnd(w, i)] = h[FrameEnd(w, i)]
    <3>1. w[i + 1] \in Nat
      BY <1>1, <2>2, ParserAssumption
    <3>2. FrameEnd(w, i) \in i + 1 .. Len(w) + 1
      BY <1>1, <2>2, <3>1, ParserAssumption DEF FrameEnd
    <3>3. QED
      BY <3>2
  <2>3. QED
    BY <1>3, <2>1, <2>2 DEF FramesAt
<1>4. QED
  BY <1>2, <1>3

IsFrames(g, w, first) == g = [i \in first .. Len(w) + 1 |-> FramesAt(w, g, i)]

(* A function with the equations of FramesFrom exists.                     *)
LEMMA FramesExist ==
  ASSUME NEW w \in Seq(Bytes)
  PROVE  \E g : IsFrames(g, w, 1)
<1> DEFINE N == {n \in Nat : n <= Len(w) => \E g : IsFrames(g, w, Len(w) + 1 - n)}
<1>0. Len(w) \in Nat
  BY Cells
<1>1. 0 \in N
  <2> DEFINE g == [i \in Len(w) + 1 - 0 .. Len(w) + 1 |-> <<>>]
  <2>1. \A i \in Len(w) + 1 - 0 .. Len(w) + 1 : FramesAt(w, g, i) = <<>>
    BY <1>0 DEF FramesAt
  <2>2. IsFrames(g, w, Len(w) + 1 - 0)
    BY <2>1 DEF IsFrames
  <2>3. QED
    BY <2>2
<1>2. ASSUME NEW n \in N PROVE n + 1 \in N
  <2> SUFFICES ASSUME n + 1 <= Len(w) PROVE \E h : IsFrames(h, w, Len(w) + 1 - (n + 1))
    BY n \in Nat
  <2> DEFINE k == Len(w) + 1 - n
             l == Len(w) + 1 - (n + 1)
  <2>1. n \in Nat /\ \E g : IsFrames(g, w, k)
    BY <1>0
  <2>2. PICK g : IsFrames(g, w, k)
    BY <2>1
  <2>3. k \in 2 .. Len(w) + 1 /\ l \in 1 .. Len(w) /\ k = l + 1
    BY <1>0, <2>1
  <2> HIDE DEF k, l
  <2> DEFINE h == [i \in l .. Len(w) + 1 |-> FramesAt(w, g, i)]
  <2>4. \A i \in k .. Len(w) + 1 : g[i] = FramesAt(w, g, i)
    BY <2>2 DEF IsFrames
  <2>5. \A i \in k .. Len(w) + 1 : h[i] = g[i]
    BY <1>0, <2>3, <2>4
  <2>6. ASSUME NEW i \in l .. Len(w) + 1 PROVE h[i] = FramesAt(w, h, i)
    <3>1. h[i] = FramesAt(w, g, i)
      OBVIOUS
    <3> HIDE DEF h
    <3>2. i \in 1 .. Len(w) + 1 /\ \A j \in i + 1 .. Len(w) + 1 : g[j] = h[j]
      BY <1>0, <2>3, <2>5
    <3>3. FramesAt(w, g, i) = FramesAt(w, h, i)
      BY <3>2, LooksBehind
    <3>4. QED
      BY <3>1, <3>3
  <2>7. h = [i \in l .. Len(w) + 1 |-> FramesAt(w, h, i)]
    BY <2>6
  <2> HIDE DEF h
  <2>8. IsFrames(h, w, l)
    BY <2>7 DEF IsFrames
  <2>9. QED
    BY <2>8 DEF l
<1> HIDE DEF N
<1>3. N = Nat
  BY <1>1, <1>2, AllNats DEF N
<1>4. \E g : IsFrames(g, w, Len(w) + 1 - Len(w))
  <2>1. Len(w) \in N /\ Len(w) <= Len(w)
    BY <1>0, <1>3
  <2>2. QED
    BY ONLY <2>1 DEF N
<1>5. Len(w) + 1 - Len(w) = 1
  BY <1>0
<1>6. QED
  BY <1>4, <1>5

(* So FramesFrom satisfies them.                                          *)
LEMMA FramesUnfold ==
  ASSUME NEW w \in Seq(Bytes)
  PROVE  \A i \in 1 .. Len(w) + 1 : FramesFrom(w)[i] = FramesAt(w, FramesFrom(w), i)
<1> DEFINE it == CHOOSE g : g = [i \in 1 .. Len(w) + 1 |->
                   IF i > Len(w) THEN <<>>
                   ELSE IF w[i] # StartByte THEN g[i + 1]
                   ELSE IF i + HeaderSize - 1 > Len(w) THEN <<>>
                   ELSE IF w[i + 1] > MaxFrame - HeaderSize THEN g[i + 1]
                   ELSE IF FrameEnd(w, i) > Len(w) + 1 THEN <<>>
                   ELSE FrameAt(w, i) \o g[FrameEnd(w, i)]]
<1>1. FramesFrom(w) = it
  BY Zenon DEF FramesFrom
<1>2. PICK g : IsFrames(g, w, 1)
  BY FramesExist
<1>3. IsFrames(it, w, 1)
  BY <1>2, Zenon DEF IsFrames, FramesAt
<1> HIDE DEF it
<1>4. \A i \in 1 .. Len(w) + 1 : it[i] = FramesAt(w, it, i)
  BY <1>3 DEF IsFrames
<1>5. QED
  BY <1>1, <1>4

LEMMA FrameIsDelivery ==
  ASSUME NEW w \in Seq(Bytes), NEW i \in 1 .. Len(w),
         i + HeaderSize - 1 <= Len(w), FrameEnd(w, i) <= Len(w) + 1
  PROVE  FrameAt(w, i) \in Seq(Delivery)
<1> DEFINE payload == SubSeq(w, i + HeaderSize, FrameEnd(w, i) - 1)
<1>1. Len(w) \in Nat /\ w[i + 1] \in Nat /\ w[i + 2] \in Bytes /\ HeaderSize = 3
  <2>1. i + 1 \in 1 .. Len(w) /\ i + 2 \in 1 .. Len(w) /\ HeaderSize = 3
    BY ParserAssumption
  <2>2. QED
    BY <2>1, Cells
<1>2. i + HeaderSize \in 1 .. Len(w) + 1 /\ FrameEnd(w, i) - 1 \in i + HeaderSize - 1 .. Len(w)
  BY <1>1 DEF FrameEnd
<1>3. payload \in Seq(Bytes)
  BY <1>2, SubSeqProperties
<1> HIDE DEF payload
<1>4. <<w[i + 2], payload>> \in Delivery
  BY <1>1, <1>3 DEF Delivery
<1>5. << <<w[i + 2], payload>> >> \in Seq(Delivery) /\ <<>> \in Seq(Delivery)
  BY <1>4
<1>6. QED
  BY <1>5 DEF FrameAt, payload

(* All it holds are sequences of deliveries.                               *)
LEMMA FramesAreDeliveries ==
  ASSUME NEW w \in Seq(Bytes)
  PROVE  \A i \in 1 .. Len(w) + 1 : FramesFrom(w)[i] \in Seq(Delivery)
<1> DEFINE F == FramesFrom(w)
           P(i) == F[i] \in Seq(Delivery)
           N == {n \in Nat : \A i \in 1 .. Len(w) + 1 : Len(w) + 1 - i <= n => P(i)}
<1>0. Len(w) \in Nat /\ \A i \in 1 .. Len(w) : w[i] \in Nat
  BY Cells
<1>1. \A i \in 1 .. Len(w) + 1 : F[i] = FramesAt(w, F, i)
  BY FramesUnfold
<1> HIDE DEF F
<1>2. P(Len(w) + 1)
  <2>1. F[Len(w) + 1] = <<>>
    BY <1>0, <1>1 DEF FramesAt
  <2>2. QED
    BY <2>1
<1>3. 0 \in N
  <2> HIDE DEF P
  <2>1. \A i \in 1 .. Len(w) + 1 : Len(w) + 1 - i <= 0 => i = Len(w) + 1
    BY <1>0
  <2>2. QED
    BY <1>2, <2>1
<1>4. ASSUME NEW n \in N PROVE n + 1 \in N
  <2>0. n \in Nat /\ \A i \in 1 .. Len(w) + 1 : Len(w) + 1 - i <= n => P(i)
    OBVIOUS
  <2> HIDE DEF P
  <2> SUFFICES ASSUME NEW i \in 1 .. Len(w) + 1, Len(w) + 1 - i <= n + 1 PROVE P(i)
    BY <2>0
  <2>1. CASE i = Len(w) + 1
    BY <1>2, <2>1
  <2>2. CASE i # Len(w) + 1
    <3>1. i \in 1 .. Len(w) /\ i + 1 \in 1 .. Len(w) + 1 /\ Len(w) + 1 - (i + 1) <= n
      BY <1>0, <2>0, <2>2
    <3>2. F[i + 1] \in Seq(Delivery)
      BY <2>0, <3>1 DEF P
    <3>3. ASSUME i + HeaderSize - 1 <= Len(w), FrameEnd(w, i) <= Len(w) + 1
          PROVE  FrameAt(w, i) \o F[FrameEnd(w, i)] \in Seq(Delivery)
      <4>1. w[i + 1] \in Nat
        BY <1>0, <3>1, <3>3, ParserAssumption
      <4>2. FrameEnd(w, i) \in 1 .. Len(w) + 1 /\ Len(w) + 1 - FrameEnd(w, i) <= n
        BY <1>0, <2>0, <3>1, <3>3, <4>1, ParserAssumption DEF FrameEnd
      <4>3. F[FrameEnd(w, i)] \in Seq(Delivery)
        BY <2>0, <4>2 DEF P
      <4>4. FrameAt(w, i) \in Seq(Delivery)
        BY <3>1, <3>3, FrameIsDelivery
      <4>5. QED
        BY <4>3, <4>4, ConcatProperties
    <3>4. F[i] = FramesAt(w, F, i)
      BY <1>1
    <3>5. (~(i + HeaderSize - 1 > Len(w)) => i + HeaderSize - 1 <= Len(w)) /\ <<>> \in Seq(Delivery)
      BY <1>0, <3>1, ParserAssumption
    <3>6. i + HeaderSize - 1 <= Len(w) /\ ~(FrameEnd(w, i) > Len(w) + 1)
          => FrameEnd(w, i) <= Len(w) + 1
      <4>1. ASSUME i + HeaderSize - 1 <= Len(w) PROVE FrameEnd(w, i) \in Int
        <5>1. w[i + 1] \in Nat
          BY <1>0, <3>1, <4>1, ParserAssumption
        <5>2. QED
          BY ONLY <3>1, <5>1, ParserAssumption, HeaderSize \in Nat DEF FrameEnd
      <4>2. QED
        BY <1>0, <4>1
    <3>7. FramesAt(w, F, i) \in Seq(Delivery)
      BY <3>2, <3>3, <3>5, <3>6, Zenon DEF FramesAt
    <3>8. QED
      BY <3>4, <3>7 DEF P
  <2>3. QED
    BY <2>1, <2>2
<1> HIDE DEF N, P
<1>5. N = Nat
  BY <1>3, <1>4, AllNats DEF N
<1>6. \A i \in 1 .. Len(w) + 1 : P(i)
  <2>1. Len(w) \in N
    BY <1>0, <1>5
  <2>2. \A i \in 1 .. Len(w) + 1 : Len(w) + 1 - i <= Len(w)
    BY <1>0
  <2>3. QED
    BY <2>1, <2>2 DEF N
<1>7. QED
  BY <1>6 DEF P, F

(* Cells that are no start bytes are passed over.                          *)
LEMMA GarbagePassed ==
  ASSUME NEW w \in Seq(Bytes), NEW p \in 1 .. Len(w) + 1, NEW n \in Nat,
         p + n <= Len(w) + 1, \A j \in p .. p + n - 1 : w[j] # StartByte
  PROVE  FramesFrom(w)[p] = FramesFrom(w)[p + n]
<1> DEFINE F == FramesFrom(w)
           P(k) == F[p] = F[p + k]
           N == {k \in Nat : k <= n => P(k)}
<1>0. Len(w) \in Nat
  BY Cells
<1>1. \A i \in 1 .. Len(w) + 1 : F[i] = FramesAt(w, F, i)
  BY FramesUnfold
<1> HIDE DEF F
<1>2. P(0)
  OBVIOUS
<1>3. ASSUME NEW k \in N PROVE k + 1 \in N
  <2> HIDE DEF P
  <2> SUFFICES ASSUME k + 1 <= n PROVE P(k + 1)
    BY k \in Nat
  <2>1. k \in Nat /\ P(k)
    OBVIOUS
  <2>2. p + k \in 1 .. Len(w) /\ p + k \in p .. p + n - 1 /\ p + (k + 1) = (p + k) + 1
    BY <1>0, <2>1
  <2>3. F[p + k] = FramesAt(w, F, p + k)
    BY <1>0, <1>1, <2>2
  <2>4. F[p + k] = F[(p + k) + 1]
    BY <1>0, <2>2, <2>3 DEF FramesAt
  <2>5. QED
    BY <2>1, <2>2, <2>4 DEF P
<1> HIDE DEF P
<1>4. 0 \in N
  BY <1>2
<1> HIDE DEF N
<1>5. N = Nat
  BY <1>3, <1>4, AllNats DEF N
<1>6. P(n)
  BY <1>5 DEF N
<1>7. QED
  BY <1>6 DEF P, F

(* A whole frame is one delivery, or none, before what follows it.         *)
LEMMA FrameTaken ==
  ASSUME NEW w \in Seq(Bytes), NEW i \in 1 .. Len(w), w[i] = StartByte,
         i + HeaderSize - 1 <= Len(w), w[i + 1] <= MaxFrame - HeaderSize,
          FrameEnd(w, i) <= Len(w) + 1
  PROVE  /\ FrameEnd(w, i) \in 1 .. Len(w) + 1
         /\ FramesFrom(w)[i] = FrameAt(w, i) \o FramesFrom(w)[FrameEnd(w, i)]
<1>1. Len(w) \in Nat /\ w[i + 1] \in Nat /\ HeaderSize = 3 /\ MaxFrame \in Nat
  <2>1. i + 1 \in 1 .. Len(w)
    BY ParserAssumption
  <2>2. QED
    BY <2>1, Cells, ParserAssumption
<1>2. FrameEnd(w, i) \in 1 .. Len(w) + 1
  BY <1>1 DEF FrameEnd
<1>3. FramesFrom(w)[i] = FramesAt(w, FramesFrom(w), i)
  BY <1>1, FramesUnfold
<1>4. /\ ~(i > Len(w)) /\ ~(i + HeaderSize - 1 > Len(w))
      /\ ~(w[i + 1] > MaxFrame - HeaderSize) /\ ~(FrameEnd(w, i) > Len(w) + 1)
  BY <1>1, <1>2
<1>5. QED
  BY <1>2, <1>3, <1>4, Zenon DEF FramesAt

(* So is a start byte before an impossible length.                         *)
LEMMA FalseStartPassed ==
  ASSUME NEW w \in Seq(Bytes), NEW i \in 1 .. Len(w), w[i] = StartByte,
         i + HeaderSize - 1 <= Len(w), w[i + 1] > MaxFrame - HeaderSize
  PROVE  FramesFrom(w)[i] = FramesFrom(w)[i + 1]
<1>1. Len(w) \in Nat /\ HeaderSize = 3
  BY Cells, ParserAssumption
<1>2. FramesFrom(w)[i] = FramesAt(w, FramesFrom(w), i)
  BY <1>1, FramesUnfold
<1>3. ~(i > Len(w)) /\ ~(i + HeaderSize - 1 > Len(w))
  BY <1>1
<1>4. QED
  BY <1>2, <1>3, Zenon DEF FramesAt

(* Where a frame begins that is not complete, no delivery follows yet.     *)
LEMMA FrameIncomplete ==
  ASSUME NEW w \in Seq(Bytes), NEW i \in 1 .. Len(w), w[i] = StartByte,
         \/ i + HeaderSize - 1 > Len(w)
         \/ /\ i + HeaderSize - 1 <= Len(w) /\ w[i + 1] <= MaxFrame - HeaderSize
            /\ FrameEnd(w, i) > Len(w) + 1
  PROVE  FramesFrom(w)[i] = <<>>
<1>1. Len(w) \in Nat /\ HeaderSize = 3 /\ MaxFrame \in Nat
  BY Cells, ParserAssumption
<1>2. FramesFrom(w)[i] = FramesAt(w, FramesFrom(w), i)
  BY <1>1, FramesUnfold
<1>3. ~(i > Len(w))
  BY <1>1
<1>4. i + HeaderSize - 1 <= Len(w) /\ w[i + 1] <= MaxFrame - HeaderSize
        => ~(w[i + 1] > MaxFrame - HeaderSize)
  <2>1. i + HeaderSize - 1 <= Len(w) => w[i + 1] \in Nat
    BY <1>1, Cells
  <2>2. QED
    BY <1>1, <2>1
<1>5. QED
  BY <1>2, <1>3, <1>4, Zenon DEF FramesAt

-----------------------------------------------------------------------------
(* A part of a part of a stream is a part of the stream.                   *)
LEMMA PartOfPart ==
  ASSUME NEW w \in Seq(Bytes), NEW a \in Nat, NEW b \in Nat, NEW k \in Nat, NEW l \in Nat,
         a <= b, b <= Len(w), k <= l, l <= b - a
  PROVE  SubSeq(SubSeq(w, a + 1, b), k + 1, l) = SubSeq(w, a + k + 1, a + l)
<1>1. CASE k = l
  BY <1>1, SubSeqEmpty
<1>2. CASE k < l
  <2>1. Len(w) \in Nat
    OBVIOUS
  <2>2. /\ a + 1 \in 1 .. Len(w) /\ b \in 1 .. Len(w)
        /\ k + 1 \in 1 .. b - (a + 1) + 1 /\ l \in 1 .. b - (a + 1) + 1
        /\ a + 1 + (k + 1) - 1 = a + k + 1 /\ a + 1 + l - 1 = a + l
    BY <1>2, <2>1
  <2>3. SubSeq(SubSeq(w, a + 1, b), k + 1, l) = SubSeq(w, a + 1 + (k + 1) - 1, a + 1 + l - 1)
    BY ONLY <2>2, w \in Seq(Bytes), SubSeqOfSubSeq
  <2>4. QED
    BY <2>2, <2>3
<1>3. QED
  BY <1>1, <1>2

(* A stream continued: what it held before is where it was.                *)
LEMMA Continued ==
  ASSUME NEW w \in Seq(Bytes), NEW x \in Seq(Bytes)
  PROVE  /\ w \o x \in Seq(Bytes) /\ Len(w \o x) = Len(w) + Len(x)
         /\ Len(w) \in Nat /\ Len(x) \in Nat
         /\ \A i \in 1 .. Len(w) : (w \o x)[i] = w[i]
<1>1. /\ w \o x \in Seq(Bytes) /\ Len(w \o x) = Len(w) + Len(x)
      /\ \A i \in 1 .. Len(w) + Len(x) :
           (w \o x)[i] = IF i <= Len(w) THEN w[i] ELSE x[i - Len(w)]
  BY ConcatProperties
<1>2. Len(w) \in Nat /\ Len(x) \in Nat
  OBVIOUS
<1>3. \A i \in 1 .. Len(w) : i \in 1 .. Len(w) + Len(x) /\ i <= Len(w)
  BY <1>2
<1>4. QED
  BY <1>1, <1>2, <1>3

LEMMA PartContinued ==
  ASSUME NEW w \in Seq(Bytes), NEW x \in Seq(Bytes), NEW k \in Nat \ {0}, NEW l \in Nat,
         l <= Len(w)
  PROVE  SubSeq(w \o x, k, l) = SubSeq(w, k, l)
<1>1. CASE l < k
  BY <1>1, SubSeqEmpty
<1>2. CASE k <= l
  <2>1. k \in 1 .. Len(w) /\ l \in 1 .. Len(w)
    BY <1>2, Continued
  <2>2. QED
    BY ONLY <2>1, w \in Seq(Bytes), x \in Seq(Bytes), SubSeqOfConcat1
<1>3. QED
  BY <1>1, <1>2

LEMMA EndContinued ==
  ASSUME NEW w \in Seq(Bytes), NEW x \in Seq(Bytes), NEW a \in 0 .. Len(w), x # <<>>
  PROVE  SubSeq(w \o x, a + 1, Len(w) + Len(x)) = SubSeq(w, a + 1, Len(w)) \o x
<1> DEFINE v == w \o x
           m == a + 1
           k == Len(w)
           n == Len(w) + Len(x)
<1>1. v \in Seq(Bytes) /\ Len(v) = n /\ k \in Nat /\ Len(x) \in Nat
  BY Continued
<1>2. Len(x) \in Nat \ {0}
  BY EmptySeq
<1>3. m \in 1 .. Len(v) + 1 /\ k \in m - 1 .. Len(v) /\ n \in k .. Len(v) /\ m \in Nat \ {0}
  BY <1>1, <1>2
<1>4. SubSeq(v, m, k) = SubSeq(w, m, k)
  BY <1>1, <1>3, PartContinued
<1>5. SubSeq(v, k + 1, n) = x
  <2>1. /\ k + 1 \in Len(w) + 1 .. Len(w) + Len(x) /\ n \in Len(w) + 1 .. Len(w) + Len(x)
        /\ k + 1 - Len(w) = 1 /\ n - Len(w) = Len(x)
    BY <1>1, <1>2
  <2>2. SubSeq(v, k + 1, n) = SubSeq(x, k + 1 - Len(w), n - Len(w))
    BY ONLY <2>1, w \in Seq(Bytes), x \in Seq(Bytes), SubSeqOfConcat2
  <2>3. QED
    BY <2>1, <2>2, SubSeqFull
<1> HIDE DEF v, m, k, n
<1>6. SubSeq(v, m, k) \o SubSeq(v, k + 1, n) = SubSeq(v, m, n)
  BY ONLY <1>1, <1>3, ConcatAdjacentSubSeq
<1>7. QED
  BY <1>4, <1>5, <1>6 DEF v, m, k, n

(* A frame that lies in a stream is the same in the stream continued.      *)
LEMMA FrameContinued ==
  ASSUME NEW w \in Seq(Bytes), NEW x \in Seq(Bytes), NEW i \in 1 .. Len(w),
         i + HeaderSize - 1 <= Len(w)
  PROVE  /\ FrameEnd(w \o x, i) = FrameEnd(w, i)
         /\ FrameEnd(w, i) <= Len(w) + 1 => FrameAt(w \o x, i) = FrameAt(w, i)
<1>1. HeaderSize = 3 /\ Len(w) \in Nat
  BY ParserAssumption
<1>2. i + 1 \in 1 .. Len(w) /\ i + 2 \in 1 .. Len(w) /\ i \in Nat
  BY <1>1
<1>3. (w \o x)[i + 1] = w[i + 1] /\ (w \o x)[i + 2] = w[i + 2] /\ w[i + 1] \in Nat
  BY <1>2, Continued, Cells
<1>4. FrameEnd(w \o x, i) = FrameEnd(w, i)
  BY <1>3 DEF FrameEnd
<1>5. ASSUME FrameEnd(w, i) <= Len(w) + 1
      PROVE  SubSeq(w \o x, i + HeaderSize, FrameEnd(w, i) - 1)
               = SubSeq(w, i + HeaderSize, FrameEnd(w, i) - 1)
  <2> DEFINE k == i + HeaderSize
             l == FrameEnd(w, i) - 1
  <2>1. k \in Nat \ {0} /\ l \in Nat /\ l <= Len(w)
    BY <1>1, <1>2, <1>3, <1>5 DEF FrameEnd
  <2> HIDE DEF k, l
  <2>2. SubSeq(w \o x, k, l) = SubSeq(w, k, l)
    BY <2>1, PartContinued
  <2>3. QED
    BY <2>2 DEF k, l
<1>6. QED
  BY <1>3, <1>4, <1>5, Zenon DEF FrameAt

(* Joining three sequences of bytes, or of deliveries, in either order.    *)
LEMMA BytesInThree ==
  ASSUME NEW a \in Seq(Bytes), NEW b \in Seq(Bytes), NEW c \in Seq(Bytes)
  PROVE  a \o (b \o c) = (a \o b) \o c
<1> DEFINE S == Bytes
<1>1. a \in Seq(S) /\ b \in Seq(S) /\ c \in Seq(S)
  OBVIOUS
<1> HIDE DEF S
<1>2. QED
  BY ONLY <1>1, ConcatAssociative, SMTT(30)

LEMMA DeliveriesInThree ==
  ASSUME NEW a \in Seq(Delivery), NEW b \in Seq(Delivery), NEW c \in Seq(Delivery)
  PROVE  a \o (b \o c) = (a \o b) \o c
<1> DEFINE S == Delivery
<1>1. a \in Seq(S) /\ b \in Seq(S) /\ c \in Seq(S)
  OBVIOUS
<1> HIDE DEF S
<1>2. QED
  BY ONLY <1>1, ConcatAssociative, SMTT(30)

-----------------------------------------------------------------------------
(* Where the oldest unread cell lies in what was taken of the stream: the  *)
(* buffer holds all from there on.                                         *)
Place == Len(kept) - available
HoldsEnd == available <= Len(kept) /\ Contents = SubSeq(kept, Place + 1, Len(kept))

(* What was delivered is what an uncut reader finds before that place,     *)
(* however the stream goes on.                                             *)
Ahead(w, d, p) ==
  \A x \in Seq(Bytes) : FramesFrom(w \o x)[1] = d \o FramesFrom(w \o x)[p]

StreamInv == /\ HoldsEnd
             /\ delivered \in Seq(Delivery)
             /\ pc = "frame" => available > 0 /\ ByteAt(0) = StartByte
             /\ pc = "idle" => FramesFrom(kept)[Place + 1] = <<>>
             /\ Ahead(kept, delivered, Place + 1)

LEMMA PlaceInStream ==
  ASSUME TypeOK, HoldsEnd
  PROVE  /\ kept \in Seq(Bytes) /\ Len(kept) \in Nat /\ available \in Nat
         /\ Place \in 0 .. Len(kept) /\ Place + available = Len(kept)
         /\ \A k \in 0 .. available - 1 :
              Place + 1 + k \in 1 .. Len(kept) /\ ByteAt(k) = kept[Place + 1 + k]
<1>1. kept \in Seq(Bytes) /\ available <= Len(kept)
  BY DEF TypeOK, HoldsEnd
<1>2. available \in Nat /\ Len(kept) \in Nat
  BY <1>1, ContentsBytes DEF TypeOK
<1>3. Place \in 0 .. Len(kept) /\ Place + available = Len(kept)
  BY <1>1, <1>2 DEF Place
<1>4. ASSUME NEW k \in 0 .. available - 1
      PROVE  Place + 1 + k \in 1 .. Len(kept) /\ ByteAt(k) = kept[Place + 1 + k]
  <2>1. Place + 1 + k \in 1 .. Len(kept)
    BY <1>2, <1>3
  <2>2. /\ k + 1 \in 1 .. available /\ k + 1 - 1 = k
        /\ k + 1 \in 1 .. Len(kept) - (Place + 1) + 1
    BY <1>2, <1>3
  <2>3. Contents[k + 1] = ByteAt(k)
    BY <2>2, ContentsBytes DEF TypeOK
  <2>4. \A i \in Place + 1 .. Len(kept) : kept[i] \in Bytes
    BY <1>1, <1>3
  <2>5. SubSeq(kept, Place + 1, Len(kept))[k + 1] = kept[Place + 1 + (k + 1) - 1]
    BY <1>2, <1>3, <2>2, <2>4, SubSeqProperties
  <2>6. Place + 1 + (k + 1) - 1 = Place + 1 + k
    BY <1>3
  <2>7. QED
    BY <2>1, <2>3, <2>5, <2>6 DEF HoldsEnd
<1>5. QED
  BY <1>1, <1>2, <1>3, <1>4

(* A discard moves the place on by as much.                                *)
LEMMA PlaceMoves ==
  ASSUME TypeOK, HoldsEnd, WrappedLate, BipTypeOK', RegionsOK', NEW n \in Nat, n <= available,
         discard(n), UNCHANGED kept
  PROVE  HoldsEnd' /\ Place' = Place + n
<1>1. available' = available - n
  BY DiscardSubtracts DEF TypeOK, DiscardAccepts
<1>2. Contents' = SubSeq(Contents, n + 1, Len(Contents)) /\ Len(Contents) = available
  BY Discarded, ContentsBytes DEF TypeOK, DiscardAccepts
<1>3. /\ kept \in Seq(Bytes) /\ Place \in Nat /\ Len(kept) \in Nat /\ available \in Nat
      /\ n \in Nat /\ Place + available = Len(kept)
  BY PlaceInStream
<1>4. Place' = Place + n
  BY <1>1, <1>3 DEF Place
<1>5. /\ Place <= Len(kept) /\ Len(kept) <= Len(kept) /\ n <= available
      /\ available <= Len(kept) - Place /\ Place + n + 1 = Place' + 1
  BY <1>3, <1>4
<1>6. SubSeq(SubSeq(kept, Place + 1, Len(kept)), n + 1, available)
        = SubSeq(kept, Place + n + 1, Place + available)
  BY ONLY <1>3, <1>5, PartOfPart
<1>7. Contents' = SubSeq(kept, Place' + 1, Len(kept))
  BY <1>2, <1>3, <1>5, <1>6 DEF HoldsEnd
<1>8. available' <= Len(kept)
  BY <1>1, <1>3, <1>5
<1>9. QED
  BY <1>4, <1>7, <1>8 DEF HoldsEnd

(* Storing the next chunk leaves the place where it is.                    *)
LEMMA PlaceStays ==
  ASSUME TypeOK, HoldsEnd, WrappedLate, BipTypeOK', RegionsOK', NEW n \in Nat \ {0},
         NEW chunk \in [1 .. n -> Bytes], WriteFits(n), write(chunk), kept' = kept \o chunk
  PROVE  HoldsEnd' /\ Place' = Place
<1>1. available' = available + n
  BY WriteAdds DEF TypeOK
<1>2. Contents' = Contents \o chunk
  BY Written DEF TypeOK, CallsTypeOK
<1>3. chunk \in Seq(Bytes) /\ Len(chunk) = n /\ chunk # <<>>
  BY EmptySeq
<1>4. /\ kept \in Seq(Bytes) /\ Place \in 0 .. Len(kept) /\ Len(kept) \in Nat
      /\ available \in Nat /\ Place + available = Len(kept)
  BY PlaceInStream
<1>5. Len(kept') = Len(kept) + n
  BY <1>3, <1>4, Continued
<1>6. Place' = Place
  BY <1>1, <1>4, <1>5 DEF Place
<1>7. SubSeq(kept \o chunk, Place + 1, Len(kept) + n) = SubSeq(kept, Place + 1, Len(kept)) \o chunk
  BY <1>3, <1>4, EndContinued
<1>8. Contents' = SubSeq(kept', Place' + 1, Len(kept'))
  BY <1>2, <1>5, <1>6, <1>7 DEF HoldsEnd
<1>9. available' <= Len(kept')
  BY <1>1, <1>4, <1>5
<1>10. QED
  BY <1>6, <1>8, <1>9 DEF HoldsEnd

-----------------------------------------------------------------------------
LEMMA StreamInit == Init => StreamInv
<1> SUFFICES ASSUME Init PROVE StreamInv
  OBVIOUS
<1>1. ParserInv
  BY InitEstablishes
<1>2. kept = <<>> /\ kept \in Seq(Bytes) /\ Len(kept) = 0 /\ delivered = <<>> /\ pc = "idle"
  BY DEF Init
<1>3. available = 0 /\ Place + 1 = 1
  BY <1>2 DEF Init, BipInit, available, Place
<1>4. Contents = <<>>
  BY <1>1, <1>3, ContentsBytes DEF ParserInv, TypeOK
<1>5. SubSeq(kept, Place + 1, Len(kept)) = <<>>
  BY <1>2, <1>3, SubSeqEmpty
<1>6. HoldsEnd
  BY <1>2, <1>3, <1>4, <1>5 DEF HoldsEnd
<1>7. Ahead(kept, delivered, Place + 1)
  <2> SUFFICES ASSUME NEW x \in Seq(Bytes)
               PROVE  FramesFrom(<<>> \o x)[1] = <<>> \o FramesFrom(<<>> \o x)[1]
    BY <1>2, <1>3 DEF Ahead
  <2>1. <<>> \o x \in Seq(Bytes) /\ Len(<<>> \o x) \in Nat
    BY ConcatEmptySeq
  <2>2. FramesFrom(<<>> \o x)[1] \in Seq(Delivery)
    <3>1. 1 \in 1 .. Len(<<>> \o x) + 1
      BY <2>1
    <3>2. QED
      BY <2>1, <3>1, FramesAreDeliveries
  <2>3. QED
    BY <2>2, ConcatEmptySeq
<1>8. FramesFrom(kept)[Place + 1] = <<>>
  <2>1. 1 \in 1 .. Len(kept) + 1 /\ 1 > Len(kept)
    BY <1>2
  <2>2. FramesFrom(kept)[1] = FramesAt(kept, FramesFrom(kept), 1)
    BY <1>2, <2>1, FramesUnfold
  <2>3. QED
    BY <1>3, <2>1, <2>2 DEF FramesAt
<1>9. QED
  BY <1>2, <1>6, <1>7, <1>8 DEF StreamInv

LEMMA PushKeepsStream ==
  ASSUME ParserInv, ParserInv', StreamInv, NEW n \in 1 .. MaxChunk, PushData(n)
  PROVE  StreamInv'
<1>1. /\ TypeOK /\ HoldsEnd /\ WrappedLate /\ BipTypeOK' /\ RegionsOK'
      /\ delivered \in Seq(Delivery) /\ Ahead(kept, delivered, Place + 1)
  BY DEF ParserInv, TypeOK, StreamInv
<1> DEFINE chunk == SubSeq(wire, sent + 1, sent + n)
<1>2. CASE WriteFits(n) /\ write(chunk) /\ kept' = kept \o chunk /\ pc' = "scan"
  <2>1. n \in Nat \ {0} /\ sent + n <= Len(wire) /\ sent \in Nat /\ wire \in Seq(Bytes)
    <3>1. sent \in Nat /\ wire \in Seq(Bytes) /\ Len(wire) \in Nat
      BY <1>1, ParserAssumption DEF TypeOK
    <3>2. n \in Nat \ {0}
      BY ParserAssumption
    <3>3. n <= Len(wire) - sent
      BY DEF PushData
    <3>4. QED
      BY ONLY <3>1, <3>2, <3>3
  <2>2. chunk \in [1 .. n -> Bytes]
    BY <2>1, ChunkOfWire
  <2>3. delivered' = delivered
    BY DEF PushData
  <2> HIDE DEF chunk
  <2>4. HoldsEnd' /\ Place' = Place
    BY <1>1, <1>2, <2>1, <2>2, PlaceStays
  <2>5. kept \in Seq(Bytes) /\ chunk \in Seq(Bytes)
    BY <1>1, <2>1, <2>2, PlaceInStream
  <2>6. ASSUME NEW x \in Seq(Bytes)
        PROVE  FramesFrom((kept \o chunk) \o x)[1]
                 = delivered \o FramesFrom((kept \o chunk) \o x)[Place + 1]
    <3>1. kept \o (chunk \o x) = (kept \o chunk) \o x
      BY ONLY <2>5, x \in Seq(Bytes), BytesInThree, SMTT(30)
    <3>2. chunk \o x \in Seq(Bytes)
      BY <2>5, Continued
    <3>3. FramesFrom(kept \o (chunk \o x))[1]
            = delivered \o FramesFrom(kept \o (chunk \o x))[Place + 1]
      BY <1>1, <3>2 DEF Ahead
    <3>4. QED
      BY <3>1, <3>3
  <2>7. Ahead(kept', delivered', Place' + 1)
    BY <1>2, <2>3, <2>4, <2>6 DEF Ahead
  <2>8. QED
    BY <1>1, <1>2, <2>3, <2>4, <2>7 DEF StreamInv
<1>3. CASE UNCHANGED <<bipVars, kept, pc, available_bytes>>
  <2>1. UNCHANGED delivered
    BY DEF PushData
  <2>2. QED
    BY <1>3, <2>1 DEF bipVars, regions, StreamInv, HoldsEnd, Place, Contents, PeekBytes,
       ByteAt, available
<1>4. QED
  BY <1>2, <1>3 DEF PushData

(* Moving on over cells in which an uncut reader finds no frame keeps what *)
(* is said of the frames.                                                  *)
LEMMA NothingThere ==
  ASSUME TypeOK, HoldsEnd, NEW n \in Nat, Ahead(kept, delivered, Place + 1),
         \A x \in Seq(Bytes) :
           FramesFrom(kept \o x)[Place + 1] = FramesFrom(kept \o x)[Place + 1 + n]
  PROVE  Ahead(kept, delivered, Place + n + 1)
<1>1. Place + 1 + n = Place + n + 1
  BY PlaceInStream
<1>2. QED
  BY <1>1 DEF Ahead

LEMMA ScanKeepsStream ==
  ASSUME ParserInv, ParserInv', StreamInv, Scan
  PROVE  StreamInv'
<1>1. pc = "scan" /\ available_bytes = available /\ UNCHANGED <<delivered, wire, sent, kept>>
  BY DEF Scan, ParserInv, CountExact
<1>2. /\ TypeOK /\ HoldsEnd /\ WrappedLate /\ BipTypeOK' /\ RegionsOK' /\ TypeOK'
      /\ delivered \in Seq(Delivery) /\ Ahead(kept, delivered, Place + 1)
  BY DEF ParserInv, TypeOK, StreamInv
<1>3. /\ kept \in Seq(Bytes) /\ Len(kept) \in Nat /\ available \in Nat
      /\ Place \in 0 .. Len(kept) /\ Place + available = Len(kept)
      /\ region_a_size \in Nat /\ region_a_size <= available
  BY <1>2, PlaceInStream DEF TypeOK, BipTypeOK, available
<1>4. CASE available_bytes = 0 /\ pc' = "idle" /\ UNCHANGED <<bipVars, available_bytes>>
  <2>1. available' = available /\ Contents' = Contents /\ Place' = Place
    BY <1>1, <1>4 DEF Contents, PeekBytes, ByteAt, available, bipVars, regions, Place
  <2>2. HoldsEnd'
    BY <1>1, <1>2, <2>1 DEF HoldsEnd
  <2>3. Place + 1 \in 1 .. Len(kept) + 1 /\ Place + 1 > Len(kept)
    BY <1>1, <1>3, <1>4
  <2>4. FramesFrom(kept)[Place + 1] = FramesAt(kept, FramesFrom(kept), Place + 1)
    BY <1>3, <2>3, FramesUnfold
  <2>5. FramesFrom(kept)[Place + 1] = <<>>
    BY <2>3, <2>4 DEF FramesAt
  <2>6. QED
    BY <1>1, <1>2, <1>4, <2>1, <2>2, <2>5 DEF StreamInv
<1>5. ASSUME NEW n \in Nat, n <= available, discard(n),
             \A j \in 0 .. n - 1 : ByteAt(j) # StartByte
      PROVE  HoldsEnd' /\ Place' = Place + n /\ Ahead(kept', delivered', Place' + 1)
  <2>1. HoldsEnd' /\ Place' = Place + n
    BY <1>1, <1>2, <1>5, PlaceMoves
  <2>2. ASSUME NEW j \in Place + 1 .. Place + 1 + n - 1
        PROVE  kept[j] # StartByte /\ j \in 1 .. Len(kept)
    <3> DEFINE k == j - (Place + 1)
    <3>1. k \in 0 .. n - 1 /\ k \in 0 .. available - 1 /\ Place + 1 + k = j
      BY <1>3, <1>5
    <3> HIDE DEF k
    <3>2. ByteAt(k) = kept[Place + 1 + k] /\ Place + 1 + k \in 1 .. Len(kept)
      BY <1>2, <3>1, PlaceInStream
    <3>3. QED
      BY <1>5, <3>1, <3>2
  <2>3. ASSUME NEW x \in Seq(Bytes)
        PROVE  FramesFrom(kept \o x)[Place + 1] = FramesFrom(kept \o x)[Place + 1 + n]
    <3> DEFINE p == Place + 1
               w == kept \o x
    <3>1. w \in Seq(Bytes) /\ Len(w) = Len(kept) + Len(x) /\ Len(x) \in Nat
      BY <1>3, Continued
    <3>2. \A j \in p .. p + n - 1 : w[j] # StartByte
      BY <1>3, <2>2, Continued
    <3>3. p \in 1 .. Len(w) + 1 /\ p + n <= Len(w) + 1
      BY <1>3, <1>5, <3>1
    <3> HIDE DEF p, w
    <3>4. FramesFrom(w)[p] = FramesFrom(w)[p + n]
      BY ONLY <3>1, <3>2, <3>3, n \in Nat, GarbagePassed
    <3>5. QED
      BY <3>4 DEF p, w
  <2>4. Ahead(kept, delivered, Place + n + 1)
    BY <1>2, <2>3, NothingThere
  <2>5. QED
    BY <1>1, <2>1, <2>4
<1>6. CASE /\ \A k \in 0 .. region_a_size - 1 : ByteAt(k) # StartByte
           /\ Consume(region_a_size) /\ pc' = "scan"
  <2>1. HoldsEnd' /\ Ahead(kept', delivered', Place' + 1)
    BY <1>3, <1>5, <1>6 DEF Consume
  <2>2. QED
    BY <1>1, <1>2, <1>6, <2>1 DEF StreamInv
<1>7. CASE \E k \in 0 .. region_a_size - 1 : StartAt(k) /\ Consume(k) /\ pc' = "frame"
  <2>1. PICK k \in 0 .. region_a_size - 1 : StartAt(k) /\ Consume(k) /\ pc' = "frame"
    BY <1>7
  <2>2. k \in Nat /\ k <= available
    BY <1>3, <2>1
  <2>3. HoldsEnd' /\ Ahead(kept', delivered', Place' + 1)
    BY <1>5, <2>1, <2>2 DEF Consume, StartAt
  <2>4. available' = available - k
    BY <1>2, <2>1, <2>2, DiscardSubtracts DEF TypeOK, DiscardAccepts, Consume
  <2>5. available' > 0
    BY <1>3, <2>1, <2>4
  <2>6. /\ buffer' = buffer /\ region_a_start' = region_a_start + k
        /\ region_a_size' = region_a_size - k /\ 0 < region_a_size'
    BY <1>3, <2>1 DEF Consume, discard
  <2>7. ByteAt(k) = buffer[region_a_start + k] /\ region_a_start + k + 0 = region_a_start + k
    BY <1>2, <2>1 DEF ByteAt, TypeOK, BipTypeOK
  <2>8. ByteAt(0)' = StartByte
    BY <2>1, <2>6, <2>7 DEF ByteAt, StartAt
  <2>9. QED
    BY <1>1, <1>2, <2>1, <2>3, <2>5, <2>8 DEF StreamInv
<1>8. QED
  BY <1>4, <1>6, <1>7 DEF Scan

(* The frame a step of Frame looks at, as a frame of the stream.           *)
LEMMA FrameInStream ==
  ASSUME TypeOK, HoldsEnd, available > 0, ByteAt(0) = StartByte
  PROVE  /\ Place + 1 \in 1 .. Len(kept) /\ kept[Place + 1] = StartByte
         /\ Place + 1 + HeaderSize - 1 <= Len(kept) <=> available >= HeaderSize
         /\ available >= HeaderSize =>
              /\ DataLen \in Nat /\ DataLen = kept[Place + 1 + 1] /\ CmdId = kept[Place + 1 + 2]
              /\ FrameEnd(kept, Place + 1) = Place + 1 + TotalLen
              /\ FrameEnd(kept, Place + 1) <= Len(kept) + 1 <=> available >= TotalLen
<1>1. /\ kept \in Seq(Bytes) /\ Len(kept) \in Nat /\ available \in Nat
      /\ Place \in Nat /\ Place + available = Len(kept)
      /\ HeaderSize = 3
  BY PlaceInStream, ParserAssumption
<1>2. \A k \in 0 .. available - 1 :
        Place + 1 + k \in 1 .. Len(kept) /\ ByteAt(k) = kept[Place + 1 + k]
  BY PlaceInStream
<1>3. Place + 1 \in 1 .. Len(kept) /\ kept[Place + 1] = StartByte
  <2>1. 0 \in 0 .. available - 1 /\ Place + 1 + 0 = Place + 1
    BY <1>1
  <2>2. QED
    BY <1>2, <2>1
<1>4. Place + 1 + HeaderSize - 1 <= Len(kept) <=> available >= HeaderSize
  BY <1>1
<1>5. ASSUME available >= HeaderSize
      PROVE  /\ DataLen \in Nat /\ DataLen = kept[Place + 1 + 1] /\ CmdId = kept[Place + 1 + 2]
             /\ FrameEnd(kept, Place + 1) = Place + 1 + TotalLen
             /\ FrameEnd(kept, Place + 1) <= Len(kept) + 1 <=> available >= TotalLen
  <2>1. 1 \in 0 .. available - 1 /\ 2 \in 0 .. available - 1
    BY <1>1, <1>5
  <2>2. DataLen = kept[Place + 1 + 1] /\ CmdId = kept[Place + 1 + 2]
    BY <1>2, <2>1 DEF DataLen, CmdId
  <2>3. DataLen \in Nat
    BY <1>1, <1>5, ByteAtIsByte DEF DataLen, TypeOK
  <2>4. FrameEnd(kept, Place + 1) = Place + 1 + TotalLen /\ TotalLen = 3 + DataLen
    <3>1. FrameEnd(kept, Place + 1) = Place + 1 + HeaderSize + DataLen
      BY <2>2, Zenon DEF FrameEnd
    <3>2. TotalLen = HeaderSize + DataLen
      BY DEF TotalLen
    <3>3. QED
      BY ONLY <1>1, <2>3, <3>1, <3>2
  <2>5. FrameEnd(kept, Place + 1) <= Len(kept) + 1 <=> available >= TotalLen
    BY <1>1, <2>3, <2>4
  <2>6. QED
    BY <2>2, <2>3, <2>4, <2>5
<1>6. QED
  BY <1>3, <1>4, <1>5

(* The payload handed on is that of the frame in the stream, also when it  *)
(* lies in both regions.                                                   *)
LEMMA PayloadOfStream ==
  ASSUME TypeOK, HoldsEnd, available > 0, ByteAt(0) = StartByte, Success
  PROVE  FrameAt(kept, Place + 1) =
           IF CmdId \in KnownCmds THEN << <<CmdId, Payload>> >> ELSE <<>>
<1>1. /\ kept \in Seq(Bytes) /\ Len(kept) \in Nat /\ available \in Nat
      /\ Place \in Nat /\ Place + available = Len(kept)
      /\ HeaderSize = 3
  BY PlaceInStream, ParserAssumption
<1>2. /\ DataLen \in Nat /\ CmdId = kept[Place + 1 + 2] /\ HeaderSize + DataLen <= available
      /\ FrameEnd(kept, Place + 1) = Place + 1 + (HeaderSize + DataLen)
  BY <1>1, FrameInStream DEF Success, TotalLen
<1>3. Payload = SubSeq(Contents, HeaderSize + 1, HeaderSize + DataLen)
  BY <1>1, <1>2, SpansArePart DEF Payload, TypeOK
<1>4. /\ HeaderSize \in Nat /\ HeaderSize + DataLen \in Nat /\ Place <= Len(kept)
      /\ Len(kept) <= Len(kept)
      /\ HeaderSize <= HeaderSize + DataLen /\ HeaderSize + DataLen <= Len(kept) - Place
      /\ Place + HeaderSize + 1 = Place + 1 + HeaderSize
      /\ Place + (HeaderSize + DataLen) = FrameEnd(kept, Place + 1) - 1
  BY <1>1, <1>2
<1>5. SubSeq(SubSeq(kept, Place + 1, Len(kept)), HeaderSize + 1, HeaderSize + DataLen)
        = SubSeq(kept, Place + HeaderSize + 1, Place + (HeaderSize + DataLen))
  BY ONLY <1>1, <1>4, PartOfPart
<1>6. Payload = SubSeq(kept, Place + 1 + HeaderSize, FrameEnd(kept, Place + 1) - 1)
  BY <1>3, <1>4, <1>5 DEF HoldsEnd
<1>7. QED
  BY <1>2, <1>6, Zenon DEF FrameAt

(* A delivery appended is one put between those before and those to come.  *)
LEMMA OneMoreDelivery ==
  ASSUME NEW w \in Seq(Bytes), NEW d \in Seq(Delivery), NEW p \in 1 .. Len(w),
         Ahead(w, d, p), w[p] = StartByte, p + HeaderSize - 1 <= Len(w),
         w[p + 1] <= MaxFrame - HeaderSize, FrameEnd(w, p) <= Len(w) + 1
  PROVE  d \o FrameAt(w, p) \in Seq(Delivery) /\ Ahead(w, d \o FrameAt(w, p), FrameEnd(w, p))
<1>0. Len(w) \in Nat /\ FrameEnd(w, p) \in 1 .. Len(w) + 1 /\ HeaderSize = 3
  BY FrameTaken, ParserAssumption
<1>1. FrameAt(w, p) \in Seq(Delivery)
  BY FrameIsDelivery
<1>2. d \o FrameAt(w, p) \in Seq(Delivery)
  BY <1>1, ConcatProperties
<1>3. ASSUME NEW x \in Seq(Bytes)
      PROVE  FramesFrom(w \o x)[1] = (d \o FrameAt(w, p)) \o FramesFrom(w \o x)[FrameEnd(w, p)]
  <2> DEFINE v == w \o x
  <2>1. v \in Seq(Bytes) /\ Len(v) \in Nat /\ Len(w) <= Len(v)
    BY Continued
  <2>2. v[p] = w[p] /\ v[p + 1] = w[p + 1]
    <3>1. p + 1 \in 1 .. Len(w)
      BY <1>0
    <3>2. QED
      BY <3>1, Continued
  <2>3. FrameEnd(v, p) = FrameEnd(w, p) /\ FrameAt(v, p) = FrameAt(w, p)
    BY FrameContinued
  <2>4. FramesFrom(v)[1] = d \o FramesFrom(v)[p]
    BY DEF Ahead
  <2> HIDE DEF v
  <2>5. p \in 1 .. Len(v) /\ p + HeaderSize - 1 <= Len(v) /\ FrameEnd(v, p) <= Len(v) + 1
    BY <1>0, <2>1, <2>3
  <2>6. /\ FrameEnd(w, p) \in 1 .. Len(v) + 1
        /\ FramesFrom(v)[p] = FrameAt(w, p) \o FramesFrom(v)[FrameEnd(w, p)]
    BY <2>1, <2>2, <2>3, <2>5, FrameTaken
  <2>7. FramesFrom(v)[FrameEnd(w, p)] \in Seq(Delivery)
    BY <2>1, <2>6, FramesAreDeliveries
  <2>8. d \o (FrameAt(w, p) \o FramesFrom(v)[FrameEnd(w, p)])
          = (d \o FrameAt(w, p)) \o FramesFrom(v)[FrameEnd(w, p)]
    <3> DEFINE frame == FrameAt(w, p)
               later == FramesFrom(v)[FrameEnd(w, p)]
    <3>1. d \in Seq(Delivery) /\ frame \in Seq(Delivery) /\ later \in Seq(Delivery)
      BY <1>1, <2>7
    <3> HIDE DEF frame, later
    <3>2. d \o (frame \o later) = (d \o frame) \o later
      BY ONLY <3>1, DeliveriesInThree, SMTT(30)
    <3>3. QED
      BY ONLY <3>2 DEF frame, later
  <2>9. QED
    BY <2>4, <2>6, <2>8 DEF v
<1>4. QED
  BY <1>2, <1>3 DEF Ahead

LEMMA FrameKeepsStream ==
  ASSUME ParserInv, ParserInv', StreamInv, Frame
  PROVE  StreamInv'
<1>1. pc = "frame" /\ available_bytes = available /\ UNCHANGED <<wire, sent, kept>>
  BY DEF Frame, ParserInv, CountExact
<1>2. /\ TypeOK /\ HoldsEnd /\ WrappedLate /\ BipTypeOK' /\ RegionsOK'
      /\ delivered \in Seq(Delivery) /\ Ahead(kept, delivered, Place + 1)
      /\ available > 0 /\ ByteAt(0) = StartByte
  BY <1>1 DEF ParserInv, TypeOK, StreamInv
<1>3. /\ kept \in Seq(Bytes) /\ Len(kept) \in Nat /\ available \in Nat
      /\ Place \in Nat /\ HeaderSize = 3 /\ MaxFrame \in Nat
      /\ Place + available = Len(kept)
  BY <1>2, PlaceInStream, ParserAssumption
<1>4. /\ Place + 1 \in 1 .. Len(kept) /\ kept[Place + 1] = StartByte
      /\ Place + 1 + HeaderSize - 1 <= Len(kept) <=> available >= HeaderSize
      /\ available >= HeaderSize =>
           /\ DataLen \in Nat /\ DataLen = kept[Place + 1 + 1]
           /\ FrameEnd(kept, Place + 1) = Place + 1 + TotalLen
           /\ FrameEnd(kept, Place + 1) <= Len(kept) + 1 <=> available >= TotalLen
  BY <1>2, FrameInStream
<1>5. CASE Incomplete /\ pc' = "idle" /\ UNCHANGED <<bipVars, available_bytes, delivered>>
  <2>1. available' = available /\ Contents' = Contents /\ Place' = Place
    BY <1>1, <1>5 DEF Contents, PeekBytes, ByteAt, available, bipVars, regions, Place
  <2>2. HoldsEnd'
    BY <1>1, <1>2, <2>1 DEF HoldsEnd
  <2>3. \/ Place + 1 + HeaderSize - 1 > Len(kept)
        \/ /\ Place + 1 + HeaderSize - 1 <= Len(kept)
           /\ kept[Place + 1 + 1] <= MaxFrame - HeaderSize
           /\ FrameEnd(kept, Place + 1) > Len(kept) + 1
    BY <1>3, <1>4, <1>5 DEF Incomplete, Malformed, TotalLen
  <2>4. FramesFrom(kept)[Place + 1] = <<>>
    BY <1>3, <1>4, <2>3, FrameIncomplete
  <2>5. QED
    BY <1>1, <1>2, <1>5, <2>1, <2>2, <2>4 DEF StreamInv
<1>6. CASE Failure /\ Consume(1) /\ pc' = "scan" /\ UNCHANGED delivered
  <2>1. available >= HeaderSize /\ kept[Place + 1 + 1] > MaxFrame - HeaderSize
    BY <1>4, <1>6 DEF Failure, Malformed
  <2>2. HoldsEnd' /\ Place' = Place + 1
    <3>1. 1 <= available
      BY <1>3, <2>1
    <3>2. QED
      BY <1>1, <1>2, <1>6, <3>1, PlaceMoves DEF Consume
  <2>3. ASSUME NEW x \in Seq(Bytes)
        PROVE  FramesFrom(kept \o x)[Place + 1] = FramesFrom(kept \o x)[Place + 1 + 1]
    <3> DEFINE p == Place + 1
               w == kept \o x
    <3>1. p + 1 \in 1 .. Len(kept) /\ p \in 1 .. Len(kept)
      BY <1>3, <1>4, <2>1
    <3>2. w[p] = StartByte /\ w[p + 1] > MaxFrame - HeaderSize
      BY <1>3, <1>4, <2>1, <3>1, Continued
    <3>3. w \in Seq(Bytes) /\ Len(w) = Len(kept) + Len(x) /\ Len(x) \in Nat
      BY <1>3, Continued
    <3> HIDE DEF w
    <3>4. p \in 1 .. Len(w) /\ p + HeaderSize - 1 <= Len(w)
      BY <1>3, <1>4, <2>1, <3>1, <3>3
    <3> HIDE DEF p
    <3>5. FramesFrom(w)[p] = FramesFrom(w)[p + 1]
      BY ONLY <3>2, <3>3, <3>4, FalseStartPassed
    <3>6. QED
      BY <3>5 DEF p, w
  <2>4. Ahead(kept, delivered, Place + 1 + 1)
    BY <1>2, <2>3, NothingThere
  <2>5. QED
    BY <1>1, <1>2, <1>6, <2>2, <2>4 DEF StreamInv
<1>7. CASE /\ Success
           /\ delivered' = IF CmdId \in KnownCmds
                           THEN Append(delivered, <<CmdId, Payload>>) ELSE delivered
           /\ discard(TotalLen) /\ pc' = "scan"
  <2>1. /\ available >= HeaderSize /\ available >= TotalLen /\ TotalLen \in Nat
        /\ kept[Place + 1 + 1] <= MaxFrame - HeaderSize
        /\ FrameEnd(kept, Place + 1) <= Len(kept) + 1
        /\ FrameEnd(kept, Place + 1) = Place + TotalLen + 1
    <3>1. available >= HeaderSize /\ available >= TotalLen /\ ~Malformed
      BY <1>7 DEF Success
    <3>2. TotalLen = 3 + DataLen /\ DataLen \in Nat
      BY <1>3, <1>4, <3>1 DEF TotalLen
    <3>3. DataLen <= MaxFrame - HeaderSize
      BY <1>3, <3>1, <3>2 DEF Malformed
    <3>4. /\ kept[Place + 1 + 1] = DataLen /\ FrameEnd(kept, Place + 1) = Place + 1 + TotalLen
          /\ FrameEnd(kept, Place + 1) <= Len(kept) + 1
      BY <1>4, <3>1
    <3>5. Place + 1 + TotalLen = Place + TotalLen + 1
      BY <1>3, <3>2
    <3>6. QED
      BY <3>1, <3>2, <3>3, <3>4, <3>5
  <2>2. HoldsEnd' /\ Place' = Place + TotalLen
    BY <1>1, <1>2, <1>7, <2>1, PlaceMoves
  <2>3. delivered' = delivered \o FrameAt(kept, Place + 1)
    <3>1. FrameAt(kept, Place + 1) = IF CmdId \in KnownCmds THEN << <<CmdId, Payload>> >> ELSE <<>>
      BY <1>2, <1>7, PayloadOfStream
    <3>2. CASE CmdId \in KnownCmds
      <4>1. FrameAt(kept, Place + 1) = << <<CmdId, Payload>> >>
        BY <3>1, <3>2
      <4>2. delivered' = Append(delivered, <<CmdId, Payload>>)
        BY <1>7, <3>2
      <4>3. FrameAt(kept, Place + 1) \in Seq(Delivery)
        BY <1>3, <1>4, <2>1, FrameIsDelivery
      <4>4. <<CmdId, Payload>> \in Delivery
        <5> DEFINE x == <<CmdId, Payload>>
        <5>1. <<x>> \in Seq(Delivery)
          BY <4>1, <4>3
        <5> HIDE DEF x
        <5>2. x \in Delivery
          BY ONLY <5>1
        <5>3. QED
          BY <5>2 DEF x
      <4>5. QED
        BY <1>2, <4>1, <4>2, <4>4, AppendIsConcat
    <3>3. CASE CmdId \notin KnownCmds
      BY <1>2, <1>7, <3>1, <3>3, ConcatEmptySeq
    <3>4. QED
      BY <3>2, <3>3
  <2>4. /\ delivered' \in Seq(Delivery)
        /\ Ahead(kept, delivered', FrameEnd(kept, Place + 1))
    BY <1>2, <1>3, <1>4, <2>1, <2>3, OneMoreDelivery
  <2>5. QED
    BY <1>1, <1>7, <2>1, <2>2, <2>4 DEF StreamInv
<1>8. QED
  BY <1>5, <1>6, <1>7 DEF Frame

(* The buffer holds the end of what was taken of the stream, and what was  *)
(* delivered lies before it.                                               *)
THEOREM StreamInvariant == Spec => []StreamInv
<1>1. StreamInv /\ ParserInv /\ ParserInv' /\ [Next]_vars => StreamInv'
  <2>1. ASSUME StreamInv, UNCHANGED vars PROVE StreamInv'
    BY <2>1 DEF vars, parserVars, bipVars, regions, StreamInv, HoldsEnd, Place, Contents,
       PeekBytes, ByteAt, available
  <2>2. QED
    BY <2>1, PushKeepsStream, ScanKeepsStream, FrameKeepsStream DEF Next
<1>2. QED
  BY StreamInit, ParserInvariant, <1>1, PTL DEF Spec

(* What was delivered after a push is what a reader of the uncut stream    *)
(* finds in the chunks that were taken: wherever it was cut, and wherever  *)
(* the buffer wrapped.                                                     *)
THEOREM FramesArriveWhole == Spec => []CutsDoNotMatter
<1>1. ParserInv /\ StreamInv => CutsDoNotMatter
  <2> SUFFICES ASSUME ParserInv, StreamInv, pc = "idle"
               PROVE  delivered = FramesFrom(kept)[1]
    BY DEF CutsDoNotMatter
  <2>1. kept \in Seq(Bytes) /\ <<>> \in Seq(Bytes) /\ delivered \in Seq(Delivery)
    BY DEF ParserInv, TypeOK, StreamInv
  <2>2. kept \o <<>> = kept
    BY <2>1, ConcatEmptySeq
  <2>3. FramesFrom(kept \o <<>>)[1] = delivered \o FramesFrom(kept \o <<>>)[Place + 1]
    BY <2>1 DEF StreamInv, Ahead
  <2>4. FramesFrom(kept)[1] = delivered \o <<>>
    BY <2>2, <2>3 DEF StreamInv
  <2>5. QED
    BY <2>1, <2>4, ConcatEmptySeq
<1>2. QED
  BY <1>1, StreamInvariant, ParserInvariant, PTL
=============================================================================
