------------------------------- MODULE StreamParser -------------------------------
(***************************************************************************)
(* RPL::Parser over its BipBuffer: the byte stream of the serial port is   *)
(* pushed in chunks cut anywhere, frames are found by their start byte     *)
(* and handed to the deserializer.                                         *)
(*                                                                         *)
(* One push_data call is a PushData step and the loop steps that follow it *)
(* (Scan: the start-byte search; Frame: parse_frame_impl).  A header is    *)
(* the start byte, the length field and the command field, each one cell   *)
(* here; the five-byte header of the USB protocol has no check sum.        *)
(***************************************************************************)
EXTENDS BipBuffer

CONSTANTS StartByte, HeaderSize, MaxFrame,
          KnownCmds,   \* commands with a slot in the deserializer's pool
          MaxChunk,    \* the longest chunk the port delivers
          Wires        \* the byte streams considered

ASSUME ParserAssumption ==
  /\ StartByte \in Bytes /\ HeaderSize = 3
  /\ MaxFrame \in Nat /\ HeaderSize <= MaxFrame
  /\ 4 * MaxFrame <= SIZE          \* calculate_buffer_size
  /\ MaxChunk \in Nat
  /\ \A w \in Wires : w \in Seq(Bytes)

VARIABLES pc, available_bytes,
          delivered,   \* the frames written to the pool, oldest first
          wire, sent,  \* the stream, and how much of it was pushed
          kept         \* the chunks that were not refused, joined
parserVars == <<pc, available_bytes, delivered>>
vars == <<bipVars, parserVars, wire, sent, kept>>

Init == /\ BipInit
        /\ pc = "idle"
        /\ available_bytes = 0
        /\ delivered = <<>>
        /\ wire \in Wires
        /\ sent = 0
        /\ kept = <<>>

(* push_data: store the chunk and start parsing, or refuse it unparsed. *)
PushData(n) ==
  /\ pc = "idle"
  /\ n <= Len(wire) - sent
  /\ sent' = sent + n
  /\ \/ /\ WriteFits(n)
        /\ write(SubSeq(wire, sent + 1, sent + n))
        /\ kept' = kept \o SubSeq(wire, sent + 1, sent + n)
        /\ pc' = "scan"
        /\ available_bytes' = available + n
     \/ /\ ~WriteFits(n)
        /\ UNCHANGED <<bipVars, kept, pc, available_bytes>>
  /\ UNCHANGED <<delivered, wire>>

(* What the loop drops it also takes off its own count of unread bytes.    *)
ConsumeUncounted(n) == discard(n) /\ UNCHANGED available_bytes
Consume(n) == discard(n) /\ available_bytes' = available_bytes - n

(* One turn of the loop's head: nothing left, region A without a start     *)
(* byte (dropped whole), or garbage dropped up to the first start byte.    *)
StartAt(k) == /\ ByteAt(k) = StartByte
              /\ \A j \in 0 .. k - 1 : ByteAt(j) # StartByte

Scan ==
  /\ pc = "scan"
  /\ \/ /\ available_bytes = 0
        /\ pc' = "idle"
        /\ UNCHANGED <<bipVars, available_bytes>>
     \/ /\ available_bytes > 0
        /\ \A k \in 0 .. region_a_size - 1 : ByteAt(k) # StartByte
        /\ Consume(region_a_size)
        /\ pc' = "scan"
     \/ /\ available_bytes > 0
        /\ \E k \in 0 .. region_a_size - 1 :
             /\ StartAt(k)
             /\ Consume(k)
             /\ pc' = "frame"
  /\ UNCHANGED <<delivered, wire, sent, kept>>

(* parse_frame_impl on the frame that starts at the oldest unread byte. *)
DataLen   == ByteAt(1)
CmdId     == ByteAt(2)
TotalLenNoHeader == DataLen
TotalLen  == HeaderSize + DataLen
Malformed == DataLen > MaxFrame - HeaderSize

Incomplete == available < HeaderSize \/ (~Malformed /\ available < TotalLen)
Failure    == available >= HeaderSize /\ Malformed
Success    == available >= HeaderSize /\ ~Malformed /\ available >= TotalLen

PayloadFirstSpan == ReadSpans(HeaderSize, DataLen)[1]
Payload == ReadSpans(HeaderSize, DataLen)[1] \o ReadSpans(HeaderSize, DataLen)[2]

Frame ==
  /\ pc = "frame"
  /\ \/ /\ Incomplete
        /\ pc' = "idle"
        /\ UNCHANGED <<bipVars, available_bytes, delivered>>
     \/ /\ Failure
        /\ Consume(1)
        /\ pc' = "scan"
        /\ UNCHANGED delivered
     \/ /\ Success
        /\ delivered' = IF CmdId \in KnownCmds
                        THEN Append(delivered, <<CmdId, Payload>>) ELSE delivered
        /\ discard(TotalLen)
        /\ available_bytes' = available - TotalLen
        /\ pc' = "scan"
  /\ UNCHANGED <<wire, sent, kept>>

Next == (\E n \in 1 .. MaxChunk : PushData(n)) \/ Scan \/ Frame

(* The parse loop runs inside push_data on the I/O thread: it is never     *)
(* abandoned half way.  Nothing makes the device send.                     *)
Spec == Init /\ [][Next]_vars /\ WF_vars(Scan) /\ WF_vars(Frame)

-----------------------------------------------------------------------------
TypeOK == /\ BipTypeOK
          /\ RegionsOK
          /\ pc \in {"idle", "scan", "frame"}
          /\ available_bytes \in Nat
          /\ wire \in Wires
          /\ sent \in Nat
          /\ kept \in Seq(Bytes)

(* The loop's own copy of the byte count, decremented by hand at each      *)
(* discard, always equals the buffer's: the loop neither stops with frames *)
(* unread nor runs on an empty buffer.                                     *)
CountExact == pc # "idle" => available_bytes = available

(* What stays behind when push_data returns is shorter than one frame.     *)
ResidueBounded == pc = "idle" => available < MaxFrame

(* With the buffer sized at four maximal frames (calculate_buffer_size), a *)
(* chunk of up to half of what a residue leaves free always finds room,    *)
(* wherever the residue lies, also after longer chunks were refused.       *)
RoomForChunk ==
  pc = "idle" => \A n \in 0 .. SIZE : 2 * n + MaxFrame <= SIZE + 1 => WriteFits(n)

(* Why there is room: region B is opened only by data that did not fit     *)
(* behind A, so A's end and B together exceed the capacity.                *)
WrappedLate == region_b_size > 0 => AEnd + region_b_size > SIZE

ParserInv == TypeOK /\ CountExact /\ ResidueBounded /\ WrappedLate

(* The frames in a stream, from each place on, as a reader finds them who  *)
(* sees the stream whole: no buffer and no cuts.                           *)
FrameEnd(w, i) == i + HeaderSize + w[i + 1]
FrameAt(w, i)  == IF w[i + 2] \in KnownCmds
                  THEN << <<w[i + 2], SubSeq(w, i + HeaderSize, FrameEnd(w, i) - 1)>> >> ELSE <<>>
FramesFrom(w) ==
  LET from[i \in 1 .. Len(w) + 1] ==
        IF i > Len(w) THEN <<>>
        ELSE IF w[i] # StartByte THEN from[i + 1]
        ELSE IF i + HeaderSize - 1 > Len(w) THEN <<>>
        ELSE IF w[i + 1] > MaxFrame - HeaderSize THEN from[i + 1]
        ELSE IF FrameEnd(w, i) > Len(w) + 1 THEN <<>>
        ELSE FrameAt(w, i) \o from[FrameEnd(w, i)]
  IN  from

(* Where the port cuts the stream, and where the buffer wraps, makes no    *)
(* difference: after every push the frames delivered are those of the      *)
(* chunks taken so far, in order, with their payloads intact.  Of a chunk  *)
(* that was refused nothing is taken.                                      *)
CutsDoNotMatter == pc = "idle" => delivered = FramesFrom(kept)[1]

(* Every turn of the loop that is not the last takes something off the     *)
(* buffer, or finds a start byte: no turn runs dry on an empty region A    *)
(* while B holds bytes, and no frame is shorter than its header.           *)
Remaining == 2 * available + (IF pc = "scan" THEN 1 ELSE 0)
TurnsShorten == [][pc # "idle" /\ pc' # "idle" => Remaining' < Remaining]_vars

(* Every push_data call returns.                                           *)
ParsingEnds == pc # "idle" ~> pc = "idle"
=============================================================================
