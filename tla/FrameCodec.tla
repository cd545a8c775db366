----------------------------- MODULE FrameCodec -----------------------------
(***************************************************************************)
(* streaming.rs below StreamingCall: how the frames of one direction of a  *)
(* streaming substream become bytes, and how read_streaming_frame gets     *)
(* them back, byte by byte, from a stream that may stop anywhere.          *)
(*                                                                         *)
(* A frame is an opcode alone, or an opcode, the LEB128 length of the body *)
(* and the body.  The code has 7-bit groups and 64-bit lengths; here both  *)
(* widths are parameters.  postcard, which decodes the bodies of some      *)
(* frames, is left out.                                                    *)
(***************************************************************************)
EXTENDS Leb128

CONSTANTS
    Width,      \* bits of the decoded integer: 64
    MaxLen,     \* MAX_STREAMING_PAYLOAD_LEN
    Lengths,    \* lengths of the bodies that are written
    Fill,       \* the byte these bodies consist of
    MaxFrames   \* bound: frames written

VarintBytes == (Width + GroupBits - 1) \div GroupBits

ASSUME CodecAssumption ==
    /\ GroupBits \in Nat \ {0} /\ Width \in Nat \ {0}
    /\ MaxLen \in 0..(Pow2[Width] - 1)
    /\ Lengths \subseteq 0..(Pow2[Width] - 1)
    /\ Fill \in Byte
    /\ MaxFrames \in Nat

(* Opcodes: those of a frame with a body, those of a frame without one.    *)
Chunk == 1
End == 2
Frame == [op : {Chunk}, len : Lengths] \cup {[op |-> End, len |-> 0]}

VARIABLES
    sent,    \* frames whose write_all has returned
    bytes,   \* what has been written and will arrive
    end,     \* open; fin; lost: the connection has failed
    torn,    \* the frame the writer stopped in, if any
    pos,     \* bytes read
    phase,   \* what read_streaming_frame is about to read
    op, acc, shift, \* the opcode; the varint so far; its bytes so far
    out,     \* frames read
    result   \* what ended the reading

writerVars == <<sent, torn>>
readerVars == <<pos, phase, op, acc, shift, out, result>>
vars == <<writerVars, bytes, end, readerVars>>

-----------------------------------------------------------------------------
encode_varint_u64(v) == leb128_write[v]

Encode(f) ==
    IF f.op = End THEN <<f.op>>
    ELSE <<f.op>> \o encode_varint_u64(f.len) \o [i \in 1..f.len |-> Fill]

(* write_length_prefixed and write_single_opcode: one write_all each.      *)
write_frame(f) ==
    /\ end = "open" /\ Len(sent) < MaxFrames
    /\ sent' = Append(sent, f)
    /\ bytes' = bytes \o Encode(f)
    /\ UNCHANGED <<end, torn, readerVars>>

(* The task is aborted during write_all, and the SendStream dropped.       *)
Tear(f) ==
    /\ end = "open" /\ Len(sent) < MaxFrames
    /\ \E i \in 1..(Len(Encode(f)) - 1) : bytes' = bytes \o SubSeq(Encode(f), 1, i)
    /\ torn' = <<f>> /\ end' = "fin"
    /\ UNCHANGED <<sent, readerVars>>

finish == end = "open" /\ end' = "fin" /\ UNCHANGED <<writerVars, bytes, readerVars>>

(* The connection fails: what has not been read arrives in part.           *)
Lose ==
    /\ end # "lost"
    /\ end' = "lost"
    /\ \E n \in pos..Len(bytes) : bytes' = SubSeq(bytes, 1, n)
    /\ UNCHANGED <<writerVars, readerVars>>

-----------------------------------------------------------------------------
Reading(what) == result = "none" /\ phase = what
Arrived(n) == pos + n <= Len(bytes)
NextByte == bytes[pos + 1]
(* read_exact fails: the stream is over and too short.                     *)
ShortOf(n) == ~Arrived(n) /\ end # "open"

Returns(err) == result' = err /\ UNCHANGED <<pos, phase, op, acc, shift, out>>

(* A frame is complete.  The pump asks for the next one: here it does so   *)
(* after an end frame too.                                                 *)
Yield(n) ==
    /\ out' = Append(out, [op |-> op', len |-> n])
    /\ phase' = "opcode" /\ acc' = 0 /\ shift' = 0

read_opcode ==
    /\ Reading("opcode") /\ Arrived(1)
    /\ pos' = pos + 1 /\ op' = NextByte
    /\ CASE NextByte = Chunk -> phase' = "varint" /\ UNCHANGED <<acc, shift, out, result>>
         [] NextByte = End   -> Yield(0) /\ UNCHANGED result
         [] OTHER            -> result' = "MalformedFrame" /\ UNCHANGED <<phase, acc, shift, out>>
    /\ UNCHANGED <<writerVars, bytes, end>>

(* Mutant: the end of the connection is taken for the end of the stream.   *)
classify_eof_or_error_lenient ==
    /\ Reading("opcode") /\ ShortOf(1)
    /\ Returns("None")
    /\ UNCHANGED <<writerVars, bytes, end>>

(* No byte of a next frame: a clean end if the peer has finished.          *)
classify_eof_or_error ==
    /\ Reading("opcode") /\ ShortOf(1)
    /\ Returns(IF end = "fin" THEN "None" ELSE "TransportRead")
    /\ UNCHANGED <<writerVars, bytes, end>>

(* checked_shl refuses no shift below 64, and drops what it shifts out.    *)
Shifted(b, n) == ((b % High) * Pow2[n * GroupBits]) % Pow2[Width]

(* Mutant: the declared length is taken at its word.                       *)
read_varint_u64_unlimited ==
    /\ Reading("varint") /\ Arrived(1)
    /\ pos' = pos + 1
    /\ LET sum == acc + Shifted(NextByte, shift) IN
       /\ acc' = sum
       /\ IF NextByte < High THEN phase' = "body" /\ UNCHANGED shift
          ELSE shift' = shift + 1 /\ UNCHANGED phase
    /\ UNCHANGED <<writerVars, bytes, end, op, out, result>>

(* Mutant: the limit itself is refused.                                    *)
read_varint_u64_below_limit ==
    /\ Reading("varint") /\ Arrived(1)
    /\ pos' = pos + 1
    /\ LET sum == acc + Shifted(NextByte, shift) IN
       IF NextByte < High
       THEN IF sum >= MaxLen
            THEN result' = "MalformedFrame" /\ UNCHANGED <<phase, acc, shift>>
            ELSE phase' = "body" /\ acc' = sum /\ UNCHANGED <<shift, result>>
       ELSE acc' = sum /\ shift' = shift + 1 /\ UNCHANGED <<phase, result>>
    /\ UNCHANGED <<writerVars, bytes, end, op, out>>

(* One byte; after the last one, the length check of read_length_prefixed. *)
read_varint_u64 ==
    /\ Reading("varint") /\ Arrived(1)
    /\ pos' = pos + 1
    /\ LET sum == acc + Shifted(NextByte, shift) IN
       IF NextByte < High
       THEN IF sum > MaxLen
            THEN result' = "MalformedFrame" /\ UNCHANGED <<phase, acc, shift>>
            ELSE phase' = "body" /\ acc' = sum /\ UNCHANGED <<shift, result>>
       ELSE /\ acc' = sum /\ shift' = shift + 1 /\ UNCHANGED phase
            /\ result' = IF shift + 1 < VarintBytes THEN result ELSE "MalformedFrame"
    /\ UNCHANGED <<writerVars, bytes, end, op, out>>

(* Mutant: the body is read with read, which returns what is there.        *)
read_length_prefixed_some ==
    /\ Reading("body") /\ (Arrived(1) \/ acc = 0) /\ op' = op
    /\ LET n == IF Arrived(acc) THEN acc ELSE Len(bytes) - pos IN pos' = pos + n /\ Yield(n)
    /\ UNCHANGED <<writerVars, bytes, end, result>>

(* The buffer of the declared length is filled.                            *)
read_length_prefixed ==
    /\ Reading("body") /\ Arrived(acc)
    /\ pos' = pos + acc /\ op' = op
    /\ Yield(acc)
    /\ UNCHANGED <<writerVars, bytes, end, result>>

(* Inside a frame every end of the stream is an error.                     *)
read_exact_fails ==
    /\ \/ Reading("varint") /\ ShortOf(1)
       \/ Reading("body") /\ ShortOf(acc)
    /\ Returns("TransportRead")
    /\ UNCHANGED <<writerVars, bytes, end>>

read_streaming_frame ==
    \/ read_opcode \/ classify_eof_or_error
    \/ read_varint_u64 \/ read_length_prefixed \/ read_exact_fails

-----------------------------------------------------------------------------
Init ==
    /\ sent = <<>> /\ torn = <<>> /\ bytes = <<>> /\ end = "open"
    /\ pos = 0 /\ phase = "opcode" /\ op = 0 /\ acc = 0 /\ shift = 0
    /\ out = <<>> /\ result = "none"

Next ==
    \/ \E f \in Frame : write_frame(f) \/ Tear(f)
    \/ finish \/ Lose
    \/ read_streaming_frame

Spec == Init /\ [][Next]_vars

-----------------------------------------------------------------------------
(* The values the variables range over; the buffer that is about to be     *)
(* filled never exceeds MAX_STREAMING_PAYLOAD_LEN.                         *)
TypeOK ==
    /\ sent \in Seq(Frame) /\ torn \in Seq(Frame)
    /\ bytes \in Seq(Byte) /\ end \in {"open", "fin", "lost"}
    /\ pos \in 0..Len(bytes) /\ phase \in {"opcode", "varint", "body"}
    /\ op \in Byte /\ acc \in 0..(Pow2[Width] - 1) /\ shift \in 0..VarintBytes
    /\ phase = "body" => acc <= MaxLen
    /\ out \in Seq([op : {Chunk, End}, len : 0..MaxLen])
    /\ result \in {"none", "None", "MalformedFrame", "TransportRead"}

(* The reader yields the frames that were written, in order, whatever is   *)
(* cut or torn: frames are atomic, as StreamingCall has them.              *)
FramesIntact ==
    /\ Len(out) <= Len(sent)
    /\ \A i \in DOMAIN out : out[i] = sent[i]

(* A clean end of stream is reported only at the end of the last frame of  *)
(* a writer that has finished: a frame that stops short never passes for   *)
(* an end.                                                                 *)
CleanEofIsWhole == result = "None" => torn = <<>> /\ out = sent

(* The only frame that is refused is one above MAX_STREAMING_PAYLOAD_LEN:  *)
(* no length that the writer can encode up to the limit is misread.        *)
OnlyOversizeRefused ==
    result = "MalformedFrame" =>
        /\ Len(out) < Len(sent \o torn)
        /\ (sent \o torn)[Len(out) + 1].len > MaxLen
=============================================================================
