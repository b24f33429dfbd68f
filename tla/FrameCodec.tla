----------------------------- MODULE FrameCodec -----------------------------
(***************************************************************************)
(* The wire format of shared frames (protocol.py) over an alphabet of Base *)
(* bytes and fields of any width: a frame is type, stream id, payload      *)
(* length, all big-endian, and the payload.                                *)
(***************************************************************************)
EXTENDS Integers, SequencesExt

CONSTANTS
  Base,              \* the number of byte values
  SidWidth,          \* the bytes of a stream id,
  LenWidth,          \* of a payload length
  MaxPayload,        \* MAX_PAYLOAD
  MaxBatchFrames     \* MAX_BATCH_FRAMES

\* The values that k bytes can tell apart.
Power(k) ==
  LET upTo[i \in 0 .. k] == IF i = 0 THEN 1 ELSE Base * upTo[i - 1]
  IN upTo[k]

ASSUME CodecAssumption ==
  /\ Base \in Nat \ {0, 1}
  /\ {SidWidth, LenWidth, MaxBatchFrames} \subseteq Nat \ {0}
  /\ MaxPayload \in 0 .. Power(LenWidth) - 1

Bytes == 0 .. Base - 1
HeaderSize == 1 + SidWidth + LenWidth

\* struct.pack and to_bytes with ">", and back.
BigEndian(n, width) == [i \in 1 .. width |-> (n \div Power(width - i)) % Base]

FromBigEndian(bytes) ==
  LET value[i \in 0 .. Len(bytes)] == IF i = 0 THEN 0 ELSE value[i - 1] * Base + bytes[i]
  IN value[Len(bytes)]

MaxStreamId == Power(SidWidth) - 1

\* encode_frame raises ValueError for any other stream id.
Encodable(f) == f.sid <= MaxStreamId

\* What it returns for a frame that is encodable.
EncodeFrame(f) ==
  <<f.type>> \o BigEndian(f.sid, SidWidth) \o BigEndian(Len(f.payload), LenWidth)
    \o f.payload

EncodeBatch(frames) == FlattenSeq([i \in DOMAIN frames |-> EncodeFrame(frames[i])])

\* The length field of the frame that begins at position o.
PayloadLen(data, o) ==
  FromBigEndian(SubSeq(data, o + 1 + SidWidth, o + HeaderSize - 1))

FrameAt(data, o) ==
  [type    |-> data[o],
   sid     |-> FromBigEndian(SubSeq(data, o + 1, o + SidWidth)),
   payload |-> SubSeq(data, o + HeaderSize, o + HeaderSize + PayloadLen(data, o) - 1)]

\* Mutant: a payload may be longer than the limit.
FrameFits_NoLimit(data, o) ==
  /\ o + HeaderSize <= Len(data) + 1
  /\ o + HeaderSize + PayloadLen(data, o) <= Len(data) + 1

\* A frame that parse_frames accepts begins at position o.
FrameFits(data, o) ==
  /\ o + HeaderSize <= Len(data) + 1
  /\ PayloadLen(data, o) <= MaxPayload
  /\ o + HeaderSize + PayloadLen(data, o) <= Len(data) + 1

\* Where the frame behind the one at position o begins: a scan that cannot go on
\* stays where it is.
NextFrame(data, o) ==
  IF FrameFits(data, o) THEN o + HeaderSize + PayloadLen(data, o) ELSE o

\* A batch is refused as a whole, unless the scan reaches its end within so many
\* frames.
ParseFrames(data) ==
  LET at[n \in 0 .. MaxBatchFrames] == IF n = 0 THEN 1 ELSE NextFrame(data, at[n - 1])
      count == CHOOSE n \in 1 .. MaxBatchFrames :
                 at[n - 1] <= Len(data) /\ at[n] > Len(data)
      ok    == data # <<>> /\ at[MaxBatchFrames] > Len(data)
  IN  [ok     |-> ok,
       frames |-> IF ok THEN [i \in 1 .. count |-> FrameAt(data, at[i - 1])] ELSE <<>>]

-----------------------------------------------------------------------------
(* What a batch is, without a scan. *)

IsFrame(bytes) ==
  /\ Len(bytes) >= HeaderSize
  /\ PayloadLen(bytes, 1) = Len(bytes) - HeaderSize
  /\ PayloadLen(bytes, 1) <= MaxPayload

\* data is cut at the positions ends into frames.
CutsIntoFrames(data, ends) ==
  \A i \in DOMAIN ends :
    IsFrame(SubSeq(data, IF i = 1 THEN 1 ELSE ends[i - 1] + 1, ends[i]))

IsBatch(data) ==
  \E k \in 1 .. MaxBatchFrames : \E ends \in [1 .. k -> 1 .. Len(data)] :
    ends[k] = Len(data) /\ CutsIntoFrames(data, ends)

\* parse_frames accepts the batches of at most so many frames within the limit,
\* and no others, and returns the frames that make up the batch, none of which
\* encode_frame refuses.
ParsesExactly(data) ==
  LET parsed == ParseFrames(data)
  IN  /\ parsed.ok = IsBatch(data)
      /\ parsed.ok => /\ \A i \in DOMAIN parsed.frames : Encodable(parsed.frames[i])
                      /\ EncodeBatch(parsed.frames) = data
=============================================================================
