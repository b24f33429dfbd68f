--------------------------- MODULE MCPacketStream ---------------------------
(***************************************************************************)
(* PacketStream on small instances and, in behaviours of their own, every  *)
(* byte string up to a length as the input of parse_frames.                *)
(***************************************************************************)
EXTENDS PacketStream

CONSTANTS
  MaxPackets,     \* packets of the stream
  MaxQueue,       \* chunks in the queue
  MaxInput        \* bytes given to parse_frames

VARIABLE input    \* the batch that is being tried

MCInit == Init /\ input = <<>>

TriesInput ==
  /\ sent = <<>> /\ ~Ended /\ ~closed
  /\ \E b \in Bytes : input' = Append(input, b)
  /\ UNCHANGED vars

Streams == input = <<>> /\ Next /\ UNCHANGED input

InBounds ==
  Len(sent) <= MaxPackets /\ Len(queue) <= MaxQueue + 1 /\ Len(input) <= MaxInput

MCSpec == MCInit /\ [][(TriesInput \/ Streams) /\ InBounds']_<<vars, input>>

\* parse_frames is exact on every input (parse_frames, encode_frame).
ParseExact == ParsesExactly(input)
=============================================================================
