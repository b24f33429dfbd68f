---------------------------- MODULE PacketStream ----------------------------
(***************************************************************************)
(* The packets of a connection in one direction of its stream: packed and  *)
(* enciphered (mtproxy.py), cut by the relay into the DATA frames of       *)
(* batches, parsed (protocol.py), and put together again and unpacked by   *)
(* the connection's reader (connector_v1.py, _WebProxyReader).             *)
(*                                                                         *)
(* The far end and the relay are external: the far end packs as the client *)
(* does.  Windows are WebSocketCarrier's matter, and left out.             *)
(***************************************************************************)
EXTENDS FrameCodec, FiniteSetsExt

CONSTANTS
  PacketLenWidth,    \* the bytes of a packet's length
  PayloadSizes,      \* of the packets
  NoPadSize,         \* the one size that is never padded (396)
  Randomized,        \* is_randomized: does the secret ask for padding?
  FrameSizes         \* payload lengths of the relay's DATA frames

\* Words of four bytes, as in every MTProto packet; lengths are signed.
ASSUME PacketAssumption ==
  /\ PacketLenWidth \in Nat \ {0}
  /\ Randomized \in BOOLEAN
  /\ \A n \in PayloadSizes : n \in Nat /\ n % 4 = 0 /\ n + 3 < Power(PacketLenWidth) \div 2
  /\ FrameSizes \subseteq 1 .. MaxPayload

VARIABLES
  sent, ends,        \* the packets' payloads; where each ends in the stream
  wire,              \* the stream's bytes on their way to the relay
  queue,             \* chunks in the stream's receive queue, Eof behind the last
  buffer,            \* _buffer of the reader
  deciphered,        \* how many bytes its cipher has seen
  delivered,         \* what read() has returned
  closed             \* has read() raised?

vars == <<sent, ends, wire, queue, buffer, deciphered, delivered, closed>>

Eof == <<>>
DataType == 1
Stream == 1

Init ==
  /\ sent = <<>> /\ ends = <<>> /\ wire = <<>>
  /\ queue = <<>> /\ buffer = <<>> /\ deciphered = 0
  /\ delivered = <<>> /\ closed = FALSE

-----------------------------------------------------------------------------
(* Packing. *)

LittleEndian(n, width) == Reverse(BigEndian(n, width))

\* struct.unpack "<i".
FromLittleEndian(bytes) ==
  LET n == FromBigEndian(Reverse(bytes))
      modulus == Power(Len(bytes))
  IN  IF n < modulus \div 2 THEN n ELSE n - modulus

PadSizes(payload) == IF Randomized /\ Len(payload) # NoPadSize THEN 0 .. 3 ELSE {0}

PackFrame(payload, padding) ==
  LittleEndian(Len(payload) + Len(padding), PacketLenWidth) \o payload \o padding

UnpackFrame(body) ==
  IF Randomized THEN SubSeq(body, 1, Len(body) - (Len(body) % 4)) ELSE body

\* AES in counter mode: each byte is combined with the key stream's at its
\* position in the whole stream.
KeyStream(i) == (i \div 2) % Base
Encrypt(bytes, before) ==
  [i \in DOMAIN bytes |-> (bytes[i] + KeyStream(before + i)) % Base]

\* Mutant: the key stream is taken off without wrapping around.
Decrypt_NoModulus(bytes, before) ==
  [i \in DOMAIN bytes |-> bytes[i] - KeyStream(before + i)]

Decrypt(bytes, before) ==
  [i \in DOMAIN bytes |-> (bytes[i] + Base - KeyStream(before + i)) % Base]

-----------------------------------------------------------------------------
(* The far end and the relay (external). *)

Flushed == IF ends = <<>> THEN 0 ELSE Last(ends)

SendPacket(payload, padding) ==
  LET bytes == PackFrame(payload, padding) IN
  /\ sent' = Append(sent, payload)
  /\ ends' = Append(ends, Flushed + Len(bytes))
  /\ wire' = wire \o Encrypt(bytes, Flushed)
  /\ UNCHANGED <<queue, buffer, deciphered, delivered, closed>>

\* All that matters of a payload's bytes is that those of the next packet, and
\* the padding, differ.
Filled(size, n) == [i \in 1 .. size |-> n % Base]

PeerSends ==
  \E size \in PayloadSizes :
    LET payload == Filled(size, Len(sent))
    IN  \E pad \in PadSizes(payload) : SendPacket(payload, Filled(pad, Len(sent) + 1))

\* A frame of another stream, of an unknown type.
Other == [type |-> 0, sid |-> 0, payload |-> <<1>>]

\* The chunks that _dispatch_frame queues, frame by frame, of a batch that was not
\* refused.
Chunks(frames) ==
  LET own(f) == f.type = DataType /\ f.sid = Stream
      upTo[n \in 0 .. Len(frames)] ==
        IF n = 0 THEN <<>>
        ELSE IF own(frames[n]) THEN Append(upTo[n - 1], frames[n].payload)
        ELSE upTo[n - 1]
  IN upTo[Len(frames)]

Dispatch(batch) == queue' = queue \o Chunks(ParseFrames(batch).frames)

\* The relay cuts the stream into frames of the given sizes; 0 stands for a frame
\* of another stream.
RelaySends(sizes) ==
  LET cut[i \in 0 .. Len(sizes)] == IF i = 0 THEN 0 ELSE cut[i - 1] + sizes[i]
      total  == cut[Len(sizes)]
      frames == [i \in DOMAIN sizes |->
                   IF sizes[i] = 0 THEN Other
                   ELSE [type |-> DataType, sid |-> Stream,
                         payload |-> SubSeq(wire, cut[i - 1] + 1, cut[i])]]
  IN  /\ 0 < total /\ total <= Len(wire)
      /\ Dispatch(EncodeBatch(frames))
      /\ wire' = SubSeq(wire, total + 1, Len(wire))
      /\ UNCHANGED <<sent, ends, buffer, deciphered, delivered, closed>>

Ended == queue # <<>> /\ Last(queue) = Eof

BatchArrives ==
  /\ ~Ended /\ ~closed
  /\ \E k \in 1 .. MaxBatchFrames :
       \E sizes \in [1 .. k -> FrameSizes \cup {0}] : RelaySends(sizes)

\* CLOSE, or the loss of the carrier, wherever the stream has been cut.
StreamEnds ==
  /\ ~Ended /\ ~closed
  /\ queue' = Append(queue, Eof)
  /\ UNCHANGED <<sent, ends, wire, buffer, deciphered, delivered, closed>>

-----------------------------------------------------------------------------
(* The reader: _recv_loop calls read() again and again. *)

Total == PacketLenWidth + FromLittleEndian(SubSeq(buffer, 1, PacketLenWidth))
HasPacket == Len(buffer) >= PacketLenWidth /\ Len(buffer) >= Total

\* Where the packet ends.  A negative length, which only a stream with a hole
\* shows, makes Total an index from the end, as in any slice.
Cut == IF Total >= 0 THEN Total ELSE Max({0, Len(buffer) + Total})
Body == SubSeq(buffer, PacketLenWidth + 1, Cut)

\* Mutant: the whole buffer is dropped with the packet.
ReadReturns_DropsRest ==
  /\ ~closed /\ HasPacket
  /\ delivered' = Append(delivered, UnpackFrame(Body))
  /\ buffer' = <<>>
  /\ UNCHANGED <<sent, ends, wire, queue, deciphered, closed>>

ReadReturns ==
  /\ ~closed /\ HasPacket
  /\ delivered' = Append(delivered, UnpackFrame(Body))
  /\ buffer' = SubSeq(buffer, Cut + 1, Len(buffer))
  /\ UNCHANGED <<sent, ends, wire, queue, deciphered, closed>>

\* Mutant: each chunk is deciphered from the start of the key stream.
ReadTakes_Restarts ==
  /\ ~closed /\ ~HasPacket
  /\ queue # <<>> /\ Head(queue) # Eof
  /\ buffer' = buffer \o Decrypt(Head(queue), 0)
  /\ deciphered' = deciphered + Len(Head(queue))
  /\ queue' = Tail(queue)
  /\ UNCHANGED <<sent, ends, wire, delivered, closed>>

ReadTakes ==
  /\ ~closed /\ ~HasPacket
  /\ queue # <<>> /\ Head(queue) # Eof
  /\ buffer' = buffer \o Decrypt(Head(queue), deciphered)
  /\ deciphered' = deciphered + Len(Head(queue))
  /\ queue' = Tail(queue)
  /\ UNCHANGED <<sent, ends, wire, delivered, closed>>

ReadRaises ==
  /\ ~closed /\ ~HasPacket
  /\ queue # <<>> /\ Head(queue) = Eof
  /\ queue' = Tail(queue)
  /\ closed' = TRUE
  /\ UNCHANGED <<sent, ends, wire, buffer, deciphered, delivered>>

Next ==
  \/ PeerSends \/ BatchArrives \/ StreamEnds
  \/ ReadReturns \/ ReadTakes \/ ReadRaises

Spec == Init /\ [][Next]_vars

-----------------------------------------------------------------------------
(* Properties. *)

TypeOK ==
  /\ sent \in Seq(Seq(Bytes)) /\ delivered \in Seq(Seq(Bytes))
  /\ ends \in Seq(Nat) /\ deciphered \in Nat
  /\ wire \in Seq(Bytes) /\ buffer \in Seq(Bytes)
  /\ queue \in Seq(Seq(Bytes))
  /\ closed \in BOOLEAN

\* However packets are padded, and the stream is cut into chunks and batches,
\* read() returns the packets that were sent, whole and in order (pack_frame,
\* parse_frames, _dispatch_frame, read, unpack_frame).
PacketsIntact == IsPrefix(delivered, sent)

\* No packet is withheld: when read() waits for bytes, or raises, it has returned
\* each packet whose last byte it was given, several of one chunk too (read).
NothingWithheld ==
  ~HasPacket => \A i \in DOMAIN ends : ends[i] <= deciphered => i <= Len(delivered)
=============================================================================
