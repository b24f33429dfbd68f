---------------------------- MODULE WebSocketFlow ----------------------------
(***************************************************************************)
(* The two directions of one stream of a WebSocketCarrier, among whatever  *)
(* else the carrier does, seen as CreditChannels: where each byte of the   *)
(* stream's window is.                                                     *)
(***************************************************************************)
EXTENDS WebSocketCarrier

CONSTANT Stream     \* the id of the stream that is looked at

ASSUME StreamAssumption == Stream \in Sids

\* The sum of a sequence of numbers.
Total(w) ==
  LET upTo[i \in 0 .. Len(w)] == IF i = 0 THEN 0 ELSE upTo[i - 1] + w[i]
  IN upTo[Len(w)]

\* The bytes (DATA) or the credit (WINDOW) that a frame, or the frames, of a type
\* carry for s.
Carried(f, ty, s) == IF f.type = ty /\ f.sid = s THEN f.n ELSE 0

Amount(frames, ty, s) == Total([i \in DOMAIN frames |-> Carried(frames[i], ty, s)])

\* An id that is not allocated yet has its window ahead of it; a stream the tables
\* have dropped has none.
UpCredit ==
  IF Stream \in known THEN sendWindows[Stream]
  ELSE IF Stream >= nextStreamId THEN InitialWindow ELSE 0

\* The reader holds what is queued, and what it has taken without granting it back
\* yet.
DownHeld ==
  IF Stream \in known THEN Total(recvQueues[Stream]) + (InitialWindow - recvWindows[Stream])
  ELSE 0

\* Client to relay.
Up == INSTANCE CreditChannel WITH
  Window    <- InitialWindow,
  credit    <- UpCredit,
  inTransit <- Amount(up, "DATA", Stream),
  held      <- relayHeld[Stream],
  returning <- Amount(down, "WINDOW", Stream)

\* Relay to client.
Down == INSTANCE CreditChannel WITH
  Window    <- InitialWindow,
  credit    <- relayCredit[Stream],
  inTransit <- Amount(down, "DATA", Stream),
  held      <- DownHeld,
  returning <- Amount(up, "WINDOW", Stream)

\* The client-to-relay direction of a stream implements the credit channel: no
\* send, no loss and no teardown makes window out of nothing (send_data,
\* _dispatch_frame WINDOW, _clear_streams).
UpImplementsChannel == Up!Spec

\* So does the relay-to-client direction: whatever recv_data grants was taken
\* from the window before (recv_data, _compute_window_grant).
DownImplementsChannel == Down!Spec
=============================================================================
