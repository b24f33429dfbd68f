-------------------------- MODULE WebSocketCarrier --------------------------
(***************************************************************************)
(* The multiplexed WebSocket carrier (carrier.py): the life cycle of       *)
(* BaseCarrier and the streams of StreamManager over one WebSocket and its *)
(* reader task.  The relay and the network are modelled from how the code  *)
(* uses them.                                                              *)
(*                                                                         *)
(* A frame written to the socket is in the channel when the write returns, *)
(* so every action ends where the code may suspend.                        *)
(***************************************************************************)
EXTENDS StreamManager, BaseCarrier

CONSTANT
  ReaderGrants    \* does the consumer also call grant_window for each chunk,
                  \* as _WebProxyReader of connector_v1.py does?

ASSUME CarrierAssumption == ReaderGrants \in BOOLEAN

VARIABLES
  socket,       \* the WebSocket; "broken": lost, and aiohttp does not know yet
  wsRef,        \* is _ws set?
  toGrant,      \* a chunk the consumer has taken and not yet granted
  up, down,     \* frames in flight, to the relay and from it
  relayOpen, relayCredit, relayHeld, byeSent    \* the relay

relayVars  == <<relayOpen, relayCredit, relayHeld, byeSent>>
socketVars == <<socket, wsRef>>
wireVars   == <<toGrant, up, down, relayVars>>
vars == <<smVars, baseVars, socketVars, wireVars>>

UpFrame == [type : FrameTypes, sid : 0 .. MaxStreamId + 1, n : Nat]

SocketTypeOK ==
  /\ socket \in {"none", "open", "broken", "closed"}
  /\ wsRef \in BOOLEAN

WireTypeOK ==
  /\ toGrant \in [Sids -> Nat]
  /\ up \in Seq(UpFrame)
  /\ down \in Seq(Frame)
  /\ relayOpen \in SUBSET (0 .. MaxStreamId + 1)
  /\ relayCredit \in [Sids -> Nat]
  /\ relayHeld \in [Sids -> Nat]
  /\ byeSent \in BOOLEAN

CarrierTypeOK == TypeOK /\ BaseTypeOK /\ SocketTypeOK /\ WireTypeOK

Init ==
  /\ SMInit
  /\ BaseInit
  /\ socket = "none"
  /\ wsRef = FALSE
  /\ toGrant = [s \in Sids |-> 0]
  /\ up = <<>>
  /\ down = <<>>
  /\ relayOpen = {}
  /\ relayCredit = [s \in Sids |-> InitialWindow]
  /\ relayHeld = [s \in Sids |-> 0]
  /\ byeSent = FALSE

F(type, sid, n) == [type |-> type, sid |-> sid, n |-> n]

-----------------------------------------------------------------------------
(* connect() *)

StartConnect == ConnectStarts /\ UNCHANGED <<smVars, socketVars, wireVars>>

\* _start_transport calls ws_connect.
Bootstrapped == ConnectUpgrades /\ UNCHANGED <<smVars, socketVars, wireVars>>

\* ws_connect has returned: no suspension until connect itself returns.
Upgraded ==
  /\ connectPc = "upgrade"
  /\ ConnectReturns
  /\ TaskCreated
  /\ socket' = "open"
  /\ wsRef' = TRUE
  /\ UNCHANGED <<infoRef, smVars, wireVars>>

ConnectFails == ConnectRaises /\ UNCHANGED <<smVars, socketVars, wireVars>>

-----------------------------------------------------------------------------
(* Writing to the socket. *)

\* send_bytes raises on a lost connection.
WriteRaises == wsRef /\ socket = "broken"

\* _ws_send: nothing at all happens without a socket or after its close.
WsSend(f) == up' = IF wsRef /\ socket = "open" THEN Append(up, f) ELSE up

-----------------------------------------------------------------------------
(* Stream operations. *)

\* What a stream operation leaves alone, besides toGrant.
UnchangedByStreamOp ==
  UNCHANGED <<baseVars, socketVars, down, relayVars>>

\* An id beyond the limit makes encode_frame raise, after the allocation.
OpenStream ==
  /\ connectPc = "returned"
  /\ AllocStream
  /\ IF nextStreamId <= MaxStreamId THEN WsSend(F("OPEN", nextStreamId, 0))
     ELSE UNCHANGED up
  /\ UNCHANGED toGrant
  /\ UnchangedByStreamOp

CloseStream(s) ==
  /\ s \in openStreams
  /\ DiscardOpen(s)
  /\ WsSend(F("CLOSE", s, 0))
  /\ UNCHANGED toGrant
  /\ UnchangedByStreamOp

CallSendData(t, s, n) ==
  /\ BeginSend(t, s, n)
  /\ UNCHANGED <<toGrant, up>>
  /\ UnchangedByStreamOp

SendDataStep(t) ==
  /\ \/ /\ SenderBlocks(t) \/ SenderRegisters(t) \/ SenderFindsClosed(t)
        /\ UNCHANGED up
     \/ /\ SendChunk(t, ~WriteRaises)
        /\ WsSend(F("DATA", sendSid[t], ChunkOf(t)))
  /\ UNCHANGED toGrant
  /\ UnchangedByStreamOp

SendDataTimeout(t) ==
  /\ SenderTimesOut(t)
  /\ UNCHANGED <<toGrant, up>>
  /\ UnchangedByStreamOp

\* recv_data; an exception of its WINDOW write reaches the consumer, which has
\* then lost the chunk.
RecvDataWaits(s) ==
  /\ toGrant[s] = 0
  /\ RecvWaits(s)
  /\ UNCHANGED <<toGrant, up>>
  /\ UnchangedByStreamOp

RecvDataEof(s) ==
  /\ toGrant[s] = 0
  /\ RecvEof(s)
  /\ UNCHANGED <<toGrant, up>>
  /\ UnchangedByStreamOp

RecvDataChunk(s) ==
  /\ toGrant[s] = 0
  /\ RecvChunk(s)
  /\ IF GrantDue(s) > 0 THEN WsSend(F("WINDOW", s, GrantDue(s))) ELSE UNCHANGED up
  /\ toGrant' = [toGrant EXCEPT
                   ![s] = IF ReaderGrants /\ ~(GrantDue(s) > 0 /\ WriteRaises)
                          THEN Head(recvQueues[s]) ELSE 0]
  /\ UnchangedByStreamOp

\* grant_window, with the length of the chunk just received.
GrantWindow(s) ==
  /\ toGrant[s] > 0
  /\ WsSend(F("WINDOW", s, toGrant[s]))
  /\ toGrant' = [toGrant EXCEPT ![s] = 0]
  /\ UNCHANGED smVars
  /\ UnchangedByStreamOp

-----------------------------------------------------------------------------
(* disconnect() *)

UserDisconnect == CallDisconnect /\ UNCHANGED <<smVars, socketVars, wireVars>>

\* What a step of disconnect does to the transport.  _http.close() closes the
\* connector, and with it the WebSocket's connection; when the disconnect for
\* a BYE returns, the reader goes on reading.
TransportAfter(d) ==
  /\ reader' = IF Inline(d) /\ disc'[d] = "done" THEN "reading" ELSE reader
  /\ socket' = IF http' = "closed" /\ socket = "open" THEN "broken" ELSE socket
  /\ UNCHANGED <<wsRef, wireVars>>

\* No recv_data has been given an item without having resumed.  The event loop
\* is first-in first-out and disconnect yields to it at least twice between the
\* last frame its reader dispatches and the clearing of the streams.
NoReaderPending == \A s \in known : receivers[s] = "get" => recvQueues[s] = <<>>

DisconnectStep(d) ==
  /\ \/ DisconnectClears(d) /\ NoReaderPending /\ ClearStreams
     \/ /\ \/ DisconnectStarts(d)
           \/ SessionDeleted(d)
           \/ DeleteCancelled(d)
           \/ DisconnectReturns(d)
        /\ UNCHANGED smVars
  /\ TransportAfter(d)

-----------------------------------------------------------------------------
(* _stop_transport() *)

\* Close the WebSocket unless it is gone; aiohttp marks it closed at once.
StopSocket(d) ==
  \/ /\ wsRef /\ socket # "closed"
     /\ socket' = "closed"
     /\ stop' = [stop EXCEPT ![d] = "closing"]
     /\ UNCHANGED wsRef
  \/ /\ ~(wsRef /\ socket # "closed")
     /\ wsRef' = FALSE
     /\ stop' = [stop EXCEPT ![d] = "done"]
     /\ UNCHANGED socket

StopStarts(d) ==
  \/ StopCancels(d) /\ UNCHANGED socketVars
  \/ StopSkips(d) /\ StopSocket(d)

StopReturns(d) ==
  /\ stop[d] = "closing"
  /\ wsRef' = FALSE
  /\ stop' = [stop EXCEPT ![d] = "done"]
  /\ UNCHANGED <<socket, readerRef, cancelled>>

StopStep(d) ==
  /\ StopStarts(d) \/ (StopJoins(d) /\ StopSocket(d)) \/ StopReturns(d)
  /\ UNCHANGED <<smVars, connectVars, reader, connected, disc, wireVars>>

-----------------------------------------------------------------------------
(* _reader_loop() *)

UnchangedByReader ==
  UNCHANGED <<connectVars, wsRef, readerRef, toGrant, relayVars>>

ReaderStarts ==
  /\ TaskStarts(TRUE)
  /\ UNCHANGED <<smVars, socket, discVars, up, down>>
  /\ UnchangedByReader

Reading == reader = "reading" /\ ~cancelled

\* The frame the reader would take next, if there is one.
Incoming == {down[i] : i \in DOMAIN down \cap {1}}

\* The reader takes the next frame of a batch.  Relays may send every frame as
\* a batch of its own, so the batch boundaries add nothing; a batch that does
\* not parse is dropped whole, as DispatchIgnored does with one frame.
ReaderTakes(f) ==
  /\ Reading
  /\ socket # "closed"
  /\ f \in Incoming
  /\ down' = Tail(down)
  /\ UNCHANGED <<socket, cancelled>>
  /\ UnchangedByReader

\* A zero delta makes parse_window raise.
DispatchRaises(f) == f.type = "WINDOW" /\ f.sid \in known /\ f.n = 0

SessionPing(f) == f.type = "PING" /\ f.sid = 0

ReaderDispatches(f) ==
  /\ ReaderTakes(f)
  /\ f.type # "BYE" /\ ~DispatchRaises(f) /\ ~SessionPing(f)
  /\ DispatchFrame(f)
  /\ UNCHANGED <<up, reader, discVars>>

ReaderPongs(f) ==
  /\ ReaderTakes(f)
  /\ SessionPing(f)
  /\ WsSend(F("PONG", 0, f.n))
  /\ IF WriteRaises THEN TaskEnds ELSE UNCHANGED <<reader, disc>>
  /\ UNCHANGED <<smVars, connected, stop>>

\* BYE: the reader runs disconnect itself.
ReaderByes(f) ==
  /\ ReaderTakes(f)
  /\ f.type = "BYE"
  /\ TaskByes
  /\ UNCHANGED <<smVars, up>>

ReaderCrashes(f) ==
  /\ ReaderTakes(f)
  /\ DispatchRaises(f)
  /\ TaskEnds
  /\ UNCHANGED <<smVars, up, connected, stop>>

\* The socket is lost or closed; aiohttp marks it closed.
ReaderSeesClose ==
  /\ Reading
  /\ socket # "open"
  /\ socket' = "closed"
  /\ TaskEnds
  /\ UNCHANGED <<smVars, up, down, cancelled, connected, stop>>
  /\ UnchangedByReader

ReaderCancelled ==
  /\ TaskCancelled
  /\ UNCHANGED <<smVars, up, down, socket, connected, stop>>
  /\ UnchangedByReader

ReaderFinishes ==
  /\ TaskFinishes
  /\ UNCHANGED <<smVars, up, down, socket, connected, stop>>
  /\ UnchangedByReader

ReaderStep ==
  \/ ReaderStarts
  \/ \E f \in Incoming :
       ReaderDispatches(f) \/ ReaderPongs(f) \/ ReaderByes(f) \/ ReaderCrashes(f)
  \/ ReaderSeesClose
  \/ ReaderCancelled
  \/ ReaderFinishes

-----------------------------------------------------------------------------
(* The network and the relay (external). *)

UnchangedByRelay ==
  UNCHANGED <<smVars, connectVars, wsRef, readerVars, discVars, toGrant>>

SocketLost ==
  /\ socket = "open"
  /\ socket' = "broken"
  /\ UNCHANGED <<up, down, relayVars>>
  /\ UnchangedByRelay

\* What is in flight when the socket goes is lost.
RelayReceives ==
  /\ socket = "open"
  /\ up # <<>>
  /\ up' = Tail(up)
  /\ LET f == Head(up) IN
     /\ relayOpen' = CASE f.type = "OPEN"  -> relayOpen \cup {f.sid}
                       [] f.type = "CLOSE" -> relayOpen \ {f.sid}
                       [] OTHER            -> relayOpen
     /\ relayHeld' = [s \in Sids |-> relayHeld[s]
                        + IF f.type = "DATA" /\ f.sid = s THEN f.n ELSE 0]
     /\ relayCredit' = [s \in Sids |-> relayCredit[s]
                          + IF f.type = "WINDOW" /\ f.sid = s THEN f.n ELSE 0]
  /\ UNCHANGED <<byeSent, down, socket>>
  /\ UnchangedByRelay

\* The relay sends nothing after BYE.
RelayWrites(f) ==
  /\ socket = "open"
  /\ ~byeSent
  /\ down' = Append(down, f)
  /\ UNCHANGED <<up, socket>>
  /\ UnchangedByRelay

RelaySendsData(s, n) ==
  /\ s \in relayOpen
  /\ n <= relayCredit[s]
  /\ relayCredit' = [relayCredit EXCEPT ![s] = @ - n]
  /\ RelayWrites(F("DATA", s, n))
  /\ UNCHANGED <<relayOpen, relayHeld, byeSent>>

\* Credit for bytes passed on; a zero delta is a faulty frame.
RelayGrants(s, n) ==
  /\ s \in relayOpen
  /\ n <= relayHeld[s]
  /\ relayHeld' = [relayHeld EXCEPT ![s] = @ - n]
  /\ RelayWrites(F("WINDOW", s, n))
  /\ UNCHANGED <<relayOpen, relayCredit, byeSent>>

RelayCloses(s) ==
  /\ s \in relayOpen
  /\ relayOpen' = relayOpen \ {s}
  /\ RelayWrites(F("CLOSE", s, 0))
  /\ UNCHANGED <<relayCredit, relayHeld, byeSent>>

RelayPings(n) ==
  /\ RelayWrites(F("PING", 0, n))
  /\ UNCHANGED relayVars

RelayByes ==
  /\ RelayWrites(F("BYE", 0, 0))
  /\ byeSent' = TRUE
  /\ UNCHANGED <<relayOpen, relayCredit, relayHeld>>

RelayStep ==
  \/ RelayReceives
  \/ \E s \in Sids, n \in FrameSizes : RelaySendsData(s, n) \/ RelayGrants(s, n)
  \/ \E s \in Sids : RelayCloses(s)
  \/ \E n \in FrameSizes : RelayPings(n)
  \/ RelayByes

-----------------------------------------------------------------------------
ConnectStep == StartConnect \/ Bootstrapped \/ Upgraded \/ ConnectFails

RecvDataStep(s) == RecvDataWaits(s) \/ RecvDataEof(s) \/ RecvDataChunk(s)

Next ==
  \/ ConnectStep
  \/ OpenStream
  \/ \E s \in Sids : CloseStream(s) \/ RecvDataStep(s) \/ GrantWindow(s)
  \/ \E t \in Callers, s \in Sids, n \in MessageSizes : CallSendData(t, s, n)
  \/ \E t \in Callers : SendDataStep(t) \/ SendDataTimeout(t)
  \/ UserDisconnect
  \/ \E d \in Discs : DisconnectStep(d) \/ StopStep(d)
  \/ ReaderStep
  \/ SocketLost
  \/ RelayStep

Spec == Init /\ [][Next]_vars

\* The event loop runs every task that can run, and a disconnect's waits end
\* (the DELETE has a timeout of its own).  Nothing is assumed of the relay, of
\* the network, of the thirty-second timeout of a sender, or of new calls.
Fairness ==
  /\ WF_vars(ReaderStep)
  /\ \A d \in Discs : WF_vars(DisconnectStep(d)) /\ WF_vars(StopStep(d))
  /\ \A t \in Callers : WF_vars(SendDataStep(t))
  /\ \A s \in Sids : WF_vars(receivers[s] = "get" /\ RecvDataStep(s))

FairSpec == Spec /\ Fairness

-----------------------------------------------------------------------------
(* Properties. *)

\* TornDown, and the WebSocket is closed and the reference to it gone: once the
\* dust of one or more disconnects has settled, in whatever order they, the
\* reader and the loss of the socket met (disconnect, _stop_transport).
WsTornDown == TornDown /\ (Disconnected => socket # "open" /\ ~wsRef)

\* "A WebSocket loss closes the entire relay session" (carrier.py): a stream of
\* a carrier whose socket is lost is dropped, its reader is released and no
\* sender stays asleep on it, with no help from the user or from a timeout.
LossReleasesStreams ==
  \A s \in Sids :
    connected /\ socket = "broken" /\ s \in known
      ~> /\ s \notin known
         /\ receivers[s] = "idle"
         /\ \A t \in Callers : sendPc[t] \in {"arm", "wait"} => sendSid[t] # s

\* INITIAL_WINDOW is "4 MiB per direction per stream" (protocol.py): the credit
\* the relay holds for a stream, with what is on its way to it, never exceeds
\* that (recv_data's WINDOW and grant_window).
RelayCreditBounded == \A s \in Sids : relayCredit[s] <= InitialWindow
=============================================================================
