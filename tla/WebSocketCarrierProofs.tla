----------------------- MODULE WebSocketCarrierProofs -----------------------
(***************************************************************************)
(* Proofs about WebSocketCarrier: it implements StreamManager, so whatever *)
(* is proved of the streams holds of the carrier; its types; what a        *)
(* disconnect leaves of the WebSocket and the HTTP session; and each       *)
(* direction of a stream implements CreditChannel.  The last rests on sums *)
(* over sequences, whose laws are proved first, by induction over a set of *)
(* numbers.                                                                *)
(***************************************************************************)
EXTENDS WebSocketFlow, StreamManagerProofs, BaseCarrierProofs, WellFoundedInduction

\* What the relay may write (RelayStep).
LEMMA RelayFrames ==
  /\ \A s \in Sids, n \in FrameSizes : F("DATA", s, n) \in Frame /\ F("WINDOW", s, n) \in Frame
  /\ \A s \in Sids : F("CLOSE", s, 0) \in Frame
  /\ \A n \in FrameSizes : F("PING", 0, n) \in Frame
  /\ F("BYE", 0, 0) \in Frame
<1>1. Sids \subseteq 0 .. MaxStreamId + 1 /\ 0 \in 0 .. MaxStreamId + 1
  BY StreamManagerAssumption DEF Sids
<1> QED
  BY <1>1 DEF F, Frame, FrameTypes

\* The frames on their way to the reader.
DownTyped == down \in Seq(Frame)

\* A step takes a frame off the channel, adds one, or leaves it.
LEMMA DownStep == DownTyped /\ [Next]_vars => DownTyped'
<1> SUFFICES ASSUME DownTyped, [Next]_vars
             PROVE  DownTyped'
  OBVIOUS
<1> USE DEF DownTyped
<1>1. CASE ReaderStep
  <2>1. down' \in {down, Tail(down)} /\ (down' # down => Incoming # {})
    BY <1>1 DEF ReaderStep, ReaderStarts, ReaderDispatches, ReaderPongs, ReaderByes,
       ReaderCrashes, ReaderSeesClose, ReaderCancelled, ReaderFinishes, ReaderTakes
  <2>2. Incoming # {} => down # <<>>
    BY DEF Incoming
  <2> QED
    BY <2>1, <2>2
<1>2. CASE RelayStep
  <2>1. down' = down \/ \E f \in Frame : down' = Append(down, f)
    BY <1>2, RelayFrames DEF RelayStep, RelayReceives, RelaySendsData, RelayGrants,
       RelayCloses, RelayPings, RelayByes, RelayWrites
  <2> QED
    BY <2>1
<1>3. CASE ~(ReaderStep \/ RelayStep)
  <2>1. CASE ConnectStep
    BY <2>1 DEF ConnectStep, StartConnect, Bootstrapped, Upgraded, ConnectFails, wireVars
  <2>2. CASE OpenStream
    BY <2>2 DEF OpenStream, UnchangedByStreamOp
  <2>3. ASSUME NEW s \in Sids, CloseStream(s) \/ RecvDataStep(s) \/ GrantWindow(s)
        PROVE  DownTyped'
    BY <2>3 DEF CloseStream, RecvDataStep, RecvDataWaits, RecvDataEof, RecvDataChunk,
       GrantWindow, UnchangedByStreamOp
  <2>4. ASSUME NEW t \in Callers, NEW s \in Sids, NEW n \in MessageSizes,
               CallSendData(t, s, n)
        PROVE  DownTyped'
    BY <2>4 DEF CallSendData, UnchangedByStreamOp
  <2>5. ASSUME NEW t \in Callers, SendDataStep(t) \/ SendDataTimeout(t)
        PROVE  DownTyped'
    BY <2>5 DEF SendDataStep, SendDataTimeout, UnchangedByStreamOp
  <2>6. CASE UserDisconnect \/ SocketLost \/ UNCHANGED vars
    BY <2>6 DEF UserDisconnect, SocketLost, vars, wireVars
  <2>7. ASSUME NEW d \in Discs, DisconnectStep(d)
        PROVE  DownTyped'
    BY <2>7 DEF DisconnectStep, TransportAfter, wireVars
  <2>8. ASSUME NEW d \in Discs, StopStep(d)
        PROVE  DownTyped'
    BY <2>8 DEF StopStep, wireVars
  <2> QED
    BY <1>3, <2>1, <2>2, <2>3, <2>4, <2>5, <2>6, <2>7, <2>8 DEF Next
<1> QED
  BY <1>1, <1>2, <1>3

\* Every step of the carrier is a step of StreamManager, or changes none of its
\* variables.
LEMMA CarrierStep == DownTyped /\ [Next]_vars => [SMNext]_smVars
<1> SUFFICES ASSUME DownTyped, [Next]_vars
             PROVE  [SMNext]_smVars
  OBVIOUS
<1>1. CASE ConnectStep
  BY <1>1 DEF ConnectStep, StartConnect, Bootstrapped, Upgraded, ConnectFails
<1>2. CASE OpenStream
  BY <1>2 DEF OpenStream, SMNext
<1>3. ASSUME NEW s \in Sids, CloseStream(s) \/ RecvDataStep(s) \/ GrantWindow(s)
      PROVE  [SMNext]_smVars
  BY <1>3 DEF CloseStream, RecvDataStep, RecvDataWaits, RecvDataEof, RecvDataChunk,
     GrantWindow, SMNext
<1>4. ASSUME NEW t \in Callers, NEW s \in Sids, NEW n \in MessageSizes,
             CallSendData(t, s, n)
      PROVE  [SMNext]_smVars
  BY <1>4 DEF CallSendData, SMNext
<1>5. ASSUME NEW t \in Callers, SendDataStep(t) \/ SendDataTimeout(t)
      PROVE  [SMNext]_smVars
  <2>1. (~WriteRaises) \in BOOLEAN
    OBVIOUS
  <2>2. SenderStep(t)
    BY <1>5, <2>1 DEF SendDataStep, SendDataTimeout, SenderStep
  <2> QED
    BY <2>2 DEF SMNext
<1>6. CASE UserDisconnect
  BY <1>6 DEF UserDisconnect
<1>7. ASSUME NEW d \in Discs, DisconnectStep(d) \/ StopStep(d)
      PROVE  [SMNext]_smVars
  BY <1>7 DEF DisconnectStep, StopStep, SMNext
<1>8. CASE ReaderStep
  <2>1. ASSUME NEW f \in Incoming, ReaderDispatches(f)
        PROVE  SMNext
    <3>1. f \in Frame
      BY DEF DownTyped, Incoming
    <3> QED
      BY <2>1, <3>1 DEF ReaderDispatches, SMNext
  <2> QED
    BY <1>8, <2>1 DEF ReaderStep, ReaderStarts, ReaderPongs, ReaderByes, ReaderCrashes,
       ReaderSeesClose, ReaderCancelled, ReaderFinishes
<1>9. CASE SocketLost \/ RelayStep
  BY <1>9 DEF SocketLost, RelayStep, RelayReceives, RelaySendsData, RelayGrants,
     RelayCloses, RelayPings, RelayByes, RelayWrites, UnchangedByRelay
<1>10. CASE UNCHANGED vars
  BY <1>10 DEF vars
<1> QED
  BY <1>1, <1>2, <1>3, <1>4, <1>5, <1>6, <1>7, <1>8, <1>9, <1>10 DEF Next

\* The carrier implements StreamManager.
THEOREM CarrierImplementsStreamManager == Spec => SMSpec
<1>1. Init => SMInit /\ DownTyped
  BY DEF Init, DownTyped
<1> QED
  BY <1>1, DownStep, CarrierStep, PTL DEF Spec, SMSpec

\* Hence the streams of a carrier keep the inductive invariant of StreamManager,
\* whatever connect, disconnect, the reader, the network and the relay do.
THEOREM CarrierStreamInvariant == Spec => []SMInv
BY CarrierImplementsStreamManager, StreamInvariant, PTL

\* A carrier's callers never overrun the relay's window.
THEOREM CarrierSendsWithinCredit == Spec => []SentWithinCredit
BY CarrierImplementsStreamManager, SendsWithinCredit, PTL

\* A carrier's disconnect leaves no task waiting on a stream it dropped.
THEOREM CarrierStrandsNobody == Spec => []NoStrandedWaiter
BY CarrierImplementsStreamManager, NobodyStranded, PTL

-----------------------------------------------------------------------------
\* Writing to the socket keeps the channel typed.
LEMMA WsSendTyped ==
  ASSUME up \in Seq(UpFrame), NEW f \in UpFrame, WsSend(f)
  PROVE  up' \in Seq(UpFrame)
BY DEF WsSend

\* The frames the client writes.
LEMMA ClientFrames ==
  /\ \A ty \in FrameTypes, s \in Sids, n \in Nat : F(ty, s, n) \in UpFrame
  /\ \A n \in Nat : F("PONG", 0, n) \in UpFrame
<1>1. Sids \subseteq 0 .. MaxStreamId + 1 /\ 0 \in 0 .. MaxStreamId + 1
  BY StreamManagerAssumption DEF Sids
<1> QED
  BY <1>1 DEF F, UpFrame, FrameTypes

\* What the consumer of a stream has taken is a number of bytes.
LEMMA ChunkSizes ==
  ASSUME SMInv
  PROVE  /\ \A s \in Sids : RecvChunk(s) => GrantDue(s) \in Nat /\ Head(recvQueues[s]) \in Nat
         /\ \A t \in Callers : Testing(t) => ChunkOf(t) \in Nat
<1>1. ASSUME NEW s \in Sids, RecvChunk(s)
      PROVE  GrantDue(s) \in Nat /\ Head(recvQueues[s]) \in Nat
  <2>1. Head(recvQueues[s]) \in Nat /\ s \in known
    BY <1>1, Queue DEF RecvChunk, HasItem, SMInv, TypeOK
  <2>2. Owed(s) \in Nat
    <3> DEFINE n == Head(recvQueues[s])
    <3>1. Owed(s) = InitialWindow - (recvWindows[s] - n)
      BY DEF Owed
    <3> HIDE DEF n
    <3>2. InitialWindow - recvWindows[s] >= 0 /\ recvWindows[s] \in Int
      BY <2>1, Numbers DEF SMInv, WindowsInv
    <3>3. n \in Nat
      BY <2>1 DEF n
    <3> QED
      BY <3>1, <3>2, <3>3, Quarter
  <2> QED
    BY <2>1, <2>2 DEF GrantDue
<1>2. \A t \in Callers : ChunkOf(t) \in Nat
  BY CallerNumbers, StreamManagerAssumption DEF ChunkOf, SMInv
<1> QED
  BY <1>1, <1>2

\* Every step of the carrier keeps the type of its life cycle.
LEMMA BaseStep == BaseTypeOK /\ [Next]_vars => BaseTypeOK'
<1> SUFFICES ASSUME BaseTypeOK, [Next]_vars
             PROVE  BaseTypeOK'
  OBVIOUS
<1>1. CASE ConnectStep
  BY <1>1, ConnectTyped DEF ConnectStep, StartConnect, Bootstrapped, Upgraded,
     ConnectFails, BaseTypeOK, LifeCycleTypeOK
<1>2. CASE UserDisconnect
  BY <1>2, ConnectTyped DEF UserDisconnect
<1>3. CASE \/ OpenStream
           \/ \E s \in Sids : CloseStream(s) \/ RecvDataStep(s) \/ GrantWindow(s)
           \/ \E t \in Callers, s \in Sids, n \in MessageSizes : CallSendData(t, s, n)
           \/ \E t \in Callers : SendDataStep(t) \/ SendDataTimeout(t)
  BY <1>3, BaseUnchangedTyped DEF OpenStream, CloseStream, RecvDataStep, RecvDataWaits,
     RecvDataEof, RecvDataChunk, GrantWindow, CallSendData, SendDataStep,
     SendDataTimeout, UnchangedByStreamOp
<1>4. ASSUME NEW d \in Discs, DisconnectStep(d)
      PROVE  BaseTypeOK'
  <2>1. reader' \in ReaderPcs
    BY <1>4, Pcs DEF DisconnectStep, TransportAfter, BaseTypeOK, LifeCycleTypeOK
  <2> QED
    BY <1>4, <2>1, DisconnectTyped DEF DisconnectStep
<1>5. ASSUME NEW d \in Discs, StopStep(d)
      PROVE  BaseTypeOK'
  <2>1. UNCHANGED <<connectVars, reader, connected, disc>>
    BY <1>5 DEF StopStep
  <2>2. StopSocket(d) => \E pc \in StopPcs : stop' = [stop EXCEPT ![d] = pc]
    BY Pcs DEF StopSocket
  <2>3. StopReturns(d) => /\ UNCHANGED <<readerRef, cancelled>>
                         /\ \E pc \in StopPcs : stop' = [stop EXCEPT ![d] = pc]
    BY Pcs DEF StopReturns
  <2> QED
    BY <1>5, <2>1, <2>2, <2>3, StopTyped DEF StopStep, StopStarts
<1>6. CASE ReaderStep
  <2>1. UNCHANGED <<connectVars, readerRef>>
    BY <1>6 DEF ReaderStep, ReaderStarts, ReaderDispatches, ReaderPongs, ReaderByes,
       ReaderCrashes, ReaderSeesClose, ReaderCancelled, ReaderFinishes, ReaderTakes,
       UnchangedByReader
  <2>2. cancelled' \in BOOLEAN
    BY <1>6 DEF ReaderStep, ReaderStarts, ReaderDispatches, ReaderPongs, ReaderByes,
       ReaderCrashes, ReaderSeesClose, ReaderCancelled, ReaderFinishes, ReaderTakes,
       TaskStarts, TaskCancelled, TaskFinishes, BaseTypeOK, LifeCycleTypeOK
  <2>3. \/ reader' \in ReaderPcs /\ UNCHANGED discVars
        \/ TaskEnds /\ UNCHANGED <<connected, stop>>
        \/ TaskByes
    <3>1. CASE ReaderStarts \/ ReaderFinishes
      BY <3>1, Pcs DEF ReaderStarts, ReaderFinishes, TaskStarts, TaskFinishes, discVars
    <3>2. ASSUME NEW f \in Incoming, ReaderDispatches(f)
          PROVE  reader' \in ReaderPcs /\ UNCHANGED discVars
      BY <3>2 DEF ReaderDispatches, BaseTypeOK, LifeCycleTypeOK
    <3>3. ASSUME NEW f \in Incoming, ReaderPongs(f)
          PROVE  \/ reader' \in ReaderPcs /\ UNCHANGED discVars
                 \/ TaskEnds /\ UNCHANGED <<connected, stop>>
      BY <3>3 DEF ReaderPongs, BaseTypeOK, LifeCycleTypeOK, discVars
    <3>4. ASSUME NEW f \in Incoming, ReaderByes(f) \/ ReaderCrashes(f)
          PROVE  TaskByes \/ (TaskEnds /\ UNCHANGED <<connected, stop>>)
      BY <3>4 DEF ReaderByes, ReaderCrashes
    <3>5. CASE ReaderSeesClose \/ ReaderCancelled
      BY <3>5 DEF ReaderSeesClose, ReaderCancelled, TaskCancelled
    <3> QED
      BY <1>6, <3>1, <3>2, <3>3, <3>4, <3>5 DEF ReaderStep
  <2> QED
    BY <2>1, <2>2, <2>3, TaskStepTyped
<1>7. CASE SocketLost \/ RelayStep
  <2>1. UNCHANGED <<connectVars, readerVars, discVars>>
    BY <1>7 DEF SocketLost, RelayStep, RelayReceives, RelaySendsData, RelayGrants,
       RelayCloses, RelayPings, RelayByes, RelayWrites, UnchangedByRelay
  <2> QED
    BY <2>1, BaseUnchangedTyped DEF baseVars
<1>8. CASE UNCHANGED vars
  BY <1>8, BaseUnchangedTyped DEF vars
<1> QED
  BY <1>1, <1>2, <1>3, <1>4, <1>5, <1>6, <1>7, <1>8 DEF Next

\* So does the WebSocket, and the reference to it.
LEMMA SocketStep == SocketTypeOK /\ [Next]_vars => SocketTypeOK'
<1> SUFFICES ASSUME SocketTypeOK, [Next]_vars
             PROVE  SocketTypeOK'
  OBVIOUS
<1> USE DEF SocketTypeOK, socketVars
<1>1. CASE ConnectStep \/ UserDisconnect
  BY <1>1 DEF ConnectStep, StartConnect, Bootstrapped, Upgraded, ConnectFails,
     UserDisconnect
<1>2. CASE \/ OpenStream
           \/ \E s \in Sids : CloseStream(s) \/ RecvDataStep(s) \/ GrantWindow(s)
           \/ \E t \in Callers, s \in Sids, n \in MessageSizes : CallSendData(t, s, n)
           \/ \E t \in Callers : SendDataStep(t) \/ SendDataTimeout(t)
  BY <1>2 DEF OpenStream, CloseStream, RecvDataStep, RecvDataWaits, RecvDataEof,
     RecvDataChunk, GrantWindow, CallSendData, SendDataStep, SendDataTimeout,
     UnchangedByStreamOp
<1>3. ASSUME NEW d \in Discs, DisconnectStep(d)
      PROVE  SocketTypeOK'
  BY <1>3 DEF DisconnectStep, TransportAfter
<1>4. ASSUME NEW d \in Discs, StopStep(d)
      PROVE  SocketTypeOK'
  <2>1. StopSocket(d) \/ StopReturns(d) \/ UNCHANGED socketVars
    BY <1>4 DEF StopStep, StopStarts
  <2> QED
    BY <2>1 DEF StopSocket, StopReturns
<1>5. CASE ReaderStep
  BY <1>5 DEF ReaderStep, ReaderStarts, ReaderDispatches, ReaderPongs, ReaderByes,
     ReaderCrashes, ReaderSeesClose, ReaderCancelled, ReaderFinishes, ReaderTakes,
     UnchangedByReader
<1>6. CASE SocketLost \/ RelayStep
  BY <1>6 DEF SocketLost, RelayStep, RelayReceives, RelaySendsData, RelayGrants,
     RelayCloses, RelayPings, RelayByes, RelayWrites, UnchangedByRelay
<1>7. CASE UNCHANGED vars
  BY <1>7 DEF vars
<1> QED
  BY <1>1, <1>2, <1>3, <1>4, <1>5, <1>6, <1>7 DEF Next

\* What is on the wire, and what the relay has counted, keeps its type.
LEMMA WireStep == SMInv /\ WireTypeOK /\ [Next]_vars => WireTypeOK'
<1> SUFFICES ASSUME SMInv, WireTypeOK, [Next]_vars
             PROVE  WireTypeOK'
  OBVIOUS
<1>1. down' \in Seq(Frame)
  BY DownStep DEF DownTyped, WireTypeOK
<1> DEFINE UpOK == up' \in Seq(UpFrame)
           GrantOK == toGrant' \in [Sids -> Nat]
           RelayOK == /\ relayOpen' \in SUBSET (0 .. MaxStreamId + 1)
                      /\ relayCredit' \in [Sids -> Nat]
                      /\ relayHeld' \in [Sids -> Nat]
                      /\ byeSent' \in BOOLEAN
<1> SUFFICES UpOK /\ GrantOK /\ RelayOK
  BY <1>1 DEF WireTypeOK
<1> USE DEF WireTypeOK
<1>2. ASSUME UNCHANGED <<up, toGrant, relayVars>>
      PROVE  UpOK /\ GrantOK /\ RelayOK
  BY <1>2 DEF relayVars
<1>3. CASE ConnectStep
  BY <1>2, <1>3 DEF ConnectStep, StartConnect, Bootstrapped, Upgraded, ConnectFails,
     wireVars
<1>4. CASE UserDisconnect \/ UNCHANGED vars
  BY <1>2, <1>4 DEF UserDisconnect, vars, wireVars
<1>5. ASSUME NEW d \in Discs, DisconnectStep(d) \/ StopStep(d)
      PROVE  UpOK /\ GrantOK /\ RelayOK
  BY <1>2, <1>5 DEF DisconnectStep, TransportAfter, StopStep, wireVars
<1>6. CASE OpenStream
  <2>1. UNCHANGED <<toGrant, relayVars>>
    BY <1>6 DEF OpenStream, UnchangedByStreamOp
  <2>2. nextStreamId \in Sids
    BY <1>6 DEF OpenStream, AllocStream
  <2>3. UpOK
    BY <1>6, <2>2, WsSendTyped, ClientFrames DEF OpenStream, FrameTypes
  <2> QED
    BY <2>1, <2>3 DEF relayVars
<1>7. ASSUME NEW s \in Sids, CloseStream(s)
      PROVE  UpOK /\ GrantOK /\ RelayOK
  <2>1. UNCHANGED <<toGrant, relayVars>>
    BY <1>7 DEF CloseStream, UnchangedByStreamOp
  <2>2. UpOK
    BY <1>7, WsSendTyped, ClientFrames DEF CloseStream, FrameTypes
  <2> QED
    BY <2>1, <2>2 DEF relayVars
<1>8. ASSUME NEW s \in Sids, RecvDataStep(s)
      PROVE  UpOK /\ GrantOK /\ RelayOK
  <2>1. CASE RecvDataWaits(s) \/ RecvDataEof(s)
    BY <1>2, <2>1 DEF RecvDataWaits, RecvDataEof, UnchangedByStreamOp
  <2>2. CASE RecvDataChunk(s)
    <3>1. GrantDue(s) \in Nat /\ Head(recvQueues[s]) \in Nat
      BY <2>2, ChunkSizes DEF RecvDataChunk
    <3>2. UpOK
      BY <2>2, <3>1, WsSendTyped, ClientFrames DEF RecvDataChunk, FrameTypes
    <3>3. GrantOK
      BY <2>2, <3>1 DEF RecvDataChunk
    <3> QED
      BY <2>2, <3>2, <3>3 DEF RecvDataChunk, UnchangedByStreamOp, relayVars
  <2> QED
    BY <1>8, <2>1, <2>2 DEF RecvDataStep
<1>9. ASSUME NEW s \in Sids, GrantWindow(s)
      PROVE  UpOK /\ GrantOK /\ RelayOK
  <2>1. UpOK
    BY <1>9, WsSendTyped, ClientFrames DEF GrantWindow, FrameTypes
  <2> QED
    BY <1>9, <2>1 DEF GrantWindow, UnchangedByStreamOp, relayVars
<1>10. ASSUME NEW t \in Callers, NEW s \in Sids, NEW n \in MessageSizes,
              CallSendData(t, s, n)
       PROVE  UpOK /\ GrantOK /\ RelayOK
  BY <1>2, <1>10 DEF CallSendData, UnchangedByStreamOp
<1>11. ASSUME NEW t \in Callers, SendDataStep(t) \/ SendDataTimeout(t)
       PROVE  UpOK /\ GrantOK /\ RelayOK
  <2>1. CASE UNCHANGED up
    BY <1>2, <1>11, <2>1 DEF SendDataStep, SendDataTimeout, UnchangedByStreamOp
  <2>2. CASE SendChunk(t, ~WriteRaises) /\ WsSend(F("DATA", sendSid[t], ChunkOf(t)))
    <3>1. sendSid[t] \in Sids /\ ChunkOf(t) \in Nat
      BY <2>2, ChunkSizes, CallerNumbers DEF SendChunk, SMInv
    <3> QED
      BY <1>11, <2>2, <3>1, WsSendTyped, ClientFrames
      DEF SendDataStep, SendDataTimeout, UnchangedByStreamOp, relayVars, FrameTypes
  <2> QED
    BY <1>11, <2>1, <2>2 DEF SendDataStep, SendDataTimeout
<1>12. CASE ReaderStep
  <2>1. UNCHANGED <<toGrant, relayVars>>
    BY <1>12 DEF ReaderStep, ReaderStarts, ReaderDispatches, ReaderPongs, ReaderByes,
       ReaderCrashes, ReaderSeesClose, ReaderCancelled, ReaderFinishes, ReaderTakes,
       UnchangedByReader
  <2>2. UNCHANGED up \/ \E f \in Incoming : ReaderPongs(f)
    BY <1>12 DEF ReaderStep, ReaderStarts, ReaderDispatches, ReaderByes,
       ReaderCrashes, ReaderSeesClose, ReaderCancelled, ReaderFinishes
  <2>3. ASSUME NEW f \in Incoming, ReaderPongs(f)
        PROVE  UpOK
    <3>1. f \in Frame
      BY DEF Incoming
    <3> QED
      BY <2>3, <3>1, FrameNat, WsSendTyped, ClientFrames DEF ReaderPongs
  <2> QED
    BY <2>1, <2>2, <2>3 DEF relayVars
<1>13. CASE SocketLost
  BY <1>2, <1>13 DEF SocketLost, UnchangedByRelay
<1>14. CASE RelayReceives
  <2>1. UpOK
    BY <1>14 DEF RelayReceives
  <2> DEFINE f == Head(up)
  <2>2. f \in UpFrame
    BY <1>14 DEF RelayReceives
  <2>3. f.n \in Nat /\ f.sid \in 0 .. MaxStreamId + 1
    BY <2>2 DEF UpFrame
  <2>4. relayOpen' \in SUBSET (0 .. MaxStreamId + 1)
    BY <1>14, <2>3 DEF RelayReceives
  <2>5. relayHeld' \in [Sids -> Nat] /\ relayCredit' \in [Sids -> Nat]
    <3>1. \A s \in Sids, ty \in FrameTypes :
            (IF f.type = ty /\ f.sid = s THEN f.n ELSE 0) \in Nat
      BY <2>3
    <3>2. \A h \in [Sids -> Nat], s \in Sids, ty \in FrameTypes :
            h[s] + (IF f.type = ty /\ f.sid = s THEN f.n ELSE 0) \in Nat
      BY <3>1
    <3> QED
      BY <1>14, <3>2 DEF RelayReceives, FrameTypes
  <2> QED
    BY <1>14, <2>1, <2>4, <2>5 DEF RelayReceives, UnchangedByRelay
<1>15. ASSUME NEW s \in Sids, NEW n \in FrameSizes, RelaySendsData(s, n) \/ RelayGrants(s, n)
       PROVE  UpOK /\ GrantOK /\ RelayOK
  <2>1. n \in Nat
    BY StreamManagerAssumption
  <2>2. \A h \in [Sids -> Nat] : n <= h[s] => [h EXCEPT ![s] = @ - n] \in [Sids -> Nat]
    <3>1. ASSUME NEW h \in [Sids -> Nat], n <= h[s]
          PROVE  [h EXCEPT ![s] = @ - n] \in [Sids -> Nat]
      <4> DEFINE rest == h[s] - n
      <4>1. rest \in Nat
        BY <2>1, <3>1
      <4> HIDE DEF rest
      <4>2. [h EXCEPT ![s] = rest] \in [Sids -> Nat]
        BY <4>1
      <4> QED
        BY <4>2 DEF rest
    <3> QED
      BY <3>1
  <2>3. CASE RelaySendsData(s, n)
    <3>1. relayCredit' \in [Sids -> Nat]
      BY <2>2, <2>3 DEF RelaySendsData
    <3> QED
      BY <2>3, <3>1 DEF RelaySendsData, RelayWrites, UnchangedByRelay
  <2>4. CASE RelayGrants(s, n)
    <3>1. relayHeld' \in [Sids -> Nat]
      BY <2>2, <2>4 DEF RelayGrants
    <3> QED
      BY <2>4, <3>1 DEF RelayGrants, RelayWrites, UnchangedByRelay
  <2> QED
    BY <1>15, <2>3, <2>4
<1>16. CASE \/ \E s \in Sids : RelayCloses(s)
            \/ \E n \in FrameSizes : RelayPings(n)
            \/ RelayByes
  BY <1>16 DEF RelayCloses, RelayPings, RelayByes, RelayWrites, UnchangedByRelay, relayVars
<1> QED
  BY <1>3, <1>4, <1>5, <1>6, <1>7, <1>8, <1>9, <1>10, <1>11, <1>12, <1>13, <1>14,
     <1>15, <1>16 DEF Next, RelayStep

\* Everything the carrier, the wire and the relay keep has its type.
THEOREM CarrierTypeCorrect == Spec => []CarrierTypeOK
<1>1. Init => BaseTypeOK /\ SocketTypeOK /\ WireTypeOK
  <2> SUFFICES ASSUME Init
               PROVE  BaseTypeOK /\ SocketTypeOK /\ WireTypeOK
    OBVIOUS
  <2> USE DEF Init
  <2>1. BaseTypeOK
    BY BaseInitTyped
  <2>2. SocketTypeOK
    BY DEF SocketTypeOK
  <2>3. WireTypeOK
    <3>1. <<>> \in Seq(UpFrame) /\ <<>> \in Seq(Frame)
      OBVIOUS
    <3> QED
      BY <3>1, Quarter DEF WireTypeOK
  <2> QED
    BY <2>1, <2>2, <2>3
<1>2. SMInv /\ BaseTypeOK /\ SocketTypeOK /\ WireTypeOK /\ [Next]_vars
        => BaseTypeOK' /\ SocketTypeOK' /\ WireTypeOK'
  BY BaseStep, SocketStep, WireStep
<1>3. SMInv => TypeOK
  BY DEF SMInv
<1>4. CarrierTypeOK <=> TypeOK /\ BaseTypeOK /\ SocketTypeOK /\ WireTypeOK
  BY DEF CarrierTypeOK
<1> QED
  BY <1>1, <1>2, <1>3, <1>4, CarrierStreamInvariant, PTL DEF Spec

-----------------------------------------------------------------------------
(* Tearing down. *)

\* The socket is referenced as long as it is up; there is none before connect
\* returns; a _stop_transport that is past the close has closed it, and just the
\* disconnects that have begun have one (_start_transport, _stop_transport).
SocketInv ==
  /\ ~wsRef => socket \in {"none", "closed"}
  /\ connectPc \in {"new", "bootstrap", "upgrade"} => ~wsRef /\ socket = "none"
  /\ \A d \in Discs : /\ stop[d] = "closing" => socket = "closed"
                      /\ stop[d] = "done" => ~wsRef
                      /\ Begun(d) <=> stop[d] # "idle"

\* What the reader may do to its carrier (_reader_loop).
LEMMA ReaderEnds ==
  ASSUME ReaderStep
  PROVE  /\ UNCHANGED <<connectVars, wsRef>> /\ reader # "none"
         /\ socket' \in {socket, "closed"}
         /\ \/ UNCHANGED discVars /\ reader' # "bye"
            \/ TaskEnds /\ UNCHANGED <<connected, stop>>
            \/ TaskByes
<1>1. CASE ReaderStarts \/ ReaderFinishes
  BY <1>1 DEF ReaderStarts, ReaderFinishes, TaskStarts, TaskFinishes, UnchangedByReader,
     discVars
<1>2. ASSUME NEW f \in Incoming, ReaderDispatches(f) \/ ReaderPongs(f)
      PROVE  /\ UNCHANGED <<connectVars, wsRef, socket>> /\ reader # "none"
             /\ \/ UNCHANGED discVars /\ reader' # "bye"
                \/ TaskEnds /\ UNCHANGED <<connected, stop>>
  BY <1>2 DEF ReaderDispatches, ReaderPongs, ReaderTakes, Reading, UnchangedByReader,
     discVars
<1>3. ASSUME NEW f \in Incoming, ReaderByes(f) \/ ReaderCrashes(f)
      PROVE  /\ UNCHANGED <<connectVars, wsRef, socket>> /\ reader # "none"
             /\ TaskByes \/ (TaskEnds /\ UNCHANGED <<connected, stop>>)
  BY <1>3 DEF ReaderByes, ReaderCrashes, ReaderTakes, Reading, UnchangedByReader
<1>4. CASE ReaderSeesClose \/ ReaderCancelled
  BY <1>4 DEF ReaderSeesClose, ReaderCancelled, TaskCancelled, Reading, UnchangedByReader
<1> QED
  BY <1>1, <1>2, <1>3, <1>4 DEF ReaderStep

\* A stream operation, the loss of the socket and the relay leave the life cycle
\* alone.
LEMMA LifeCycleKept ==
  ASSUME \/ OpenStream
         \/ \E s \in Sids : CloseStream(s) \/ RecvDataStep(s) \/ GrantWindow(s)
         \/ \E t \in Callers, s \in Sids, n \in MessageSizes : CallSendData(t, s, n)
         \/ \E t \in Callers : SendDataStep(t) \/ SendDataTimeout(t)
         \/ SocketLost
         \/ RelayStep
         \/ UNCHANGED vars
  PROVE  /\ UNCHANGED <<connectVars, reader, cancelled, discVars, wsRef>>
         /\ socket' = socket \/ (socket = "open" /\ socket' = "broken")
<1>1. CASE SocketLost \/ RelayStep
  BY <1>1 DEF SocketLost, RelayStep, RelayReceives, RelaySendsData, RelayGrants,
     RelayCloses, RelayPings, RelayByes, RelayWrites, UnchangedByRelay, readerVars
<1>2. CASE ~(SocketLost \/ RelayStep)
  BY <1>2 DEF OpenStream, CloseStream, RecvDataStep, RecvDataWaits, RecvDataEof,
     RecvDataChunk, GrantWindow, CallSendData, SendDataStep, SendDataTimeout,
     UnchangedByStreamOp, vars, baseVars, readerVars, socketVars
<1> QED
  BY <1>1, <1>2

\* Every step that does not disturb a disconnect keeps what is known of the
\* session (connect, disconnect).
LEMMA SessionStep ==
  ASSUME BaseTypeOK, SessionInv, [Next]_vars, [Undisturbed]_vars
  PROVE  SessionInv'
<1>1. Undisturbed \/ UNCHANGED vars
  OBVIOUS
<1>2. CASE ~(\/ ConnectStep \/ UserDisconnect \/ ReaderStep
             \/ \E d \in Discs : DisconnectStep(d) \/ StopStep(d))
  BY <1>2, LifeCycleKept, SessionKept DEF Next, discVars
<1>3. CASE UNCHANGED vars
  BY <1>3, SessionKept DEF vars, baseVars, connectVars, readerVars, discVars
<1>4. CASE ConnectStep \/ UserDisconnect
  BY <1>1, <1>3, <1>4, SessionConnect DEF ConnectStep, StartConnect, Bootstrapped, Upgraded,
     ConnectFails, UserDisconnect
<1>5. ASSUME NEW d \in Discs, DisconnectStep(d)
      PROVE  SessionInv'
  <2>1. reader = "none" => reader' = "none"
    BY <1>5 DEF DisconnectStep, TransportAfter, Inline
  <2> QED
    BY <1>1, <1>3, <1>5, <2>1, SessionDisconnect DEF DisconnectStep
<1>6. ASSUME NEW d \in Discs, StopStep(d)
      PROVE  SessionInv'
  BY <1>6, SessionKept DEF StopStep
<1>7. CASE ReaderStep
  BY <1>7, ReaderEnds, SessionTask
<1> QED
  BY <1>2, <1>4, <1>5, <1>6, <1>7

\* So does what is known of the socket (_start_transport, _stop_transport).
LEMMA SocketInvStep ==
  ASSUME BaseTypeOK, SessionInv, SocketInv, [Next]_vars, [Undisturbed]_vars
  PROVE  SocketInv'
<1>t. disc \in [Discs -> DiscPcs] /\ stop \in [Discs -> StopPcs]
  BY DEF BaseTypeOK, DisconnectTypeOK
<1>1. Undisturbed \/ UNCHANGED vars
  OBVIOUS
<1>2. ASSUME UNCHANGED <<connectPc, wsRef, disc, stop>>,
             socket' = socket \/ (socket = "open" /\ socket' = "broken")
      PROVE  SocketInv'
  BY <1>2 DEF SocketInv, Begun
<1>3. CASE ~(\/ ConnectStep \/ UserDisconnect \/ ReaderStep
             \/ \E d \in Discs : DisconnectStep(d) \/ StopStep(d))
  BY <1>2, <1>3, LifeCycleKept DEF Next, discVars, connectVars
<1>4. CASE UNCHANGED vars
  BY <1>2, <1>4 DEF vars, baseVars, socketVars, connectVars, discVars
<1>5. CASE StartConnect \/ Bootstrapped \/ ConnectFails
  <2>1. UNCHANGED <<wsRef, socket, disc, stop>>
    BY <1>5 DEF StartConnect, Bootstrapped, ConnectFails, ConnectStarts, ConnectUpgrades,
       ConnectRaises, discVars, socketVars
  <2>2. connectPc' \in {"new", "bootstrap", "upgrade"} =>
          connectPc \in {"new", "bootstrap", "upgrade"}
    BY <1>5 DEF StartConnect, Bootstrapped, ConnectFails, ConnectStarts, ConnectUpgrades,
       ConnectRaises
  <2> QED
    BY <2>1, <2>2 DEF SocketInv, Begun
<1>6. CASE Upgraded /\ Undisturbed
  <2>1. \A d \in Discs : stop[d] = "idle"
    BY <1>6 DEF Upgraded, ConnectReturns, SessionInv, SocketInv, Undisturbed,
       ConnectsFirst, Begun, Discs
  <2> QED
    BY <1>6, <2>1 DEF Upgraded, ConnectReturns, SocketInv, Begun
<1>7. CASE UserDisconnect
  <2>1. /\ disc["user"] = "idle" /\ disc'["user"] = "called"
        /\ \A e \in Discs : e # "user" => disc'[e] = disc[e]
    BY <1>7, Moved, Pcs DEF UserDisconnect, CallDisconnect
  <2> QED
    BY <1>7, <2>1 DEF UserDisconnect, CallDisconnect, SocketInv, Begun, socketVars, connectVars
<1>8. ASSUME NEW d \in Discs, DisconnectStep(d)
      PROVE  SocketInv'
  <2>1. UNCHANGED <<connectPc, wsRef>> /\ (socket' = socket \/ (socket = "open" /\ socket' = "broken"))
    BY <1>8 DEF DisconnectStep, TransportAfter, DisconnectStarts, DisconnectClears,
       SessionDeleted, DeleteCancelled, DisconnectReturns, connectVars
  <2>2. CASE DisconnectStarts(d)
    <3>1. /\ disc'[d] = "stopping" /\ \A e \in Discs : e # d => disc'[e] = disc[e]
          /\ stop'[d] = "start" /\ \A e \in Discs : e # d => stop'[e] = stop[e]
      BY <1>t, <2>2 DEF DisconnectStarts, BeginDisconnect
    <3> QED
      BY <2>1, <3>1 DEF SocketInv, Begun
  <2>3. CASE ~DisconnectStarts(d)
    <3>1. PICK x \in {"deleting", "closing", "done"} : disc' = [disc EXCEPT ![d] = x]
      BY <1>8, <2>3 DEF DisconnectStep, DisconnectClears, SessionDeleted, DeleteCancelled,
         DisconnectReturns, CloseHttp, Finish
    <3>2. Begun(d) /\ UNCHANGED stop
      BY <1>8, <2>3 DEF DisconnectStep, DisconnectClears, SessionDeleted, DeleteCancelled,
         DisconnectReturns, Begun
    <3>3. disc'[d] = x /\ \A e \in Discs : e # d => disc'[e] = disc[e]
      BY <3>1, Moved
    <3> QED
      BY <2>1, <3>2, <3>3 DEF SocketInv, Begun
  <2> QED
    BY <2>2, <2>3
<1>9. ASSUME NEW d \in Discs, StopStep(d)
      PROVE  SocketInv'
  <2>1. UNCHANGED <<connectPc, disc>> /\ stop[d] # "idle"
    BY <1>9 DEF StopStep, StopStarts, StopCancels, StopSkips, StopJoins, StopReturns,
       connectVars
  <2>2. \A x : stop' = [stop EXCEPT ![d] = x] =>
          stop'[d] = x /\ \A e \in Discs : e # d => stop'[e] = stop[e]
    BY <1>t
  <2>3. CASE StopCancels(d) /\ UNCHANGED socketVars
    BY <2>1, <2>2, <2>3 DEF StopCancels, socketVars, SocketInv, Begun
  <2>4. CASE StopSocket(d)
    BY <2>1, <2>2, <2>4 DEF StopSocket, SocketInv, Begun
  <2>5. CASE StopReturns(d)
    BY <2>1, <2>2, <2>5 DEF StopReturns, SocketInv, Begun
  <2> QED
    BY <1>9, <2>3, <2>4, <2>5 DEF StopStep, StopStarts
<1>10. CASE ReaderStep
  <2>1. /\ UNCHANGED <<connectPc, wsRef>> /\ socket' \in {socket, "closed"}
        /\ connectPc \notin {"new", "bootstrap", "upgrade"}
    BY <1>10, ReaderEnds DEF SessionInv, connectVars
  <2>2. CASE UNCHANGED <<disc, stop>>
    BY <2>1, <2>2 DEF SocketInv, Begun
  <2>3. CASE connected /\ disc' = [disc EXCEPT !["reader"] = "called"] /\ UNCHANGED stop
    <3>1. disc'["reader"] = "called" /\ \A e \in Discs : e # "reader" => disc'[e] = disc[e]
      BY <2>3, Moved, Pcs
    <3>2. \A e \in Discs : ~Begun(e)
      BY <2>3 DEF SessionInv
    <3> QED
      BY <2>1, <2>3, <3>1, <3>2 DEF SocketInv, Begun
  <2>4. CASE TaskByes
    <3>1. /\ disc'["reader"] = "stopping" /\ \A e \in Discs : e # "reader" => disc'[e] = disc[e]
          /\ stop'["reader"] = "start" /\ \A e \in Discs : e # "reader" => stop'[e] = stop[e]
      BY <1>t, <2>4, Pcs DEF TaskByes, BeginDisconnect
    <3> QED
      BY <2>1, <3>1 DEF SocketInv, Begun
  <2> QED
    BY <1>10, <2>2, <2>3, <2>4, ReaderEnds DEF TaskEnds, discVars
<1> QED
  BY <1>1, <1>3, <1>4, <1>5, <1>6, <1>7, <1>8, <1>9, <1>10 DEF ConnectStep

\* Whatever the reader, the relay, the network and the user do to one another: a
\* disconnect leaves a socket or a session open, or its carrier claiming to be
\* connected, only if a DELETE was cancelled or connect returned after a
\* disconnect had begun (disconnect, _stop_transport).
THEOREM CarrierTornDown == Spec /\ [][Undisturbed]_vars => []WsTornDown
<1>1. CarrierTypeOK => BaseTypeOK
  BY DEF CarrierTypeOK
<1>2. Init => SessionInv /\ SocketInv
  BY SessionInit DEF Init, BaseInit, SocketInv, Begun
<1>3. ASSUME BaseTypeOK, SessionInv, SocketInv
      PROVE  WsTornDown
  <2>1. TornDown
    BY <1>3, SessionClosed DEF TornDown, Disconnected
  <2>2. ASSUME Disconnected
        PROVE  ~wsRef
    <3>1. PICK d \in Discs : disc[d] = "done" /\ stop[d] \in {"idle", "done"}
      BY <2>2 DEF Disconnected, AllQuiet
    <3> QED
      BY <1>3, <3>1 DEF SocketInv, Begun
  <2> QED
    BY <1>3, <2>1, <2>2 DEF WsTornDown, SocketInv
<1>4. BaseTypeOK /\ SessionInv /\ SocketInv /\ [Next]_vars /\ [Undisturbed]_vars
        => SessionInv' /\ SocketInv'
  BY SessionStep, SocketInvStep
<1> QED
  BY <1>1, <1>2, <1>3, <1>4, CarrierTypeCorrect, PTL DEF Spec

\* Before a BYE, and with a user that waits for connect, no step disturbs a
\* disconnect (disconnect, _stop_transport).
LEMMA QuietStep ==
  ASSUME BaseTypeOK, NoBye, UserWaits, [Next]_vars
  PROVE  Undisturbed
<1>1. ConnectsFirst
  <2>1. connectPc' # connectPc => ConnectStep
    <3>1. ASSUME NEW d \in Discs, DisconnectStep(d) \/ StopStep(d)
          PROVE  UNCHANGED connectPc
      BY <3>1 DEF DisconnectStep, StopStep, DisconnectStarts, DisconnectClears, SessionDeleted,
         DeleteCancelled, DisconnectReturns, connectVars
    <3>2. CASE UserDisconnect \/ ReaderStep
      BY <3>2, ReaderEnds DEF UserDisconnect, CallDisconnect, connectVars
    <3> QED
      BY <3>1, <3>2, LifeCycleKept DEF Next, connectVars
  <2>2. ConnectStep => connectPc # "failed"
    BY DEF ConnectStep, StartConnect, Bootstrapped, Upgraded, ConnectFails, ConnectStarts,
       ConnectUpgrades, ConnectReturns, ConnectRaises
  <2> QED
    BY <2>1, <2>2, WaitsConnectsFirst
<1>2. DeleteCompletes
  <2>1. \/ UNCHANGED disc \/ UserDisconnect \/ TaskEnds \/ TaskByes
        \/ \E d \in Discs : DisconnectStep(d)
    <3>1. CASE ConnectStep \/ \E d \in Discs : StopStep(d)
      BY <3>1 DEF ConnectStep, StartConnect, Bootstrapped, Upgraded, ConnectFails,
         ConnectStarts, ConnectUpgrades, ConnectReturns, ConnectRaises, StopStep, discVars
    <3>2. CASE ReaderStep
      BY <3>2, ReaderEnds DEF discVars
    <3> QED
      BY <3>1, <3>2, LifeCycleKept DEF Next, discVars
  <2> QED
    BY <2>1, DeleteUncancelled DEF UserDisconnect, DisconnectStep
<1> QED
  BY <1>1, <1>2 DEF Undisturbed

\* As long as the relay has not said BYE, and if the user calls disconnect when
\* connect is over, everything is torn down: in whatever order several disconnects,
\* the reader and the loss of the socket meet, for any number of callers and streams
\* (disconnect, _stop_transport).
THEOREM CarrierTornDownBeforeBye == Spec /\ []UserWaits /\ []NoBye => []WsTornDown
<1>1. CarrierTypeOK => BaseTypeOK
  BY DEF CarrierTypeOK
<1>2. BaseTypeOK /\ NoBye /\ UserWaits /\ [Next]_vars => [Undisturbed]_vars
  BY QuietStep
<1> QED
  BY <1>1, <1>2, CarrierTypeCorrect, CarrierTornDown, PTL DEF Spec

-----------------------------------------------------------------------------
\* A non-empty set of natural numbers has a least element.
LEMMA Least == ASSUME NEW T, T \subseteq Nat, T # {}
  PROVE \E m \in T : \A n \in T : m <= n
<1> DEFINE R == {p \in Nat \X Nat : p[1] < p[2]}
<1>1. IsWellFoundedOn(R, Nat)
  BY NatLessThanWellFounded, Zenon DEF OpToRel
<1>2. \E m \in T : \A n \in T : ~(<<n,m>> \in R)
  <2> HIDE DEF R
  <2> QED BY <1>1, WFMin
<1>3. PICK m \in T : \A n \in T : ~(<<n,m>> \in R)
  BY <1>2
<1>4. ASSUME NEW n \in T PROVE m <= n
  <2>1. m \in Nat /\ n \in Nat
    OBVIOUS
  <2>2. ~(n < m)
    BY <1>3, <2>1
  <2> QED BY <2>1, <2>2
<1> QED BY <1>4

\* Induction with a set of numbers for the predicate.
LEMMA Induction == ASSUME NEW T, 0 \in T, \A n \in Nat : n \in T => n + 1 \in T
  PROVE Nat \subseteq T
<1> DEFINE B == {n \in Nat : n \notin T}
<1> SUFFICES ASSUME B # {} PROVE FALSE
  OBVIOUS
<1>1. PICK m \in B : \A n \in B : m <= n
  BY Least
<1>2. m \in Nat /\ m \notin T /\ m # 0
  BY <1>1
<1>3. m - 1 \in Nat /\ (m-1)+1 = m /\ ~(m <= m - 1)
  BY <1>2
<1>4. m - 1 \notin B
  BY <1>1, <1>3
<1> QED BY <1>2, <1>3, <1>4

\* The partial sums of a sequence of numbers, as Total builds them.
Adds(f, w) == f = [i \in 0 .. Len(w) |-> IF i = 0 THEN 0 ELSE f[i - 1] + w[i]]

\* Adds spelt out: the sum of nothing, and each further sum.
LEMMA AddsIs ==
  ASSUME NEW w \in Seq(Nat), NEW f
  PROVE  Adds(f, w) <=>
           /\ f = [i \in 0 .. Len(w) |-> f[i]]
           /\ f[0] = 0
           /\ \A i \in 1 .. Len(w) : f[i] = f[i - 1] + w[i]
<1>1. \A i \in 0 .. Len(w) : i # 0 <=> i \in 1 .. Len(w)
  OBVIOUS
<1>2. 0 \in 0 .. Len(w)
  OBVIOUS
<1> QED
  BY <1>1, <1>2 DEF Adds

\* A sequence has one function of its partial sums.
LEMMA SumsUnique ==
  ASSUME NEW w \in Seq(Nat), NEW f, NEW g, Adds(f, w), Adds(g, w)
  PROVE  f = g
<1> DEFINE T == {i \in Nat : i <= Len(w) => f[i] = g[i]}
<1>1. 0 \in T
  BY AddsIs
<1>2. ASSUME NEW i \in Nat, i \in T
      PROVE  i + 1 \in T
  <2>1. CASE i + 1 <= Len(w)
    <3>1. i + 1 \in 1 .. Len(w) /\ (i + 1) - 1 = i /\ i <= Len(w)
      BY <2>1
    <3>2. f[i + 1] = f[i] + w[i + 1] /\ g[i + 1] = g[i] + w[i + 1]
      BY <3>1, AddsIs
    <3> QED
      BY <1>2, <3>1, <3>2
  <2> QED
    BY <2>1
<1>3. Nat \subseteq T
  <2> HIDE DEF T
  <2> QED
    BY <1>1, <1>2, Induction
<1> QED
  BY <1>3, AddsIs

\* A sequence has a function of its partial sums.
LEMMA SumsExist ==
  ASSUME NEW w \in Seq(Nat)
  PROVE  \E f \in [0 .. Len(w) -> Nat] : Adds(f, w)
<1> DEFINE G(f, n) == f[0] = 0 /\ \A i \in 1 .. n : f[i] = f[i - 1] + w[i]
           T == {n \in Nat : n <= Len(w) => \E f \in [0 .. n -> Nat] : G(f, n)}
<1>1. 0 \in T
  <2>1. [i \in 0 .. 0 |-> 0] \in [0 .. 0 -> Nat] /\ G([i \in 0 .. 0 |-> 0], 0)
    OBVIOUS
  <2> QED
    BY <2>1
<1>2. ASSUME NEW n \in Nat, n \in T
      PROVE  n + 1 \in T
  <2> SUFFICES ASSUME n + 1 <= Len(w)
               PROVE  \E f \in [0 .. n + 1 -> Nat] : G(f, n + 1)
    <3> HIDE DEF G
    <3> QED
      OBVIOUS
  <2>1. PICK f \in [0 .. n -> Nat] : G(f, n)
    <3> HIDE DEF G
    <3> QED
      BY <1>2
  <2>2. w[n + 1] \in Nat
    OBVIOUS
  <2> DEFINE g == [i \in 0 .. n + 1 |-> IF i = n + 1 THEN f[n] + w[n + 1] ELSE f[i]]
  <2>3. g \in [0 .. n + 1 -> Nat]
    BY <2>2
  <2>4. \A i \in 1 .. n + 1 : g[i] = g[i - 1] + w[i]
    <3> TAKE i \in 1 .. n + 1
    <3>1. CASE i = n + 1
      BY <3>1
    <3>2. CASE i # n + 1
      BY <2>1, <3>2
    <3> QED
      BY <3>1, <3>2
  <2>5. g[0] = 0
    BY <2>1
  <2> HIDE DEF g
  <2> QED
    BY <2>3, <2>4, <2>5
<1>3. Nat \subseteq T
  <2> HIDE DEF T
  <2> QED
    BY <1>1, <1>2, Induction
<1>4. PICK f \in [0 .. Len(w) -> Nat] : G(f, Len(w))
  BY <1>3
<1> QED
  BY <1>4, AddsIs

\* Total is the last of the partial sums.
LEMMA TotalIs ==
  ASSUME NEW w \in Seq(Nat), NEW f, Adds(f, w)
  PROVE  Total(w) = f[Len(w)]
<1> DEFINE upTo == CHOOSE g : Adds(g, w)
<1>1. Adds(upTo, w)
  OBVIOUS
<1>2. upTo = f
  BY <1>1, SumsUnique
<1>3. Total(w) = upTo[Len(w)]
  BY DEF Total, Adds
<1> QED
  BY <1>2, <1>3

\* The total of natural numbers is one.
LEMMA TotalType ==
  ASSUME NEW w \in Seq(Nat)
  PROVE  Total(w) \in Nat
BY SumsExist, TotalIs

\* An empty queue holds nothing.
LEMMA TotalEmpty == Total(<<>>) = 0
<1>1. Adds([i \in 0 .. 0 |-> 0], <<>>)
  BY DEF Adds
<1> QED
  BY <1>1, TotalIs

\* A queue grows by what is put at its end (a dispatched chunk).
LEMMA TotalAppend ==
  ASSUME NEW w \in Seq(Nat), NEW x \in Nat
  PROVE  Total(Append(w, x)) = Total(w) + x
<1>1. PICK f \in [0 .. Len(w) -> Nat] : Adds(f, w)
  BY SumsExist
<1> DEFINE v == Append(w, x)
           g == [i \in 0 .. Len(v) |-> IF i = Len(v) THEN f[Len(w)] + x ELSE f[i]]
<1>2. v \in Seq(Nat) /\ Len(v) = Len(w) + 1 /\ v[Len(v)] = x
  OBVIOUS
<1>3. g[0] = 0
  BY <1>1, <1>2, AddsIs
<1>4. ASSUME NEW i \in 1 .. Len(v)
      PROVE  g[i] = g[i - 1] + v[i]
  <2>1. CASE i = Len(v)
    BY <1>2, <2>1
  <2>2. CASE i # Len(v)
    <3>1. i \in 1 .. Len(w) /\ v[i] = w[i] /\ i - 1 # Len(v)
      BY <1>2, <2>2
    <3>2. f[i] = f[i - 1] + w[i]
      BY <1>1, <3>1, AddsIs
    <3> QED
      BY <1>2, <2>2, <3>1, <3>2
  <2> QED
    BY <2>1, <2>2
<1>5. g = [i \in 0 .. Len(v) |-> g[i]] /\ g[Len(v)] = f[Len(w)] + x
  BY <1>2
<1>6. Total(v) = g[Len(v)]
  <2> HIDE DEF g, v
  <2> QED
    BY <1>2, <1>3, <1>4, <1>5, AddsIs, TotalIs
<1> QED
  BY <1>1, <1>5, <1>6, TotalIs

\* A queue shrinks by what is taken from its head (recv_data).
LEMMA TotalTail ==
  ASSUME NEW w \in Seq(Nat), w # <<>>
  PROVE  Total(w) = Head(w) + Total(Tail(w))
<1>1. PICK f \in [0 .. Len(w) -> Nat] : Adds(f, w)
  BY SumsExist
<1> DEFINE v == Tail(w)
           g == [i \in 0 .. Len(v) |-> f[i + 1] - Head(w)]
<1>2. v \in Seq(Nat) /\ Len(v) + 1 = Len(w) /\ Head(w) = w[1] /\ w[1] \in Nat
      /\ Len(w) \in Nat /\ Len(w) > 0
  OBVIOUS
<1>3. g[0] = 0
  <2>1. f[1] = f[0] + w[1] /\ f[0] = 0
    BY <1>1, <1>2, AddsIs
  <2> QED
    BY <1>2, <2>1
<1>4. ASSUME NEW i \in 1 .. Len(v)
      PROVE  g[i] = g[i - 1] + v[i]
  <2>1. i + 1 \in 1 .. Len(w) /\ v[i] = w[i + 1] /\ i \in 1 .. Len(w)
    BY <1>2
  <2>2. f[i + 1] = f[(i + 1) - 1] + w[i + 1]
    BY <1>1, <2>1, AddsIs
  <2>3. f[i + 1] \in Nat /\ f[i] \in Nat /\ (i + 1) - 1 = i /\ (i - 1) + 1 = i
    BY <1>1, <1>2
  <2> QED
    BY <1>2, <2>1, <2>2, <2>3
<1>5. g = [i \in 0 .. Len(v) |-> g[i]] /\ g[Len(v)] = f[Len(w)] - Head(w)
  BY <1>2
<1>6. Total(v) = g[Len(v)]
  <2> HIDE DEF g, v
  <2> QED
    BY <1>2, <1>3, <1>4, <1>5, AddsIs, TotalIs
<1>7. f[Len(w)] \in Nat
  BY <1>1, <1>2
<1> QED
  BY <1>1, <1>2, <1>5, <1>6, <1>7, TotalIs

-----------------------------------------------------------------------------
\* What each frame of a channel carries, as a sequence of numbers.
LEMMA AmountSeq ==
  ASSUME NEW S, \A f \in S : f.n \in Nat, NEW frames \in Seq(S), NEW ty, NEW s
  PROVE  [i \in DOMAIN frames |-> Carried(frames[i], ty, s)] \in Seq(Nat)
<1>1. \A f \in S : Carried(f, ty, s) \in Nat
  BY DEF Carried
<1>2. \A i \in 1 .. Len(frames) : frames[i] \in S
  OBVIOUS
<1>3. [i \in 1 .. Len(frames) |-> Carried(frames[i], ty, s)] \in [1 .. Len(frames) -> Nat]
  BY <1>1, <1>2
<1>4. Len(frames) \in Nat /\ DOMAIN frames = 1 .. Len(frames)
  OBVIOUS
<1> QED
  BY <1>3, <1>4

\* What a channel carries is a natural number.
LEMMA AmountType ==
  ASSUME NEW S, \A f \in S : f.n \in Nat, NEW frames \in Seq(S), NEW ty, NEW s
  PROVE  Amount(frames, ty, s) \in Nat
BY AmountSeq, TotalType DEF Amount

\* An empty channel carries nothing.
LEMMA AmountEmpty == \A ty, s : Amount(<<>>, ty, s) = 0
<1> SUFFICES ASSUME NEW ty, NEW s
             PROVE  Amount(<<>>, ty, s) = 0
  OBVIOUS
<1>1. [i \in DOMAIN <<>> |-> Carried(<<>>[i], ty, s)] = <<>>
  OBVIOUS
<1> QED
  BY <1>1, TotalEmpty DEF Amount

\* A channel carries more by what is written to it.
LEMMA AmountAppend ==
  ASSUME NEW S, \A f \in S : f.n \in Nat, NEW frames \in Seq(S), NEW f \in S, NEW ty, NEW s
  PROVE  Amount(Append(frames, f), ty, s) = Amount(frames, ty, s) + Carried(f, ty, s)
<1> DEFINE v == Append(frames, f)
           w == [i \in DOMAIN frames |-> Carried(frames[i], ty, s)]
           x == Carried(f, ty, s)
<1>1. w \in Seq(Nat) /\ x \in Nat
  BY AmountSeq DEF Carried
<1>2. [i \in DOMAIN v |-> Carried(v[i], ty, s)] = Append(w, x)
  <2>1. DOMAIN v = 1 .. Len(frames) + 1 /\ v[Len(frames) + 1] = f
        /\ \A i \in 1 .. Len(frames) : v[i] = frames[i]
    OBVIOUS
  <2>2. w = [i \in 1 .. Len(frames) |-> Carried(frames[i], ty, s)] /\ Len(w) = Len(frames)
    OBVIOUS
  <2>3. Append(w, x) = [i \in 1 .. Len(frames) + 1 |-> IF i = Len(frames) + 1 THEN x ELSE w[i]]
    <3> HIDE DEF w, x
    <3> QED
      BY <1>1, <2>2
  <2> HIDE DEF v
  <2> QED
    BY <2>1, <2>2, <2>3
<1> HIDE DEF w, x
<1>3. Total(Append(w, x)) = Total(w) + x
  BY <1>1, TotalAppend
<1> QED
  BY <1>2, <1>3 DEF Amount, w, x

\* A channel carries less by the frame taken off it.
LEMMA AmountTail ==
  ASSUME NEW S, \A f \in S : f.n \in Nat, NEW frames \in Seq(S), frames # <<>>, NEW ty, NEW s
  PROVE  Amount(frames, ty, s) = Carried(Head(frames), ty, s) + Amount(Tail(frames), ty, s)
<1> DEFINE v == Tail(frames)
           w == [i \in DOMAIN frames |-> Carried(frames[i], ty, s)]
<1>1. w \in Seq(Nat) /\ w # <<>> /\ Head(w) = Carried(Head(frames), ty, s)
  <2>1. w \in Seq(Nat)
    BY AmountSeq
  <2>2. Len(w) = Len(frames) /\ Len(frames) > 0 /\ w[1] = Carried(frames[1], ty, s)
    OBVIOUS
  <2> HIDE DEF w
  <2> QED
    BY <2>1, <2>2
<1>2. [i \in DOMAIN v |-> Carried(v[i], ty, s)] = Tail(w)
  OBVIOUS
<1> HIDE DEF w
<1>3. Total(w) = Head(w) + Total(Tail(w))
  BY <1>1, TotalTail
<1> QED
  BY <1>1, <1>2, <1>3 DEF Amount, w

-----------------------------------------------------------------------------
\* What the flow control of the streams depends on.
flowVars == <<nextStreamId, known, sendWindows, recvQueues, recvWindows, up, down,
              relayHeld, relayCredit>>

\* send_data sends a chunk, or writes it to a socket that is gone.
SendsChunk(t) ==
  /\ SendChunk(t, ~WriteRaises)
  /\ WsSend(F("DATA", sendSid[t], ChunkOf(t)))
  /\ UNCHANGED <<down, relayVars>>

\* The reader takes a frame, and tells the streams of it or not.
TakesFrame(f) ==
  /\ f \in Incoming
  /\ down' = Tail(down)
  /\ UNCHANGED relayVars
  /\ \/ DispatchFrame(f) /\ UNCHANGED up
     \/ UNCHANGED smVars /\ (UNCHANGED up \/ WsSend(F("PONG", 0, f.n)))

\* Every step of the carrier either leaves the windows, queues and channels as they
\* are, or is one of the steps that move bytes or credit.
LEMMA FlowCases ==
  ASSUME [Next]_vars
  PROVE  \/ UNCHANGED flowVars
         \/ OpenStream
         \/ \E s \in Sids : CloseStream(s) \/ RecvDataEof(s) \/ RecvDataChunk(s) \/ GrantWindow(s)
         \/ \E t \in Callers : SendsChunk(t)
         \/ ClearStreams /\ UNCHANGED wireVars
         \/ \E f \in Incoming : TakesFrame(f)
         \/ RelayStep
<1> USE DEF flowVars
<1>1. UNCHANGED <<smVars, wireVars>> => UNCHANGED flowVars
  BY DEF smVars, wireVars, relayVars
<1>2. CASE ConnectStep
  BY <1>1, <1>2 DEF ConnectStep, StartConnect, Bootstrapped, Upgraded, ConnectFails
<1>3. ASSUME NEW s \in Sids, RecvDataStep(s)
      PROVE  UNCHANGED flowVars \/ RecvDataEof(s) \/ RecvDataChunk(s)
  BY <1>3 DEF RecvDataStep, RecvDataWaits, RecvWaits, UnchangedByStreamOp, tableVars, relayVars
<1>4. ASSUME NEW t \in Callers, NEW s \in Sids, NEW n \in MessageSizes, CallSendData(t, s, n)
      PROVE  UNCHANGED flowVars
  BY <1>4 DEF CallSendData, BeginSend, UnchangedByStreamOp, tableVars, relayVars
<1>5. ASSUME NEW t \in Callers, SendDataStep(t) \/ SendDataTimeout(t)
      PROVE  UNCHANGED flowVars \/ SendsChunk(t)
  <2>1. CASE SenderBlocks(t) \/ SenderRegisters(t) \/ SenderFindsClosed(t) \/ SenderTimesOut(t)
    <3>1. UNCHANGED <<tableVars, recvQueues, sendWindows, recvWindows>>
      BY <2>1 DEF SenderBlocks, SenderRegisters, SenderFindsClosed, SenderTimesOut
    <3>2. CASE UNCHANGED <<up, down, relayVars>>
      BY <3>1, <3>2 DEF tableVars, relayVars
    <3>3. CASE ~UNCHANGED up
      BY <1>5, <3>3 DEF SendDataStep, SendDataTimeout, SendsChunk, UnchangedByStreamOp
    <3> QED
      BY <1>5, <3>2, <3>3 DEF SendDataStep, SendDataTimeout, UnchangedByStreamOp
  <2>2. CASE SendDataStep(t) /\ ~(SenderBlocks(t) \/ SenderRegisters(t) \/ SenderFindsClosed(t))
    BY <2>2 DEF SendDataStep, SendsChunk, UnchangedByStreamOp
  <2> QED
    BY <1>5, <2>1, <2>2 DEF SendDataTimeout
<1>6. CASE UserDisconnect
  BY <1>1, <1>6 DEF UserDisconnect
<1>7. ASSUME NEW d \in Discs, DisconnectStep(d) \/ StopStep(d)
      PROVE  UNCHANGED flowVars \/ (ClearStreams /\ UNCHANGED wireVars)
  BY <1>1, <1>7 DEF DisconnectStep, TransportAfter, StopStep
<1>8. CASE ReaderStep
  <2>1. CASE ReaderStarts \/ ReaderSeesClose \/ ReaderCancelled \/ ReaderFinishes
    BY <1>1, <2>1 DEF ReaderStarts, ReaderSeesClose, ReaderCancelled, ReaderFinishes,
       UnchangedByReader, wireVars
  <2>2. ASSUME NEW f \in Incoming,
               ReaderDispatches(f) \/ ReaderPongs(f) \/ ReaderByes(f) \/ ReaderCrashes(f)
        PROVE  TakesFrame(f)
    BY <2>2 DEF ReaderDispatches, ReaderPongs, ReaderByes, ReaderCrashes, ReaderTakes,
       UnchangedByReader, TakesFrame
  <2> QED
    BY <1>8, <2>1, <2>2 DEF ReaderStep
<1>9. CASE SocketLost
  BY <1>1, <1>9 DEF SocketLost, UnchangedByRelay, wireVars
<1>10. CASE UNCHANGED vars
  BY <1>1, <1>10 DEF vars
<1> QED
  BY <1>2, <1>3, <1>4, <1>5, <1>6, <1>7, <1>8, <1>9, <1>10 DEF Next

-----------------------------------------------------------------------------
\* Moves of any size.
UpMoves ==
  \/ \E n \in Nat : Up!Send(n) \/ Up!Arrive(n) \/ Up!Grant(n) \/ Up!Return(n)
  \/ Up!Lose
  \/ UNCHANGED Up!vars

DownMoves ==
  \/ \E n \in Nat : Down!Send(n) \/ Down!Arrive(n) \/ Down!Grant(n) \/ Down!Return(n)
  \/ Down!Lose
  \/ UNCHANGED Down!vars

\* A sum of smaller parts is no larger.
LEMMA Sum4 ==
  ASSUME NEW W \in Nat,
         NEW c \in Nat, NEW t \in Nat, NEW h \in Nat, NEW r \in Nat, c + t + h + r <= W,
         NEW c1 \in 0 .. c, NEW t1 \in 0 .. t, NEW h1 \in 0 .. h, NEW r1 \in 0 .. r
  PROVE  c1 \in Nat /\ t1 \in Nat /\ h1 \in Nat /\ r1 \in Nat /\ c1 + t1 + h1 + r1 <= W
OBVIOUS

\* A move of the channel, of any size, is a step of it or a stutter, because no more
\* than the window is there to be moved.
LEMMA UpMovesAreSteps ==
  ASSUME Up!TypeOK, Up!Conserved, UpMoves
  PROVE  [Up!Next]_(Up!vars) /\ Up!TypeOK' /\ Up!Conserved'
<1> DEFINE c == UpCredit
           t == Amount(up, "DATA", Stream)
           h == relayHeld[Stream]
           r == Amount(down, "WINDOW", Stream)
<1>t. c \in Nat /\ t \in Nat /\ h \in Nat /\ r \in Nat /\ c + t + h + r <= InitialWindow
  BY DEF Up!TypeOK, Up!Conserved
<1>w. InitialWindow \in Nat
  BY StreamManagerAssumption
<1>0. /\ c' \in Nat /\ t' \in Nat /\ h' \in Nat /\ r' \in Nat
      /\ c' + t' + h' + r' <= InitialWindow
      => Up!TypeOK' /\ Up!Conserved'
  BY DEF Up!TypeOK, Up!Conserved
<1>1. ASSUME NEW n \in Nat, Up!Send(n) \/ Up!Arrive(n) \/ Up!Grant(n) \/ Up!Return(n)
      PROVE  [Up!Next]_(Up!vars) /\ Up!TypeOK' /\ Up!Conserved'
  <2>1. \/ n <= c /\ c' = c - n /\ t' = t + n /\ UNCHANGED <<h, r>>
        \/ n <= t /\ t' = t - n /\ h' = h + n /\ UNCHANGED <<c, r>>
        \/ n <= h /\ h' = h - n /\ r' = r + n /\ UNCHANGED <<c, t>>
        \/ n <= r /\ r' = r - n /\ c' = c + n /\ UNCHANGED <<t, h>>
    BY <1>1 DEF Up!Send, Up!Arrive, Up!Grant, Up!Return
  <2>2. n = 0 => UNCHANGED Up!vars
    <3>1. n = 0 => c' = c /\ t' = t /\ h' = h /\ r' = r
      <4> HIDE DEF c, t, h, r
      <4> QED
        BY <1>t, <2>1
    <3> QED
      BY <3>1 DEF Up!vars
  <2>3. n <= InitialWindow /\ c' \in Nat /\ t' \in Nat /\ h' \in Nat /\ r' \in Nat
        /\ c' + t' + h' + r' <= InitialWindow
    <3> HIDE DEF c, t, h, r
    <3> QED
      BY <1>t, <1>w, <2>1
  <2>4. n # 0 => n \in 1 .. InitialWindow
    BY <1>w, <2>3
  <2> QED
    BY <1>0, <1>1, <2>2, <2>3, <2>4 DEF Up!Next
<1>2. CASE Up!Lose
  <2>1. c' \in 0 .. c /\ t' \in 0 .. t /\ h' \in 0 .. h /\ r' \in 0 .. r
    BY <1>2 DEF Up!Lose
  <2>2. c' \in Nat /\ t' \in Nat /\ h' \in Nat /\ r' \in Nat
        /\ c' + t' + h' + r' <= InitialWindow
    <3> HIDE DEF c, t, h, r
    <3> QED
      BY <1>t, <1>w, <2>1, Sum4
  <2> QED
    BY <1>0, <1>2, <2>2 DEF Up!Next
<1>3. CASE UNCHANGED Up!vars
  BY <1>3 DEF Up!vars, Up!TypeOK, Up!Conserved
<1> QED
  BY <1>1, <1>2, <1>3 DEF UpMoves

\* The same for the other direction.
LEMMA DownMovesAreSteps ==
  ASSUME Down!TypeOK, Down!Conserved, DownMoves
  PROVE  [Down!Next]_(Down!vars) /\ Down!TypeOK' /\ Down!Conserved'
<1> DEFINE c == relayCredit[Stream]
           t == Amount(down, "DATA", Stream)
           h == DownHeld
           r == Amount(up, "WINDOW", Stream)
<1>t. c \in Nat /\ t \in Nat /\ h \in Nat /\ r \in Nat /\ c + t + h + r <= InitialWindow
  BY DEF Down!TypeOK, Down!Conserved
<1>w. InitialWindow \in Nat
  BY StreamManagerAssumption
<1>0. /\ c' \in Nat /\ t' \in Nat /\ h' \in Nat /\ r' \in Nat
      /\ c' + t' + h' + r' <= InitialWindow
      => Down!TypeOK' /\ Down!Conserved'
  BY DEF Down!TypeOK, Down!Conserved
<1>1. ASSUME NEW n \in Nat, Down!Send(n) \/ Down!Arrive(n) \/ Down!Grant(n) \/ Down!Return(n)
      PROVE  [Down!Next]_(Down!vars) /\ Down!TypeOK' /\ Down!Conserved'
  <2>1. \/ n <= c /\ c' = c - n /\ t' = t + n /\ UNCHANGED <<h, r>>
        \/ n <= t /\ t' = t - n /\ h' = h + n /\ UNCHANGED <<c, r>>
        \/ n <= h /\ h' = h - n /\ r' = r + n /\ UNCHANGED <<c, t>>
        \/ n <= r /\ r' = r - n /\ c' = c + n /\ UNCHANGED <<t, h>>
    BY <1>1 DEF Down!Send, Down!Arrive, Down!Grant, Down!Return
  <2>2. n = 0 => UNCHANGED Down!vars
    <3>1. n = 0 => c' = c /\ t' = t /\ h' = h /\ r' = r
      <4> HIDE DEF c, t, h, r
      <4> QED
        BY <1>t, <2>1
    <3> QED
      BY <3>1 DEF Down!vars
  <2>3. n <= InitialWindow /\ c' \in Nat /\ t' \in Nat /\ h' \in Nat /\ r' \in Nat
        /\ c' + t' + h' + r' <= InitialWindow
    <3> HIDE DEF c, t, h, r
    <3> QED
      BY <1>t, <1>w, <2>1
  <2>4. n # 0 => n \in 1 .. InitialWindow
    BY <1>w, <2>3
  <2> QED
    BY <1>0, <1>1, <2>2, <2>3, <2>4 DEF Down!Next
<1>2. CASE Down!Lose
  <2>1. c' \in 0 .. c /\ t' \in 0 .. t /\ h' \in 0 .. h /\ r' \in 0 .. r
    BY <1>2 DEF Down!Lose
  <2>2. c' \in Nat /\ t' \in Nat /\ h' \in Nat /\ r' \in Nat
        /\ c' + t' + h' + r' <= InitialWindow
    <3> HIDE DEF c, t, h, r
    <3> QED
      BY <1>t, <1>w, <2>1, Sum4
  <2> QED
    BY <1>0, <1>2, <2>2 DEF Down!Next
<1>3. CASE UNCHANGED Down!vars
  BY <1>3 DEF Down!vars, Down!TypeOK, Down!Conserved
<1> QED
  BY <1>1, <1>2, <1>3 DEF DownMoves

-----------------------------------------------------------------------------
\* What the flow proofs need of the types.
FlowTyped ==
  /\ up \in Seq(UpFrame) /\ down \in Seq(Frame)
  /\ relayCredit \in [Sids -> Nat] /\ relayHeld \in [Sids -> Nat]
  /\ toGrant \in [Sids -> Nat]

\* What a frame carries is a natural number.
LEMMA FrameSize == (\A f \in UpFrame : f.n \in Nat) /\ (\A f \in Frame : f.n \in Nat)
<1>1. \A n \in FrameSizes \cup {0} : n \in Nat
  BY StreamManagerAssumption
<1> QED
  BY <1>1 DEF UpFrame, Frame

\* So is what either channel carries for the stream.
LEMMA WireAmounts ==
  ASSUME FlowTyped, NEW ty
  PROVE  Amount(up, ty, Stream) \in Nat /\ Amount(down, ty, Stream) \in Nat
BY FrameSize, AmountType DEF FlowTyped

\* A frame the client writes is on the wire or nowhere.
LEMMA ClientWrites ==
  ASSUME FlowTyped, NEW f \in UpFrame, WsSend(f), NEW ty
  PROVE  \/ Amount(up, ty, Stream)' = Amount(up, ty, Stream)
         \/ Amount(up, ty, Stream)' = Amount(up, ty, Stream) + Carried(f, ty, Stream)
<1>1. up' = up => Amount(up, ty, Stream)' = Amount(up, ty, Stream)
  BY DEF Amount
<1>2. CASE up' = Append(up, f)
  <2>1. Amount(up, ty, Stream)' = Amount(Append(up, f), ty, Stream)
    BY <1>2 DEF Amount
  <2> QED
    BY <2>1, FrameSize, AmountAppend DEF FlowTyped
<1> QED
  BY <1>1, <1>2 DEF WsSend

\* A frame of another type carries nothing.
LEMMA CarriesNothing ==
  ASSUME FlowTyped, NEW f \in UpFrame, WsSend(f), NEW ty, Carried(f, ty, Stream) = 0
  PROVE  Amount(up, ty, Stream)' = Amount(up, ty, Stream)
BY ClientWrites, WireAmounts

\* A frame the relay writes is on the wire.
LEMMA RelayWritten ==
  ASSUME FlowTyped, NEW f \in Frame, down' = Append(down, f), NEW ty
  PROVE  Amount(down, ty, Stream)' = Amount(down, ty, Stream) + Carried(f, ty, Stream)
<1>1. Amount(down, ty, Stream)' = Amount(Append(down, f), ty, Stream)
  BY DEF Amount
<1>2. down \in Seq(Frame) /\ \A x \in Frame : x.n \in Nat
  BY FrameSize DEF FlowTyped
<1>3. Amount(Append(down, f), ty, Stream) = Amount(down, ty, Stream) + Carried(f, ty, Stream)
  BY <1>2, AmountAppend
<1> QED
  BY <1>1, <1>3

\* A frame the reader takes was on the wire.
LEMMA ReaderTaken ==
  ASSUME FlowTyped, NEW f \in Incoming, down' = Tail(down), NEW ty
  PROVE  /\ f \in Frame
         /\ Carried(f, ty, Stream) \in Nat
         /\ Carried(f, ty, Stream) <= Amount(down, ty, Stream)
         /\ Amount(down, ty, Stream)' = Amount(down, ty, Stream) - Carried(f, ty, Stream)
<1>1. down # <<>> /\ f = Head(down)
  BY DEF Incoming, FlowTyped
<1>2. f \in Frame /\ Tail(down) \in Seq(Frame)
  BY <1>1 DEF FlowTyped
<1>3. Amount(down, ty, Stream)' = Amount(Tail(down), ty, Stream)
  BY DEF Amount
<1>4. Amount(Tail(down), ty, Stream) \in Nat /\ Carried(f, ty, Stream) \in Nat
  BY <1>2, FrameSize, AmountType DEF Carried
<1>5. down \in Seq(Frame) /\ \A x \in Frame : x.n \in Nat
  BY FrameSize DEF FlowTyped
<1>6. Amount(down, ty, Stream) = Carried(f, ty, Stream) + Amount(Tail(down), ty, Stream)
  BY <1>1, <1>5, AmountTail
<1>7. \A a, b, c \in Nat : c = a + b => a <= c /\ b = c - a
  OBVIOUS
<1> QED
  BY <1>2, <1>3, <1>4, <1>6, <1>7, WireAmounts

\* A frame the relay takes was on the wire.
LEMMA RelayTaken ==
  ASSUME FlowTyped, RelayReceives, NEW ty
  PROVE  /\ Carried(Head(up), ty, Stream) \in Nat
         /\ Carried(Head(up), ty, Stream) <= Amount(up, ty, Stream)
         /\ Amount(up, ty, Stream)' = Amount(up, ty, Stream) - Carried(Head(up), ty, Stream)
<1>1. up # <<>> /\ up' = Tail(up)
  BY DEF RelayReceives
<1>2. Head(up) \in UpFrame /\ Tail(up) \in Seq(UpFrame)
  BY <1>1 DEF FlowTyped
<1>3. Amount(up, ty, Stream)' = Amount(Tail(up), ty, Stream)
  BY <1>1 DEF Amount
<1>4. Amount(Tail(up), ty, Stream) \in Nat /\ Carried(Head(up), ty, Stream) \in Nat
  BY <1>2, FrameSize, AmountType DEF Carried
<1>5. up \in Seq(UpFrame) /\ \A x \in UpFrame : x.n \in Nat
  BY FrameSize DEF FlowTyped
<1>6. Amount(up, ty, Stream) = Carried(Head(up), ty, Stream) + Amount(Tail(up), ty, Stream)
  BY <1>1, <1>5, AmountTail
<1>7. \A a, b, c \in Nat : c = a + b => a <= c /\ b = c - a
  OBVIOUS
<1> QED
  BY <1>3, <1>4, <1>6, <1>7, WireAmounts

\* What a frame the client makes carries for the stream.
LEMMA ClientFrame ==
  ASSUME NEW ty \in FrameTypes, NEW s \in Sids, NEW n \in Nat
  PROVE  /\ F(ty, s, n) \in UpFrame
         /\ \A t : Carried(F(ty, s, n), t, Stream) = IF ty = t /\ s = Stream THEN n ELSE 0
BY ClientFrames DEF F, Carried

-----------------------------------------------------------------------------
\* The stream's queue, windows and credit are numbers of the expected range.
LEMMA HeldType ==
  ASSUME SMInv
  PROVE  /\ Total(recvQueues[Stream]) \in Nat /\ recvQueues[Stream] \in Seq(Nat)
         /\ DownHeld \in Nat
         /\ UpCredit \in Nat
         /\ Stream \in known => InitialWindow - recvWindows[Stream] \in Nat
         /\ recvWindows[Stream] \in Int
         /\ InitialWindow \in Nat
<1>1. recvQueues[Stream] \in Seq(Nat) /\ InitialWindow \in Nat /\ nextStreamId \in Nat
      /\ sendWindows[Stream] \in Nat /\ recvWindows[Stream] \in Int
  BY StreamAssumption, StreamManagerAssumption DEF SMInv, TypeOK
<1>2. Total(recvQueues[Stream]) \in Nat
  BY <1>1, TotalType
<1>3. Stream \in known => InitialWindow - recvWindows[Stream] \in Nat
  BY <1>1 DEF SMInv, WindowsInv
<1> QED
  BY <1>1, <1>2, <1>3 DEF DownHeld, UpCredit

\* What the reader holds changes only with the queue and the window.
LEMMA HeldSame ==
  ASSUME UNCHANGED <<known, recvQueues, recvWindows>>
  PROVE  DownHeld' = DownHeld
BY DEF DownHeld

\* What the client may send changes only with its table and its window.
LEMMA CreditSame ==
  ASSUME UNCHANGED <<known, nextStreamId, sendWindows>>
  PROVE  UpCredit' = UpCredit
BY DEF UpCredit

\* Opening a stream changes neither direction: the windows start full.
LEMMA AllocKeeps ==
  ASSUME SMInv, AllocStream
  PROVE  UpCredit' = UpCredit /\ DownHeld' = DownHeld
<1>1. /\ Stream \in Nat /\ nextStreamId \in Nat /\ InitialWindow \in Nat
      /\ \A s \in known : s \in Nat /\ s < nextStreamId
      /\ nextStreamId' = nextStreamId + 1 /\ known' = known \cup {nextStreamId}
  BY StreamAssumption, StreamManagerAssumption DEF SMInv, TypeOK, TablesInv, Sids, AllocStream
<1>2. CASE Stream = nextStreamId
  <2>1. Stream \notin known /\ Stream \in known'
    BY <1>1, <1>2
  <2>2. /\ recvQueues'[Stream] = <<>> /\ sendWindows'[Stream] = InitialWindow
        /\ recvWindows'[Stream] = InitialWindow
    BY <1>2, StreamAssumption DEF AllocStream, SMInv, TypeOK
  <2>3. Total(recvQueues'[Stream]) = 0
    BY <2>2, TotalEmpty
  <2> QED
    BY <1>1, <1>2, <2>1, <2>2, <2>3 DEF UpCredit, DownHeld
<1>3. CASE Stream # nextStreamId
  <2>1. /\ recvQueues'[Stream] = recvQueues[Stream] /\ sendWindows'[Stream] = sendWindows[Stream]
        /\ recvWindows'[Stream] = recvWindows[Stream]
    BY <1>3, StreamAssumption DEF AllocStream, SMInv, TypeOK
  <2>2. (Stream \in known' <=> Stream \in known) /\ (Stream >= nextStreamId' <=> Stream >= nextStreamId)
    BY <1>1, <1>3
  <2> QED
    BY <2>1, <2>2 DEF UpCredit, DownHeld
<1> QED
  BY <1>2, <1>3

\* stop() drops windows and queues: credit and held bytes are lost, none is made.
LEMMA ClearDrops ==
  ASSUME SMInv, ClearStreams
  PROVE  UpCredit' \in 0 .. UpCredit /\ DownHeld' \in 0 .. DownHeld
<1>1. /\ Stream \in Nat /\ nextStreamId \in Nat /\ nextStreamId' = nextStreamId /\ known' = {}
      /\ \A s \in known : s \in Nat /\ s < nextStreamId
  BY StreamAssumption, StreamManagerAssumption DEF SMInv, TypeOK, TablesInv, Sids, ClearStreams
<1>2. UpCredit' \in {0, UpCredit}
  BY <1>1 DEF UpCredit
<1>3. DownHeld' = 0
  BY <1>1 DEF DownHeld
<1> QED
  BY <1>2, <1>3, HeldType

\* A chunk of send_data is debited from the window of its stream, and only there.
LEMMA ChunkTaken ==
  ASSUME SMInv, NEW t \in Callers, NEW ok, SendChunk(t, ok)
  PROVE  /\ sendSid[t] \in Sids /\ ChunkOf(t) \in Nat
         /\ DownHeld' = DownHeld
         /\ sendSid[t] # Stream => UpCredit' = UpCredit
         /\ sendSid[t] = Stream => ChunkOf(t) <= UpCredit /\ UpCredit' = UpCredit - ChunkOf(t)
<1>1. sendSid[t] \in Sids /\ sendLeft[t] \in Nat /\ sendLeft[t] > 0 /\ DataChunk \in Nat \ {0}
  BY StreamManagerAssumption DEF SMInv, TypeOK, CallersInv, SendChunk, Testing
<1>2. ChunkOf(t) \in Nat /\ ChunkOf(t) > 0
  BY <1>1 DEF ChunkOf
<1>3. UNCHANGED <<known, nextStreamId, recvQueues, recvWindows>>
  BY DEF SendChunk, tableVars
<1>4. sendSid[t] # Stream => sendWindows'[Stream] = sendWindows[Stream]
  BY <1>1, StreamAssumption DEF SendChunk, SMInv, TypeOK
<1>5. CASE sendSid[t] = Stream
  <2>1. sendWindows[Stream] \in Nat /\ sendWindows'[Stream] = sendWindows[Stream] - ChunkOf(t)
    BY <1>5, StreamAssumption DEF SendChunk, SMInv, TypeOK
  <2>2. ~(SendWindow(Stream) < ChunkOf(t))
    BY <1>5 DEF SendChunk, Short
  <2>3. Stream \in known /\ ChunkOf(t) <= sendWindows[Stream]
    BY <1>2, <2>1, <2>2 DEF SendWindow
  <2> QED
    BY <1>1, <1>2, <1>3, <1>5, <2>1, <2>3, HeldSame DEF UpCredit
<1> QED
  BY <1>1, <1>2, <1>3, <1>4, <1>5, HeldSame DEF UpCredit

\* What a frame that is dispatched does to the windows of the stream.
LEMMA Dispatched ==
  ASSUME SMInv, NEW f \in Frame, DispatchFrame(f)
  PROVE  /\ UpCredit' = UpCredit \/ UpCredit' = UpCredit + Carried(f, "WINDOW", Stream)
         /\ DownHeld' = DownHeld \/ DownHeld' = DownHeld + Carried(f, "DATA", Stream)
<1>t. f.n \in Nat
  BY FrameSize
<1>q. recvQueues \in [Sids -> Seq(Nat)] /\ sendWindows \in [Sids -> Nat] /\ Stream \in Sids
  BY StreamAssumption DEF SMInv, TypeOK
<1>1. CASE DispatchIgnored(f)
  BY <1>1, CreditSame, HeldSame DEF DispatchIgnored, smVars
<1>2. CASE DispatchData(f) \/ DispatchClose(f)
  <2>1. UNCHANGED <<known, nextStreamId, sendWindows, recvWindows>>
    BY <1>2 DEF DispatchData, DispatchClose, tableVars
  <2>2. PICK n \in Nat : /\ recvQueues' = [recvQueues EXCEPT ![f.sid] = Append(@, n)]
                         /\ f.sid = Stream => n = Carried(f, "DATA", Stream)
    BY <1>t, <1>2 DEF DispatchData, DispatchClose, Carried, Eof
  <2>3. CASE f.sid = Stream
    <3>1. recvQueues'[Stream] = Append(recvQueues[Stream], n)
      BY <1>q, <2>2, <2>3
    <3>2. Total(recvQueues'[Stream]) = Total(recvQueues[Stream]) + n
      BY <1>q, <3>1, TotalAppend
    <3> QED
      BY <2>1, <2>2, <2>3, <3>2, CreditSame, HeldType DEF DownHeld
  <2>4. CASE f.sid # Stream
    <3>1. recvQueues'[Stream] = recvQueues[Stream]
      BY <1>q, <2>2, <2>4
    <3> QED
      BY <2>1, <3>1, CreditSame DEF DownHeld
  <2> QED
    BY <2>3, <2>4
<1>3. CASE DispatchWindow(f)
  <2>1. UNCHANGED <<known, nextStreamId, recvQueues, recvWindows>>
    BY <1>3 DEF DispatchWindow, tableVars
  <2>2. CASE f.sid = Stream
    <3>1. sendWindows'[Stream] = sendWindows[Stream] + f.n /\ Stream \in known
      BY <1>q, <1>3, <2>2 DEF DispatchWindow
    <3>2. Carried(f, "WINDOW", Stream) = f.n
      BY <1>3, <2>2 DEF DispatchWindow, Carried
    <3> QED
      BY <2>1, <3>1, <3>2, HeldSame DEF UpCredit
  <2>3. CASE f.sid # Stream
    <3>1. sendWindows'[Stream] = sendWindows[Stream]
      BY <1>q, <1>3, <2>3 DEF DispatchWindow
    <3> QED
      BY <2>1, <3>1, HeldSame DEF UpCredit
  <2> QED
    BY <2>2, <2>3
<1> QED
  BY <1>1, <1>2, <1>3 DEF DispatchFrame

\* Taking the end of a stream changes no window.
LEMMA EofTaken ==
  ASSUME SMInv, NEW s \in Sids, RecvEof(s)
  PROVE  UpCredit' = UpCredit /\ DownHeld' = DownHeld
<1>1. UNCHANGED <<known, nextStreamId, sendWindows, recvWindows>>
  BY DEF RecvEof, tableVars
<1>q. recvQueues \in [Sids -> Seq(Nat)] /\ Stream \in Sids
  BY StreamAssumption DEF SMInv, TypeOK
<1>2. CASE s = Stream
  <2> DEFINE q == recvQueues[Stream]
  <2>1. q # <<>> /\ Head(q) = 0 /\ recvQueues'[Stream] = Tail(q)
    BY <1>q, <1>2 DEF RecvEof, HasItem, Eof
  <2>2. q \in Seq(Nat) /\ Tail(q) \in Seq(Nat)
    BY <1>q, <2>1
  <2>3. Total(q) = 0 + Total(Tail(q)) /\ Total(Tail(q)) \in Nat
    <3> HIDE DEF q
    <3> QED
      BY <2>1, <2>2, TotalTail, TotalType
  <2> QED
    BY <1>1, <2>1, <2>3, CreditSame DEF DownHeld
<1>3. CASE s # Stream
  <2>1. recvQueues'[Stream] = recvQueues[Stream]
    BY <1>q, <1>3 DEF RecvEof
  <2> QED
    BY <1>1, <2>1, CreditSame DEF DownHeld
<1> QED
  BY <1>2, <1>3

\* What the reader owes is what it holds, less what is still queued; what it grants
\* it no longer holds.
LEMMA ChunkGranted ==
  ASSUME SMInv, NEW s \in Sids, RecvChunk(s)
  PROVE  /\ UpCredit' = UpCredit
         /\ GrantDue(s) \in Nat
         /\ s # Stream => DownHeld' = DownHeld
         /\ s = Stream => GrantDue(s) <= DownHeld /\ DownHeld' = DownHeld - GrantDue(s)
<1>1. UNCHANGED <<known, nextStreamId, sendWindows>> /\ s \in known
  BY DEF RecvChunk, tableVars
<1>2. GrantDue(s) \in Nat /\ Head(recvQueues[s]) \in Nat
  BY ChunkSizes
<1>q. /\ recvQueues \in [Sids -> Seq(Nat)] /\ recvWindows \in [Sids -> Int] /\ Stream \in Sids
      /\ InitialWindow \in Nat
  BY StreamAssumption, StreamManagerAssumption DEF SMInv, TypeOK
<1>3. CASE s = Stream
  <2> DEFINE q == recvQueues[Stream]
             w == InitialWindow - recvWindows[Stream]
             g == GrantDue(Stream)
  <2>1. q # <<>> /\ q \in Seq(Nat) /\ Head(q) \in Nat /\ recvQueues'[Stream] = Tail(q)
    BY <1>q, <1>2, <1>3 DEF RecvChunk, HasItem
  <2>2. Total(q) = Head(q) + Total(Tail(q)) /\ Total(Tail(q)) \in Nat
    <3>1. Tail(q) \in Seq(Nat)
      BY <2>1
    <3> HIDE DEF q
    <3> QED
      BY <2>1, <3>1, TotalTail, TotalType
  <2>3. recvWindows'[Stream] = InitialWindow - (Owed(Stream) - g)
    BY <1>q, <1>3 DEF RecvChunk
  <2>4. Owed(Stream) = w + Head(q) /\ w \in Nat
    <3>1. Owed(Stream) = InitialWindow - (recvWindows[Stream] - Head(q))
      BY DEF Owed
    <3>2. w \in Nat /\ recvWindows[Stream] \in Int
      BY <1>q, <1>1, <1>3, HeldType
    <3>3. \A h \in Nat : InitialWindow - (recvWindows[Stream] - h) = w + h
      BY <1>q
    <3> QED
      BY <2>1, <3>1, <3>2, <3>3
  <2>5. g <= w + Head(q) /\ g \in Nat
    BY <1>2, <1>3, <2>1, <2>4 DEF GrantDue
  <2>6. InitialWindow - recvWindows'[Stream] = w + Head(q) - g
    <3> HIDE DEF w, g, q
    <3> QED
      BY <1>q, <2>1, <2>3, <2>4, <2>5
  <2>7. DownHeld = Total(q) + w /\ DownHeld' = Total(Tail(q)) + (w + Head(q) - g)
    BY <1>1, <1>3, <2>1, <2>6 DEF DownHeld
  <2>8. g <= DownHeld /\ DownHeld' = DownHeld - g
    <3>1. \A x, y, h, rest \in Nat :
            x <= y + h => /\ x <= (h + rest) + y
                          /\ rest + (y + h - x) = ((h + rest) + y) - x
      OBVIOUS
    <3> HIDE DEF q, w, g
    <3>2. /\ g <= (Head(q) + Total(Tail(q))) + w
          /\ Total(Tail(q)) + (w + Head(q) - g) = ((Head(q) + Total(Tail(q))) + w) - g
      BY <2>1, <2>2, <2>4, <2>5, <3>1
    <3> QED
      BY <2>2, <2>7, <3>2, Zenon
  <2> QED
    BY <1>1, <1>2, <1>3, <2>8, CreditSame
<1>4. CASE s # Stream
  <2>1. recvQueues'[Stream] = recvQueues[Stream] /\ recvWindows'[Stream] = recvWindows[Stream]
    BY <1>q, <1>4 DEF RecvChunk
  <2> QED
    BY <1>1, <1>2, <1>4, <2>1, CreditSame DEF DownHeld
<1> QED
  BY <1>3, <1>4

-----------------------------------------------------------------------------
\* Client to relay: whatever the carrier does is a move of the channel.
LEMMA UpStep ==
  ASSUME SMInv, FlowTyped, [Next]_vars
  PROVE  UpMoves
<1> DEFINE c == UpCredit
           t == Amount(up, "DATA", Stream)
           h == relayHeld[Stream]
           r == Amount(down, "WINDOW", Stream)
<1>t. c \in Nat /\ t \in Nat /\ h \in Nat /\ r \in Nat
  BY HeldType, WireAmounts, StreamAssumption DEF FlowTyped
<1>0. t' = t /\ h' = h /\ r' = r /\ c' = c => UpMoves
  BY DEF UpMoves, Up!vars
<1>d. UNCHANGED down => r' = r
  BY DEF Amount
<1>u. UNCHANGED up => t' = t
  BY DEF Amount
<1>l. c' \in 0 .. c /\ t' \in 0 .. t /\ h' \in 0 .. h /\ r' \in 0 .. r => UpMoves
  BY DEF UpMoves, Up!Lose
<1>m. ASSUME NEW n \in Nat,
             \/ n <= c /\ c' = c - n /\ t' = t + n /\ h' = h /\ r' = r
             \/ n <= t /\ c' = c /\ t' = t - n /\ h' = h + n /\ r' = r
             \/ n <= h /\ c' = c /\ t' = t /\ h' = h - n /\ r' = r + n
             \/ n <= r /\ c' = c + n /\ t' = t /\ h' = h /\ r' = r - n
      PROVE  UpMoves
  BY <1>m DEF UpMoves, Up!Send, Up!Arrive, Up!Grant, Up!Return
<1>1. CASE UNCHANGED flowVars
  BY <1>0, <1>d, <1>u, <1>1, CreditSame DEF flowVars
<1>2. CASE OpenStream \/ \E s \in Sids : \/ CloseStream(s) \/ RecvDataEof(s)
                                         \/ RecvDataChunk(s) \/ GrantWindow(s)
  <2>1. c' = c
    <3>1. CASE OpenStream
      BY <3>1, AllocKeeps DEF OpenStream
    <3>2. ASSUME NEW s \in Sids, CloseStream(s) \/ GrantWindow(s)
          PROVE  c' = c
      BY <3>2, CreditSame DEF CloseStream, GrantWindow, DiscardOpen, smVars
    <3>3. ASSUME NEW s \in Sids, RecvDataEof(s) \/ RecvDataChunk(s)
          PROVE  c' = c
      BY <3>3, EofTaken, ChunkGranted DEF RecvDataEof, RecvDataChunk
    <3> QED
      BY <1>2, <3>1, <3>2, <3>3
  <2>2. t' = t
    <3>1. ASSUME NEW ty \in {"OPEN", "CLOSE", "WINDOW"}, NEW s \in Sids, NEW n \in Nat,
                 WsSend(F(ty, s, n))
          PROVE  t' = t
      <4>1. ty \in FrameTypes /\ ty # "DATA"
        BY DEF FrameTypes
      <4> QED
        BY <3>1, <4>1, ClientFrame, CarriesNothing
    <3>2. CASE OpenStream
      BY <1>u, <3>1, <3>2, StreamManagerAssumption DEF OpenStream, AllocStream
    <3>3. ASSUME NEW s \in Sids, CloseStream(s)
          PROVE  t' = t
      BY <3>1, <3>3 DEF CloseStream
    <3>4. ASSUME NEW s \in Sids, RecvDataEof(s)
          PROVE  t' = t
      BY <1>u, <3>4 DEF RecvDataEof
    <3>5. ASSUME NEW s \in Sids, RecvDataChunk(s)
          PROVE  t' = t
      BY <1>u, <3>1, <3>5, ChunkSizes DEF RecvDataChunk
    <3>6. ASSUME NEW s \in Sids, GrantWindow(s)
          PROVE  t' = t
      BY <3>1, <3>6 DEF GrantWindow, FlowTyped
    <3> QED
      BY <1>2, <3>2, <3>3, <3>4, <3>5, <3>6
  <2>3. UNCHANGED <<down, relayHeld>>
    BY <1>2 DEF OpenStream, CloseStream, RecvDataEof, RecvDataChunk, GrantWindow,
       UnchangedByStreamOp, relayVars
  <2> QED
    BY <1>0, <1>d, <2>1, <2>2, <2>3
<1>3. ASSUME NEW x \in Callers, SendsChunk(x)
      PROVE  UpMoves
  <2> DEFINE n == ChunkOf(x)
  <2>1. r' = r /\ h' = h
    BY <1>d, <1>3 DEF SendsChunk, relayVars
  <2>2. /\ sendSid[x] \in Sids /\ n \in Nat
        /\ sendSid[x] # Stream => c' = c
        /\ sendSid[x] = Stream => n <= c /\ c' = c - n
    BY <1>3, ChunkTaken DEF SendsChunk
  <2>3. /\ F("DATA", sendSid[x], n) \in UpFrame
        /\ Carried(F("DATA", sendSid[x], n), "DATA", Stream) = IF sendSid[x] = Stream THEN n ELSE 0
    BY <2>2, ClientFrame DEF FrameTypes
  <2>4. t' = t \/ t' = t + (IF sendSid[x] = Stream THEN n ELSE 0)
    BY <1>3, <2>3, ClientWrites DEF SendsChunk
  <2> HIDE DEF n, c, t, h, r
  <2>5. CASE sendSid[x] # Stream
    <3>1. t' = t /\ c' = c
      BY <1>t, <2>2, <2>4, <2>5
    <3> QED
      BY <1>0, <2>1, <3>1 DEF c, t, h, r
  <2>6. CASE sendSid[x] = Stream /\ t' = t
    <3>1. c' \in 0 .. c /\ t' \in 0 .. t /\ h' \in 0 .. h /\ r' \in 0 .. r
      BY <1>t, <2>1, <2>2, <2>6
    <3> QED
      BY <1>l, <3>1 DEF c, t, h, r
  <2>7. CASE sendSid[x] = Stream /\ t' = t + n
    BY <1>m, <2>1, <2>2, <2>7 DEF c, t, h, r
  <2> QED
    BY <2>4, <2>5, <2>6, <2>7
<1>4. CASE ClearStreams /\ UNCHANGED wireVars
  <2>1. c' \in 0 .. c
    BY <1>4, ClearDrops
  <2>2. t' = t /\ h' = h /\ r' = r
    BY <1>d, <1>u, <1>4 DEF wireVars, relayVars
  <2> HIDE DEF c, t, h, r
  <2>3. c' \in 0 .. c /\ t' \in 0 .. t /\ h' \in 0 .. h /\ r' \in 0 .. r
    BY <1>t, <2>1, <2>2
  <2> QED
    BY <1>l, <2>3 DEF c, t, h, r
<1>5. ASSUME NEW f \in Incoming, TakesFrame(f)
      PROVE  UpMoves
  <2> DEFINE n == Carried(f, "WINDOW", Stream)
  <2>1. f \in Frame /\ n \in Nat /\ n <= r /\ r' = r - n
    BY <1>5, ReaderTaken DEF TakesFrame
  <2>2. c' = c \/ c' = c + n
    BY <1>5, <2>1, Dispatched, CreditSame DEF TakesFrame, smVars
  <2>3. t' = t
    <3>1. \A k \in Nat : F("PONG", 0, k) \in UpFrame /\ Carried(F("PONG", 0, k), "DATA", Stream) = 0
      BY ClientFrames DEF F, Carried
    <3>2. f.n \in Nat
      BY <2>1, FrameSize
    <3>3. WsSend(F("PONG", 0, f.n)) => t' = t
      BY <3>1, <3>2, CarriesNothing
    <3> QED
      BY <1>5, <1>u, <3>3 DEF TakesFrame
  <2>4. h' = h
    BY <1>5 DEF TakesFrame, relayVars
  <2> HIDE DEF n, c, t, h, r
  <2>5. CASE c' = c
    <3>1. c' \in 0 .. c /\ t' \in 0 .. t /\ h' \in 0 .. h /\ r' \in 0 .. r
      BY <1>t, <2>1, <2>3, <2>4, <2>5
    <3> QED
      BY <1>l, <3>1 DEF c, t, h, r
  <2>6. CASE c' = c + n
    BY <1>m, <2>1, <2>3, <2>4, <2>6 DEF c, t, h, r
  <2> QED
    BY <2>2, <2>5, <2>6
<1>6. CASE RelayReceives
  <2> DEFINE n == Carried(Head(up), "DATA", Stream)
  <2>1. n \in Nat /\ n <= t /\ t' = t - n
    BY <1>6, RelayTaken
  <2>2. c' = c
    BY <1>6, CreditSame DEF RelayReceives, UnchangedByRelay, smVars
  <2>3. r' = r
    BY <1>d, <1>6 DEF RelayReceives
  <2>4. h' = h + n
    BY <1>6, StreamAssumption DEF RelayReceives, Carried
  <2> HIDE DEF n, c, t, h, r
  <2> QED
    BY <1>m, <2>1, <2>2, <2>3, <2>4 DEF c, t, h, r
<1>7. CASE RelayStep /\ ~RelayReceives
  <2>1. t' = t /\ c' = c
    <3>1. UNCHANGED <<up, smVars>>
      BY <1>7 DEF RelayStep, RelaySendsData, RelayGrants, RelayCloses, RelayPings, RelayByes,
         RelayWrites, UnchangedByRelay
    <3> QED
      BY <1>u, <3>1, CreditSame DEF smVars
  <2>2. ASSUME NEW f \in Frame, RelayWrites(f), f.type # "WINDOW" \/ f.sid # Stream,
               UNCHANGED h
        PROVE  UpMoves
    <3>1. Carried(f, "WINDOW", Stream) = 0
      BY <2>2 DEF Carried
    <3>2. r' = r
      BY <1>t, <2>2, <3>1, RelayWritten DEF RelayWrites
    <3> QED
      BY <1>0, <2>1, <2>2, <3>2
  <2>3. ASSUME NEW s \in Sids, NEW n \in FrameSizes, RelayGrants(s, n)
        PROVE  UpMoves
    <3>1. n \in Nat
      BY StreamManagerAssumption
    <3>2. F("WINDOW", s, n) \in Frame /\ RelayWrites(F("WINDOW", s, n))
      BY <2>3, RelayFrames DEF RelayGrants
    <3>3. CASE s # Stream
      <4>1. relayHeld'[Stream] = relayHeld[Stream]
        BY <2>3, <3>3, StreamAssumption DEF RelayGrants, FlowTyped
      <4>2. F("WINDOW", s, n).sid # Stream
        BY <3>3 DEF F
      <4> QED
        BY <2>2, <3>2, <4>1, <4>2
    <3>4. CASE s = Stream
      <4>1. n <= h /\ h' = h - n
        BY <2>3, <3>4, StreamAssumption DEF RelayGrants, FlowTyped
      <4>2. Carried(F("WINDOW", s, n), "WINDOW", Stream) = n
        BY <3>4 DEF F, Carried
      <4>3. r' = r + n
        BY <3>2, <4>2, RelayWritten DEF RelayWrites
      <4> QED
        BY <1>m, <2>1, <3>1, <4>1, <4>3
    <3> QED
      BY <3>3, <3>4
  <2>4. ASSUME NEW s \in Sids, NEW n \in FrameSizes, RelaySendsData(s, n)
        PROVE  UpMoves
    <3>1. F("DATA", s, n) \in Frame /\ F("DATA", s, n).type # "WINDOW"
      BY RelayFrames DEF F
    <3> QED
      BY <2>2, <2>4, <3>1 DEF RelaySendsData
  <2>5. ASSUME NEW s \in Sids, RelayCloses(s)
        PROVE  UpMoves
    <3>1. F("CLOSE", s, 0) \in Frame /\ F("CLOSE", s, 0).type # "WINDOW"
      BY RelayFrames DEF F
    <3> QED
      BY <2>2, <2>5, <3>1 DEF RelayCloses
  <2>6. ASSUME NEW n \in FrameSizes, RelayPings(n)
        PROVE  UpMoves
    <3>1. F("PING", 0, n) \in Frame /\ F("PING", 0, n).type # "WINDOW"
      BY RelayFrames DEF F
    <3> QED
      BY <2>2, <2>6, <3>1 DEF RelayPings, relayVars
  <2>7. CASE RelayByes
    <3>1. F("BYE", 0, 0) \in Frame /\ F("BYE", 0, 0).type # "WINDOW"
      BY RelayFrames DEF F
    <3> QED
      BY <2>2, <2>7, <3>1 DEF RelayByes
  <2> QED
    BY <1>7, <2>3, <2>4, <2>5, <2>6, <2>7 DEF RelayStep
<1> QED
  BY <1>1, <1>2, <1>3, <1>4, <1>5, <1>6, <1>7, FlowCases

-----------------------------------------------------------------------------
\* A consumer that leaves the grants to recv_data has nothing to grant.
NothingToGrant == toGrant = [s \in Sids |-> 0]

\* The carrier itself never leaves a grant to its reader.
LEMMA GrantsLeft == ~ReaderGrants /\ NothingToGrant /\ [Next]_vars => NothingToGrant'
<1> SUFFICES ASSUME ~ReaderGrants, NothingToGrant, [Next]_vars
             PROVE  NothingToGrant'
  OBVIOUS
<1> USE DEF NothingToGrant
<1>1. ASSUME NEW s \in Sids, RecvDataChunk(s) \/ GrantWindow(s)
      PROVE  NothingToGrant'
  BY <1>1 DEF RecvDataChunk, GrantWindow
<1>2. CASE ConnectStep \/ UserDisconnect
  BY <1>2 DEF ConnectStep, StartConnect, Bootstrapped, Upgraded, ConnectFails,
     UserDisconnect, wireVars
<1>3. CASE OpenStream
  BY <1>3 DEF OpenStream
<1>4. ASSUME NEW s \in Sids, CloseStream(s) \/ RecvDataWaits(s) \/ RecvDataEof(s)
      PROVE  NothingToGrant'
  BY <1>4 DEF CloseStream, RecvDataWaits, RecvDataEof
<1>5. ASSUME NEW t \in Callers, NEW s \in Sids, NEW n \in MessageSizes, CallSendData(t, s, n)
      PROVE  NothingToGrant'
  BY <1>5 DEF CallSendData
<1>6. ASSUME NEW t \in Callers, SendDataStep(t) \/ SendDataTimeout(t)
      PROVE  NothingToGrant'
  BY <1>6 DEF SendDataStep, SendDataTimeout
<1>7. ASSUME NEW d \in Discs, DisconnectStep(d) \/ StopStep(d)
      PROVE  NothingToGrant'
  BY <1>7 DEF DisconnectStep, TransportAfter, StopStep, wireVars
<1>8. CASE ReaderStep
  BY <1>8 DEF ReaderStep, ReaderStarts, ReaderDispatches, ReaderPongs, ReaderByes,
     ReaderCrashes, ReaderSeesClose, ReaderCancelled, ReaderFinishes, ReaderTakes,
     UnchangedByReader
<1>9. CASE SocketLost \/ RelayStep
  BY <1>9 DEF SocketLost, RelayStep, RelayReceives, RelaySendsData, RelayGrants,
     RelayCloses, RelayPings, RelayByes, RelayWrites, UnchangedByRelay
<1>10. CASE UNCHANGED vars
  BY <1>10 DEF vars, wireVars
<1> QED
  BY <1>1, <1>2, <1>3, <1>4, <1>5, <1>6, <1>7, <1>8, <1>9, <1>10 DEF Next, RecvDataStep

\* Relay to client, where recv_data alone grants.
LEMMA DownStepMoves ==
  ASSUME SMInv, FlowTyped, NothingToGrant, [Next]_vars
  PROVE  DownMoves
<1> DEFINE c == relayCredit[Stream]
           t == Amount(down, "DATA", Stream)
           h == DownHeld
           r == Amount(up, "WINDOW", Stream)
<1>t. c \in Nat /\ t \in Nat /\ h \in Nat /\ r \in Nat
  BY HeldType, WireAmounts, StreamAssumption DEF FlowTyped
<1>0. t' = t /\ h' = h /\ r' = r /\ c' = c => DownMoves
  BY DEF DownMoves, Down!vars
<1>d. UNCHANGED down => t' = t
  BY DEF Amount
<1>u. UNCHANGED up => r' = r
  BY DEF Amount
<1>l. c' \in 0 .. c /\ t' \in 0 .. t /\ h' \in 0 .. h /\ r' \in 0 .. r => DownMoves
  BY DEF DownMoves, Down!Lose
<1>m. ASSUME NEW n \in Nat,
             \/ n <= c /\ c' = c - n /\ t' = t + n /\ h' = h /\ r' = r
             \/ n <= t /\ c' = c /\ t' = t - n /\ h' = h + n /\ r' = r
             \/ n <= h /\ c' = c /\ t' = t /\ h' = h - n /\ r' = r + n
             \/ n <= r /\ c' = c + n /\ t' = t /\ h' = h /\ r' = r - n
      PROVE  DownMoves
  BY <1>m DEF DownMoves, Down!Send, Down!Arrive, Down!Grant, Down!Return
<1>1. CASE UNCHANGED flowVars
  BY <1>0, <1>d, <1>u, <1>1, HeldSame DEF flowVars
<1>w. ASSUME NEW ty \in {"OPEN", "CLOSE", "DATA"}, NEW s \in Sids, NEW n \in Nat,
             WsSend(F(ty, s, n))
      PROVE  r' = r
  <2>1. ty \in FrameTypes /\ ty # "WINDOW"
    BY DEF FrameTypes
  <2> QED
    BY <1>w, <2>1, ClientFrame, CarriesNothing
<1>2. CASE OpenStream \/ \E s \in Sids : CloseStream(s) \/ RecvDataEof(s)
  <2>1. h' = h
    <3>1. CASE OpenStream
      BY <3>1, AllocKeeps DEF OpenStream
    <3>2. ASSUME NEW s \in Sids, CloseStream(s) \/ RecvDataEof(s)
          PROVE  h' = h
      BY <3>2, HeldSame, EofTaken DEF CloseStream, DiscardOpen, RecvDataEof
    <3> QED
      BY <1>2, <3>1, <3>2
  <2>2. r' = r
    <3>1. CASE OpenStream
      BY <1>u, <1>w, <3>1 DEF OpenStream, AllocStream
    <3>2. ASSUME NEW s \in Sids, CloseStream(s) \/ RecvDataEof(s)
          PROVE  r' = r
      BY <1>u, <1>w, <3>2 DEF CloseStream, RecvDataEof
    <3> QED
      BY <1>2, <3>1, <3>2
  <2>3. UNCHANGED <<down, relayCredit>>
    BY <1>2 DEF OpenStream, CloseStream, RecvDataEof, UnchangedByStreamOp, relayVars
  <2> QED
    BY <1>0, <1>d, <2>1, <2>2, <2>3
<1>g. ASSUME NEW s \in Sids, GrantWindow(s)
      PROVE  FALSE
  BY <1>g DEF GrantWindow, NothingToGrant
<1>c. ASSUME NEW s \in Sids, RecvDataChunk(s)
      PROVE  DownMoves
  <2> DEFINE n == GrantDue(s)
  <2>1. t' = t /\ c' = c
    BY <1>c, <1>d DEF RecvDataChunk, UnchangedByStreamOp, relayVars
  <2>2. /\ n \in Nat
        /\ s # Stream => h' = h
        /\ s = Stream => n <= h /\ h' = h - n
    BY <1>c, ChunkGranted DEF RecvDataChunk
  <2>3. r' = r \/ r' = r + (IF s = Stream THEN n ELSE 0)
    <3>1. CASE WsSend(F("WINDOW", s, n))
      <4>1. /\ F("WINDOW", s, n) \in UpFrame
            /\ Carried(F("WINDOW", s, n), "WINDOW", Stream) = IF s = Stream THEN n ELSE 0
        BY <2>2, ClientFrame DEF FrameTypes
      <4> QED
        BY <3>1, <4>1, ClientWrites
    <3>2. CASE UNCHANGED up
      BY <1>u, <3>2
    <3> QED
      BY <1>c, <3>1, <3>2 DEF RecvDataChunk
  <2> HIDE DEF n, c, t, h, r
  <2>5. CASE s # Stream
    <3>1. r' = r /\ h' = h
      BY <1>t, <2>2, <2>3, <2>5
    <3> QED
      BY <1>0, <2>1, <3>1 DEF c, t, h, r
  <2>6. CASE s = Stream /\ r' = r
    <3>1. c' \in 0 .. c /\ t' \in 0 .. t /\ h' \in 0 .. h /\ r' \in 0 .. r
      BY <1>t, <2>1, <2>2, <2>6
    <3> QED
      BY <1>l, <3>1 DEF c, t, h, r
  <2>7. CASE s = Stream /\ r' = r + n
    BY <1>m, <2>1, <2>2, <2>7 DEF c, t, h, r
  <2> QED
    BY <2>3, <2>5, <2>6, <2>7
<1>3. ASSUME NEW x \in Callers, SendsChunk(x)
      PROVE  DownMoves
  <2>1. t' = t /\ c' = c
    BY <1>d, <1>3 DEF SendsChunk, relayVars
  <2>2. h' = h /\ sendSid[x] \in Sids /\ ChunkOf(x) \in Nat
    BY <1>3, ChunkTaken DEF SendsChunk
  <2>3. r' = r
    BY <1>3, <1>w, <2>2 DEF SendsChunk
  <2> QED
    BY <1>0, <2>1, <2>2, <2>3
<1>4. CASE ClearStreams /\ UNCHANGED wireVars
  <2>1. h' \in 0 .. h
    BY <1>4, ClearDrops
  <2>2. t' = t /\ c' = c /\ r' = r
    BY <1>d, <1>u, <1>4 DEF wireVars, relayVars
  <2> HIDE DEF c, t, h, r
  <2>3. c' \in 0 .. c /\ t' \in 0 .. t /\ h' \in 0 .. h /\ r' \in 0 .. r
    BY <1>t, <2>1, <2>2
  <2> QED
    BY <1>l, <2>3 DEF c, t, h, r
<1>5. ASSUME NEW f \in Incoming, TakesFrame(f)
      PROVE  DownMoves
  <2> DEFINE n == Carried(f, "DATA", Stream)
  <2>1. f \in Frame /\ n \in Nat /\ n <= t /\ t' = t - n
    BY <1>5, ReaderTaken DEF TakesFrame
  <2>2. h' = h \/ h' = h + n
    BY <1>5, <2>1, Dispatched, HeldSame DEF TakesFrame, smVars
  <2>3. r' = r
    <3>1. \A k \in Nat : F("PONG", 0, k) \in UpFrame /\ Carried(F("PONG", 0, k), "WINDOW", Stream) = 0
      BY ClientFrames DEF F, Carried
    <3>2. f.n \in Nat
      BY <2>1, FrameSize
    <3>3. WsSend(F("PONG", 0, f.n)) => r' = r
      BY <3>1, <3>2, CarriesNothing
    <3> QED
      BY <1>5, <1>u, <3>3 DEF TakesFrame
  <2>4. c' = c
    BY <1>5 DEF TakesFrame, relayVars
  <2> HIDE DEF n, c, t, h, r
  <2>5. CASE h' = h
    <3>1. c' \in 0 .. c /\ t' \in 0 .. t /\ h' \in 0 .. h /\ r' \in 0 .. r
      BY <1>t, <2>1, <2>3, <2>4, <2>5
    <3> QED
      BY <1>l, <3>1 DEF c, t, h, r
  <2>6. CASE h' = h + n
    BY <1>m, <2>1, <2>3, <2>4, <2>6 DEF c, t, h, r
  <2> QED
    BY <2>2, <2>5, <2>6
<1>6. CASE RelayReceives
  <2> DEFINE n == Carried(Head(up), "WINDOW", Stream)
  <2>1. n \in Nat /\ n <= r /\ r' = r - n
    BY <1>6, RelayTaken
  <2>2. h' = h
    BY <1>6, HeldSame DEF RelayReceives, UnchangedByRelay, smVars
  <2>3. t' = t
    BY <1>d, <1>6 DEF RelayReceives
  <2>4. c' = c + n
    BY <1>6, StreamAssumption DEF RelayReceives, Carried
  <2> HIDE DEF n, c, t, h, r
  <2> QED
    BY <1>m, <2>1, <2>2, <2>3, <2>4 DEF c, t, h, r
<1>7. CASE RelayStep /\ ~RelayReceives
  <2>1. r' = r /\ h' = h
    <3>1. UNCHANGED <<up, smVars>>
      BY <1>7 DEF RelayStep, RelaySendsData, RelayGrants, RelayCloses, RelayPings, RelayByes,
         RelayWrites, UnchangedByRelay
    <3> QED
      BY <1>u, <3>1, HeldSame DEF smVars
  <2>2. ASSUME NEW f \in Frame, RelayWrites(f), f.type # "DATA" \/ f.sid # Stream,
               UNCHANGED c
        PROVE  DownMoves
    <3>1. Carried(f, "DATA", Stream) = 0
      BY <2>2 DEF Carried
    <3>2. t' = t
      BY <1>t, <2>2, <3>1, RelayWritten DEF RelayWrites
    <3> QED
      BY <1>0, <2>1, <2>2, <3>2
  <2>3. ASSUME NEW s \in Sids, NEW n \in FrameSizes, RelaySendsData(s, n)
        PROVE  DownMoves
    <3>1. n \in Nat
      BY StreamManagerAssumption
    <3>2. F("DATA", s, n) \in Frame /\ RelayWrites(F("DATA", s, n))
      BY <2>3, RelayFrames DEF RelaySendsData
    <3>3. CASE s # Stream
      <4>1. relayCredit'[Stream] = relayCredit[Stream]
        BY <2>3, <3>3, StreamAssumption DEF RelaySendsData, FlowTyped
      <4>2. F("DATA", s, n).sid # Stream
        BY <3>3 DEF F
      <4> QED
        BY <2>2, <3>2, <4>1, <4>2
    <3>4. CASE s = Stream
      <4>1. n <= c /\ c' = c - n
        BY <2>3, <3>4, StreamAssumption DEF RelaySendsData, FlowTyped
      <4>2. Carried(F("DATA", s, n), "DATA", Stream) = n
        BY <3>4 DEF F, Carried
      <4>3. t' = t + n
        BY <3>2, <4>2, RelayWritten DEF RelayWrites
      <4> QED
        BY <1>m, <2>1, <3>1, <4>1, <4>3
    <3> QED
      BY <3>3, <3>4
  <2>4. ASSUME NEW s \in Sids, NEW n \in FrameSizes, RelayGrants(s, n)
        PROVE  DownMoves
    <3>1. F("WINDOW", s, n) \in Frame /\ F("WINDOW", s, n).type # "DATA"
      BY RelayFrames DEF F
    <3> QED
      BY <2>2, <2>4, <3>1 DEF RelayGrants
  <2>5. ASSUME NEW s \in Sids, RelayCloses(s)
        PROVE  DownMoves
    <3>1. F("CLOSE", s, 0) \in Frame /\ F("CLOSE", s, 0).type # "DATA"
      BY RelayFrames DEF F
    <3> QED
      BY <2>2, <2>5, <3>1 DEF RelayCloses
  <2>6. ASSUME NEW n \in FrameSizes, RelayPings(n)
        PROVE  DownMoves
    <3>1. F("PING", 0, n) \in Frame /\ F("PING", 0, n).type # "DATA"
      BY RelayFrames DEF F
    <3> QED
      BY <2>2, <2>6, <3>1 DEF RelayPings, relayVars
  <2>7. CASE RelayByes
    <3>1. F("BYE", 0, 0) \in Frame /\ F("BYE", 0, 0).type # "DATA"
      BY RelayFrames DEF F
    <3> QED
      BY <2>2, <2>7, <3>1 DEF RelayByes
  <2> QED
    BY <1>7, <2>3, <2>4, <2>5, <2>6, <2>7 DEF RelayStep
<1> QED
  BY <1>1, <1>2, <1>g, <1>c, <1>3, <1>4, <1>5, <1>6, <1>7, FlowCases

-----------------------------------------------------------------------------
\* At the start each direction has its whole window and nothing under way.
LEMMA FlowInit ==
  ASSUME Init
  PROVE  /\ Up!Init /\ Up!TypeOK /\ Up!Conserved
         /\ Down!Init /\ Down!TypeOK /\ Down!Conserved
<1>1. UpCredit = InitialWindow /\ DownHeld = 0 /\ InitialWindow \in Nat
  BY StreamAssumption, StreamManagerAssumption DEF Init, SMInit, UpCredit, DownHeld, Sids
<1>2. \A ty : Amount(up, ty, Stream) = 0 /\ Amount(down, ty, Stream) = 0
  BY AmountEmpty DEF Init
<1>3. relayHeld[Stream] = 0 /\ relayCredit[Stream] = InitialWindow
  BY StreamAssumption DEF Init
<1> QED
  BY <1>1, <1>2, <1>3 DEF Up!Init, Up!TypeOK, Up!Conserved, Down!Init, Down!TypeOK, Down!Conserved

\* Client to relay, whatever the window, the chunk size and the interleaving: each
\* step of the carrier and of the relay, from open_stream to a teardown that loses
\* frames, is a step of the credit channel or a stutter. The debit of send_data, the
\* WINDOW frame and _dispatch_frame's credit make no byte of credit twice.
THEOREM UpImplements == Spec => UpImplementsChannel
<1>1. CarrierTypeOK => FlowTyped
  BY DEF CarrierTypeOK, WireTypeOK, FlowTyped
<1>2. Init => Up!Init /\ Up!TypeOK /\ Up!Conserved
  BY FlowInit
<1>3. SMInv /\ FlowTyped /\ Up!TypeOK /\ Up!Conserved /\ [Next]_vars
        => [Up!Next]_(Up!vars) /\ Up!TypeOK' /\ Up!Conserved'
  BY UpStep, UpMovesAreSteps
<1> QED
  BY <1>1, <1>2, <1>3, CarrierStreamInvariant, CarrierTypeCorrect, PTL
     DEF Spec, UpImplementsChannel, Up!Spec

\* Relay to client, for a reader that leaves the grants to recv_data (it does not call
\* send_window itself): what recv_data grants is what it took, once. With a reader that
\* calls it as well the claim is false (the run ws_double_grant).
THEOREM DownImplements ==
  ASSUME ~ReaderGrants
  PROVE  Spec => DownImplementsChannel
<1>1. CarrierTypeOK => FlowTyped
  BY DEF CarrierTypeOK, WireTypeOK, FlowTyped
<1>2. Init => Down!Init /\ Down!TypeOK /\ Down!Conserved /\ NothingToGrant
  BY FlowInit DEF Init, NothingToGrant
<1>3. SMInv /\ FlowTyped /\ NothingToGrant /\ Down!TypeOK /\ Down!Conserved /\ [Next]_vars
        => [Down!Next]_(Down!vars) /\ Down!TypeOK' /\ Down!Conserved'
  BY DownStepMoves, DownMovesAreSteps
<1>4. NothingToGrant /\ [Next]_vars => NothingToGrant'
  BY GrantsLeft
<1> QED
  BY <1>1, <1>2, <1>3, <1>4, CarrierStreamInvariant, CarrierTypeCorrect, PTL
     DEF Spec, DownImplementsChannel, Down!Spec

\* Bytes that are lost leave the rest within the window.
LEMMA LossConserves ==
  \A w, x, y, z, n \in Nat : w + x + y + z <= n =>
    \A a \in 0 .. w, b \in 0 .. x, c \in 0 .. y, d \in 0 .. z :
      {a, b, c, d} \subseteq Nat /\ a + b + c + d <= n
OBVIOUS

\* Every step of the client's channel moves bytes between the four places or loses them.
LEMMA UpConserves ==
  ASSUME Up!TypeOK, Up!Conserved, [Up!Next]_(Up!vars)
  PROVE  Up!TypeOK' /\ Up!Conserved'
<1> USE StreamManagerAssumption DEF Up!TypeOK, Up!Conserved
<1>1. ASSUME NEW n \in 1 .. InitialWindow,
             Up!Send(n) \/ Up!Arrive(n) \/ Up!Grant(n) \/ Up!Return(n)
      PROVE  Up!TypeOK' /\ Up!Conserved'
  BY <1>1 DEF Up!Send, Up!Arrive, Up!Grant, Up!Return
<1>2. CASE Up!Lose
  BY <1>2, LossConserves DEF Up!Lose
<1>3. CASE UNCHANGED Up!vars
  BY <1>3 DEF Up!vars
<1> QED
  BY <1>1, <1>2, <1>3 DEF Up!Next

\* Every step of the relay's channel moves bytes between the four places or loses them.
LEMMA DownConserves ==
  ASSUME Down!TypeOK, Down!Conserved, [Down!Next]_(Down!vars)
  PROVE  Down!TypeOK' /\ Down!Conserved'
<1> USE StreamManagerAssumption DEF Down!TypeOK, Down!Conserved
<1>1. ASSUME NEW n \in 1 .. InitialWindow,
             Down!Send(n) \/ Down!Arrive(n) \/ Down!Grant(n) \/ Down!Return(n)
      PROVE  Down!TypeOK' /\ Down!Conserved'
  BY <1>1 DEF Down!Send, Down!Arrive, Down!Grant, Down!Return
<1>2. CASE Down!Lose
  BY <1>2, LossConserves DEF Down!Lose
<1>3. CASE UNCHANGED Down!vars
  BY <1>3 DEF Down!vars
<1> QED
  BY <1>1, <1>2, <1>3 DEF Down!Next

\* What the credit channel promises, in both directions and for every window: neither
\* end ever exceeds the window.
THEOREM ChannelNeverOverrun ==
  (Up!Spec => []Up!NeverOverrun) /\ (Down!Spec => []Down!NeverOverrun)
<1>1. Up!Init => Up!TypeOK /\ Up!Conserved
  BY StreamManagerAssumption DEF Up!Init, Up!TypeOK, Up!Conserved
<1>2. Down!Init => Down!TypeOK /\ Down!Conserved
  BY StreamManagerAssumption DEF Down!Init, Down!TypeOK, Down!Conserved
<1>3. Up!TypeOK /\ Up!Conserved => Up!NeverOverrun
  BY StreamManagerAssumption DEF Up!TypeOK, Up!Conserved, Up!NeverOverrun
<1>4. Down!TypeOK /\ Down!Conserved => Down!NeverOverrun
  BY StreamManagerAssumption DEF Down!TypeOK, Down!Conserved, Down!NeverOverrun
<1>5. Up!TypeOK /\ Up!Conserved /\ [Up!Next]_(Up!vars) => Up!TypeOK' /\ Up!Conserved'
  BY UpConserves
<1>6. Down!TypeOK /\ Down!Conserved /\ [Down!Next]_(Down!vars) => Down!TypeOK' /\ Down!Conserved'
  BY DownConserves
<1>7. Up!Spec => []Up!NeverOverrun
  BY <1>1, <1>3, <1>5, PTL DEF Up!Spec
<1>8. Down!Spec => []Down!NeverOverrun
  BY <1>2, <1>4, <1>6, PTL DEF Down!Spec
<1> QED
  BY <1>7, <1>8

\* The client never sends more than the relay has granted: what is on its way and
\* what the relay holds fit the window.
THEOREM UpNeverOverruns == Spec => []Up!NeverOverrun
BY UpImplements, ChannelNeverOverrun DEF UpImplementsChannel

\* The relay is never granted more than the window: what it sends and the client has
\* not read fits the window, for a reader that leaves the grants to recv_data.
THEOREM DownNeverOverruns ==
  ASSUME ~ReaderGrants
  PROVE  Spec => []Down!NeverOverrun
BY DownImplements, ChannelNeverOverrun DEF DownImplementsChannel
=============================================================================
