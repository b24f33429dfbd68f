------------------------- MODULE LanesCarrierProofs -------------------------
(***************************************************************************)
(* Proofs about LanesCarrier: it implements StreamManager, everything it   *)
(* keeps has its type, and what one lane goes through stays in that lane,  *)
(* and once disconnected it is closed.                                     *)
(***************************************************************************)
EXTENDS LanesCarrier, StreamManagerProofs, BaseCarrierProofs

\* What a lane's reader does to the streams is a step of StreamManager.
LEMMA LaneStep ==
  ASSUME NEW s \in Sids,
         \/ LaneStarts(s) \/ LaneSeesClose(s) \/ LaneCancels(s) \/ LaneInvalid(s)
         \/ \E f \in Frame : LaneFrame(s, f)
  PROVE  [SMNext]_smVars
<1>1. \A pc : LaneEnds(s, pc) => SMNext
  BY DEF LaneEnds, SMNext
<1>2. CASE LaneStarts(s)
  BY <1>2 DEF LaneStarts
<1>3. CASE LaneSeesClose(s) \/ LaneCancels(s) \/ LaneInvalid(s)
  BY <1>1, <1>3 DEF LaneSeesClose, LaneCancels, LaneInvalid
<1>4. ASSUME NEW f \in Frame, LaneFrame(s, f)
      PROVE  [SMNext]_smVars
  <2>1. DispatchFrame(f) => SMNext
    BY DEF SMNext
  <2> QED
    BY <1>1, <1>4, <2>1 DEF LaneFrame, LaneDispatches, LaneSkips, LaneCrashes
<1> QED
  BY <1>2, <1>3, <1>4

\* Every step of the carrier is a step of StreamManager, or changes none of its
\* variables.
LEMMA LanesStep == [Next]_vars => [SMNext]_smVars
<1> SUFFICES ASSUME [Next]_vars
             PROVE  [SMNext]_smVars
  OBVIOUS
<1>1. CASE ConnectStep \/ UserDisconnect
  BY <1>1 DEF ConnectStep, StartConnect, Bootstrapped, ConnectFails, UserDisconnect
<1>2. CASE OpenStream
  BY <1>2 DEF OpenStream, SMNext
<1>3. ASSUME NEW s \in Sids, OpenStep(s)
      PROVE  [SMNext]_smVars
  <2>1. CASE OpenFails(s)
    BY <2>1 DEF OpenFails, SMNext
  <2>2. ASSUME NEW ok \in BOOLEAN, OpenReturns(s, ok)
        PROVE  [SMNext]_smVars
    BY <2>2 DEF OpenReturns
  <2> QED
    BY <1>3, <2>1, <2>2 DEF OpenStep
<1>4. ASSUME NEW c \in Closings, NEW s \in Sids,
             CloseStream(c, s) \/ CloseStreamGoesOn(c, s)
      PROVE  [SMNext]_smVars
  BY <1>4 DEF CloseStream, CloseStreamGoesOn, CloseStreamAfter, SMNext
<1>5. ASSUME NEW t \in Callers, NEW s \in Sids, NEW n \in MessageSizes,
             CallSendData(t, s, n)
      PROVE  [SMNext]_smVars
  BY <1>5 DEF CallSendData, SMNext
<1>6. ASSUME NEW t \in Callers, SendDataStep(t)
      PROVE  [SMNext]_smVars
  <2>1. (laneWs[sendSid[t]] = "open") \in BOOLEAN
    OBVIOUS
  <2>2. SenderStep(t)
    BY <1>6, <2>1 DEF SendDataStep, SenderStep
  <2> QED
    BY <2>2 DEF SMNext
<1>7. ASSUME NEW s \in Sids, RecvDataWaits(s) \/ RecvDataReturns(s)
      PROVE  [SMNext]_smVars
  BY <1>7 DEF RecvDataWaits, RecvDataReturns, SMNext
<1>8. CASE DisconnectStep
  BY <1>8 DEF DisconnectStep, SMNext
<1>9. CASE StopStep
  BY <1>9 DEF StopStep
<1>10. ASSUME NEW s \in Sids, LaneLost(s)
       PROVE  [SMNext]_smVars
  BY <1>10 DEF LaneLost
<1>11. CASE UNCHANGED vars
  BY <1>11 DEF vars
<1> QED
  BY <1>1, <1>2, <1>3, <1>4, <1>5, <1>6, <1>7, <1>8, <1>9, <1>10, <1>11, LaneStep
     DEF Next

\* The lanes carrier implements StreamManager.
THEOREM LanesImplementStreamManager == Spec => SMSpec
<1>1. Init => SMInit
  BY DEF Init
<1> QED
  BY <1>1, LanesStep, PTL DEF Spec, SMSpec

\* Hence its streams keep the inductive invariant of StreamManager, and nobody
\* waits on a stream the carrier dropped.
THEOREM LanesStreamInvariant == Spec => []SMInv
BY LanesImplementStreamManager, StreamInvariant, PTL

-----------------------------------------------------------------------------
(* Types. *)

\* The steps of connect, of the user and of disconnect keep the type of the
\* life cycle; the other steps leave it alone.
LEMMA LanesBaseStep == BaseTypeOK /\ [Next]_vars => BaseTypeOK'
<1> SUFFICES ASSUME BaseTypeOK, [Next]_vars
             PROVE  BaseTypeOK'
  OBVIOUS
<1>1. CASE ConnectStep
  BY <1>1, ConnectTyped DEF ConnectStep, StartConnect, Bootstrapped, ConnectFails
<1>2. CASE UserDisconnect
  BY <1>2, ConnectTyped DEF UserDisconnect
<1>3. CASE DisconnectStep
  <2>1. "user" \in Discs
    BY Pcs
  <2>2. reader' \in ReaderPcs
    BY <1>3 DEF DisconnectStep, BaseTypeOK, LifeCycleTypeOK
  <2> QED
    BY <1>3, <2>1, <2>2, DisconnectTyped DEF DisconnectStep
<1>4. CASE StopStep
  <2>1. UNCHANGED <<connectVars, reader, connected, disc>> /\ "user" \in Discs
    BY <1>4, Pcs DEF StopStep
  <2>2. \E pc \in StopPcs : stop' = [stop EXCEPT !["user"] = pc]
    BY <1>4, Pcs DEF StopStep, StopTakes, StopCloses
  <2>3. StopSkips("user") \/ UNCHANGED <<readerRef, cancelled>>
    BY <1>4 DEF StopStep, StopTakes, StopCloses
  <2> QED
    BY <2>1, <2>2, <2>3, StopTyped
<1>5. CASE UNCHANGED baseVars
  BY <1>5, BaseUnchangedTyped
<1>6. ASSUME NEW s \in Sids
      PROVE  /\ OpenStep(s) => UNCHANGED baseVars
             /\ \A c \in Closings :
                  CloseStream(c, s) \/ CloseStreamGoesOn(c, s) => UNCHANGED baseVars
             /\ RecvDataWaits(s) \/ RecvDataReturns(s) \/ LaneLost(s) => UNCHANGED baseVars
             /\ LaneStarts(s) \/ LaneSeesClose(s) \/ LaneCancels(s) => UNCHANGED baseVars
             /\ LaneInvalid(s) => UNCHANGED baseVars
             /\ \A f \in Frame : LaneFrame(s, f) => UNCHANGED baseVars
  BY DEF OpenStep, OpenFails, OpenReturns, CloseStream, CloseStreamGoesOn,
     CloseStreamAfter, RecvDataWaits, RecvDataReturns, LaneLost, LaneStarts,
     LaneSeesClose, LaneCancels, LaneInvalid, LaneFrame, LaneDispatches, LaneSkips,
     LaneCrashes, LaneTakes, UnchangedByLane
<1>7. OpenStream => UNCHANGED baseVars
  BY DEF OpenStream
<1>8. \A t \in Callers : SendDataStep(t) => UNCHANGED baseVars
  BY DEF SendDataStep
<1>9. \A t \in Callers, s \in Sids, n \in MessageSizes :
        CallSendData(t, s, n) => UNCHANGED baseVars
  BY DEF CallSendData
<1>10. UNCHANGED vars => UNCHANGED baseVars
  BY DEF vars
<1> QED
  BY <1>1, <1>2, <1>3, <1>4, <1>5, <1>6, <1>7, <1>8, <1>9, <1>10 DEF Next

\* The steps of _close_lane, whoever runs it.
LEMMA LaneCloseTyped ==
  ASSUME LaneTypeOK, NEW w \in Closers, NEW s \in Sids,
         LaneCloseBegins(w, s) \/ LaneCloseGoesOn(w, s)
  PROVE  /\ laneWs' \in [Sids -> {"none", "opening", "open", "broken", "closed"}]
         /\ laneCancelled' \in [Sids -> BOOLEAN]
         /\ closing' \in [Closers -> [Sids -> {"idle", "join", "shut"}]]
<1>1. \A pc \in {"idle", "join", "shut"} :
        [closing EXCEPT ![w][s] = pc] \in [Closers -> [Sids -> {"idle", "join", "shut"}]]
  BY DEF LaneTypeOK
<1>2. closing' \in [Closers -> [Sids -> {"idle", "join", "shut"}]]
  BY <1>1 DEF LaneCloseBegins, LaneCloseGoesOn, LaneJoins, LaneShuts
<1> QED
  BY <1>2 DEF LaneTypeOK, LaneCloseBegins, LaneCloseGoesOn, LaneJoins, LaneShuts

\* Every step keeps the type of the lanes.
LEMMA LaneTyped == TypeOK /\ LaneTypeOK /\ [Next]_vars => LaneTypeOK'
<1> SUFFICES ASSUME TypeOK, LaneTypeOK, [Next]_vars
             PROVE  LaneTypeOK'
  OBVIOUS
<1>1. CASE ConnectStep \/ UserDisconnect \/ UNCHANGED vars
  BY <1>1 DEF LaneTypeOK, ConnectStep, StartConnect, Bootstrapped, ConnectFails,
     UserDisconnect, vars, laneVars
<1>2. CASE OpenStream
  BY <1>2 DEF LaneTypeOK, OpenStream
<1>3. ASSUME NEW s \in Sids, OpenStep(s)
      PROVE  LaneTypeOK'
  <2>1. CASE OpenFails(s)
    BY <2>1 DEF LaneTypeOK, OpenFails
  <2>2. ASSUME NEW ok \in BOOLEAN, OpenReturns(s, ok)
        PROVE  LaneTypeOK'
    BY <2>2 DEF LaneTypeOK, LanePcs, OpenReturns
  <2> QED
    BY <1>3, <2>1, <2>2 DEF OpenStep
<1>4. ASSUME NEW c \in Closings, NEW s \in Sids,
             CloseStream(c, s) \/ CloseStreamGoesOn(c, s)
      PROVE  LaneTypeOK'
  <2>1. c \in Closers
    BY DEF Closers
  <2>2. lanes' \in SUBSET Sids
    BY <1>4 DEF LaneTypeOK, CloseStream, CloseStreamGoesOn, CloseStreamAfter
  <2> QED
    BY <1>4, <2>1, <2>2, LaneCloseTyped
       DEF LaneTypeOK, CloseStream, CloseStreamGoesOn, CloseStreamAfter
<1>5. ASSUME NEW s \in Sids, RecvDataWaits(s) \/ RecvDataReturns(s) \/ LaneLost(s)
      PROVE  LaneTypeOK'
  BY <1>5 DEF LaneTypeOK, RecvDataWaits, RecvDataReturns, LaneLost, laneVars
<1>6. ASSUME NEW t \in Callers, SendDataStep(t)
      PROVE  LaneTypeOK'
  BY <1>6 DEF LaneTypeOK, SendDataStep, laneVars
<1>7. ASSUME NEW t \in Callers, NEW s \in Sids, NEW n \in MessageSizes,
             CallSendData(t, s, n)
      PROVE  LaneTypeOK'
  BY <1>7 DEF LaneTypeOK, CallSendData, laneVars
<1>8. CASE DisconnectStep
  BY <1>8 DEF LaneTypeOK, DisconnectStep
<1>9. CASE StopStep
  <2>1. CASE StopTakes
    BY <1>9, <2>1 DEF LaneTypeOK, StopStep, StopTakes
  <2>2. ASSUME NEW s \in Sids, StopCloses(s)
        PROVE  LaneTypeOK'
    <3>1. "stop" \in Closers
      BY DEF Closers
    <3>2. LaneCloseBegins("stop", s) \/ LaneCloseGoesOn("stop", s)
      BY <2>2 DEF StopCloses
    <3>3. toClose' \in SUBSET Sids
      BY <2>2 DEF LaneTypeOK, StopCloses
    <3> QED
      BY <1>9, <2>2, <3>1, <3>2, <3>3, LaneCloseTyped DEF LaneTypeOK, StopStep, StopCloses
  <2> QED
    BY <1>9, <2>1, <2>2 DEF StopStep
<1>10. ASSUME NEW s \in Sids, LaneStarts(s) \/ LaneSeesClose(s) \/ LaneCancels(s)
       PROVE  LaneTypeOK'
  BY <1>10 DEF LaneTypeOK, LanePcs, Ended, LaneStarts, LaneSeesClose, LaneCancels,
     LaneEnds, UnchangedByLane
<1>11. ASSUME NEW s \in Sids,
              LaneTakes(s),
              (\E pc \in Ended : LaneEnds(s, pc)) \/ UNCHANGED laneReader
       PROVE  LaneTypeOK'
  BY <1>11 DEF LaneTypeOK, LanePcs, LaneTakes, LaneEnds, UnchangedByLane
<1>12. ASSUME NEW s \in Sids, LaneInvalid(s)
       PROVE  LaneTypeOK'
  BY <1>11, <1>12 DEF LaneInvalid, Ended
<1>13. ASSUME NEW s \in Sids, NEW f \in Frame, LaneFrame(s, f)
       PROVE  LaneTypeOK'
  BY <1>11, <1>13 DEF LaneFrame, LaneDispatches, LaneSkips, LaneCrashes, Ended
<1> QED
  BY <1>1, <1>2, <1>3, <1>4, <1>5, <1>6, <1>7, <1>8, <1>9, <1>10, <1>12, <1>13 DEF Next

\* Everything the carrier and its lanes keep has its type, for any number of
\* streams, callers and frames (carrier_lanes.py).
THEOREM LanesTypeCorrect == Spec => []LanesTypeOK
<1>1. Init => BaseTypeOK /\ LaneTypeOK
  BY BaseInitTyped DEF Init, LaneTypeOK, LanePcs
<1>2. SMInv /\ BaseTypeOK /\ LaneTypeOK /\ [Next]_vars => BaseTypeOK' /\ LaneTypeOK'
  BY LanesBaseStep, LaneTyped DEF SMInv
<1>3. SMInv => TypeOK
  BY DEF SMInv
<1>4. LanesTypeOK <=> TypeOK /\ BaseTypeOK /\ LaneTypeOK
  BY DEF LanesTypeOK
<1> QED
  BY <1>1, <1>2, <1>3, <1>4, LanesStreamInvariant, PTL DEF Spec

-----------------------------------------------------------------------------
(* Isolation. *)

\* The part of LaneIsolation that concerns one step of one lane.
Isolated(s) ==
  /\ heard'[s] # heard[s] \/ laneReader'[s] # laneReader[s]
  /\ laneReader'[s] # "refused"
  => /\ \A r \in Sids \ {s} : StreamState(r)' = StreamState(r) /\ laneWs'[r] = laneWs[r]
     /\ connected' = connected /\ http' = http

\* A frame that its lane accepts changes the state of no other stream.
LEMMA DispatchIsolated ==
  ASSUME TypeOK, NEW s \in Sids, NEW f \in Frame, OwnFrame(s, f), DispatchFrame(f)
  PROVE  \A r \in Sids \ {s} : StreamState(r)' = StreamState(r)
<1> USE DEF StreamState, TypeOK
<1>1. 0 \notin Sids
  BY StreamManagerAssumption DEF Sids
<1>2. f.sid \in known \cup openStreams => f.sid = s
  BY <1>1 DEF OwnFrame
<1>3. CASE DispatchData(f)
  BY <1>2, <1>3 DEF DispatchData, tableVars
<1>4. CASE DispatchWindow(f)
  BY <1>2, <1>4 DEF DispatchWindow, tableVars
<1>5. CASE DispatchClose(f)
  <2>1. f.sid = s /\ s \in Sids
    BY <1>2, <1>5 DEF DispatchClose
  <2>2. /\ openStreams' = openStreams \ {s}
        /\ recvQueues' = [recvQueues EXCEPT ![s] = Append(@, Eof)]
        /\ known' = known /\ sendWindows' = sendWindows
    BY <1>5, <2>1 DEF DispatchClose
  <2>3. \A r \in Sids \ {s} : recvQueues'[r] = recvQueues[r]
    BY <2>2
  <2> QED
    BY <2>2, <2>3
<1>6. CASE DispatchIgnored(f)
  BY <1>6 DEF DispatchIgnored, smVars
<1> QED
  BY <1>3, <1>4, <1>5, <1>6 DEF DispatchFrame

\* The end of a lane's stream changes the state of no other stream.
LEMMA EndIsolated ==
  ASSUME TypeOK, NEW s \in Sids, NEW pc, LaneEnds(s, pc)
  PROVE  \A r \in Sids \ {s} : StreamState(r)' = StreamState(r)
BY DEF LaneEnds, EndStream, StreamState, TypeOK

\* A lane's reader moves, or takes a message, alone.
LEMMA LaneReaderIsolated ==
  ASSUME TypeOK, LaneTypeOK, NEW q \in Sids, NEW s \in Sids,
         \/ LaneStarts(q) \/ LaneSeesClose(q) \/ LaneCancels(q) \/ LaneInvalid(q)
         \/ \E f \in Frame : LaneFrame(q, f)
  PROVE  Isolated(s)
<1>1. /\ UNCHANGED baseVars
      /\ heard'[s] # heard[s] \/ laneReader'[s] # laneReader[s] => s = q
      /\ \A r \in Sids \ {q} : laneWs'[r] = laneWs[r]
  BY DEF LaneTypeOK, LaneStarts, LaneSeesClose, LaneCancels, LaneInvalid, LaneFrame,
     LaneDispatches, LaneSkips, LaneCrashes, LaneTakes, LaneEnds, UnchangedByLane
<1>2. \A r \in Sids \ {q} : StreamState(r)' = StreamState(r)
  <2>1. UNCHANGED smVars => \A r \in Sids : StreamState(r)' = StreamState(r)
    BY DEF smVars, StreamState
  <2>2. UNCHANGED smVars \/ LaneEnds(q, "done") \/ LaneEnds(q, "refused")
          \/ \E f \in Frame : OwnFrame(q, f) /\ DispatchFrame(f)
    BY DEF LaneStarts, LaneSeesClose, LaneCancels, LaneInvalid, LaneFrame,
       LaneDispatches, LaneSkips, LaneCrashes
  <2> QED
    BY <2>1, <2>2, EndIsolated, DispatchIsolated
<1>3. connected' = connected /\ http' = http
  BY <1>1 DEF baseVars, connectVars, discVars
<1> QED
  BY <1>1, <1>2, <1>3 DEF Isolated

\* A new lane has a reader when its OPEN is sent; no other step moves a reader.
LEMMA StepIsolated ==
  ASSUME TypeOK, LaneTypeOK, [Next]_vars, NEW s \in Sids
  PROVE  Isolated(s)
<1> DEFINE Still == heard' = heard /\ laneReader' = laneReader
<1>1. Still => Isolated(s)
  BY DEF Isolated
<1>2. CASE ConnectStep \/ UserDisconnect \/ UNCHANGED vars
  <2>1. Still
    BY <1>2 DEF ConnectStep, StartConnect, Bootstrapped, ConnectFails, UserDisconnect,
       vars, laneVars
  <2> QED
    BY <1>1, <2>1
<1>3. OpenStream => Still
  BY DEF OpenStream
<1>4. ASSUME NEW q \in Sids, OpenStep(q)
      PROVE  Isolated(s)
  <2>1. OpenFails(q) => Still
    BY DEF OpenFails
  <2>2. ASSUME NEW ok \in BOOLEAN, OpenReturns(q, ok)
        PROVE  Isolated(s)
    <3>1. /\ UNCHANGED <<smVars, baseVars, heard>>
          /\ laneReader'[s] # laneReader[s] => s = q
          /\ \A r \in Sids \ {q} : laneWs'[r] = laneWs[r]
      BY <2>2 DEF OpenReturns, LaneTypeOK
    <3>2. connected' = connected /\ http' = http
      BY <3>1 DEF baseVars, connectVars, discVars
    <3>3. \A r \in Sids : StreamState(r)' = StreamState(r)
      BY <3>1 DEF smVars, StreamState
    <3> QED
      BY <3>1, <3>2, <3>3 DEF Isolated
  <2> QED
    BY <1>1, <1>4, <2>1, <2>2 DEF OpenStep
<1>5. ASSUME NEW q \in Sids
      PROVE  /\ \A c \in Closings :
                  CloseStream(c, q) \/ CloseStreamGoesOn(c, q) => Still
             /\ RecvDataWaits(q) \/ RecvDataReturns(q) \/ LaneLost(q) => Still
  BY DEF CloseStream, CloseStreamGoesOn, CloseStreamAfter, RecvDataWaits,
     RecvDataReturns, LaneLost, laneVars
<1>6. \A t \in Callers, q \in Sids, n \in MessageSizes : CallSendData(t, q, n) => Still
  BY DEF CallSendData, laneVars
<1>7. \A t \in Callers : SendDataStep(t) => Still
  BY DEF SendDataStep, laneVars
<1>8. DisconnectStep \/ StopStep => Still
  BY DEF DisconnectStep, StopStep
<1> QED
  BY <1>1, <1>2, <1>3, <1>4, <1>5, <1>6, <1>7, <1>8, LaneReaderIsolated DEF Next

\* "Lane failure closes only that stream; the session survives": for any number
\* of lanes, whatever frames they carry and however they end, a batch that does not
\* parse apart (_lane_reader).
THEOREM LanesIsolated == Spec => LaneIsolation
<1>1. LanesTypeOK /\ [Next]_vars => \A s \in Sids : Isolated(s)
  BY StepIsolated DEF LanesTypeOK
<1>2. (\A s \in Sids : Isolated(s)) <=>
        \A s \in Sids :
          /\ heard'[s] # heard[s] \/ laneReader'[s] # laneReader[s]
          /\ laneReader'[s] # "refused"
          => /\ \A r \in Sids \ {s} : StreamState(r)' = StreamState(r) /\ laneWs'[r] = laneWs[r]
             /\ connected' = connected /\ http' = http
  BY DEF Isolated
<1> QED
  BY <1>1, <1>2, LanesTypeCorrect, PTL DEF Spec, LaneIsolation

-----------------------------------------------------------------------------
(* A lanes carrier that was disconnected is closed. *)

\* Apart from connect and disconnect, no step touches the life cycle; closing the
\* lanes is only noted in stop.
LEMMA LanesLifeCycleKept ==
  ASSUME [Next]_vars, ~(ConnectStep \/ UserDisconnect \/ DisconnectStep)
  PROVE  UNCHANGED <<connectVars, reader, connected, disc>>
<1>1. UNCHANGED baseVars => UNCHANGED <<connectVars, reader, connected, disc>>
  BY DEF baseVars, readerVars, discVars
<1>2. CASE StopStep
  BY <1>2 DEF StopStep
<1>3. CASE UNCHANGED vars
  BY <1>1, <1>3 DEF vars
<1>4. OpenStream => UNCHANGED baseVars
  BY DEF OpenStream
<1>5. /\ \A s \in Sids : OpenStep(s) => UNCHANGED baseVars
      /\ \A c \in Closings, s \in Sids :
           CloseStream(c, s) \/ CloseStreamGoesOn(c, s) => UNCHANGED baseVars
  BY DEF OpenStep, OpenFails, OpenReturns, CloseStream, CloseStreamGoesOn, CloseStreamAfter
<1>6. \A t \in Callers, s \in Sids, n \in MessageSizes :
        CallSendData(t, s, n) => UNCHANGED baseVars
  BY DEF CallSendData
<1>7. \A t \in Callers : SendDataStep(t) => UNCHANGED baseVars
  BY DEF SendDataStep
<1>8. \A s \in Sids : RecvDataWaits(s) \/ RecvDataReturns(s) \/ LaneLost(s) => UNCHANGED baseVars
  BY DEF RecvDataWaits, RecvDataReturns, LaneLost
<1>9. \A s \in Sids : LaneStarts(s) \/ LaneSeesClose(s) \/ LaneCancels(s) \/ LaneInvalid(s)
        => UNCHANGED baseVars
  BY DEF LaneStarts, LaneSeesClose, LaneCancels, LaneInvalid, LaneTakes, UnchangedByLane
<1>10. \A s \in Sids, f \in Frame : LaneFrame(s, f) => UNCHANGED baseVars
  BY DEF LaneFrame, LaneDispatches, LaneSkips, LaneCrashes, LaneTakes, UnchangedByLane
<1> QED
  BY <1>1, <1>2, <1>3, <1>4, <1>5, <1>6, <1>7, <1>8, <1>9, <1>10 DEF Next

\* Nobody cancels the DELETE of a lanes carrier: there is no background task that
\* could be running disconnect.
LEMMA LanesDeleteCompletes == BaseTypeOK /\ [Next]_vars => DeleteCompletes
<1> SUFFICES ASSUME BaseTypeOK, [Next]_vars
             PROVE  DeleteCompletes
  OBVIOUS
<1>1. CASE UserDisconnect
  BY <1>1, Moved, Pcs DEF UserDisconnect, CallDisconnect, DeleteCompletes
<1>2. CASE DisconnectStep
  <2>1. ASSUME NEW x, disc' = [disc EXCEPT !["user"] = x],
               disc["user"] = "deleting" /\ x = "done" => ~httpRef
        PROVE  DeleteCompletes
    BY <2>1, Moved, Pcs DEF DeleteCompletes
  <2> QED
    BY <1>2, <2>1 DEF DisconnectStep, DisconnectStarts, BeginDisconnect, DisconnectClears,
       SessionDeleted, DisconnectReturns, CloseHttp, Finish
<1>3. CASE ~(UserDisconnect \/ DisconnectStep)
  <2>1. UNCHANGED disc
    <3>1. CASE ConnectStep
      BY <3>1 DEF ConnectStep, StartConnect, Bootstrapped, ConnectFails, ConnectStarts,
         ConnectReturns, ConnectRaises, discVars
    <3>2. CASE ~ConnectStep
      BY <1>3, <3>2, LanesLifeCycleKept DEF discVars
    <3> QED
      BY <3>1, <3>2
  <2> QED
    BY <2>1 DEF DeleteCompletes
<1> QED
  BY <1>1, <1>2, <1>3

\* So a step keeps what is known of the session if it does not let connect return
\* after a disconnect.
LEMMA LanesSessionStep ==
  ASSUME BaseTypeOK, SessionInv, [Next]_vars, [ConnectsFirst]_vars
  PROVE  SessionInv'
<1>1. UNCHANGED vars \/ Undisturbed
  BY LanesDeleteCompletes DEF Undisturbed
<1>2. CASE UNCHANGED vars
  BY <1>2, SessionKept DEF vars, baseVars, readerVars, discVars
<1>3. CASE ConnectStep \/ UserDisconnect
  BY <1>1, <1>2, <1>3, SessionConnect DEF ConnectStep, StartConnect, Bootstrapped,
     ConnectFails, UserDisconnect
<1>4. CASE DisconnectStep
  <2>1. UNCHANGED reader
    BY <1>4 DEF DisconnectStep
  <2>2. CASE Undisturbed
    BY <1>4, <2>1, <2>2, SessionDisconnect, Pcs DEF DisconnectStep
  <2> QED
    BY <1>1, <1>2, <2>2
<1> QED
  BY <1>3, <1>4, LanesLifeCycleKept, SessionKept

\* A lanes carrier that was disconnected has closed its session and does not claim
\* to be connected, whatever its lanes do meanwhile, unless connect returns after
\* the disconnect has begun (disconnect).
THEOREM LanesTornDown == Spec /\ [][ConnectsFirst]_vars => []TornDown
<1>1. LanesTypeOK => BaseTypeOK
  BY DEF LanesTypeOK
<1>2. Init => SessionInv
  BY SessionInit DEF Init
<1>3. BaseTypeOK /\ SessionInv => TornDown
  BY SessionClosed DEF TornDown, Disconnected
<1>4. BaseTypeOK /\ SessionInv /\ [Next]_vars /\ [ConnectsFirst]_vars => SessionInv'
  BY LanesSessionStep
<1> QED
  BY <1>1, <1>2, <1>3, <1>4, LanesTypeCorrect, PTL DEF Spec
=============================================================================
