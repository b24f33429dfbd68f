---------------------------- MODULE LanesCarrier ----------------------------
(***************************************************************************)
(* The WebSocket-lanes carrier (carrier_lanes.py): the life cycle of       *)
(* BaseCarrier and the streams of StreamManager, with a WebSocket and a    *)
(* reader task for each stream.  There is no background task of the whole  *)
(* carrier, so only the user disconnects.                                  *)
(*                                                                         *)
(* The relay and the network are external.  What a lane receives is left   *)
(* open: any frame at any time, whatever the client sent before.           *)
(***************************************************************************)
EXTENDS StreamManager, BaseCarrier

CONSTANT Closings    \* calls of close_stream that may be outstanding at once

ASSUME LanesAssumption == "stop" \notin Closings

\* Who may be running _close_lane: a close_stream, or _stop_transport.
Closers == Closings \cup {"stop"}

VARIABLES
  lanes,          \* the keys of _lanes
  laneWs,         \* the WebSocket of each lane; "broken": lost, unknown to aiohttp
  laneReader,     \* where the _lane_reader task of each lane stands
  laneCancelled,  \* a CancelledError it will see when it resumes
  closing,        \* progress of _close_lane, for each closer and lane
  toClose,        \* the lanes _stop_transport has still to close
  heard           \* history: messages each lane's reader took

laneVars == <<lanes, laneWs, laneReader, laneCancelled, closing, toClose, heard>>
vars == <<smVars, baseVars, laneVars>>

\* A _lane_reader task that is over is "done", "refused" when a batch that does not
\* parse has ended it, or "unstarted" when it was cancelled before its first step.
Ended == {"done", "refused", "unstarted"}
LanePcs == {"none", "created", "reading"} \cup Ended

LaneTypeOK ==
  /\ lanes \in SUBSET Sids
  /\ laneWs \in [Sids -> {"none", "opening", "open", "broken", "closed"}]
  /\ laneReader \in [Sids -> LanePcs]
  /\ laneCancelled \in [Sids -> BOOLEAN]
  /\ closing \in [Closers -> [Sids -> {"idle", "join", "shut"}]]
  /\ toClose \in SUBSET Sids
  /\ heard \in [Sids -> Nat]

LanesTypeOK == TypeOK /\ BaseTypeOK /\ LaneTypeOK

Init ==
  /\ SMInit
  /\ BaseInit
  /\ lanes = {}
  /\ laneWs = [s \in Sids |-> "none"]
  /\ laneReader = [s \in Sids |-> "none"]
  /\ laneCancelled = [s \in Sids |-> FALSE]
  /\ closing = [w \in Closers |-> [s \in Sids |-> "idle"]]
  /\ toClose = {}
  /\ heard = [s \in Sids |-> 0]

-----------------------------------------------------------------------------
(* connect() *)

StartConnect == ConnectStarts /\ UNCHANGED <<smVars, laneVars>>

\* _start_transport only logs: no suspension until connect returns.
Bootstrapped ==
  /\ connectPc = "bootstrap"
  /\ httpRef
  /\ ConnectReturns
  /\ infoRef' = TRUE
  /\ UNCHANGED <<readerVars, smVars, laneVars>>

ConnectFails == ConnectRaises /\ UNCHANGED <<smVars, laneVars>>

-----------------------------------------------------------------------------
(* open_stream() *)

\* Up to ws_connect.  After a disconnect the session's token is missing, and
\* the AttributeError leaves the stream allocated.
OpenStream ==
  /\ connectPc = "returned"
  /\ AllocStream
  /\ laneWs' = IF infoRef THEN [laneWs EXCEPT ![nextStreamId] = "opening"] ELSE laneWs
  /\ UNCHANGED <<baseVars, lanes, laneReader, laneCancelled, closing, toClose, heard>>

\* ws_connect raises.
OpenFails(s) ==
  /\ laneWs[s] = "opening"
  /\ laneWs' = [laneWs EXCEPT ![s] = "none"]
  /\ IF s \in known THEN RemoveStream(s) ELSE UNCHANGED smVars
  /\ UNCHANGED <<baseVars, lanes, laneReader, laneCancelled, closing, toClose, heard>>

\* ws_connect returns, be it on a carrier that has been torn down meanwhile.
\* The lane is stored before its OPEN is sent; if that raises, because the
\* socket is lost or the id has no encoding, the lane stays without a reader.
OpenReturns(s, ok) ==
  /\ laneWs[s] = "opening"
  /\ http = "open"
  /\ lanes' = lanes \cup {s}
  /\ IF s > MaxStreamId
     THEN laneWs' = [laneWs EXCEPT ![s] = "open"] /\ UNCHANGED laneReader
     ELSE /\ laneWs' = [laneWs EXCEPT ![s] = IF ok THEN "open" ELSE "broken"]
          /\ laneReader' = IF ok THEN [laneReader EXCEPT ![s] = "created"] ELSE laneReader
  /\ UNCHANGED <<smVars, baseVars, laneCancelled, closing, toClose, heard>>

\* open_stream has returned s to its caller.
Opened(s) == laneReader[s] # "none"

-----------------------------------------------------------------------------
(* _close_lane(), as run by the closer w. *)

\* Mutant: wait for the reader without cancelling it.
LaneJoins_NoCancel(w, s) ==
  /\ laneReader[s] \in {"created", "reading"}
  /\ closing' = [closing EXCEPT ![w][s] = "join"]
  /\ UNCHANGED <<laneWs, laneCancelled>>

\* Cancel the reader, and wait for it.
LaneJoins(w, s) ==
  /\ laneReader[s] \in {"created", "reading"}
  /\ laneCancelled' = [laneCancelled EXCEPT ![s] = TRUE]
  /\ closing' = [closing EXCEPT ![w][s] = "join"]
  /\ UNCHANGED laneWs

\* The reader is done: close the socket, and return when it is closed.
LaneShuts(w, s) ==
  /\ laneReader[s] \in {"none"} \cup Ended
  /\ IF laneWs[s] = "closed" THEN closing' = [closing EXCEPT ![w][s] = "idle"] /\ UNCHANGED laneWs
     ELSE /\ laneWs' = [laneWs EXCEPT ![s] = "closed"]
          /\ closing' = [closing EXCEPT ![w][s] = "shut"]
  /\ UNCHANGED laneCancelled

LaneCloseBegins(w, s) ==
  /\ closing[w][s] = "idle"
  /\ LaneJoins(w, s) \/ LaneShuts(w, s)

LaneCloseGoesOn(w, s) ==
  \/ closing[w][s] = "join" /\ LaneShuts(w, s)
  \/ /\ closing[w][s] = "shut"
     /\ closing' = [closing EXCEPT ![w][s] = "idle"]
     /\ UNCHANGED <<laneWs, laneCancelled>>

-----------------------------------------------------------------------------
(* The other stream operations. *)

\* close_stream, called as c, after _close_lane: forget the lane and the stream.
CloseStreamAfter(c, s) ==
  /\ IF closing'[c][s] = "idle" THEN lanes' = lanes \ {s} /\ DiscardOpen(s)
     ELSE UNCHANGED <<lanes, smVars>>
  /\ UNCHANGED <<baseVars, laneReader, toClose, heard>>

\* The CLOSE it writes first may raise; nothing comes of that.  Nor does it matter
\* that the first call to come back from the reader resets reader_task: the others
\* have the task, or find the lane without one.
CloseStream(c, s) ==
  /\ s \in lanes /\ Opened(s)
  /\ LaneCloseBegins(c, s)
  /\ CloseStreamAfter(c, s)

CloseStreamGoesOn(c, s) == LaneCloseGoesOn(c, s) /\ CloseStreamAfter(c, s)

\* send_data looks its lane up once, when it is called.
CallSendData(t, s, n) ==
  /\ s \in lanes /\ Opened(s)
  /\ BeginSend(t, s, n)
  /\ UNCHANGED <<baseVars, laneVars>>

SendDataStep(t) ==
  /\ \/ SenderBlocks(t) \/ SenderRegisters(t) \/ SenderFindsClosed(t) \/ SenderTimesOut(t)
     \/ SendChunk(t, laneWs[sendSid[t]] = "open")
  /\ UNCHANGED <<baseVars, laneVars>>

\* recv_data; the WINDOW it writes reaches nothing that is modelled here.
RecvDataWaits(s) ==
  /\ Opened(s)
  /\ RecvWaits(s)
  /\ UNCHANGED <<baseVars, laneVars>>

RecvDataReturns(s) ==
  /\ RecvEof(s) \/ RecvChunk(s) \/ RecvGone(s)
  /\ UNCHANGED <<baseVars, laneVars>>

-----------------------------------------------------------------------------
(* disconnect() and _stop_transport() *)

UserDisconnect == CallDisconnect /\ UNCHANGED <<smVars, laneVars>>

\* _http.close() closes the connector, and with it the connection of every
\* lane that is still there.
DisconnectStep ==
  /\ \/ DisconnectClears("user") /\ ClearStreams
     \/ /\ DisconnectStarts("user") \/ SessionDeleted("user") \/ DisconnectReturns("user")
        /\ UNCHANGED smVars
  /\ laneWs' = [s \in Sids |-> IF http' = "closed" /\ laneWs[s] = "open" THEN "broken"
                               ELSE laneWs[s]]
  /\ UNCHANGED <<reader, lanes, laneReader, laneCancelled, closing, toClose, heard>>

\* Take the lanes there are; one that is opened later is not among them.
StopTakes ==
  /\ StopSkips("user")
  /\ toClose' = lanes
  /\ lanes' = {}
  /\ stop' = [stop EXCEPT !["user"] = IF lanes = {} THEN "done" ELSE "closing"]
  /\ UNCHANGED <<laneWs, laneCancelled, closing>>

\* Close them one after the other.
StopCloses(s) ==
  /\ stop["user"] = "closing"
  /\ s \in toClose
  /\ \/ LaneCloseGoesOn("stop", s)
     \/ /\ \A r \in Sids : closing["stop"][r] = "idle"
        /\ LaneCloseBegins("stop", s)
  /\ toClose' = IF closing'["stop"][s] = "idle" THEN toClose \ {s} ELSE toClose
  /\ stop' = [stop EXCEPT !["user"] = IF toClose' = {} THEN "done" ELSE "closing"]
  /\ UNCHANGED <<readerRef, cancelled, lanes>>

StopStep ==
  /\ StopTakes \/ \E s \in Sids : StopCloses(s)
  /\ UNCHANGED <<smVars, connectVars, reader, connected, disc, laneReader, heard>>

-----------------------------------------------------------------------------
(* _lane_reader() *)

UnchangedByLane == UNCHANGED <<baseVars, lanes, closing, toClose>>

\* A task cancelled before its first step never runs its body.
LaneStarts(s) ==
  /\ laneReader[s] = "created"
  /\ laneReader' = [laneReader EXCEPT ![s] = IF laneCancelled[s] THEN "unstarted"
                                                  ELSE "reading"]
  /\ laneCancelled' = [laneCancelled EXCEPT ![s] = FALSE]
  /\ UNCHANGED <<smVars, laneWs, heard>>
  /\ UnchangedByLane

\* Mutant: a lane ends without ending its stream.
LaneEnds_Quietly(s, pc) ==
  /\ laneReader' = [laneReader EXCEPT ![s] = pc]
  /\ UNCHANGED smVars

\* The finally clause: "Lane loss closes only this stream".
LaneEnds(s, pc) ==
  /\ laneReader' = [laneReader EXCEPT ![s] = pc]
  /\ EndStream(s)

Reading(s) == laneReader[s] = "reading" /\ ~laneCancelled[s]

\* The reader takes a message.
LaneTakes(s) ==
  /\ Reading(s)
  /\ laneWs[s] \in {"open", "broken"}
  /\ heard' = [heard EXCEPT ![s] = @ + 1]
  /\ UNCHANGED <<laneWs, laneCancelled>>
  /\ UnchangedByLane

\* Dispatching raises on a zero delta, and so does the PONG on a lost socket.
LaneRaises(s, f) ==
  \/ f.type = "WINDOW" /\ f.sid \in known /\ f.n = 0
  \/ f.type = "PING" /\ f.sid = 0 /\ laneWs[s] = "broken"

\* Mutant: a frame of any stream is dispatched.
OwnFrame_Any(s, f) == TRUE

\* The check against cross-lane frames.
OwnFrame(s, f) == f.sid \in {s, 0}

\* BYE is one of the frames that change nothing.
LaneDispatches(s, f) ==
  /\ LaneTakes(s)
  /\ OwnFrame(s, f) /\ ~LaneRaises(s, f)
  /\ DispatchFrame(f)
  /\ UNCHANGED laneReader

LaneSkips(s, f) ==
  /\ LaneTakes(s)
  /\ ~OwnFrame(s, f)
  /\ UNCHANGED <<smVars, laneReader>>

LaneCrashes(s, f) ==
  /\ LaneTakes(s)
  /\ OwnFrame(s, f) /\ LaneRaises(s, f)
  /\ LaneEnds(s, "done")

\* A batch that does not parse ends the lane, and nothing else: its socket is
\* left open, and the "parent-carrier failure" of the comment does not come.
LaneInvalid(s) ==
  /\ LaneTakes(s)
  /\ LaneEnds(s, "refused")

LaneSeesClose(s) ==
  /\ Reading(s)
  /\ laneWs[s] \in {"broken", "closed"}
  /\ laneWs' = [laneWs EXCEPT ![s] = "closed"]
  /\ LaneEnds(s, "done")
  /\ UNCHANGED <<laneCancelled, heard>>
  /\ UnchangedByLane

LaneCancels(s) ==
  /\ laneReader[s] = "reading"
  /\ laneCancelled[s]
  /\ laneCancelled' = [laneCancelled EXCEPT ![s] = FALSE]
  /\ LaneEnds(s, "done")
  /\ UNCHANGED <<laneWs, heard>>
  /\ UnchangedByLane

\* The connection of a lane goes (external).
LaneLost(s) ==
  /\ laneWs[s] = "open"
  /\ laneWs' = [laneWs EXCEPT ![s] = "broken"]
  /\ UNCHANGED <<smVars, baseVars, lanes, laneReader, laneCancelled, closing, toClose, heard>>

-----------------------------------------------------------------------------
ConnectStep == StartConnect \/ Bootstrapped \/ ConnectFails

OpenStep(s) == OpenFails(s) \/ \E ok \in BOOLEAN : OpenReturns(s, ok)

LaneFrame(s, f) == LaneDispatches(s, f) \/ LaneSkips(s, f) \/ LaneCrashes(s, f)

Next ==
  \/ ConnectStep
  \/ OpenStream
  \/ \E s \in Sids : OpenStep(s)
  \/ \E c \in Closings, s \in Sids : CloseStream(c, s) \/ CloseStreamGoesOn(c, s)
  \/ \E t \in Callers, s \in Sids, n \in MessageSizes : CallSendData(t, s, n)
  \/ \E t \in Callers : SendDataStep(t)
  \/ \E s \in Sids : RecvDataWaits(s) \/ RecvDataReturns(s)
  \/ UserDisconnect
  \/ DisconnectStep
  \/ StopStep
  \/ \E s \in Sids : LaneStarts(s) \/ LaneSeesClose(s) \/ LaneCancels(s) \/ LaneInvalid(s)
  \/ \E s \in Sids, f \in Frame : LaneFrame(s, f)
  \/ \E s \in Sids : LaneLost(s)

Spec == Init /\ [][Next]_vars

\* The event loop runs every task that can run, the DELETE and the closing
\* handshake of a WebSocket have timeouts, and what is buffered on a lost
\* socket comes to an end.  Nothing is assumed of the relay, of ws_connect or
\* of the callers.
Fairness ==
  /\ WF_vars(DisconnectStep) /\ WF_vars(StopStep)
  /\ \A s \in Sids :
       /\ \A c \in Closings : WF_vars(CloseStreamGoesOn(c, s))
       /\ WF_vars(LaneStarts(s))
       /\ WF_vars(LaneSeesClose(s) \/ LaneCancels(s))
       /\ WF_vars(receivers[s] = "get" /\ RecvDataReturns(s))

FairSpec == Spec /\ Fairness

-----------------------------------------------------------------------------
(* Properties. *)

\* What the tables hold of a stream.
StreamState(s) == <<s \in known, s \in openStreams, recvQueues[s], sendWindows[s]>>

\* "Lane failure closes only that stream; the session survives"
\* (WebSocketLanesCarrier): whatever a lane receives, and however its reader
\* ends, no other stream gets or loses anything by it, and neither the carrier
\* nor the socket of another lane does (_lane_reader, _dispatch_frame).  It leaves
\* out a batch that does not parse, of which InvalidFailsCarrier speaks.
LaneIsolation ==
  [][\A s \in Sids :
       /\ heard'[s] # heard[s] \/ laneReader'[s] # laneReader[s]
       /\ laneReader'[s] # "refused"
       => /\ \A r \in Sids \ {s} : StreamState(r)' = StreamState(r) /\ laneWs'[r] = laneWs[r]
          /\ connected' = connected /\ http' = http]_vars

\* "invalid relay message -> parent-carrier failure per spec" (_lane_reader): a lane
\* that receives a batch which does not parse takes the carrier down.
InvalidFailsCarrier == \A s \in Sids : laneReader[s] = "refused" ~> ~connected

\* A lane whose socket is lost is noticed, ends its stream, and releases the
\* task waiting in its recv_data, although nobody else knows, unless its reader is
\* cancelled before its first step and has no finally clause (_lane_reader).
LossEndsStream ==
  \A s \in Sids :
    laneWs[s] = "broken" /\ laneReader[s] \in {"created", "reading"}
      ~> \/ laneReader[s] \in Ended /\ s \notin openStreams /\ receivers[s] = "idle"
         \/ laneReader[s] = "unstarted"

\* The calls of close_stream for a lane all come back, with the reader over and the
\* lane and its stream forgotten, when several close the same lane at once, or
\* disconnect does meanwhile, each cancelling the reader and waiting for it
\* (_close_lane).
CloseStreamEnds ==
  \A s \in Sids :
    (\E c \in Closings : closing[c][s] # "idle")
      ~> /\ \A c \in Closings : closing[c][s] = "idle"
         /\ laneReader[s] \in Ended /\ s \notin lanes \cup openStreams

\* "Tear down everything" (disconnect): once somebody disconnects, every lane
\* ends for good, also one whose ws_connect returns after _stop_transport has
\* emptied _lanes, one whose OPEN failed, and one that several calls of close_stream
\* are closing.
DisconnectEndsLanes ==
  disc["user"] # "idle"
    ~> [](\A s \in Sids : laneReader[s] \in {"none"} \cup Ended /\ laneWs[s] # "open")
=============================================================================
