---------------------------- MODULE HttpsCarrier ----------------------------
(***************************************************************************)
(* The HTTPS long-polling carrier (carrier_https.py): the life cycle of    *)
(* BaseCarrier over two loops.  The uplink is one POST at a time under     *)
(* _up_lock, numbered by _up_seq and repeated on 503 until a deadline; the *)
(* downlink is a polling task that acknowledges with _down_cursor.  The    *)
(* relay and the network are modelled from how the code uses them: the     *)
(* relay takes a POST once per sequence number.                            *)
(*                                                                         *)
(* The tables of StreamManager are left out: what open_stream, close_stream,*)
(* send_data, grant_window and recv_data do here beyond them is one call of *)
(* _send_up each, of a frame that is only a number.                        *)
(***************************************************************************)
EXTENDS BaseCarrier, Sequences, FiniteSets

CONSTANT
  Senders   \* tasks that call stream operations

ASSUME HttpsAssumption == "reader" \notin Senders

VARIABLES
  calling,      \* the frame of each task's call of _send_up, 0 if it has none
  upPc,         \* where the holder of _up_lock stands
  upSeq,        \* _up_seq
  nextFrame,    \* number of the next frame given to _send_up
  expired,      \* the deadlines of the calls up to this frame have passed
  downCursor,   \* _down_cursor
  batch,        \* frames of the current batch still to be dispatched
  downLog,      \* kinds of the frames the relay has for the client
  relayLog,     \* the frames the relay has taken, by their sequence numbers
  accepted, failed, seen    \* history: frames whose calls have returned, frames
                \* whose calls have raised, positions dispatched

uplinkVars == <<calling, upPc, upSeq, nextFrame, expired, accepted, failed>>
pollVars   == <<downCursor, batch, seen>>
relayVars  == <<relayLog, downLog>>
vars == <<baseVars, uplinkVars, pollVars, relayVars>>

\* The tasks that call _send_up: the polling loop does so to answer a PING.
Tasks == Senders \cup {"reader"}

\* No task is in _send_up.
Idle(g) == \A c \in Tasks : g[c] = 0

\* _up_lock is handed on in the order of the calls: the oldest call has it.
Holds(c) == calling[c] > 0 /\ \A x \in Tasks : calling[x] > 0 => calling[c] <= calling[x]

\* GARBLED: a batch with it does not parse.  ZERO: dispatching it raises.
Kinds == {"STREAM", "PING", "BYE", "ZERO", "GARBLED"}

UplinkTypeOK ==
  /\ calling \in [Tasks -> Nat]
  /\ upPc \in {"free", "start", "post", "taken", "sleep"}
  /\ upSeq \in Nat
  /\ nextFrame \in Nat \ {0}
  /\ expired \in Nat
  /\ relayLog \in Seq(Nat)
  /\ accepted \in SUBSET Nat
  /\ failed \in SUBSET Nat
  /\ upPc = "free" <=> Idle(calling)

DownlinkTypeOK ==
  /\ downCursor \in Nat
  /\ batch \in Seq(Nat)
  /\ downLog \in Seq(Kinds)
  /\ seen \in Seq(Nat)

HttpsTypeOK == BaseTypeOK /\ UplinkTypeOK /\ DownlinkTypeOK

Init ==
  /\ BaseInit
  /\ calling = [c \in Tasks |-> 0]
  /\ upPc = "free"
  /\ upSeq = 1
  /\ nextFrame = 1
  /\ expired = 0
  /\ downCursor = 0
  /\ batch = <<>>
  /\ downLog = <<>>
  /\ relayLog = <<>>
  /\ accepted = {}
  /\ failed = {}
  /\ seen = <<>>

-----------------------------------------------------------------------------
(* connect() and disconnect() *)

StartConnect == ConnectStarts /\ UNCHANGED <<uplinkVars, pollVars, relayVars>>

\* bootstrap_session has returned; _start_transport does not suspend.
Bootstrapped ==
  /\ ConnectReturns
  /\ TaskCreated
  /\ infoRef' = TRUE
  /\ UNCHANGED <<uplinkVars, pollVars, relayVars>>

ConnectFails == ConnectRaises /\ UNCHANGED <<uplinkVars, pollVars, relayVars>>

UserDisconnect == CallDisconnect /\ UNCHANGED <<uplinkVars, pollVars, relayVars>>

\* When the disconnect for a BYE returns, the poll loop finds the carrier
\* disconnected and ends.
DisconnectStep(d) ==
  /\ \/ DisconnectStarts(d)
     \/ DisconnectClears(d)
     \/ SessionDeleted(d)
     \/ DeleteCancelled(d)
     \/ DisconnectReturns(d)
  /\ reader' = IF Inline(d) /\ disc'[d] = "done" THEN "done" ELSE reader
  /\ UNCHANGED <<uplinkVars, pollVars, relayVars>>

StopStep(d) ==
  /\ \/ StopCancels(d)
     \/ (StopSkips(d) \/ StopJoins(d)) /\ stop' = [stop EXCEPT ![d] = "done"]
  /\ UNCHANGED <<connectVars, reader, connected, disc, uplinkVars, pollVars, relayVars>>

-----------------------------------------------------------------------------
(* _send_up(): who holds _up_lock, and who waits for it *)

\* The calls are now g.  A call that has just become the oldest goes on from
\* where it waited for the lock, in a step of its own.
Calls(g) ==
  /\ calling' = g
  /\ upPc' = IF Idle(g) THEN "free"
             ELSE IF \E c \in Tasks : Holds(c) /\ g[c] = calling[c] THEN upPc
             ELSE "start"

CallUp(c) ==
  /\ connectPc = "returned"
  /\ calling[c] = 0
  /\ Calls([calling EXCEPT ![c] = nextFrame])
  /\ nextFrame' = nextFrame + 1
  /\ UNCHANGED <<baseVars, upSeq, expired, accepted, failed, pollVars, relayVars>>

\* The retry budget of another call is spent; they run out in the order of the
\* calls.
DeadlinePasses ==
  /\ \E c \in Tasks :
       /\ calling[c] > expired
       /\ \A x \in Tasks : calling[x] > expired => calling[c] <= calling[x]
       /\ expired' = calling[c]
  /\ UNCHANGED <<baseVars, calling, upPc, upSeq, nextFrame, accepted, failed, pollVars,
                 relayVars>>

-----------------------------------------------------------------------------
(* _poll_loop(), where it goes on after a wait.  g: the calls of _send_up. *)

\* The loop tests _connected.
Loops ==
  /\ reader' = IF connected THEN "reading" ELSE "done"
  /\ UNCHANGED disc

\* Where the frames of b stop to be dispatched without a suspension.
Stops(b) == {i \in DOMAIN b : downLog[b[i]] # "STREAM"}

\* _on_batch, up to its next PONG or its end.
Dispatches(b, g) ==
  \/ /\ Stops(b) = {}
     /\ seen' = seen \o b
     /\ batch' = <<>>
     /\ Loops
     /\ Calls(g)
     /\ UNCHANGED <<connected, stop, nextFrame>>
  \/ \E k \in Stops(b) :
     /\ \A i \in Stops(b) : k <= i
     /\ seen' = seen \o SubSeq(b, 1, k)
     /\ \/ /\ downLog[b[k]] = "PING"
           /\ reader' = "pong"
           /\ batch' = SubSeq(b, k + 1, Len(b))
           /\ Calls([g EXCEPT !["reader"] = nextFrame])
           /\ nextFrame' = nextFrame + 1
           /\ UNCHANGED discVars
        \/ /\ downLog[b[k]] = "BYE"
           /\ TaskByes
           /\ batch' = <<>>
           /\ Calls(g)
           /\ UNCHANGED nextFrame
        \/ /\ downLog[b[k]] = "ZERO"
           /\ TaskEnds
           /\ batch' = <<>>
           /\ Calls(g)
           /\ UNCHANGED <<connected, stop, nextFrame>>

-----------------------------------------------------------------------------
(* _send_up(): the POST *)

\* The tasks whose call can go on: the holder of the lock, unless a cancellation
\* will reach it first.
Active == {c \in Tasks : Holds(c) /\ (c = "reader" => ~cancelled)}

UnchangedByUplink ==
  UNCHANGED <<connectVars, readerRef, cancelled, expired, downCursor, downLog>>

\* The holder's call ends with an exception; in the poll loop that ends the loop.
UpRaises(c) ==
  /\ failed' = failed \cup {calling[c]}
  /\ Calls([calling EXCEPT ![c] = 0])
  /\ IF c = "reader"
     THEN TaskEnds /\ batch' = <<>>
     ELSE UNCHANGED <<reader, disc, batch>>
  /\ UNCHANGED <<connected, stop, nextFrame, seen, upSeq, accepted, relayLog>>

UpGoesOn(c, pc) ==
  /\ upPc' = pc
  /\ UNCHANGED <<reader, discVars, calling, upSeq, nextFrame, accepted, failed, batch, seen>>

\* The POST starts, or starts again, with the session as it is now.
UpPosts(c) ==
  /\ upPc \in {"start", "sleep"}
  /\ \/ /\ httpRef /\ http = "open"
        /\ UpGoesOn(c, "post")
        /\ UNCHANGED relayLog
     \/ /\ ~(httpRef /\ http = "open")
        /\ UpRaises(c)

\* The relay takes the POST, unless it has taken one of that number before.
RelayTakes(c) ==
  /\ upPc = "post"
  /\ http = "open"
  /\ UpGoesOn(c, "taken")
  /\ relayLog' = IF upSeq = Len(relayLog) + 1 THEN Append(relayLog, calling[c]) ELSE relayLog

\* Mutant: the sequence number is not advanced.
UpAccepted_SameSeq(c) ==
  /\ upPc = "taken"
  /\ http = "open"
  /\ accepted' = accepted \cup {calling[c]}
  /\ IF c = "reader"
     THEN Dispatches(batch, [calling EXCEPT ![c] = 0])
     ELSE Calls([calling EXCEPT ![c] = 0])
          /\ UNCHANGED <<reader, discVars, nextFrame, batch, seen>>
  /\ UNCHANGED <<upSeq, failed, relayLog>>

\* 204.
UpAccepted(c) ==
  /\ upPc = "taken"
  /\ http = "open"
  /\ upSeq' = upSeq + 1
  /\ accepted' = accepted \cup {calling[c]}
  /\ IF c = "reader"
     THEN Dispatches(batch, [calling EXCEPT ![c] = 0])
     ELSE Calls([calling EXCEPT ![c] = 0])
          /\ UNCHANGED <<reader, discVars, nextFrame, batch, seen>>
  /\ UNCHANGED <<failed, relayLog>>

\* Mutant: every attempt is numbered anew.
UpRefused_NewSeq(c) ==
  /\ upPc \in {"post", "taken"}
  /\ http = "open"
  /\ calling[c] > expired
  /\ upPc' = "sleep"
  /\ upSeq' = upSeq + 1
  /\ UNCHANGED <<reader, discVars, calling, nextFrame, accepted, failed, batch, seen>>
  /\ UNCHANGED relayLog

\* Mutant: a refusal is always worth another try.
UpRefused_Forever(c) ==
  /\ upPc \in {"post", "taken"}
  /\ http = "open"
  /\ UpGoesOn(c, "sleep")
  /\ UNCHANGED relayLog

\* 503, from the relay or from what stands before it: again, until the deadline
\* set when the call was made.
UpRefused(c) ==
  /\ upPc \in {"post", "taken"}
  /\ http = "open"
  /\ \/ /\ calling[c] > expired
        /\ UpGoesOn(c, "sleep")
        /\ UNCHANGED relayLog
     \/ /\ calling[c] <= expired
        /\ UpRaises(c)

\* Another status, a connection that fails, or the session closed under it.
UpFails(c) ==
  /\ upPc \in {"post", "taken"}
  /\ UpRaises(c)

UpStep ==
  /\ \E c \in Active :
       UpPosts(c) \/ RelayTakes(c) \/ UpAccepted(c) \/ UpRefused(c) \/ UpFails(c)
  /\ UnchangedByUplink

-----------------------------------------------------------------------------
(* _poll_loop() *)

Polling == reader = "reading" /\ ~cancelled

UnchangedByPoll ==
  UNCHANGED <<connectVars, readerRef, upSeq, expired, accepted, failed, relayVars>>

PollStarts ==
  /\ TaskStarts(connected)
  /\ UNCHANGED <<discVars, calling, upPc, nextFrame, pollVars>>
  /\ UnchangedByPoll

\* Mutant: the cursor stays where it was.
PollAnswered_SameCursor(m) ==
  /\ Polling
  /\ http = "open"
  /\ LET b == [i \in 1 .. m - downCursor |-> downCursor + i] IN
     \/ /\ \E i \in DOMAIN b : downLog[b[i]] = "GARBLED"
        /\ Loops
        /\ UNCHANGED <<connected, stop, calling, upPc, nextFrame, batch, seen>>
     \/ /\ \A i \in DOMAIN b : downLog[b[i]] # "GARBLED"
        /\ Dispatches(b, calling)
  /\ UNCHANGED <<cancelled, downCursor>>
  /\ UnchangedByPoll

\* 200: the frames after the cursor up to m.  A batch that does not parse is
\* dropped whole, after the cursor has moved past it.
PollAnswered(m) ==
  /\ Polling
  /\ http = "open"
  /\ downCursor' = m
  /\ LET b == [i \in 1 .. m - downCursor |-> downCursor + i] IN
     \/ /\ \E i \in DOMAIN b : downLog[b[i]] = "GARBLED"
        /\ Loops
        /\ UNCHANGED <<connected, stop, calling, upPc, nextFrame, batch, seen>>
     \/ /\ \A i \in DOMAIN b : downLog[b[i]] # "GARBLED"
        /\ Dispatches(b, calling)
  /\ UNCHANGED cancelled
  /\ UnchangedByPoll

\* 204, or 503 and the wait after it.
PollIdles ==
  /\ Polling
  /\ http = "open"
  /\ Loops
  /\ UNCHANGED <<connected, stop, cancelled, calling, upPc, nextFrame, pollVars>>
  /\ UnchangedByPoll

\* Another status, a connection that fails, or the session closed under it.
PollFails ==
  /\ Polling
  /\ TaskEnds
  /\ UNCHANGED <<connected, stop, cancelled, calling, upPc, nextFrame, pollVars>>
  /\ UnchangedByPoll

\* Mutant: the cancellation of a PONG leaves the lock locked.
PollCancelled_KeepsLock ==
  /\ TaskCancelled
  /\ calling' = [calling EXCEPT !["reader"] = 0]
  /\ failed' = failed \cup ({calling["reader"]} \ {0})
  /\ batch' = <<>>
  /\ UNCHANGED <<connectVars, readerRef, connected, stop, upPc, upSeq, nextFrame, expired,
                 accepted, downCursor, seen, relayVars>>

\* CancelledError, in the poll or in the PONG, wherever its call stands.
PollCancelled ==
  /\ TaskCancelled
  /\ Calls([calling EXCEPT !["reader"] = 0])
  /\ failed' = failed \cup ({calling["reader"]} \ {0})
  /\ batch' = <<>>
  /\ UNCHANGED <<connectVars, readerRef, connected, stop, upSeq, nextFrame, expired,
                 accepted, downCursor, seen, relayVars>>

PollFinishes ==
  /\ TaskFinishes
  /\ UNCHANGED <<connected, stop, calling, upPc, nextFrame, pollVars>>
  /\ UnchangedByPoll

\* What the poll loop does without an answer of the relay.
PollStep ==
  \/ PollStarts
  \/ (http = "closed" /\ PollFails)
  \/ PollCancelled
  \/ PollFinishes

\* The relay has another frame for the client.
RelaySends(kind) ==
  /\ connectPc = "returned"
  /\ downLog' = Append(downLog, kind)
  /\ UNCHANGED <<baseVars, uplinkVars, pollVars, relayLog>>

-----------------------------------------------------------------------------
Next ==
  \/ StartConnect \/ Bootstrapped \/ ConnectFails
  \/ UserDisconnect
  \/ \E d \in Discs : DisconnectStep(d) \/ StopStep(d)
  \/ \E c \in Senders : CallUp(c)
  \/ DeadlinePasses
  \/ UpStep
  \/ \E m \in downCursor + 1 .. Len(downLog) : PollAnswered(m)
  \/ PollIdles \/ PollFails \/ PollStep
  \/ \E kind \in Kinds : RelaySends(kind)

Spec == Init /\ [][Next]_vars

\* The event loop runs what can run, time passes, and every POST of the uplink
\* ends: the session has aiohttp's timeout of five minutes.  Nothing is assumed
\* of the answers, of the polls, or of new calls.
Fairness ==
  /\ WF_vars(UpStep)
  /\ WF_vars(DeadlinePasses)
  /\ WF_vars(PollStep)
  /\ \A d \in Discs : WF_vars(DisconnectStep(d)) /\ WF_vars(StopStep(d))

FairSpec == Spec /\ Fairness

-----------------------------------------------------------------------------
(* Properties. *)

\* "Uplink requests are serialized (one at a time, X-Up-Seq increments)"
\* (HTTPSCarrier): the relay takes the frames in the order in which _send_up was
\* called and none of them twice, whatever was refused, lost or repeated.
UplinkOnceInOrder ==
  \A i, j \in DOMAIN relayLog : i < j => relayLog[i] < relayLog[j]

\* Why UplinkOnceInOrder holds, as an inductive invariant (_send_up): the calls
\* outstanding are younger than all the relay has taken, except that the oldest
\* of them may have been taken under the number _up_seq still has.
CallsInv ==
  /\ \A c \in Tasks : calling[c] < nextFrame
  /\ \A c, x \in Tasks : calling[c] > 0 /\ calling[c] = calling[x] => c = x
  /\ \A i \in DOMAIN relayLog : relayLog[i] < nextFrame
  /\ \A c \in Tasks, i \in DOMAIN relayLog :
       calling[c] > 0 =>
         /\ relayLog[i] <= calling[c]
         /\ relayLog[i] = calling[c] => upSeq = Len(relayLog)

NumberInv ==
  /\ upSeq \in {Len(relayLog), Len(relayLog) + 1}
  /\ upPc = "taken" => upSeq = Len(relayLog)

UplinkInv == HttpsTypeOK /\ CallsInv /\ NumberInv /\ UplinkOnceInOrder

\* A call of _send_up that returns has handed its frame to the relay, except
\* that each call that gave up on a frame the relay had taken leaves its number
\* to be used again, and costs at most one later frame (_send_up, _up_seq).
Delivered == {relayLog[i] : i \in DOMAIN relayLog}
LossesBounded == Cardinality(accepted \ Delivered) <= Cardinality(failed \cap Delivered)

\* The polling loop dispatches what the relay has for the client once and in
\* order, with no hole unless some batch did not parse (_down_cursor, _on_batch).
DownlinkOnceInOrder ==
  /\ \A i, j \in DOMAIN seen : i < j => seen[i] < seen[j]
  /\ (\A i \in DOMAIN downLog : downLog[i] # "GARBLED")
       => \A i \in DOMAIN seen : seen[i] = i

\* Every call of _send_up returns or raises, though refusals may go on for ever,
\* the session may be closed, and others may hold the lock (RETRY_BUDGET).
UplinkTerminates == \A c \in Senders : calling[c] > 0 ~> calling[c] = 0
=============================================================================
