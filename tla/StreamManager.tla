--------------------------- MODULE StreamManager ---------------------------
(***************************************************************************)
(* The per-stream bookkeeping that every carrier inherits                  *)
(* (carrier_base.py, class StreamManager), together with the tasks that    *)
(* use it: callers of send_data, which wait for window, and one reader per *)
(* stream, which waits on the stream's queue.                              *)
(*                                                                         *)
(* asyncio runs one task at a time and switches only where an await really *)
(* suspends, so each action below is the code between two such points.     *)
(* The five dictionaries of the class always have the same keys; `known'   *)
(* is that key set and the functions keep the values.  A chunk of payload  *)
(* is represented by its length.                                           *)
(***************************************************************************)
EXTENDS Integers, Sequences

CONSTANTS
  Callers,            \* the tasks that may call send_data
  MaxStreamId,        \* protocol.py MAX_STREAM_ID
  InitialWindow,      \* protocol.py INITIAL_WINDOW
  DataChunk,          \* protocol.py DATA_CHUNK
  MessageSizes,       \* the lengths a caller may pass to send_data
  FrameSizes,         \* the payload lengths and deltas the relay may send
  WaitForSpawnsTask   \* does asyncio.wait_for run its argument in a task of
                      \* its own (Python 3.9 - 3.11), or in place (3.12)?

ASSUME StreamManagerAssumption ==
  /\ MaxStreamId \in Nat \ {0}
  /\ InitialWindow \in Nat /\ InitialWindow >= 4
  /\ DataChunk \in Nat \ {0}
  /\ MessageSizes \subseteq Nat \ {0}
  /\ FrameSizes \subseteq Nat
  /\ WaitForSpawnsTask \in BOOLEAN

\* One id beyond the limit: _alloc_stream hands it out, encode_frame rejects it.
Sids == 1 .. MaxStreamId + 1

\* The item b"" on a receive queue: the end of the stream for its reader.
Eof == 0

FrameTypes == {"OPEN", "DATA", "CLOSE", "WINDOW", "PING", "PONG", "BYE"}

\* A parsed frame.  `n' is the payload length of DATA and the delta of WINDOW.
\* Stream 0 carries the frames of the session itself.
Frame == [type : FrameTypes, sid : 0 .. MaxStreamId + 1, n : FrameSizes \cup {0}]

VARIABLES
  nextStreamId,   \* _next_stream_id
  known,          \* the keys of _recv_queues, _send_windows, ...
  openStreams,    \* _open_streams
  recvQueues,     \* _recv_queues: lengths of the waiting chunks, Eof for b""
  sendWindows,    \* _send_windows
  recvWindows,    \* _recv_windows
  windowEvents,   \* _window_events: is the event set?
  sendPc,         \* where each caller of send_data stands
  sendSid,        \* ... its stream
  sendLeft,       \* ... the bytes it still has to send
  outcome,        \* ... how its last call ended
  receivers,      \* is the reader of a stream suspended in queue.get()?
  sent, credited, consumed, granted   \* history: bytes since the stream opened

tableVars   == <<nextStreamId, known, openStreams>>
senderVars  == <<sendPc, sendSid, sendLeft, outcome>>
historyVars == <<sent, credited, consumed, granted>>
smVars == <<nextStreamId, known, openStreams, recvQueues, sendWindows,
            recvWindows, windowEvents, sendPc, sendSid, sendLeft, outcome,
            receivers, sent, credited, consumed, granted>>

SendPcs  == {"idle", "check", "arm", "wait", "woken"}
Outcomes == {"none", "sent", "failed", "closed", "timeout"}

TypeOK ==
  /\ nextStreamId \in 1 .. MaxStreamId + 2
  /\ known \in SUBSET Sids
  /\ openStreams \in SUBSET Sids
  /\ recvQueues \in [Sids -> Seq(Nat)]
  /\ sendWindows \in [Sids -> Nat]
  /\ recvWindows \in [Sids -> Int]
  /\ windowEvents \in [Sids -> BOOLEAN]
  /\ sendPc \in [Callers -> SendPcs]
  /\ sendSid \in [Callers -> Sids]
  /\ sendLeft \in [Callers -> Nat]
  /\ outcome \in [Callers -> Outcomes]
  /\ receivers \in [Sids -> {"idle", "get"}]
  /\ sent \in [Sids -> Nat]
  /\ credited \in [Sids -> Nat]
  /\ consumed \in [Sids -> Nat]
  /\ granted \in [Sids -> Nat]

SMInit ==
  /\ nextStreamId = 1
  /\ known = {}
  /\ openStreams = {}
  /\ recvQueues = [s \in Sids |-> <<>>]
  /\ sendWindows = [s \in Sids |-> InitialWindow]
  /\ recvWindows = [s \in Sids |-> InitialWindow]
  /\ windowEvents = [s \in Sids |-> FALSE]
  /\ sendPc = [t \in Callers |-> "idle"]
  /\ sendSid = [t \in Callers |-> 1]
  /\ sendLeft = [t \in Callers |-> 0]
  /\ outcome = [t \in Callers |-> "none"]
  /\ receivers = [s \in Sids |-> "idle"]
  /\ sent = [s \in Sids |-> 0]
  /\ credited = [s \in Sids |-> 0]
  /\ consumed = [s \in Sids |-> 0]
  /\ granted = [s \in Sids |-> 0]

-----------------------------------------------------------------------------
(* The stream tables. *)

\* _alloc_stream.  Ids are never reused.
AllocStream ==
  /\ nextStreamId \in Sids
  /\ nextStreamId' = nextStreamId + 1
  /\ known' = known \cup {nextStreamId}
  /\ openStreams' = openStreams \cup {nextStreamId}
  /\ recvQueues' = [recvQueues EXCEPT ![nextStreamId] = <<>>]
  /\ sendWindows' = [sendWindows EXCEPT ![nextStreamId] = InitialWindow]
  /\ recvWindows' = [recvWindows EXCEPT ![nextStreamId] = InitialWindow]
  /\ windowEvents' = [windowEvents EXCEPT ![nextStreamId] = TRUE]
  /\ UNCHANGED <<senderVars, receivers, historyVars>>

\* ev.set() on the events of the streams in S: a task suspended in ev.wait()
\* becomes runnable; one that has not reached ev.wait() will find the flag.
SetEvents(S) ==
  /\ windowEvents' = [s \in Sids |-> s \in S \/ windowEvents[s]]
  /\ sendPc' = [t \in Callers |-> IF sendPc[t] = "wait" /\ sendSid[t] \in S
                                  THEN "woken" ELSE sendPc[t]]

\* No task knows the id of s yet: open_stream has not returned it.
Unused(s) ==
  /\ receivers[s] = "idle"
  /\ \A t \in Callers : sendPc[t] # "idle" => sendSid[t] # s

\* Mutant: the stream stays in _open_streams.
RemoveStream_Open(s) ==
  /\ s \in known
  /\ Unused(s)
  /\ known' = known \ {s}
  /\ SetEvents({s})
  /\ UNCHANGED <<nextStreamId, openStreams, recvQueues, sendWindows, recvWindows,
                 sendSid, sendLeft, outcome, receivers, historyVars>>

\* _remove_stream, called only by an open_stream that fails.
RemoveStream(s) ==
  /\ s \in known
  /\ Unused(s)
  /\ known' = known \ {s}
  /\ openStreams' = openStreams \ {s}
  /\ SetEvents({s})
  /\ UNCHANGED <<nextStreamId, recvQueues, sendWindows, recvWindows, sendSid,
                 sendLeft, outcome, receivers, historyVars>>

\* Mutant: the events are dropped without being set.
ClearStreams_NoWake ==
  /\ recvQueues' = [s \in Sids |-> IF s \in known THEN Append(recvQueues[s], Eof)
                                   ELSE recvQueues[s]]
  /\ known' = {}
  /\ openStreams' = {}
  /\ UNCHANGED <<nextStreamId, sendWindows, recvWindows, windowEvents, senderVars,
                 receivers, historyVars>>

\* _clear_streams.  A suspended reader keeps its queue object, and finds the
\* b"" there, behind an item it may have been given and not taken yet; a queue
\* nobody waits on is unreachable afterwards.
ClearStreams ==
  /\ recvQueues' = [s \in Sids |-> IF s \in known THEN Append(recvQueues[s], Eof)
                                   ELSE recvQueues[s]]
  /\ SetEvents(known)
  /\ known' = {}
  /\ openStreams' = {}
  /\ UNCHANGED <<nextStreamId, sendWindows, recvWindows, sendSid, sendLeft,
                 outcome, receivers, historyVars>>

\* The end of a stream found out by its own transport (the finally clause of
\* _lane_reader): discard it, and end the queue if it is still there.
EndStream(s) ==
  /\ openStreams' = openStreams \ {s}
  /\ recvQueues' = IF s \in known THEN [recvQueues EXCEPT ![s] = Append(@, Eof)]
                   ELSE recvQueues
  /\ UNCHANGED <<nextStreamId, known, sendWindows, recvWindows, windowEvents,
                 senderVars, receivers, historyVars>>

\* self._open_streams.discard(sid), the local half of close_stream.
DiscardOpen(s) ==
  /\ openStreams' = openStreams \ {s}
  /\ UNCHANGED <<nextStreamId, known, recvQueues, sendWindows, recvWindows,
                 windowEvents, senderVars, receivers, historyVars>>

-----------------------------------------------------------------------------
(* _dispatch_frame, one action per frame type that changes state. *)

DispatchData(f) ==
  /\ f.type = "DATA"
  /\ f.sid \in known
  /\ recvQueues' = [recvQueues EXCEPT ![f.sid] = Append(@, f.n)]
  /\ UNCHANGED <<tableVars, sendWindows, recvWindows, windowEvents, senderVars,
                 receivers, historyVars>>

\* Mutant: the credit is added without setting the event.
DispatchWindow_NoWake(f) ==
  /\ f.type = "WINDOW"
  /\ f.sid \in known
  /\ f.n > 0
  /\ sendWindows' = [sendWindows EXCEPT ![f.sid] = @ + f.n]
  /\ credited' = [credited EXCEPT ![f.sid] = @ + f.n]
  /\ UNCHANGED <<tableVars, recvQueues, recvWindows, windowEvents, senderVars,
                 receivers, sent, consumed, granted>>

DispatchWindow(f) ==
  /\ f.type = "WINDOW"
  /\ f.sid \in known
  /\ f.n > 0
  /\ sendWindows' = [sendWindows EXCEPT ![f.sid] = @ + f.n]
  /\ credited' = [credited EXCEPT ![f.sid] = @ + f.n]
  /\ SetEvents({f.sid})
  /\ UNCHANGED <<tableVars, recvQueues, recvWindows, sendSid, sendLeft, outcome,
                 receivers, sent, consumed, granted>>

\* CLOSE ends the reader's queue; the window event is left alone.
DispatchClose(f) ==
  /\ f.type = "CLOSE"
  /\ f.sid \in openStreams
  /\ openStreams' = openStreams \ {f.sid}
  /\ recvQueues' = [recvQueues EXCEPT ![f.sid] = Append(@, Eof)]
  /\ UNCHANGED <<nextStreamId, known, sendWindows, recvWindows, windowEvents,
                 senderVars, receivers, historyVars>>

\* Everything else: frames of unknown or closed streams, PING (the PONG is
\* sent by the caller), BYE (the caller disconnects), unknown types; and
\* parse_window raising ValueError on a zero delta.
DispatchIgnored(f) ==
  /\ ~(f.type = "DATA" /\ f.sid \in known)
  /\ ~(f.type = "WINDOW" /\ f.sid \in known /\ f.n > 0)
  /\ ~(f.type = "CLOSE" /\ f.sid \in openStreams)
  /\ UNCHANGED smVars

DispatchFrame(f) ==
  \/ DispatchData(f)
  \/ DispatchWindow(f)
  \/ DispatchClose(f)
  \/ DispatchIgnored(f)

-----------------------------------------------------------------------------
(* send_data: chunk by chunk, each behind _wait_send_window. *)

BeginSend(t, s, n) ==
  /\ sendPc[t] = "idle"
  /\ s < nextStreamId
  /\ sendPc' = [sendPc EXCEPT ![t] = "check"]
  /\ sendSid' = [sendSid EXCEPT ![t] = s]
  /\ sendLeft' = [sendLeft EXCEPT ![t] = n]
  /\ outcome' = [outcome EXCEPT ![t] = "none"]
  /\ UNCHANGED <<tableVars, recvQueues, sendWindows, recvWindows, windowEvents,
                 receivers, historyVars>>

ChunkOf(t) == IF sendLeft[t] < DataChunk THEN sendLeft[t] ELSE DataChunk
SendWindow(s) == IF s \in known THEN sendWindows[s] ELSE 0
Short(t) == SendWindow(sendSid[t]) < ChunkOf(t)

\* The loop test of _wait_send_window runs on entry and after each wake-up.
Testing(t) == sendPc[t] \in {"check", "woken"}

EndSend(t, result) ==
  /\ sendPc' = [sendPc EXCEPT ![t] = "idle"]
  /\ sendLeft' = [sendLeft EXCEPT ![t] = 0]
  /\ outcome' = [outcome EXCEPT ![t] = result]
  /\ UNCHANGED sendSid

\* Not enough window on an open stream: clear the event and wait for it.
SenderBlocks(t) ==
  /\ Testing(t)
  /\ Short(t)
  /\ sendSid[t] \in openStreams
  /\ windowEvents' = [windowEvents EXCEPT ![sendSid[t]] = FALSE]
  /\ sendPc' = [sendPc EXCEPT ![t] = IF WaitForSpawnsTask THEN "arm" ELSE "wait"]
  /\ UNCHANGED <<tableVars, recvQueues, sendWindows, recvWindows, sendSid,
                 sendLeft, outcome, receivers, historyVars>>

\* The task that wait_for created reaches ev.wait().
SenderRegisters(t) ==
  /\ sendPc[t] = "arm"
  /\ sendPc' = [sendPc EXCEPT ![t] = IF windowEvents[sendSid[t]] THEN "woken"
                                     ELSE "wait"]
  /\ UNCHANGED <<tableVars, recvQueues, sendWindows, recvWindows, windowEvents,
                 sendSid, sendLeft, outcome, receivers, historyVars>>

\* StreamClosedError: short of window, and the stream is no longer open.
SenderFindsClosed(t) ==
  /\ Testing(t)
  /\ Short(t)
  /\ sendSid[t] \notin openStreams
  /\ EndSend(t, "closed")
  /\ UNCHANGED <<tableVars, recvQueues, sendWindows, recvWindows, windowEvents,
                 receivers, historyVars>>

\* CarrierError("Send window timeout"): in the wait itself, or at the next
\* loop test, which has cleared the event by then.
SenderTimesOut(t) ==
  /\ \/ /\ sendPc[t] = "wait"
        /\ UNCHANGED windowEvents
     \/ /\ sendPc[t] = "woken"
        /\ Short(t)
        /\ sendSid[t] \in openStreams
        /\ windowEvents' = [windowEvents EXCEPT ![sendSid[t]] = FALSE]
  /\ EndSend(t, "timeout")
  /\ UNCHANGED <<tableVars, recvQueues, sendWindows, recvWindows, receivers,
                 historyVars>>

\* Mutant: the window is not debited.
SendChunk_NoDebit(t, ok) ==
  /\ Testing(t)
  /\ ~Short(t)
  /\ sent' = [sent EXCEPT ![sendSid[t]] = @ + ChunkOf(t)]
  /\ IF ok /\ sendLeft[t] > ChunkOf(t)
     THEN /\ sendPc' = [sendPc EXCEPT ![t] = "check"]
          /\ sendLeft' = [sendLeft EXCEPT ![t] = @ - ChunkOf(t)]
          /\ UNCHANGED <<sendSid, outcome>>
     ELSE EndSend(t, IF ok THEN "sent" ELSE "failed")
  /\ UNCHANGED <<tableVars, recvQueues, sendWindows, recvWindows, windowEvents,
                 receivers, credited, consumed, granted>>

\* Enough window: take the chunk's bytes and hand the chunk to the transport.
\* ok is whether the transport's send returned or raised.
SendChunk(t, ok) ==
  /\ Testing(t)
  /\ ~Short(t)
  /\ sendWindows' = [sendWindows EXCEPT ![sendSid[t]] = @ - ChunkOf(t)]
  /\ sent' = [sent EXCEPT ![sendSid[t]] = @ + ChunkOf(t)]
  /\ IF ok /\ sendLeft[t] > ChunkOf(t)
     THEN /\ sendPc' = [sendPc EXCEPT ![t] = "check"]
          /\ sendLeft' = [sendLeft EXCEPT ![t] = @ - ChunkOf(t)]
          /\ UNCHANGED <<sendSid, outcome>>
     ELSE EndSend(t, IF ok THEN "sent" ELSE "failed")
  /\ UNCHANGED <<tableVars, recvQueues, recvWindows, windowEvents, receivers,
                 credited, consumed, granted>>

-----------------------------------------------------------------------------
(* recv_data: _recv_data_from_queue followed by _compute_window_grant. *)

\* recv_data finds the queue empty and suspends.  (On an id without a queue
\* it raises StreamClosedError and nothing changes.)
RecvWaits(s) ==
  /\ receivers[s] = "idle"
  /\ s \in known
  /\ recvQueues[s] = <<>>
  /\ receivers' = [receivers EXCEPT ![s] = "get"]
  /\ UNCHANGED <<tableVars, recvQueues, sendWindows, recvWindows, windowEvents,
                 senderVars, historyVars>>

\* recv_data has an item: at once, or when its queue.get() resumes.
HasItem(s) ==
  /\ recvQueues[s] # <<>>
  /\ receivers[s] = "get" \/ s \in known

\* b"" (also an empty DATA payload): StreamClosedError.
RecvEof(s) ==
  /\ HasItem(s)
  /\ Head(recvQueues[s]) = Eof
  /\ recvQueues' = [recvQueues EXCEPT ![s] = Tail(@)]
  /\ receivers' = [receivers EXCEPT ![s] = "idle"]
  /\ UNCHANGED <<tableVars, sendWindows, recvWindows, windowEvents, senderVars,
                 historyVars>>

\* What the reader owes the relay once it has taken the next chunk, and the
\* part of it that is granted now: all of it, from a quarter window on.
Owed(s) == InitialWindow - (recvWindows[s] - Head(recvQueues[s]))
\* Mutant: the subtraction is the wrong way round.
GrantDue_Negative(s) == IF Owed(s) >= InitialWindow \div 4 THEN -Owed(s) ELSE 0

\* Mutant: the test is one byte late.
GrantDue_Late(s) == IF Owed(s) > InitialWindow \div 4 THEN Owed(s) ELSE 0

GrantDue(s) == IF Owed(s) >= InitialWindow \div 4 THEN Owed(s) ELSE 0

\* Mutant: the count of consumed bytes is not reset by a grant.
RecvChunk_NoReset(s) ==
  /\ HasItem(s)
  /\ Head(recvQueues[s]) # Eof
  /\ s \in known
  /\ recvQueues' = [recvQueues EXCEPT ![s] = Tail(@)]
  /\ receivers' = [receivers EXCEPT ![s] = "idle"]
  /\ consumed' = [consumed EXCEPT ![s] = @ + Head(recvQueues[s])]
  /\ recvWindows' = [recvWindows EXCEPT ![s] = @ - Head(recvQueues[s])]
  /\ granted' = [granted EXCEPT ![s] = @ + GrantDue(s)]
  /\ UNCHANGED <<tableVars, sendWindows, windowEvents, senderVars, sent,
                 credited>>

RecvChunk(s) ==
  /\ HasItem(s)
  /\ Head(recvQueues[s]) # Eof
  /\ s \in known
  /\ recvQueues' = [recvQueues EXCEPT ![s] = Tail(@)]
  /\ receivers' = [receivers EXCEPT ![s] = "idle"]
  /\ consumed' = [consumed EXCEPT ![s] = @ + Head(recvQueues[s])]
  /\ recvWindows' = [recvWindows EXCEPT
                       ![s] = InitialWindow - (Owed(s) - GrantDue(s))]
  /\ granted' = [granted EXCEPT ![s] = @ + GrantDue(s)]
  /\ UNCHANGED <<tableVars, sendWindows, windowEvents, senderVars, sent,
                 credited>>

\* The stream was dropped while its reader had a chunk to resume with: the
\* chunk is out of the queue when recv_data misses its window (KeyError).
RecvGone(s) ==
  /\ HasItem(s)
  /\ Head(recvQueues[s]) # Eof
  /\ s \notin known
  /\ recvQueues' = [recvQueues EXCEPT ![s] = Tail(@)]
  /\ receivers' = [receivers EXCEPT ![s] = "idle"]
  /\ UNCHANGED <<tableVars, sendWindows, recvWindows, windowEvents, senderVars,
                 historyVars>>

-----------------------------------------------------------------------------
SenderStep(t) ==
  \/ SenderBlocks(t)
  \/ SenderRegisters(t)
  \/ SenderFindsClosed(t)
  \/ SenderTimesOut(t)
  \/ \E ok \in BOOLEAN : SendChunk(t, ok)

SMNext ==
  \/ AllocStream
  \/ ClearStreams
  \/ \E s \in Sids : RemoveStream(s) \/ DiscardOpen(s) \/ EndStream(s)
  \/ \E f \in Frame : DispatchFrame(f)
  \/ \E t \in Callers, s \in Sids, n \in MessageSizes : BeginSend(t, s, n)
  \/ \E t \in Callers : SenderStep(t)
  \/ \E s \in Sids : RecvWaits(s) \/ RecvEof(s) \/ RecvChunk(s) \/ RecvGone(s)

SMSpec == SMInit /\ [][SMNext]_smVars

-----------------------------------------------------------------------------
(* Properties. *)

\* What send_data has taken from a stream's window never exceeds the initial
\* window plus the credit the relay granted, whatever the order in which
\* callers wait, wake and send (carrier_base.py _wait_send_window with the
\* decrement in send_data).
SentWithinCredit == \A s \in Sids : sent[s] <= InitialWindow + credited[s]

\* The credit given back for a stream equals what its reader consumed, except
\* for a withheld rest that stays below a quarter window: the relay is never
\* granted a byte twice, and never kept short of three quarters of the window
\* (_recv_data_from_queue, _compute_window_grant).
GrantsFollowConsumption ==
  \A s \in Sids : /\ granted[s] <= consumed[s]
                  /\ consumed[s] - granted[s] < InitialWindow \div 4

\* No task waits on an object nobody can reach any more: once the tables have
\* dropped a stream, a reader suspended on its queue has an item to resume
\* with, and no sender sleeps on its event (_clear_streams, _remove_stream).
NoStrandedWaiter ==
  /\ \A s \in Sids : receivers[s] = "get" /\ s \notin known => recvQueues[s] # <<>>
  /\ \A t \in Callers : sendPc[t] = "wait" => sendSid[t] \in known

\* A sender asleep in _wait_send_window is short of window: no credit arrives
\* without waking it (_dispatch_frame WINDOW, _wait_send_window).
NoMissedCredit == \A t \in Callers : sendPc[t] = "wait" => Short(t)

-----------------------------------------------------------------------------
(* The inductive invariant behind the properties, in four parts. *)

\* Allocated ids are below the counter, an open stream has its tables, and an
\* id that was never allocated has no history.
TablesInv ==
  /\ openStreams \subseteq known
  /\ \A s \in known : s < nextStreamId
  /\ \A s \in Sids : s >= nextStreamId =>
       sent[s] = 0 /\ credited[s] = 0 /\ consumed[s] = 0 /\ granted[s] = 0

\* While a stream has its tables the two windows and the history agree.
WindowsInv ==
  \A s \in known :
    /\ sent[s] + sendWindows[s] = InitialWindow + credited[s]
    /\ granted[s] + (InitialWindow - recvWindows[s]) = consumed[s]
    /\ InitialWindow - recvWindows[s] >= 0
    /\ InitialWindow - recvWindows[s] < InitialWindow \div 4

\* A caller inside send_data has a stream that was allocated and bytes left;
\* the event of a stream that was dropped stays set.
CallersInv ==
  /\ \A t \in Callers : sendPc[t] # "idle" => sendSid[t] < nextStreamId /\ sendLeft[t] > 0
  /\ \A s \in Sids : s < nextStreamId /\ s \notin known => windowEvents[s]

\* wait_for that runs in place leaves no gap between the test and the wait.
InPlaceInv ==
  ~WaitForSpawnsTask => NoMissedCredit /\ \A t \in Callers : sendPc[t] # "arm"

SMInv ==
  /\ TypeOK
  /\ TablesInv
  /\ WindowsInv
  /\ SentWithinCredit
  /\ GrantsFollowConsumption
  /\ CallersInv
  /\ NoStrandedWaiter
  /\ InPlaceInv
=============================================================================
