------------------------- MODULE WebProxyConnection -------------------------
(***************************************************************************)
(* Telethon's connection over a carrier (connector_v1.py,                  *)
(* ConnectionWebProxy): connect, disconnect, send, recv and the two loops, *)
(* with disconnects that the owner, a failing connect and the loops        *)
(* themselves may run at the same time, and an owner who connects the same *)
(* object again.                                                           *)
(*                                                                         *)
(* Each connect has a carrier of its own; a carrier and its two loops are  *)
(* named by the number of that connect, and 0 is None.  Of a carrier there *)
(* is its life here, from connect through a loss or a BYE to the end of    *)
(* its disconnect; the modules about carriers have the rest.  The owner is *)
(* Telethon's sender: it connects again only when its last connect has     *)
(* raised, or a disconnect of its own, begun after that connect, has       *)
(* returned.                                                               *)
(***************************************************************************)
EXTENDS Integers, Sequences

CONSTANT MaxConnects    \* connects of the owner

ASSUME ConnectionAssumption == MaxConnects \in Nat \ {0}

Epochs == 1 .. MaxConnects
Loops == {"send", "recv"} \X Epochs
Owner == <<"owner", 0>>
Connecting == <<"connect", 0>>

\* Who may be running disconnect().
Procs == Loops \cup {Owner, Connecting}

VARIABLES
  connected,               \* _connected
  carrierRef, streamRef,   \* _carrier, _stream_id
  loopsRef,                \* _send_task and _recv_task, set and reset together
  sendQueue, recvQueue,    \* _send_queue: how many packets; _recv_queue: the items
  epoch,                   \* the number of the last connect
  connectPc,               \* progress of connect()
  owner,                   \* has the owner a connection ("in"), which a disconnect
                           \* in progress has missed ("overlapped"), or not?
  carriers,                \* what has become of each carrier
  loopPc, cancelled,       \* where each loop stands; a CancelledError it will see
  holding,                 \* the item a receive loop waits to put
  disc,                    \* disconnect(), for each that runs it: its progress, the
                           \* loops and the carrier it has found
  sender, receiver,        \* does a send() wait to put its packet, a recv() to get one?
  sends, nextIn,           \* history: calls of send(); the number of the next item,
  lastGot                  \* ... the last recv() took, and the connection it was for

refVars   == <<carrierRef, streamRef, loopsRef>>
ownerVars == <<epoch, connectPc, owner>>
loopVars  == <<loopPc, cancelled, holding>>
queueVars == <<sendQueue, recvQueue, sender, receiver, sends, nextIn, lastGot>>
vars == <<connected, refVars, ownerVars, carriers, loopVars, disc, queueVars>>

\* An item of _recv_queue: a packet, an empty one, or an error, and the
\* connection that put it there.
Item == [kind : {"packet", "empty", "error"}, from : Epochs, n : Nat]
None == [kind |-> "empty", from |-> 1, n |-> 0]

LoopPcs == {"none", "created", "queue", "send", "read", "put", "finally", "done"}
\* A carrier that is "up" may be "lost", or hear a BYE: then its background task
\* is in its own disconnect, up to the end of the DELETE.  One that is "stuck" has
\* had that DELETE cancelled by another disconnect, and "leaked" is how it ends:
\* with its HTTP session open and forgotten.
CarrierStates ==
  {"none", "connecting", "up", "lost", "bye", "closing", "stuck", "leaked", "closed"}

DiscPcs == {"idle", "joinSend", "joinRecv", "closeStream", "closeCarrier"}
Disc == [pc : DiscPcs, loops : 0 .. MaxConnects, carrier : 0 .. MaxConnects]
NoDisc == [pc |-> "idle", loops |-> 0, carrier |-> 0]

TypeOK ==
  /\ connected \in BOOLEAN
  /\ {carrierRef, streamRef, loopsRef, epoch} \subseteq 0 .. MaxConnects
  /\ connectPc \in {"idle", "carrier", "open", "header", "failing"}
  /\ owner \in {"out", "in", "overlapped"}
  /\ carriers \in [Epochs -> CarrierStates]
  /\ loopPc \in [Loops -> LoopPcs]
  /\ cancelled \in [Loops -> BOOLEAN]
  /\ holding \in [Epochs -> Item]
  /\ disc \in [Procs -> Disc]
  /\ sendQueue \in 0 .. 1
  /\ recvQueue \in Seq(Item) /\ Len(recvQueue) <= 1
  /\ {sender, receiver} \subseteq BOOLEAN
  /\ {sends, nextIn} \subseteq Nat
  /\ lastGot \in [from : 0 .. MaxConnects, n : Nat, at : 0 .. MaxConnects]

Init ==
  /\ connected = FALSE
  /\ carrierRef = 0 /\ streamRef = 0 /\ loopsRef = 0
  /\ epoch = 0 /\ connectPc = "idle" /\ owner = "out"
  /\ carriers = [e \in Epochs |-> "none"]
  /\ loopPc = [l \in Loops |-> "none"]
  /\ cancelled = [l \in Loops |-> FALSE]
  /\ holding = [e \in Epochs |-> None]
  /\ disc = [p \in Procs |-> NoDisc]
  /\ sendQueue = 0 /\ recvQueue = <<>> /\ sender = FALSE /\ receiver = FALSE
  /\ sends = 0 /\ nextIn = 1 /\ lastGot = [from |-> 0, n |-> 0, at |-> 0]

-----------------------------------------------------------------------------
(* disconnect(), as run by p. *)

\* p goes on with d; NoDisc is the end, and with it ends the loop, or the
\* connect, that p is.
DiscGoesTo(p, d) ==
  /\ disc' = [disc EXCEPT ![p] = d]
  /\ loopPc' = IF p \in Loops
               THEN [loopPc EXCEPT ![p] = IF d = NoDisc THEN "done" ELSE "finally"]
               ELSE loopPc
  /\ connectPc' = IF p # Connecting THEN connectPc
                  ELSE IF d = NoDisc THEN "idle" ELSE "failing"
  /\ owner' = IF d # NoDisc \/ p \in Loops THEN owner
              ELSE IF owner = "overlapped" THEN "in" ELSE "out"

\* A loop that is itself waiting for another passes a cancellation on to it.
Joins(p) == disc[p].pc \in {"joinSend", "joinRecv"}
Joined(p) == <<IF disc[p].pc = "joinSend" THEN "send" ELSE "recv", disc[p].loops>>
Target(l) == IF Joins(l) THEN Joined(l) ELSE l

\* What p was cancelled for is over; the loops of S are cancelled.
Cancel(p, S) == cancelled' = [l \in Loops |-> l \in S \/ (cancelled[l] /\ l # p)]

\* Mutant: a loop that disconnects waits for itself.
Awaits_Itself(p, kind, e) == e # 0 /\ loopPc[<<kind, e>>] # "done"

\* Must p wait for that loop of connection e?
Awaits(p, kind, e) == e # 0 /\ <<kind, e>> # p /\ loopPc[<<kind, e>>] # "done"

\* Mutant: the loop is awaited, not cancelled.
Join_NoCancel(p, pc, kind, e) ==
  /\ DiscGoesTo(p, [pc |-> pc, loops |-> e, carrier |-> 0])
  /\ Cancel(p, {})
  /\ UNCHANGED <<refVars, carriers>>

Join(p, pc, kind, e) ==
  /\ DiscGoesTo(p, [pc |-> pc, loops |-> e, carrier |-> 0])
  /\ Cancel(p, {Target(<<kind, e>>)})
  /\ UNCHANGED <<refVars, carriers>>

\* What a disconnect makes of a carrier: closes it, unless it cancels the DELETE
\* of a disconnect that the carrier itself has begun.
Closed(state) == IF state = "bye" THEN {"closing", "stuck"} ELSE {"closing"}

\* carrier.disconnect() runs under a shield, in a task of its own.
CloseCarrier(p, c) ==
  /\ DiscGoesTo(p, [pc |-> "closeCarrier", loops |-> 0, carrier |-> c])
  /\ \E state \in Closed(carriers[c]) : carriers' = [carriers EXCEPT ![c] = state]
  /\ Cancel(p, {})

DiscEnds(p) == DiscGoesTo(p, NoDisc) /\ Cancel(p, {}) /\ UNCHANGED carriers

CloseAll(p) ==
  \/ carrierRef = 0 /\ DiscEnds(p)
  \/ /\ carrierRef # 0 /\ streamRef # 0
     /\ DiscGoesTo(p, [pc |-> "closeStream", loops |-> 0, carrier |-> carrierRef])
     /\ Cancel(p, {})
     /\ UNCHANGED carriers
  \/ carrierRef # 0 /\ streamRef = 0 /\ CloseCarrier(p, carrierRef)

\* Mutant: the carrier is not taken out of the connection.
Release_Shared(p) ==
  /\ loopsRef' = 0 /\ streamRef' = 0 /\ UNCHANGED carrierRef
  /\ CloseAll(p)

\* Take the carrier and the stream out of the connection, and close them.
Release(p) ==
  /\ loopsRef' = 0 /\ carrierRef' = 0 /\ streamRef' = 0
  /\ CloseAll(p)

\* Mutant: only the send loop is waited for.
AfterSendLoop_SkipsRecv(p, e) == Release(p)

AfterSendLoop(p, e) ==
  \/ Awaits(p, "recv", e) /\ Join(p, "joinRecv", "recv", e)
  \/ ~Awaits(p, "recv", e) /\ Release(p)

\* The first stretch of disconnect.
Begin(p) ==
  /\ connected' = FALSE
  /\ \/ Awaits(p, "send", loopsRef) /\ Join(p, "joinSend", "send", loopsRef)
     \/ ~Awaits(p, "send", loopsRef) /\ AfterSendLoop(p, loopsRef)

DiscJoined(p) ==
  /\ Joins(p) /\ loopPc[Joined(p)] = "done"
  /\ \/ disc[p].pc = "joinSend" /\ AfterSendLoop(p, disc[p].loops)
     \/ disc[p].pc = "joinRecv" /\ Release(p)

\* close_stream has returned or raised, or the wait for it was cancelled.
DiscStreamClosed(p) ==
  /\ disc[p].pc = "closeStream"
  /\ CloseCarrier(p, disc[p].carrier)
  /\ UNCHANGED refVars

\* So has carrier.disconnect(), which goes on if only the wait was cancelled.
DiscCarrierClosed(p) ==
  /\ disc[p].pc = "closeCarrier"
  /\ \/ carriers[disc[p].carrier] \in {"closed", "leaked"}
     \/ p \in Loops /\ cancelled[p]
  /\ DiscEnds(p)
  /\ UNCHANGED refVars

DiscStep(p) ==
  /\ DiscJoined(p) \/ DiscStreamClosed(p) \/ DiscCarrierClosed(p)
  /\ UNCHANGED <<connected, epoch, holding, queueVars>>

OwnerDisconnects ==
  /\ epoch > 0
  /\ disc[Owner].pc = "idle"
  /\ Begin(Owner)
  /\ UNCHANGED <<epoch, holding, queueVars>>

-----------------------------------------------------------------------------
(* connect() *)

Connect ==
  /\ owner = "out"
  /\ connectPc = "idle" /\ disc[Owner].pc = "idle"
  /\ epoch + 1 \in Epochs
  /\ epoch' = epoch + 1
  /\ carrierRef' = epoch + 1
  /\ carriers' = [carriers EXCEPT ![epoch + 1] = "connecting"]
  /\ connectPc' = "carrier"
  /\ owner' = "in"
  /\ UNCHANGED <<connected, streamRef, loopsRef, loopVars, disc, queueVars>>

\* The carrier is connected, and open_stream is called on what is then in
\* _carrier.
ConnectOpens ==
  /\ connectPc = "carrier"
  /\ carriers[epoch] = "connecting"
  /\ carrierRef # 0
  /\ carriers' = [carriers EXCEPT ![epoch] = "up"]
  /\ connectPc' = "open"
  /\ UNCHANGED <<connected, refVars, epoch, owner, loopVars, disc, queueVars>>

\* open_stream has returned.
ConnectSendsHeader ==
  /\ connectPc = "open"
  /\ carrierRef # 0
  /\ streamRef' = epoch
  /\ connectPc' = "header"
  /\ UNCHANGED <<connected, carrierRef, loopsRef, epoch, owner, carriers, loopVars,
                 disc, queueVars>>

\* The header is sent: connect returns, even if a disconnect of the owner has
\* taken the carrier away meanwhile.
ConnectReturns ==
  /\ connectPc = "header"
  /\ connected' = TRUE
  /\ loopsRef' = epoch
  /\ loopPc' = [loopPc EXCEPT ![<<"send", epoch>>] = "created",
                              ![<<"recv", epoch>>] = "created"]
  /\ connectPc' = "idle"
  /\ owner' = IF disc[Owner].pc = "idle" THEN "in" ELSE "overlapped"
  /\ UNCHANGED <<carrierRef, streamRef, epoch, carriers, cancelled, holding, disc,
                 queueVars>>

\* Mutant: a failing connect does not clean up.
ConnectRaises_Leaks ==
  /\ connectPc \in {"carrier", "open", "header"}
  /\ connectPc' = "idle"
  /\ owner' = "out"
  /\ UNCHANGED <<connected, refVars, epoch, carriers, loopVars, disc, queueVars>>

\* Any of the three waits raises, times out or is cancelled, or finds _carrier
\* reset.  A carrier that fails to connect closes its own session first.
ConnectRaises ==
  /\ connectPc \in {"carrier", "open", "header"}
  /\ Begin(Connecting)
  /\ UNCHANGED <<epoch, holding, queueVars>>

ConnectStep == ConnectOpens \/ ConnectSendsHeader \/ ConnectReturns \/ ConnectRaises

-----------------------------------------------------------------------------
(* send() and recv(), which raise and change nothing when not connected. *)

SendCalls ==
  /\ connected
  /\ ~sender
  /\ sends' = sends + 1
  /\ IF sendQueue = 0 THEN sendQueue' = 1 /\ UNCHANGED sender
     ELSE sender' = TRUE /\ UNCHANGED sendQueue
  /\ UNCHANGED <<recvQueue, receiver, nextIn, lastGot>>

SendPuts ==
  /\ sender /\ sendQueue = 0
  /\ sendQueue' = 1
  /\ sender' = FALSE
  /\ UNCHANGED <<recvQueue, receiver, sends, nextIn, lastGot>>

RecvWaits ==
  /\ connected
  /\ ~receiver
  /\ recvQueue = <<>>
  /\ receiver' = TRUE
  /\ UNCHANGED <<sendQueue, recvQueue, sender, sends, nextIn, lastGot>>

\* recv takes an item: at once, or when its queue.get() resumes.  It keeps
\* waiting after an empty packet.
RecvTakes ==
  /\ receiver \/ connected
  /\ recvQueue # <<>>
  /\ LET item == Head(recvQueue) IN
     /\ receiver' = (item.kind = "empty" /\ connected)
     /\ lastGot' = [from |-> item.from, n |-> item.n, at |-> epoch]
  /\ recvQueue' = Tail(recvQueue)
  /\ UNCHANGED <<sendQueue, sender, sends, nextIn>>

\* The owner cancels its send() or its recv().
GivesUp ==
  /\ \/ sender /\ sender' = FALSE /\ UNCHANGED receiver
     \/ receiver /\ receiver' = FALSE /\ UNCHANGED sender
  /\ UNCHANGED <<sendQueue, recvQueue, sends, nextIn, lastGot>>

CallStep ==
  /\ SendCalls \/ SendPuts \/ RecvWaits \/ RecvTakes \/ GivesUp
  /\ UNCHANGED <<connected, refVars, ownerVars, carriers, loopVars, disc>>

-----------------------------------------------------------------------------
(* _send_loop() and _recv_loop() *)

\* Mutant: a loop that ends leaves the connection up.
LoopEnds_Quietly(l) ==
  /\ loopPc' = [loopPc EXCEPT ![l] = "done"]
  /\ Cancel(l, {})
  /\ UNCHANGED <<connected, refVars, connectPc, owner, carriers, disc>>

\* The finally clause: whoever finds the connection up disconnects it.
LoopEnds(l) ==
  \/ connected /\ Begin(l)
  \/ /\ ~connected
     /\ loopPc' = [loopPc EXCEPT ![l] = "done"]
     /\ Cancel(l, {})
     /\ UNCHANGED <<connected, refVars, connectPc, owner, carriers, disc>>

\* The loop goes to pc without ending.
LoopGoesTo(l, pc) ==
  /\ loopPc' = [loopPc EXCEPT ![l] = pc]
  /\ UNCHANGED <<connected, refVars, connectPc, owner, carriers, cancelled, disc>>

\* while self._connected, and what the loop then waits for.
LoopTests(l) ==
  \/ connected /\ LoopGoesTo(l, IF l[1] = "send" THEN "queue" ELSE "read")
  \/ ~connected /\ LoopEnds(l)

\* A task cancelled before its first step never runs its body.
LoopStarts(l) ==
  /\ loopPc[l] = "created"
  /\ IF cancelled[l]
     THEN /\ loopPc' = [loopPc EXCEPT ![l] = "done"]
          /\ Cancel(l, {})
          /\ UNCHANGED <<connected, refVars, connectPc, owner, carriers, disc>>
     ELSE LoopTests(l)
  /\ UNCHANGED <<holding, queueVars>>

LoopCancelled(l) ==
  /\ loopPc[l] \in {"queue", "send", "read", "put"}
  /\ cancelled[l]
  /\ LoopEnds(l)
  /\ holding' = IF l[1] = "recv" THEN [holding EXCEPT ![l[2]] = None] ELSE holding
  /\ UNCHANGED queueVars

At(l, pc) == loopPc[l] = pc /\ ~cancelled[l]

\* A packet from the queue goes to send_data of what is then in _carrier.
SendLoopTakes(l) ==
  /\ At(l, "queue")
  /\ sendQueue > 0
  /\ sendQueue' = 0
  /\ \/ carrierRef # 0 /\ LoopGoesTo(l, "send")
     \/ carrierRef = 0 /\ LoopEnds(l)
  /\ UNCHANGED <<holding, recvQueue, sender, receiver, sends, nextIn, lastGot>>

SendLoopReturns(l) ==
  /\ At(l, "send")
  /\ LoopTests(l) \/ LoopEnds(l)
  /\ UNCHANGED <<holding, queueVars>>

\* What the receive loop does after it has put an item: an error ends it.
AfterPut(l, item) == IF item.kind = "error" THEN LoopEnds(l) ELSE LoopTests(l)

\* Mutant: the queue has no bound.
RecvLoopPuts_Unbounded(l, item) ==
  /\ recvQueue' = Append(recvQueue, item)
  /\ AfterPut(l, item)
  /\ holding' = [holding EXCEPT ![l[2]] = None]

RecvLoopPuts(l, item) ==
  /\ recvQueue = <<>>
  /\ recvQueue' = <<item>>
  /\ AfterPut(l, item)
  /\ holding' = [holding EXCEPT ![l[2]] = None]

RecvLoopWaits(l, item) ==
  /\ recvQueue # <<>>
  /\ holding' = [holding EXCEPT ![l[2]] = item]
  /\ LoopGoesTo(l, "put")
  /\ UNCHANGED recvQueue

\* read() returns a packet, or raises: at the latest when the carrier is lost, or
\* has cleared its streams for a BYE.
RecvLoopReads(l, kind) ==
  /\ At(l, "read")
  /\ kind # "error" => carriers[l[2]] \in {"up", "lost", "bye"}
  /\ LET item == [kind |-> kind, from |-> l[2], n |-> nextIn]
     IN  RecvLoopPuts(l, item) \/ RecvLoopWaits(l, item)
  /\ nextIn' = nextIn + 1
  /\ UNCHANGED <<sendQueue, sender, receiver, sends, lastGot>>

RecvLoopResumes(l) ==
  /\ At(l, "put")
  /\ RecvLoopPuts(l, holding[l[2]])
  /\ UNCHANGED <<sendQueue, sender, receiver, sends, nextIn, lastGot>>

LoopStep(l) ==
  /\ \/ LoopStarts(l) \/ LoopCancelled(l)
     \/ SendLoopTakes(l) \/ SendLoopReturns(l)
     \/ RecvLoopResumes(l)
     \/ \E kind \in {"packet", "empty", "error"} : RecvLoopReads(l, kind)
  /\ UNCHANGED epoch

-----------------------------------------------------------------------------
(* The carriers. *)

CarrierGoes(e, from, to) ==
  /\ carriers[e] = from
  /\ carriers' = [carriers EXCEPT ![e] = to]

\* The transport is gone: the background task ends, and has the session closed.
CarrierLost(e) == CarrierGoes(e, "up", "lost")

\* A BYE: the background task runs disconnect itself.  Its _stop_transport cancels
\* it once, which it survives; it clears the streams, and is in its DELETE.
CarrierByes(e) == CarrierGoes(e, "up", "bye")

\* The DELETE is over before anything else disconnects, the session is closed, and
\* the background task ends: from now on another disconnect does no harm.
ByeEnds(e) == CarrierGoes(e, "bye", "lost")

CarrierCloses(e) == CarrierGoes(e, "closing", "closed")

\* The disconnects wait for the background task, which is back at its socket and
\* comes to its end when the relay closes that.  (The polling loop of the HTTPS
\* carrier ends without it.)
StuckEnds(e) == CarrierGoes(e, "stuck", "leaked")

CarrierStep ==
  /\ \E e \in Epochs :
       \/ CarrierLost(e) \/ CarrierByes(e) \/ ByeEnds(e)
       \/ CarrierCloses(e) \/ StuckEnds(e)
  /\ UNCHANGED <<connected, refVars, ownerVars, loopVars, disc, queueVars>>

Next ==
  \/ Connect \/ ConnectStep
  \/ OwnerDisconnects
  \/ \E p \in Procs : DiscStep(p)
  \/ CallStep
  \/ \E l \in Loops : LoopStep(l)
  \/ CarrierStep

Spec == Init /\ [][Next]_vars

\* The event loop runs what can run; a carrier's operations end: connect is cut
\* off by wait_for, send_data by its thirty seconds, and recv_data raises once the
\* carrier is gone.  A disconnect ends as is shown of the carriers, but for one
\* that has cancelled the DELETE of another: when the relay closes the socket of a
\* carrier that is stuck is up to the relay.
Fairness ==
  /\ WF_vars(ConnectStep)
  /\ \A p \in Procs : WF_vars(DiscStep(p))
  /\ \A l \in Loops :
       /\ WF_vars(LoopStep(l) /\ loopPc[l] # "read")
       /\ WF_vars(LoopCancelled(l) /\ UNCHANGED epoch)
       /\ WF_vars(carriers[l[2]] # "up" /\ RecvLoopReads(l, "error") /\ UNCHANGED epoch)
  /\ \A e \in Epochs : WF_vars(CarrierStep /\ CarrierCloses(e))
  /\ WF_vars((SendPuts \/ RecvTakes) /\ CallStep)

FairSpec == Spec /\ Fairness

-----------------------------------------------------------------------------
(* Properties. *)

\* The two loops of a connection work on it alone: those of an earlier one have
\* ended before they could take another packet or read from the new carrier,
\* which they would find in the fields they share (_send_loop, _recv_loop,
\* disconnect).
OldLoopsEnded ==
  \A l \in Loops : loopPc[l] \in {"queue", "send", "read", "put"} => l[2] = epoch

\* A disconnect that a loop or a failing connect runs never takes down the
\* carrier of a later connection, and no two disconnects take down the same
\* (disconnect).
OwnCarrier ==
  /\ \A l \in Loops : disc[l].carrier \in {0, l[2]}
  /\ \A p, q \in Procs :
       p # q /\ disc[p].carrier # 0 => disc[p].carrier # disc[q].carrier

\* Disconnects that wait for loops never wait in a chain of more than two, so
\* never in a circle: cancelling a loop reaches one that can end (disconnect).
NoCircle ==
  \A l \in Loops : Joins(l) => Joined(l) # l /\ ~Joins(Joined(l))

\* What the receive loops read reaches recv() once and in order; and since the
\* queues survive a connection, each may be handed at most one item that an earlier one
\* has left, its packet or its error (_recv_queue).
ReceivedOnceInOrder ==
  [][RecvTakes => /\ lastGot'.n > lastGot.n
                  /\ lastGot'.at = lastGot.at => lastGot'.from = lastGot'.at]_vars

\* p waits for a carrier whose background task is stuck, or for a loop that does.
WaitsForStuck(p) == disc[p].pc = "closeCarrier" /\ carriers[disc[p].carrier] = "stuck"
Stuck(p) == WaitsForStuck(p) \/ (Joins(p) /\ WaitsForStuck(Joined(p)))

\* Every disconnect ends, whoever else disconnects, connects, sends or receives,
\* unless it has cancelled the DELETE of the carrier's own disconnect for a BYE and
\* waits for the relay (disconnect, _send_loop, _recv_loop wait for and cancel one
\* another).
DisconnectEnds ==
  \A p \in Procs : disc[p].pc # "idle" ~> disc[p].pc = "idle" \/ Stuck(p)

\* No carrier is left behind: once the connection is down, the carrier it had is
\* closed, whether connect failed half-way, the carrier was lost, or loops and
\* owner disconnected at the same time; only a BYE can leave it otherwise
\* (connect, disconnect).
CarriersClosed ==
  \A e \in Epochs :
    carriers[e] # "none" /\ ~connected /\ connectPc = "idle"
      ~> carriers[e] \in {"closed", "stuck", "leaked"}

\* A connection whose carrier is lost or has heard a BYE, or was taken away by a
\* disconnect while connect was sending the header, comes down by itself, as long
\* as the owner takes what recv() returns (_recv_loop, connect).
LossEndsConnection ==
  connected /\ (carrierRef = 0 \/ carriers[epoch] \in {"lost", "bye"}) ~> ~connected

\* "Not connected" (recv): a recv() that waits on a connection that is down
\* raises.
RecvAnswers == receiver /\ ~connected ~> ~receiver
=============================================================================
