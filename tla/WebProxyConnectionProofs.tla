---------------------- MODULE WebProxyConnectionProofs ----------------------
(***************************************************************************)
(* Proofs about WebProxyConnection: its types, which loops may run, which  *)
(* carrier a disconnect may take, and the order of what recv() returns.    *)
(***************************************************************************)
EXTENDS WebProxyConnection, TLAPS

(* Types. *)

\* The part of TypeOK about connect, disconnect and the loops, and the part
\* about the queues.
CoreOK ==
  /\ connected \in BOOLEAN
  /\ carrierRef \in 0 .. MaxConnects /\ streamRef \in 0 .. MaxConnects
  /\ loopsRef \in 0 .. MaxConnects /\ epoch \in 0 .. MaxConnects
  /\ connectPc \in {"idle", "carrier", "open", "header", "failing"}
  /\ owner \in {"out", "in", "overlapped"}
  /\ carriers \in [Epochs -> CarrierStates]
  /\ loopPc \in [Loops -> LoopPcs]
  /\ cancelled \in [Loops -> BOOLEAN]
  /\ disc \in [Procs -> Disc]

QueueOK ==
  /\ holding \in [Epochs -> Item]
  /\ sendQueue \in 0 .. 1
  /\ recvQueue \in Seq(Item) /\ Len(recvQueue) <= 1
  /\ sender \in BOOLEAN /\ receiver \in BOOLEAN
  /\ sends \in Nat /\ nextIn \in Nat
  /\ lastGot \in [from : 0 .. MaxConnects, n : Nat, at : 0 .. MaxConnects]

\* The type invariant, in the two halves that are proved apart.
LEMMA TypeParts == TypeOK <=> CoreOK /\ QueueOK
BY DEF TypeOK, CoreOK, QueueOK

\* Who runs disconnect() is a loop, the owner or a connect (disconnect).
LEMMA Runners ==
  /\ Loops \subseteq Procs /\ Owner \in Procs /\ Connecting \in Procs
  /\ Owner \notin Loops /\ Connecting \notin Loops /\ Owner # Connecting
  /\ \A p \in Procs : p \in Loops \/ p = Owner \/ p = Connecting
  /\ \A e \in Epochs : <<"send", e>> \in Loops /\ <<"recv", e>> \in Loops
  /\ \A l \in Loops : /\ l[2] \in Epochs /\ l[1] \in {"send", "recv"}
                      /\ l = <<"send", l[2]>> \/ l = <<"recv", l[2]>>
BY DEF Procs, Loops, Owner, Connecting

\* The state in which a disconnect waits for the loops of connection e, and the
\* one in which it closes carrier c (disconnect).
Waiting(pc, e) == [pc |-> pc, loops |-> e, carrier |-> 0]
Closes(pc, c) == [pc |-> pc, loops |-> 0, carrier |-> c]

\* What the steps of a disconnect do, without the ways that lead to them
\* (disconnect): p waits for one of the loops of e, or takes the carrier out of
\* the connection and closes it, or goes on from closing the stream to closing
\* the carrier, or ends.
Waits(p, pc, e) ==
  /\ DiscGoesTo(p, Waiting(pc, e))
  /\ UNCHANGED <<refVars, carriers>>

Takes(p) ==
  /\ loopsRef' = 0 /\ carrierRef' = 0 /\ streamRef' = 0
  /\ \/ carrierRef = 0 /\ DiscGoesTo(p, NoDisc)
     \/ carrierRef # 0 /\ DiscGoesTo(p, Closes("closeStream", carrierRef))
     \/ carrierRef # 0 /\ DiscGoesTo(p, Closes("closeCarrier", carrierRef))

CarriersOK == carriers \in [Epochs -> CarrierStates]

\* Release, and the ways into it: after the send loop, and at the beginning.
LEMMA Disconnects ==
  ASSUME CoreOK, NEW p \in Procs
  PROVE  /\ Release(p) => Takes(p) /\ CarriersOK' /\ cancelled' \in [Loops -> BOOLEAN]
         /\ \A e \in 0 .. MaxConnects : AfterSendLoop(p, e) =>
              /\ CarriersOK' /\ cancelled' \in [Loops -> BOOLEAN]
              /\ \/ Takes(p) /\ ~Awaits(p, "recv", e)
                 \/ Awaits(p, "recv", e) /\ Waits(p, "joinRecv", e)
         /\ Begin(p) =>
              /\ connected' = FALSE
              /\ CarriersOK' /\ cancelled' \in [Loops -> BOOLEAN]
              /\ \/ /\ Takes(p)
                    /\ ~Awaits(p, "send", loopsRef) /\ ~Awaits(p, "recv", loopsRef)
                 \/ Awaits(p, "send", loopsRef) /\ Waits(p, "joinSend", loopsRef)
                 \/ /\ ~Awaits(p, "send", loopsRef)
                    /\ Awaits(p, "recv", loopsRef) /\ Waits(p, "joinRecv", loopsRef)
<1>1. \A S : Cancel(p, S) => cancelled' \in [Loops -> BOOLEAN]
  BY DEF Cancel, CoreOK
<1>2. \A c \in 0 .. MaxConnects : CloseCarrier(p, c) =>
        /\ DiscGoesTo(p, Closes("closeCarrier", c))
        /\ CarriersOK' /\ cancelled' \in [Loops -> BOOLEAN]
  BY <1>1 DEF CloseCarrier, Closed, CoreOK, CarriersOK, CarrierStates, Closes
<1>3. DiscEnds(p) =>
        DiscGoesTo(p, NoDisc) /\ CarriersOK' /\ cancelled' \in [Loops -> BOOLEAN]
  BY <1>1 DEF DiscEnds, CoreOK, CarriersOK
<1>4. Release(p) => Takes(p) /\ CarriersOK' /\ cancelled' \in [Loops -> BOOLEAN]
  BY <1>1, <1>2, <1>3 DEF Release, CloseAll, Takes, CoreOK, CarriersOK, Closes
<1>5. \A pc, kind : \A e \in 0 .. MaxConnects : Join(p, pc, kind, e) =>
        Waits(p, pc, e) /\ CarriersOK' /\ cancelled' \in [Loops -> BOOLEAN]
  BY <1>1 DEF Join, Waits, Waiting, CoreOK, CarriersOK
<1>6. \A e \in 0 .. MaxConnects : AfterSendLoop(p, e) =>
        /\ CarriersOK' /\ cancelled' \in [Loops -> BOOLEAN]
        /\ \/ Takes(p) /\ ~Awaits(p, "recv", e)
           \/ Awaits(p, "recv", e) /\ Waits(p, "joinRecv", e)
  BY <1>4, <1>5 DEF AfterSendLoop
<1>7. loopsRef \in 0 .. MaxConnects
  BY DEF CoreOK
<1> QED
  BY <1>4, <1>5, <1>6, <1>7 DEF Begin

\* The states of a disconnect.
LEMMA DiscStates ==
  /\ NoDisc \in Disc
  /\ \A e \in 0 .. MaxConnects :
       /\ Waiting("joinSend", e) \in Disc /\ Waiting("joinRecv", e) \in Disc
       /\ Closes("closeStream", e) \in Disc /\ Closes("closeCarrier", e) \in Disc
BY ConnectionAssumption DEF NoDisc, Disc, DiscPcs, Waiting, Closes

\* What DiscGoesTo assigns has its type (disconnect).
LEMMA GoesToTyped ==
  ASSUME CoreOK, NEW p \in Procs, NEW d \in Disc, DiscGoesTo(p, d)
  PROVE  /\ disc' \in [Procs -> Disc]
         /\ loopPc' \in [Loops -> LoopPcs]
         /\ connectPc' \in {"idle", "carrier", "open", "header", "failing"}
         /\ owner' \in {"out", "in", "overlapped"}
<1> USE DEF CoreOK
<1>1. disc' \in [Procs -> Disc]
  BY DEF DiscGoesTo
<1>2. loopPc' \in [Loops -> LoopPcs]
  BY DEF DiscGoesTo, LoopPcs
<1>3. connectPc' \in {"idle", "carrier", "open", "header", "failing"}
  BY DEF DiscGoesTo
<1>4. owner' \in {"out", "in", "overlapped"}
  BY DEF DiscGoesTo
<1> QED
  BY <1>1, <1>2, <1>3, <1>4

-----------------------------------------------------------------------------
(* The inductive invariant. *)

\* A loop that has not come to its finally clause; a disconnect that is closing
\* what it has taken.
Active(l) == loopPc[l] \in {"created", "queue", "send", "read", "put"}
Closing(p) == disc[p].pc \in {"closeStream", "closeCarrier"}

\* A loop is in its finally clause, and connect in its except clause, while its
\* disconnect runs; each kind of loop has its own states.
PcInv ==
  /\ \A l \in Loops : loopPc[l] = "finally" <=> disc[l].pc # "idle"
  /\ connectPc = "failing" <=> disc[Connecting].pc # "idle"
  /\ \A l \in Loops : /\ l[1] = "send" => loopPc[l] \notin {"read", "put"}
                      /\ l[1] = "recv" => loopPc[l] \notin {"queue", "send"}

\* The connection refers to what the last connect has made, or to nothing; it
\* has loops only between the return of connect and the first disconnect, and
\* the owner's disconnect that counts leaves none.
RefInv ==
  /\ carrierRef \in {0, epoch} /\ loopsRef \in {0, epoch}
  /\ connected => loopsRef # 0
  /\ loopsRef # 0 => connectPc = "idle" /\ owner # "out"
  /\ owner = "overlapped" => Closing(Owner) /\ connectPc = "idle"
  /\ owner = "in" /\ Closing(Owner) => loopsRef = 0
  /\ connectPc # "idle" => epoch # 0

\* The loops that run are those the connection refers to; none is created before
\* its connect returns.
LoopInv ==
  \A l \in Loops : /\ Active(l) => l[2] = epoch /\ loopsRef # 0
                   /\ loopPc[l] # "none" => l[2] <= epoch
                   /\ connectPc # "idle" /\ l[2] = epoch => loopPc[l] = "none"

\* A disconnect waits for loops of the last connection only, after it has set
\* _connected to False and before it takes anything out of the connection; of
\* the loops, one at most does.
JoinInv ==
  \A p \in Procs : Joins(p) =>
     /\ ~connected /\ connectPc = "idle" /\ owner # "out"
     /\ disc[p].loops = epoch /\ epoch # 0
     /\ p # Connecting /\ p # Joined(p)
     /\ p \in Loops => p[2] = epoch /\ loopsRef # 0
     /\ disc[p].pc = "joinRecv" => p = <<"send", epoch>> \/ loopPc[<<"send", epoch>>] = "done"
     /\ \A q \in Loops : p \in Loops /\ Joins(q) => p = q

\* A carrier that a disconnect closes is no longer the connection's, nor another
\* disconnect's; a loop closes that of its own connection.
DiscInv ==
  \A p \in Procs :
     /\ disc[p].carrier # 0 <=> Closing(p)
     /\ disc[p].pc = "idle" => disc[p] = NoDisc
     /\ disc[p].carrier <= epoch
     /\ disc[p].carrier # 0 => disc[p].carrier # carrierRef
     /\ p \in Loops => disc[p].carrier \in {0, p[2]}
     /\ \A q \in Procs : p # q /\ disc[p].carrier # 0 => disc[p].carrier # disc[q].carrier

CoreInv == CoreOK /\ PcInv /\ RefInv /\ LoopInv /\ JoinInv /\ DiscInv

-----------------------------------------------------------------------------
(* The steps, as far as these invariants tell them apart. *)

coreVars == <<connected, refVars, ownerVars, loopPc, disc>>

\* Who may begin a disconnect, and who may be in one that waits for the loops
\* of e.
MayBegin(p) ==
  \/ p = Owner /\ disc[p].pc = "idle"
  \/ p = Connecting /\ connectPc \in {"carrier", "open", "header"}
  \/ p \in Loops /\ Active(p) /\ connected

Stops(p, e) ==
  \/ MayBegin(p) /\ e = loopsRef
  \/ Joins(p) /\ e = disc[p].loops

\* p begins to wait for the send loop or the receive loop (disconnect).
StepWaits(p, e) ==
  /\ Stops(p, e)
  /\ \/ Awaits(p, "send", e) /\ Waits(p, "joinSend", e)
     \/ ~Awaits(p, "send", e) /\ Awaits(p, "recv", e) /\ Waits(p, "joinRecv", e)
  /\ connected' = FALSE /\ epoch' = epoch

\* p waits for no loop any more and takes the carrier (disconnect).
StepTakes(p, e) ==
  /\ Stops(p, e)
  /\ ~Awaits(p, "send", e) /\ ~Awaits(p, "recv", e)
  /\ Takes(p)
  /\ connected' = FALSE /\ epoch' = epoch

\* p goes on from the stream to the carrier, or returns (disconnect).
StepCloses(p) ==
  /\ Closing(p)
  /\ \/ DiscGoesTo(p, Closes("closeCarrier", disc[p].carrier))
     \/ DiscGoesTo(p, NoDisc)
  /\ UNCHANGED <<connected, refVars, epoch>>

\* Loop l ends without a disconnect, or goes on (_send_loop, _recv_loop).
StepLoop(l) ==
  /\ Active(l)
  /\ \E pc \in {"done"} \cup (IF l[1] = "send" THEN {"queue", "send"} ELSE {"read", "put"}) :
       loopPc' = [loopPc EXCEPT ![l] = pc]
  /\ UNCHANGED <<connected, refVars, ownerVars, disc>>

CoreStep ==
  \/ Connect \/ ConnectOpens \/ ConnectSendsHeader \/ ConnectReturns
  \/ \E p \in Procs, e \in 0 .. MaxConnects : StepWaits(p, e) \/ StepTakes(p, e)
  \/ \E p \in Procs : StepCloses(p)
  \/ \E l \in Loops : StepLoop(l)
  \/ UNCHANGED coreVars

\* A disconnect that begins waits or takes, whoever runs it.
LEMMA BeginStep ==
  ASSUME CoreOK, NEW p \in Procs, MayBegin(p), Begin(p), epoch' = epoch
  PROVE  /\ CoreStep
         /\ CarriersOK' /\ cancelled' \in [Loops -> BOOLEAN]
<1>1. loopsRef \in 0 .. MaxConnects
  BY DEF CoreOK
<1>2. Stops(p, loopsRef)
  BY DEF Stops
<1>3. StepWaits(p, loopsRef) \/ StepTakes(p, loopsRef)
  BY <1>1, <1>2, Disconnects DEF StepWaits, StepTakes
<1> QED
  BY <1>1, <1>3, Disconnects DEF CoreStep

\* So does one that has been waiting (disconnect, resumed).
LEMMA JoinedStep ==
  ASSUME CoreInv, NEW p \in Procs, DiscJoined(p), UNCHANGED <<connected, epoch>>
  PROVE  /\ CoreStep
         /\ CarriersOK' /\ cancelled' \in [Loops -> BOOLEAN]
<1> DEFINE e == disc[p].loops
<1>1. /\ Joins(p) /\ Stops(p, e) /\ e \in 0 .. MaxConnects /\ e = epoch
      /\ connected' = FALSE /\ epoch' = epoch
  BY DEF DiscJoined, Stops, CoreInv, JoinInv, CoreOK
<1>2. CASE disc[p].pc = "joinSend" /\ AfterSendLoop(p, e)
  <2>1. ~Awaits(p, "send", e)
    BY <1>2 DEF DiscJoined, Joined, Awaits
  <2>2. StepWaits(p, e) \/ StepTakes(p, e)
    BY <1>1, <1>2, <2>1, Disconnects DEF StepWaits, StepTakes, CoreInv
  <2> QED
    BY <1>1, <1>2, <2>2, Disconnects DEF CoreStep, CoreInv
<1>3. CASE disc[p].pc = "joinRecv" /\ Release(p)
  <2>1. ~Awaits(p, "recv", e)
    BY <1>3 DEF DiscJoined, Joined, Awaits
  <2>2. ~Awaits(p, "send", e)
    BY <1>1, <1>3 DEF CoreInv, JoinInv, Awaits
  <2>3. StepTakes(p, e)
    BY <1>1, <1>3, <2>1, <2>2, Disconnects DEF StepTakes, CoreInv
  <2> QED
    BY <1>1, <1>3, <2>3, Disconnects DEF CoreStep, CoreInv
<1> QED
  BY <1>2, <1>3 DEF DiscJoined

\* Every step of a disconnect (DiscStep).
LEMMA DiscIsCore ==
  ASSUME CoreInv, NEW p \in Procs, DiscStep(p)
  PROVE  /\ CoreStep
         /\ CarriersOK' /\ cancelled' \in [Loops -> BOOLEAN]
<1>1. CASE DiscJoined(p)
  BY <1>1, JoinedStep DEF DiscStep
<1>2. disc[p].carrier \in 0 .. MaxConnects
  BY DEF CoreInv, CoreOK, Disc
<1>3. CASE DiscStreamClosed(p)
  <2>1. StepCloses(p)
    BY <1>3 DEF DiscStreamClosed, CloseCarrier, StepCloses, Closing, Closes, DiscStep
  <2> QED
    BY <1>2, <1>3, <2>1
       DEF CoreStep, DiscStreamClosed, CloseCarrier, Closed, CarriersOK, CarrierStates,
           Cancel, CoreInv, CoreOK
<1>4. CASE DiscCarrierClosed(p)
  <2>1. StepCloses(p)
    BY <1>4 DEF DiscCarrierClosed, DiscEnds, StepCloses, Closing, DiscStep
  <2> QED
    BY <1>4, <2>1
       DEF CoreStep, DiscCarrierClosed, DiscEnds, CarriersOK, Cancel, CoreInv, CoreOK
<1> QED
  BY <1>1, <1>3, <1>4 DEF DiscStep

\* A loop that ends disconnects, or just ends; one that tests _connected may also
\* go on (_send_loop, _recv_loop).
LEMMA LoopEndsStep ==
  ASSUME CoreOK, NEW l \in Loops, Active(l), LoopEnds(l) \/ LoopTests(l), epoch' = epoch
  PROVE  /\ CoreStep
         /\ CarriersOK' /\ cancelled' \in [Loops -> BOOLEAN]
<1>1. l \in Procs
  BY Runners
<1>2. CASE LoopEnds(l)
  <2>1. CASE connected /\ Begin(l)
    BY <1>1, <2>1, BeginStep DEF MayBegin
  <2>2. CASE ~(connected /\ Begin(l))
    <3>1. StepLoop(l)
      BY <1>2, <2>2 DEF LoopEnds, StepLoop, ownerVars
    <3> QED
      BY <1>2, <2>2, <3>1 DEF LoopEnds, CoreStep, CarriersOK, Cancel, CoreOK
  <2> QED
    BY <2>1, <2>2
<1>3. CASE LoopTests(l) /\ ~LoopEnds(l)
  <2>1. StepLoop(l)
    BY <1>3 DEF LoopTests, LoopGoesTo, StepLoop, ownerVars
  <2> QED
    BY <1>3, <2>1 DEF LoopTests, LoopGoesTo, CoreStep, CarriersOK, CoreOK
<1> QED
  BY <1>2, <1>3

\* Every step of a loop (LoopStep).
LEMMA LoopIsCore ==
  ASSUME CoreInv, NEW l \in Loops, LoopStep(l)
  PROVE  /\ CoreStep
         /\ CarriersOK' /\ cancelled' \in [Loops -> BOOLEAN]
<1> USE DEF CoreInv
<1>1. epoch' = epoch
  BY DEF LoopStep
<1>2. ASSUME NEW pc, pc \in (IF l[1] = "send" THEN {"queue", "send"} ELSE {"read", "put"}),
             Active(l), LoopGoesTo(l, pc)
      PROVE  CoreStep /\ CarriersOK' /\ cancelled' \in [Loops -> BOOLEAN]
  <2>1. StepLoop(l)
    BY <1>1, <1>2 DEF LoopGoesTo, StepLoop, ownerVars
  <2> QED
    BY <1>2, <2>1 DEF LoopGoesTo, CoreStep, CarriersOK, CoreOK
<1>3. CASE LoopStarts(l)
  <2>1. Active(l)
    BY <1>3 DEF LoopStarts, Active
  <2>2. CASE cancelled[l]
    <3>1. StepLoop(l)
      BY <1>1, <1>3, <2>1, <2>2 DEF LoopStarts, StepLoop, ownerVars
    <3> QED
      BY <1>3, <2>2, <3>1 DEF LoopStarts, CoreStep, CarriersOK, Cancel, CoreOK
  <2>3. CASE ~cancelled[l]
    BY <1>1, <1>3, <2>1, <2>3, LoopEndsStep DEF LoopStarts
  <2> QED
    BY <2>2, <2>3
<1>4. CASE LoopCancelled(l)
  BY <1>1, <1>4, LoopEndsStep DEF LoopCancelled, Active
<1>5. CASE SendLoopTakes(l)
  <2>1. Active(l) /\ l[1] = "send"
    BY <1>5, Runners DEF SendLoopTakes, At, Active, PcInv
  <2> QED
    BY <1>1, <1>2, <1>5, <2>1, LoopEndsStep DEF SendLoopTakes
<1>6. CASE SendLoopReturns(l)
  BY <1>1, <1>6, LoopEndsStep DEF SendLoopReturns, At, Active
<1>7. ASSUME NEW item, Active(l), RecvLoopPuts(l, item)
      PROVE  CoreStep /\ CarriersOK' /\ cancelled' \in [Loops -> BOOLEAN]
  BY <1>1, <1>7, LoopEndsStep DEF RecvLoopPuts, AfterPut
<1>8. CASE RecvLoopResumes(l)
  BY <1>7, <1>8 DEF RecvLoopResumes, At, Active
<1>9. ASSUME NEW kind, RecvLoopReads(l, kind)
      PROVE  CoreStep /\ CarriersOK' /\ cancelled' \in [Loops -> BOOLEAN]
  <2>1. Active(l) /\ l[1] # "send"
    BY <1>9 DEF RecvLoopReads, At, Active, PcInv
  <2>2. PICK item : RecvLoopPuts(l, item) \/ RecvLoopWaits(l, item)
    BY <1>9 DEF RecvLoopReads
  <2> QED
    BY <1>2, <1>7, <2>1, <2>2 DEF RecvLoopWaits
<1> QED
  BY <1>3, <1>4, <1>5, <1>6, <1>8, <1>9 DEF LoopStep

\* Every step of the connection.
LEMMA StepIsCore ==
  ASSUME CoreInv, [Next]_vars
  PROVE  CoreStep /\ CarriersOK' /\ cancelled' \in [Loops -> BOOLEAN]
<1> USE DEF CoreInv
<1>1. CASE Connect
  BY <1>1 DEF Connect, CoreStep, CarriersOK, CarrierStates, CoreOK, loopVars
<1>2. CASE ConnectStep
  <2>1. CASE ConnectOpens
    BY <2>1 DEF ConnectOpens, CoreStep, CarriersOK, CarrierStates, CoreOK, loopVars
  <2>2. CASE ConnectSendsHeader
    BY <2>2 DEF ConnectSendsHeader, CoreStep, CarriersOK, CoreOK, loopVars
  <2>3. CASE ConnectReturns
    BY <2>3 DEF ConnectReturns, CoreStep, CarriersOK, CoreOK, loopVars
  <2>4. CASE ConnectRaises
    BY <2>4, Runners, BeginStep DEF ConnectRaises, MayBegin
  <2> QED
    BY <1>2, <2>1, <2>2, <2>3, <2>4 DEF ConnectStep
<1>3. CASE OwnerDisconnects
  BY <1>3, Runners, BeginStep DEF OwnerDisconnects, MayBegin
<1>4. CASE CallStep
  BY <1>4 DEF CallStep, CoreStep, coreVars, CarriersOK, CoreOK, loopVars
<1>5. CASE CarrierStep
  <2>1. UNCHANGED <<coreVars, cancelled>>
    BY <1>5 DEF CarrierStep, coreVars, loopVars
  <2>2. CarriersOK'
    BY <1>5 DEF CarrierStep, CarrierLost, CarrierByes, ByeEnds, CarrierCloses, StuckEnds,
                CarrierGoes, CarriersOK, CarrierStates, CoreOK
  <2> QED
    BY <2>1, <2>2 DEF CoreStep, CoreOK
<1>6. CASE UNCHANGED vars
  BY <1>6 DEF vars, CoreStep, coreVars, CarriersOK, CoreOK, loopVars
<1> QED
  BY <1>1, <1>2, <1>3, <1>4, <1>5, <1>6, DiscIsCore, LoopIsCore DEF Next

-----------------------------------------------------------------------------
(* Each step keeps the invariant. *)

\* What DiscGoesTo does with the states of loops, of connect and of the owner
\* (disconnect).
LEMMA GoesToKeepsPc ==
  ASSUME CoreOK, PcInv, NEW p \in Procs, NEW d \in Disc, d.pc = "idle" => d = NoDisc,
         p \in Loops => loopPc[p] # "none",
         DiscGoesTo(p, d)
  PROVE  PcInv'
<1> USE DEF CoreOK, DiscGoesTo
<1>1. d = NoDisc <=> d.pc = "idle"
  BY DEF NoDisc
<1>2. (\A l \in Loops : loopPc[l] = "finally" <=> disc[l].pc # "idle")'
  BY <1>1, Runners DEF PcInv
<1>3. (connectPc = "failing" <=> disc[Connecting].pc # "idle")'
  BY <1>1, Runners DEF PcInv
<1>4. (\A l \in Loops : /\ l[1] = "send" => loopPc[l] \notin {"read", "put"}
                        /\ l[1] = "recv" => loopPc[l] \notin {"queue", "send"})'
  BY DEF PcInv
<1> QED
  BY <1>2, <1>3, <1>4 DEF PcInv

\* A step that waits for a loop.
LEMMA WaitsKeeps ==
  ASSUME CoreInv, NEW p \in Procs, NEW e \in 0 .. MaxConnects, StepWaits(p, e)
  PROVE  PcInv' /\ RefInv' /\ LoopInv' /\ JoinInv' /\ DiscInv'
<1> USE DEF CoreInv, CoreOK
<1>1. PICK pc \in {"joinSend", "joinRecv"} :
        /\ Waits(p, pc, e)
        /\ pc = "joinSend" => Awaits(p, "send", e)
        /\ pc = "joinRecv" => Awaits(p, "recv", e) /\ ~Awaits(p, "send", e)
  BY DEF StepWaits
<1> DEFINE d == Waiting(pc, e)
<1>2. d \in Disc /\ d.pc = pc /\ d.loops = e /\ d.carrier = 0 /\ d # NoDisc
  BY DiscStates DEF Waiting, NoDisc
<1>3. DiscGoesTo(p, d) /\ e # 0 /\ connected' = FALSE /\ epoch' = epoch
      /\ UNCHANGED <<carrierRef, loopsRef>>
  BY <1>1 DEF Waits, Awaits, StepWaits, refVars
<1>4. p \in Loops => loopPc[p] # "none" /\ loopPc[p] # "done" /\ p[2] = epoch /\ loopsRef # 0
  BY Runners DEF StepWaits, Stops, MayBegin, Active, Joins, PcInv, LoopInv, JoinInv
<1>5. PcInv'
  BY <1>2, <1>3, <1>4, GoesToKeepsPc
<1>6. p # Connecting /\ e = epoch /\ connectPc = "idle" /\ owner # "out"
  BY <1>3, Runners DEF StepWaits, Stops, MayBegin, RefInv, JoinInv
<1>7. disc' = [disc EXCEPT ![p] = d] /\ connectPc' = connectPc /\ owner' = owner
      /\ \A l \in Loops : loopPc'[l] = IF l = p THEN "finally" ELSE loopPc[l]
  BY <1>2, <1>3, <1>6 DEF DiscGoesTo
<1>8. ~Closing(p)
  BY Runners DEF StepWaits, Stops, MayBegin, Joins, Closing, Active, PcInv
<1>9. RefInv'
  BY <1>2, <1>3, <1>7, <1>8, Runners DEF RefInv, Closing
<1>10. LoopInv'
  BY <1>3, <1>4, <1>7 DEF LoopInv, Active
<1>11. ASSUME NEW q \in Procs, Joins(q)'
       PROVE  /\ (~connected /\ connectPc = "idle" /\ owner # "out")'
              /\ (disc[q].loops = epoch)' /\ epoch' # 0
              /\ q # Connecting /\ q # Joined(q)'
              /\ q \in Loops => q[2] = epoch' /\ loopsRef' # 0
              /\ (disc[q].pc = "joinRecv")' =>
                   q = <<"send", epoch'>> \/ loopPc'[<<"send", epoch'>>] = "done"
              /\ \A r \in Loops : q \in Loops /\ Joins(r)' => q = r
  <2>1. ASSUME NEW r \in Procs, r # p
        PROVE  /\ disc'[r] = disc[r] /\ Joins(r)' = Joins(r) /\ Joined(r)' = Joined(r)
               /\ Joins(r) /\ r \in Loops /\ p \in Loops => FALSE
    <3>1. disc'[r] = disc[r]
      BY <1>7, <2>1
    <3>2. Joins(r)' = Joins(r) /\ Joined(r)' = Joined(r)
      BY <3>1 DEF Joins, Joined
    <3>3. Joins(r) => ~MayBegin(p) \/ p \notin Loops
      BY Runners DEF MayBegin, JoinInv
    <3>4. Joins(r) /\ Joins(p) => ~(r \in Loops /\ p \in Loops)
      BY <2>1 DEF JoinInv
    <3> QED
      BY <3>1, <3>2, <3>3, <3>4 DEF StepWaits, Stops
  <2>2. loopPc[<<"send", epoch>>] = "done" => loopPc'[<<"send", epoch>>] = "done"
    <3>1. epoch \in Epochs
      BY <1>3, <1>6 DEF Epochs
    <3>2. <<"send", epoch>> \in Loops
      BY <3>1, Runners
    <3> QED
      BY <1>4, <1>7, <3>2
  <2>3. CASE q # p
    <3>1. Joins(q) /\ disc'[q] = disc[q] /\ Joined(q)' = Joined(q)
      BY <1>11, <2>1, <2>3
    <3>2. /\ disc[q].loops = epoch /\ q # Connecting /\ q # Joined(q)
          /\ q \in Loops => q[2] = epoch /\ loopsRef # 0
          /\ disc[q].pc = "joinRecv" =>
               q = <<"send", epoch>> \/ loopPc[<<"send", epoch>>] = "done"
          /\ \A r \in Loops : q \in Loops /\ Joins(r) => q = r
      BY <3>1 DEF JoinInv
    <3>3. ASSUME NEW r \in Loops, q \in Loops, Joins(r)'
          PROVE  q = r
      <4>1. r # p
        BY <2>1, <2>3, <3>1, <3>3
      <4> QED
        BY <2>1, <3>2, <3>3, <4>1, Runners
    <3> QED
      BY <1>3, <1>6, <1>7, <2>2, <3>1, <3>2, <3>3
  <2>4. CASE q = p
    <3>1. disc'[p] = d
      BY <1>7
    <3>2. p # Joined(p)'
      BY <1>1, <1>2, <3>1 DEF Joined, Awaits
    <3>3. pc = "joinRecv" => p = <<"send", epoch>> \/ loopPc[<<"send", epoch>>] = "done"
      BY <1>1, <1>3, <1>6 DEF Awaits
    <3> QED
      BY <1>2, <1>3, <1>4, <1>6, <1>7, <2>1, <2>2, <2>4, <3>1, <3>2, <3>3, Runners
  <2> QED
    BY <2>3, <2>4
<1>12. JoinInv'
  BY <1>11 DEF JoinInv
<1>13. DiscInv'
  BY <1>2, <1>3, <1>7, <1>8 DEF DiscInv, Closing
<1> QED
  BY <1>5, <1>9, <1>10, <1>12, <1>13

\* A step that takes the carrier.
LEMMA TakesKeeps ==
  ASSUME CoreInv, NEW p \in Procs, NEW e \in 0 .. MaxConnects, StepTakes(p, e)
  PROVE  PcInv' /\ RefInv' /\ LoopInv' /\ JoinInv' /\ DiscInv'
<1> USE DEF CoreInv, CoreOK
<1>1. PICK d \in Disc : /\ DiscGoesTo(p, d) /\ d.loops = 0 /\ d.carrier = carrierRef
                        /\ d.pc = "idle" <=> d = NoDisc
                        /\ d.pc = "idle" <=> carrierRef = 0
                        /\ d.pc \in {"idle", "closeStream", "closeCarrier"}
  <2>1. carrierRef \in 0 .. MaxConnects
    OBVIOUS
  <2>2. CASE carrierRef = 0 /\ DiscGoesTo(p, NoDisc)
    BY <2>2, DiscStates DEF NoDisc
  <2>3. ASSUME NEW pc \in {"closeStream", "closeCarrier"}, carrierRef # 0,
               DiscGoesTo(p, Closes(pc, carrierRef))
        PROVE  \E d \in Disc : /\ DiscGoesTo(p, d) /\ d.loops = 0 /\ d.carrier = carrierRef
                               /\ d.pc = "idle" <=> d = NoDisc
                               /\ d.pc = "idle" <=> carrierRef = 0
                               /\ d.pc \in {"idle", "closeStream", "closeCarrier"}
    <3>1. Closes(pc, carrierRef) \in Disc
      BY <2>1, DiscStates
    <3>2. /\ Closes(pc, carrierRef).loops = 0 /\ Closes(pc, carrierRef).carrier = carrierRef
          /\ Closes(pc, carrierRef).pc = pc /\ Closes(pc, carrierRef) # NoDisc
      BY <2>3 DEF Closes, NoDisc
    <3> QED
      BY <2>3, <3>1, <3>2
  <2> QED
    BY <2>2, <2>3 DEF StepTakes, Takes
<1>2. connected' = FALSE /\ epoch' = epoch /\ loopsRef' = 0 /\ carrierRef' = 0
  BY DEF StepTakes, Takes
<1>3. p \in Loops => loopPc[p] # "none" /\ loopPc[p] # "done" /\ p[2] = epoch
  BY Runners DEF StepTakes, Stops, MayBegin, Active, Joins, PcInv, LoopInv, JoinInv
<1>4. PcInv'
  BY <1>1, <1>3, GoesToKeepsPc
<1>5. p = Connecting => connectPc # "idle"
  BY Runners DEF StepTakes, Stops, MayBegin, JoinInv
<1>6. ~Closing(p)
  BY Runners DEF StepTakes, Stops, MayBegin, Joins, Closing, Active, PcInv
<1>7. /\ disc' = [disc EXCEPT ![p] = d]
      /\ \A l \in Loops : l # p => loopPc'[l] = loopPc[l]
      /\ p \in Loops => loopPc'[p] \in {"finally", "done"} /\ owner' = owner
      /\ connectPc' # connectPc => p = Connecting
      /\ owner' = "overlapped" => owner = "overlapped"
  BY <1>1 DEF DiscGoesTo
\* Nobody else runs, nor waits, in the connection that p takes down.
<1>8. ASSUME NEW l \in Loops, l # p
      PROVE  ~Active(l) /\ ~Joins(l)
  <2>1. l[2] = epoch /\ e = epoch => loopPc[l] = "done" \/ e = 0
    BY <1>8, Runners DEF StepTakes, Awaits
  <2>2. Joins(l) => loopPc[l] = "finally" /\ l[2] = epoch /\ loopsRef # 0
    BY Runners DEF PcInv, JoinInv, Joins
  <2>3. Joins(p) => e = epoch /\ e # 0
    BY DEF StepTakes, Stops, JoinInv, MayBegin, Joins
  <2>4. ~Joins(p) => e = loopsRef
    BY DEF StepTakes, Stops
  <2> QED
    BY <2>1, <2>2, <2>3, <2>4 DEF LoopInv, RefInv, Active
<1>9. owner = "overlapped" => p \in Loops
  BY <1>5, <1>6, Runners DEF RefInv
<1>10. RefInv'
  BY <1>1, <1>2, <1>5, <1>6, <1>7, <1>9, Runners DEF RefInv, Closing
<1>11. LoopInv'
  <2>1. \A l \in Loops : ~Active(l)'
    BY <1>7, <1>8 DEF Active
  <2> QED
    BY <1>2, <1>3, <1>5, <1>7, <2>1, Runners DEF LoopInv
<1>12. JoinInv'
  <2> SUFFICES ASSUME NEW q \in Procs, Joins(q)'
               PROVE  /\ q = Owner /\ p \in Loops
                      /\ disc'[q] = disc[q] /\ Joins(q) /\ Joined(q)' = Joined(q)
                      /\ connectPc' = connectPc /\ owner' = owner
                      /\ loopPc[<<"send", epoch>>] = "done" =>
                           loopPc'[<<"send", epoch>>] = "done"
    BY <1>2, Runners DEF JoinInv
  <2>1. q # p
    BY <1>1, <1>7 DEF Joins
  <2>2. disc'[q] = disc[q]
    BY <1>7, <2>1
  <2>3. Joins(q) /\ Joined(q)' = Joined(q)
    BY <2>2 DEF Joins, Joined
  <2>4. q = Owner /\ p \in Loops
    BY <1>5, <1>8, <2>1, <2>3, Runners DEF JoinInv
  <2>5. connectPc' = connectPc /\ owner' = owner
    BY <1>7, <2>4, Runners
  <2>6. epoch \in Epochs
    BY <2>3 DEF JoinInv, Epochs
  <2>7. <<"send", epoch>> \in Loops
    BY <2>6, Runners
  <2> QED
    BY <1>3, <1>7, <2>2, <2>3, <2>4, <2>5, <2>7
<1>13. DiscInv'
  BY <1>1, <1>2, <1>3, <1>7 DEF DiscInv, RefInv, Closing
<1> QED
  BY <1>4, <1>10, <1>11, <1>12, <1>13

\* A step from the stream to the carrier, or out of the disconnect.
LEMMA ClosesKeeps ==
  ASSUME CoreInv, NEW p \in Procs, StepCloses(p)
  PROVE  PcInv' /\ RefInv' /\ LoopInv' /\ JoinInv' /\ DiscInv'
<1> USE DEF CoreInv, CoreOK
<1>1. PICK d \in Disc : /\ DiscGoesTo(p, d) /\ d.loops = 0
                        /\ d.carrier \in {0, disc[p].carrier}
                        /\ d.pc = "idle" <=> d = NoDisc
                        /\ d.pc = "idle" <=> d.carrier = 0
                        /\ d.pc \in {"idle", "closeCarrier"}
  <2>1. disc[p].carrier \in 0 .. MaxConnects /\ disc[p].carrier # 0
    BY DEF StepCloses, DiscInv, Disc
  <2>2. CASE DiscGoesTo(p, NoDisc)
    BY <2>2, DiscStates DEF NoDisc
  <2>3. CASE DiscGoesTo(p, Closes("closeCarrier", disc[p].carrier))
    <3> DEFINE d == Closes("closeCarrier", disc[p].carrier)
    <3>1. d \in Disc
      BY <2>1, DiscStates
    <3>2. /\ d.loops = 0 /\ d.carrier = disc[p].carrier
          /\ d.pc = "closeCarrier" /\ d # NoDisc
      BY DEF Closes, NoDisc
    <3> QED
      BY <2>1, <2>3, <3>1, <3>2
  <2> QED
    BY <2>2, <2>3 DEF StepCloses
<1>2. UNCHANGED <<connected, loopsRef, carrierRef, epoch>> /\ Closing(p) /\ ~Joins(p)
  BY DEF StepCloses, refVars, Closing, Joins
<1>3. p \in Loops => loopPc[p] = "finally"
  BY <1>2 DEF Closing, PcInv
<1>4. PcInv'
  BY <1>1, <1>3, GoesToKeepsPc
<1>5. p = Connecting => connectPc = "failing"
  BY <1>2 DEF PcInv, Closing
<1>6. /\ disc' = [disc EXCEPT ![p] = d]
      /\ \A l \in Loops : l # p => loopPc'[l] = loopPc[l]
      /\ p \in Loops => loopPc'[p] \in {"finally", "done"} /\ owner' = owner
      /\ connectPc' # connectPc => p = Connecting
      /\ owner' = owner \/ (owner = "overlapped" /\ owner' = "in" /\ d = NoDisc)
                        \/ (owner # "overlapped" /\ owner' = "out" /\ p \notin Loops)
      /\ owner' = "overlapped" => p # Owner \/ d # NoDisc
  BY <1>1, Runners DEF DiscGoesTo
<1>7. loopsRef # 0 => connectPc' = connectPc /\ owner' # "out"
  BY <1>2, <1>5, <1>6, Runners DEF RefInv
<1>8. RefInv'
  <2>1. owner' = "overlapped" => Closing(Owner)' /\ connectPc' = "idle"
    BY <1>1, <1>5, <1>6, Runners DEF RefInv, Closing
  <2>2. owner' = "in" /\ Closing(Owner)' => loopsRef = 0
    BY <1>1, <1>2, <1>5, <1>6, Runners DEF RefInv, Closing
  <2>3. connectPc' # "idle" => epoch # 0
    BY <1>5, <1>6 DEF RefInv
  <2> QED
    BY <1>2, <1>7, <2>1, <2>2, <2>3 DEF RefInv
<1>9. LoopInv'
  BY <1>2, <1>3, <1>5, <1>6 DEF LoopInv, Active
<1>10. JoinInv'
  <2> SUFFICES ASSUME NEW q \in Procs, Joins(q)'
               PROVE  /\ Joins(q) /\ Joined(q)' = Joined(q) /\ disc'[q] = disc[q]
                      /\ connectPc' = "idle" /\ owner' # "out"
                      /\ loopPc[<<"send", epoch>>] = "done" =>
                           loopPc'[<<"send", epoch>>] = "done"
    BY <1>2, Runners DEF JoinInv
  <2>1. q # p
    BY <1>1, <1>6 DEF Joins
  <2>2. disc'[q] = disc[q]
    BY <1>6, <2>1
  <2>3. Joins(q) /\ Joined(q)' = Joined(q)
    BY <2>2 DEF Joins, Joined
  <2>4. connectPc = "idle" /\ connectPc' = "idle" /\ epoch \in Epochs /\ owner # "out"
    BY <1>5, <1>6, <2>3 DEF JoinInv, Epochs
  <2>5. owner' # "out"
    <3>1. q \in Loops => loopsRef # 0
      BY <2>3 DEF JoinInv
    <3>2. q = Owner => p \in Loops
      BY <1>5, <2>1, <2>4, Runners
    <3> QED
      BY <1>6, <1>7, <2>3, <2>4, <3>1, <3>2, Runners DEF JoinInv
  <2>6. <<"send", epoch>> \in Loops
    BY <2>4, Runners
  <2> QED
    BY <1>3, <1>6, <2>2, <2>3, <2>4, <2>5, <2>6
<1>11. DiscInv'
  BY <1>1, <1>2, <1>6 DEF DiscInv, Closing
<1> QED
  BY <1>4, <1>8, <1>9, <1>10, <1>11

\* A step of a loop that begins no disconnect.
LEMMA LoopKeeps ==
  ASSUME CoreInv, NEW l \in Loops, StepLoop(l)
  PROVE  PcInv' /\ RefInv' /\ LoopInv' /\ JoinInv' /\ DiscInv'
<1> USE DEF CoreInv, CoreOK
<1>1. /\ UNCHANGED <<connected, loopsRef, carrierRef, epoch, connectPc, owner, disc>>
      /\ Active(l)
  BY DEF StepLoop, refVars, ownerVars
<1>2. PICK pc \in {"done", "queue", "send", "read", "put"} :
        /\ loopPc' = [loopPc EXCEPT ![l] = pc]
        /\ l[1] = "send" => pc \notin {"read", "put"}
        /\ l[1] = "recv" => pc \notin {"queue", "send"}
  BY Runners DEF StepLoop
<1>3. PcInv'
  BY <1>1, <1>2 DEF PcInv, Active
<1>4. RefInv'
  BY <1>1 DEF RefInv, Closing
<1>5. LoopInv'
  BY <1>1, <1>2 DEF LoopInv, Active
<1>6. JoinInv'
  <2>1. \A q : Joins(q)' = Joins(q) /\ Joined(q)' = Joined(q)
    BY <1>1 DEF Joins, Joined
  <2>2. loopPc[<<"send", epoch>>] = "done" => loopPc'[<<"send", epoch>>] = "done"
    BY <1>1, <1>2 DEF Active
  <2> QED
    BY <1>1, <2>1, <2>2 DEF JoinInv
<1>7. DiscInv'
  BY <1>1 DEF DiscInv, Closing
<1> QED
  BY <1>3, <1>4, <1>5, <1>6, <1>7

\* The steps of connect.
LEMMA ConnectKeeps ==
  ASSUME CoreInv, Connect \/ ConnectOpens \/ ConnectSendsHeader \/ ConnectReturns
  PROVE  PcInv' /\ RefInv' /\ LoopInv' /\ JoinInv' /\ DiscInv'
<1> USE DEF CoreInv, CoreOK
<1>1. disc' = disc /\ \A q : Joins(q)' = Joins(q) /\ Closing(q)' = Closing(q)
  BY DEF Connect, ConnectOpens, ConnectSendsHeader, ConnectReturns, Joins, Closing
<1>2. \A q \in Procs : ~Joins(q)
  BY DEF Connect, ConnectOpens, ConnectSendsHeader, ConnectReturns, JoinInv
<1>3. JoinInv'
  BY <1>1, <1>2 DEF JoinInv
<1>4. CASE Connect
  <2>1. /\ epoch' = epoch + 1 /\ carrierRef' = epoch + 1 /\ connectPc' = "carrier"
        /\ owner' = "in" /\ loopPc' = loopPc /\ connected' = connected /\ loopsRef' = loopsRef
        /\ connectPc = "idle" /\ disc[Owner].pc = "idle" /\ owner = "out"
    BY <1>4 DEF Connect, loopVars
  <2>2. loopsRef = 0 /\ ~connected
    BY <2>1 DEF RefInv
  <2>3. PcInv'
    BY <1>1, <2>1 DEF PcInv
  <2>4. RefInv'
    BY <1>1, <2>1, <2>2 DEF RefInv, Closing
  <2>5. LoopInv'
    BY <2>1, <2>2, Runners DEF LoopInv, Active, Epochs
  <2>6. DiscInv'
    BY <1>1, <2>1 DEF DiscInv, Closing, Disc
  <2> QED
    BY <1>3, <2>3, <2>4, <2>5, <2>6
<1>5. CASE ConnectOpens \/ ConnectSendsHeader
  <2>1. /\ UNCHANGED <<epoch, carrierRef, owner, loopPc, connected, loopsRef>>
        /\ connectPc \in {"carrier", "open"} /\ connectPc' \in {"open", "header"}
    BY <1>5 DEF ConnectOpens, ConnectSendsHeader, loopVars, refVars
  <2> QED
    BY <1>1, <1>3, <2>1 DEF PcInv, RefInv, LoopInv, Active, DiscInv, Closing
<1>6. CASE ConnectReturns
  <2>1. /\ UNCHANGED <<epoch, carrierRef>>
        /\ connectPc = "header" /\ connectPc' = "idle" /\ loopsRef' = epoch /\ connected' = TRUE
        /\ owner' = IF disc[Owner].pc = "idle" THEN "in" ELSE "overlapped"
        /\ loopPc' = [loopPc EXCEPT ![<<"send", epoch>>] = "created",
                                    ![<<"recv", epoch>>] = "created"]
    BY <1>6 DEF ConnectReturns
  <2>2. \A l \in Loops : l[2] = epoch => loopPc[l] = "none"
    BY <2>1 DEF LoopInv
  <2>3. \A l \in Loops : loopPc'[l] = IF l[2] = epoch THEN "created" ELSE loopPc[l]
    BY <2>1, Runners
  <2>4. PcInv'
    BY <1>1, <2>1, <2>2, <2>3 DEF PcInv
  <2>5. disc[Owner].pc = "idle" \/ Closing(Owner)
    <3>1. disc[Owner].pc \in DiscPcs
      BY Runners DEF Disc
    <3> QED
      BY <1>2, <3>1, Runners DEF Joins, Closing, DiscPcs
  <2>6. RefInv'
    BY <1>1, <2>1, <2>5 DEF RefInv, Closing
  <2>7. LoopInv'
    BY <2>1, <2>3 DEF LoopInv, Active, RefInv
  <2>8. DiscInv'
    BY <1>1, <2>1 DEF DiscInv, Closing
  <2> QED
    BY <1>3, <2>4, <2>6, <2>7, <2>8
<1> QED
  BY <1>4, <1>5, <1>6

\* Each step keeps the types of what connect, disconnect and the loops use.
LEMMA CoreTyped == CoreInv /\ [Next]_vars => CoreOK'
<1> SUFFICES ASSUME CoreInv, [Next]_vars
             PROVE  CoreOK'
  OBVIOUS
<1> USE DEF CoreInv, CoreOK, CarriersOK
<1>1. CoreStep /\ CarriersOK' /\ cancelled' \in [Loops -> BOOLEAN]
  BY StepIsCore
<1>2. CASE Connect \/ ConnectOpens \/ ConnectSendsHeader
  BY <1>1, <1>2 DEF Connect, ConnectOpens, ConnectSendsHeader, loopVars, refVars, Epochs
<1>3. CASE ConnectReturns
  <2>1. loopPc' \in [Loops -> LoopPcs]
    BY <1>3 DEF ConnectReturns, LoopPcs
  <2> QED
    BY <1>1, <1>3, <2>1 DEF ConnectReturns
<1>4. ASSUME NEW p \in Procs, NEW e \in 0 .. MaxConnects, StepWaits(p, e)
      PROVE  CoreOK'
  <2>1. PICK d \in Disc : DiscGoesTo(p, d)
    BY <1>4, DiscStates DEF StepWaits, Waits
  <2>2. UNCHANGED refVars /\ connected' = FALSE /\ epoch' = epoch
    BY <1>4 DEF StepWaits, Waits
  <2> QED
    BY <1>1, <2>1, <2>2, GoesToTyped DEF refVars
<1>5. ASSUME NEW p \in Procs, NEW e \in 0 .. MaxConnects, StepTakes(p, e)
      PROVE  CoreOK'
  <2>1. PICK d \in Disc : DiscGoesTo(p, d)
    BY <1>5, DiscStates DEF StepTakes, Takes
  <2>2. /\ carrierRef' = 0 /\ streamRef' = 0 /\ loopsRef' = 0
        /\ connected' = FALSE /\ epoch' = epoch
    BY <1>5 DEF StepTakes, Takes
  <2>3. 0 \in 0 .. MaxConnects
    BY ConnectionAssumption
  <2> QED
    BY <1>1, <2>1, <2>2, <2>3, GoesToTyped
<1>6. ASSUME NEW p \in Procs, StepCloses(p)
      PROVE  CoreOK'
  <2>1. disc[p].carrier \in 0 .. MaxConnects
    BY DEF Disc
  <2>2. PICK d \in Disc : DiscGoesTo(p, d)
    BY <1>6, <2>1, DiscStates DEF StepCloses
  <2>3. UNCHANGED <<connected, refVars, epoch>>
    BY <1>6 DEF StepCloses
  <2> QED
    BY <1>1, <2>2, <2>3, GoesToTyped DEF refVars
<1>7. ASSUME NEW l \in Loops, StepLoop(l)
      PROVE  CoreOK'
  <2>1. PICK pc \in LoopPcs : loopPc' = [loopPc EXCEPT ![l] = pc]
    BY <1>7 DEF StepLoop, LoopPcs
  <2>2. UNCHANGED <<connected, refVars, ownerVars, disc>>
    BY <1>7 DEF StepLoop
  <2> QED
    BY <1>1, <2>1, <2>2 DEF refVars, ownerVars
<1>8. CASE UNCHANGED coreVars
  BY <1>1, <1>8 DEF coreVars, refVars, ownerVars
<1> QED
  BY <1>1, <1>2, <1>3, <1>4, <1>5, <1>6, <1>7, <1>8 DEF CoreStep

\* The invariant holds at first, and every step keeps it.
LEMMA CoreInvInit == Init => CoreInv
<1> SUFFICES ASSUME Init
             PROVE  CoreInv
  OBVIOUS
<1>1. CoreOK
  <2>1. 0 \in 0 .. MaxConnects
    BY ConnectionAssumption
  <2>2. disc \in [Procs -> Disc]
    BY DiscStates DEF Init
  <2>3. loopPc \in [Loops -> LoopPcs] /\ cancelled \in [Loops -> BOOLEAN]
    BY DEF Init, LoopPcs
  <2>4. CarriersOK
    BY DEF Init, CarriersOK, CarrierStates
  <2> QED
    BY <2>1, <2>2, <2>3, <2>4 DEF Init, CoreOK, CarriersOK
<1>2. \A p \in Procs : disc[p] = NoDisc /\ ~Joins(p) /\ ~Closing(p)
  BY DEF Init, Joins, Closing, NoDisc
<1>3. PcInv /\ LoopInv
  BY <1>2, Runners DEF Init, PcInv, LoopInv, Active, NoDisc
<1>4. RefInv
  BY <1>2, Runners DEF Init, RefInv
<1>5. DiscInv
  BY <1>2 DEF Init, DiscInv, NoDisc
<1> QED
  BY <1>1, <1>2, <1>3, <1>4, <1>5 DEF CoreInv, JoinInv

\* Every step of the connection keeps the invariant of its life cycle.
LEMMA CoreInvStep == CoreInv /\ [Next]_vars => CoreInv'
<1> SUFFICES ASSUME CoreInv, [Next]_vars
             PROVE  CoreInv'
  OBVIOUS
<1>1. CoreStep /\ CoreOK'
  BY StepIsCore, CoreTyped
<1>2. CASE UNCHANGED coreVars
  <2>1. \A q : Joins(q)' = Joins(q) /\ Joined(q)' = Joined(q) /\ Closing(q)' = Closing(q)
    BY <1>2 DEF coreVars, Joins, Joined, Closing
  <2> QED
    BY <1>1, <1>2, <2>1
       DEF CoreInv, PcInv, RefInv, LoopInv, JoinInv, DiscInv, Active, coreVars, refVars, ownerVars
<1> QED
  BY <1>1, <1>2, ConnectKeeps, WaitsKeeps, TakesKeeps, ClosesKeeps, LoopKeeps
     DEF CoreStep, CoreInv

\* In every behaviour, who runs and who disconnects what fits together: the
\* inductive invariant that the theorems below rest on (connect, disconnect,
\* _send_loop, _recv_loop).
THEOREM ConnectionInvariant == Spec => []CoreInv
BY CoreInvInit, CoreInvStep, PTL DEF Spec

\* The loops of an earlier connection have ended before the next one could find
\* them at work, however many times the owner connects (_send_loop, _recv_loop,
\* disconnect).
THEOREM OldLoopsHaveEnded == Spec => []OldLoopsEnded
<1>1. CoreInv => OldLoopsEnded
  BY DEF CoreInv, LoopInv, Active, OldLoopsEnded
<1> QED
  BY <1>1, ConnectionInvariant, PTL

\* No disconnect of a loop takes down the carrier of a later connection, and no
\* two take down the same (disconnect).
THEOREM CarriersAreOwned == Spec => []OwnCarrier
<1>1. CoreInv => OwnCarrier
  BY Runners DEF CoreInv, DiscInv, OwnCarrier
<1> QED
  BY <1>1, ConnectionInvariant, PTL

\* Disconnects of loops never wait for one another in a circle (disconnect).
THEOREM NoCircleOfLoops == Spec => []NoCircle
<1>1. CoreInv => NoCircle
  <2> SUFFICES ASSUME CoreInv, NEW l \in Loops, Joins(l)
               PROVE  Joined(l) # l /\ ~Joins(Joined(l))
    BY DEF NoCircle
  <2>1. Joined(l) # l /\ \A q \in Loops : Joins(q) => l = q
    BY Runners DEF CoreInv, JoinInv
  <2>2. disc[l].loops \in Epochs
    BY Runners DEF CoreInv, JoinInv, CoreOK, Epochs
  <2>3. Joined(l) \in Loops
    BY <2>2, Runners DEF Joined
  <2> QED
    BY <2>1, <2>3
<1> QED
  BY <1>1, ConnectionInvariant, PTL

-----------------------------------------------------------------------------
(* What recv() returns. *)

\* The items are numbered in the order in which they are read: what recv() has
\* got comes before what is in the queue, and that before what a loop waits to
\* put; once recv() has got an item of the connection, only such items follow.
ItemInv ==
  /\ lastGot.n < nextIn /\ lastGot.at <= epoch
  /\ recvQueue # <<>> =>
       /\ lastGot.n < Head(recvQueue).n /\ Head(recvQueue).n < nextIn
       /\ lastGot.at = epoch => Head(recvQueue).from = epoch
  /\ \A l \in Loops : loopPc[l] = "put" =>
       /\ holding[l[2]].from = l[2]
       /\ lastGot.n < holding[l[2]].n /\ holding[l[2]].n < nextIn
       /\ recvQueue # <<>> => Head(recvQueue).n < holding[l[2]].n

QueueInv == QueueOK /\ ItemInv

itemVars == <<holding, recvQueue, nextIn, lastGot>>

\* No loop waits to put an item that did not before.
NoNewPut == \A l \in Loops : loopPc'[l] = "put" => loopPc[l] = "put"

\* A disconnect takes who runs it to its finally clause or to its end
\* (disconnect).
LEMMA GoesToNoPut ==
  ASSUME CoreOK, NEW p \in Procs, \/ Begin(p)
                                  \/ DiscStep(p)
  PROVE  NoNewPut /\ (p \in Loops => loopPc'[p] # "put")
<1>1. \E d : DiscGoesTo(p, d)
  <2>1. CASE Begin(p)
    BY <2>1, Disconnects DEF Takes, Waits
  <2>2. CASE DiscJoined(p)
    <3>1. disc[p].loops \in 0 .. MaxConnects
      BY DEF CoreOK, Disc
    <3> QED
      BY <2>2, <3>1, Disconnects DEF DiscJoined, Takes, Waits
  <2>3. CASE DiscStreamClosed(p) \/ DiscCarrierClosed(p)
    BY <2>3 DEF DiscStreamClosed, DiscCarrierClosed, CloseCarrier, DiscEnds
  <2> QED
    BY <2>1, <2>2, <2>3 DEF DiscStep
<1> QED
  BY <1>1 DEF CoreOK, DiscGoesTo, NoNewPut

\* Nor does a loop that ends or tests _connected (_recv_loop).
LEMMA EndsNoPut ==
  ASSUME CoreOK, NEW l \in Loops, LoopEnds(l) \/ LoopTests(l)
  PROVE  NoNewPut /\ loopPc'[l] # "put"
<1>1. l \in Procs
  BY Runners
<1>2. Begin(l) => NoNewPut /\ loopPc'[l] # "put"
  BY <1>1, GoesToNoPut
<1>3. LoopEnds(l) => NoNewPut /\ loopPc'[l] # "put"
  BY <1>2 DEF LoopEnds, NoNewPut, CoreOK
<1> QED
  BY <1>3 DEF LoopTests, LoopGoesTo, NoNewPut, CoreOK

\* Steps that leave the items alone.
LEMMA OthersKeepItems ==
  ASSUME CoreInv, QueueInv, UNCHANGED itemVars, NoNewPut, epoch' \in {epoch, epoch + 1}
  PROVE  ItemInv'
BY DEF CoreInv, CoreOK, QueueInv, QueueOK, ItemInv, NoNewPut, itemVars

\* recv() takes the item of the queue.
LEMMA TakesKeepsItems ==
  ASSUME CoreInv, QueueInv, RecvTakes, UNCHANGED <<loopPc, holding, epoch>>
  PROVE  /\ QueueOK' /\ ItemInv'
         /\ lastGot'.n > lastGot.n
         /\ lastGot'.at = lastGot.at => lastGot'.from = lastGot'.at
<1> USE DEF CoreInv, CoreOK, QueueInv, QueueOK
<1> DEFINE item == Head(recvQueue)
<1>1. item \in Item /\ recvQueue' = <<>>
  BY DEF RecvTakes
<1>2. lastGot' = [from |-> item.from, n |-> item.n, at |-> epoch]
  BY DEF RecvTakes
<1>3. item.from \in 0 .. MaxConnects /\ item.n \in Nat
  BY <1>1 DEF Item, Epochs
<1>4. /\ lastGot.n < item.n /\ item.n < nextIn
      /\ lastGot.at = epoch => item.from = epoch
  BY DEF ItemInv, RecvTakes
<1>5. UNCHANGED <<sendQueue, sender, sends, nextIn>> /\ receiver' \in BOOLEAN
  BY <1>1 DEF RecvTakes
<1>6. QueueOK'
  BY <1>1, <1>2, <1>3, <1>5
<1>7. ItemInv'
  BY <1>1, <1>2, <1>3, <1>4, <1>5 DEF ItemInv, RecvTakes
<1> QED
  BY <1>2, <1>3, <1>4, <1>6, <1>7

\* A receive loop puts the item it has just read, or the one it waits to put.
LEMMA PutsKeepsItems ==
  ASSUME CoreInv, QueueInv, NEW l \in Loops, l[1] = "recv", Active(l),
         NEW item \in Item, RecvLoopPuts(l, item), item.from = l[2], epoch' = epoch,
         lastGot' = lastGot, nextIn' \in Nat, nextIn' >= nextIn,
         lastGot.n < item.n, item.n < nextIn',
         UNCHANGED <<sendQueue, sender, receiver, sends>>
  PROVE  QueueOK' /\ ItemInv'
<1> USE DEF CoreInv, CoreOK, QueueInv, QueueOK
<1>1. NoNewPut /\ loopPc'[l] # "put"
  BY EndsNoPut DEF RecvLoopPuts, AfterPut
<1>2. \A m \in Loops : loopPc'[m] # "put"
  <2>1. \A m \in Loops : loopPc[m] = "put" => m = l
    <3>1. \A m \in Loops : loopPc[m] = "put" => m[1] = "recv" /\ m[2] = epoch
      BY Runners DEF LoopInv, PcInv, Active
    <3>2. l[1] = "recv" /\ l[2] = epoch
      BY DEF LoopInv
    <3> QED
      BY <3>1, <3>2, Runners
  <2> QED
    BY <1>1, <2>1 DEF NoNewPut
<1>3. recvQueue' = <<item>> /\ recvQueue' \in Seq(Item) /\ Len(recvQueue') = 1
      /\ Head(recvQueue') = item
  BY DEF RecvLoopPuts
<1>4. holding' \in [Epochs -> Item]
  <2>1. None \in Item
    BY ConnectionAssumption DEF None, Item, Epochs
  <2> QED
    BY <2>1 DEF RecvLoopPuts
<1>5. QueueOK'
  BY <1>3, <1>4
<1>6. l[2] = epoch
  BY DEF LoopInv
<1>7. ItemInv'
  BY <1>2, <1>3, <1>6 DEF ItemInv
<1> QED
  BY <1>5, <1>7

\* A receive loop that has read an item puts it, or waits to (_recv_loop).
LEMMA ReadsKeepItems ==
  ASSUME CoreInv, QueueInv, NEW l \in Loops, NEW kind \in {"packet", "empty", "error"},
         RecvLoopReads(l, kind), epoch' = epoch
  PROVE  QueueOK' /\ ItemInv'
<1> USE DEF CoreInv, CoreOK, QueueInv, QueueOK
<1> DEFINE item == [kind |-> kind, from |-> l[2], n |-> nextIn]
<1>1. /\ l[1] = "recv" /\ Active(l) /\ l[2] = epoch /\ loopPc[l] = "read"
      /\ item \in Item /\ item.from = l[2] /\ item.n = nextIn
  BY Runners DEF RecvLoopReads, At, Active, PcInv, LoopInv, Item
<1>2. /\ nextIn' = nextIn + 1
      /\ UNCHANGED <<sendQueue, sender, receiver, sends, lastGot>>
  BY DEF RecvLoopReads
<1>3. lastGot.n \in Nat /\ lastGot.n < nextIn
  BY DEF ItemInv
<1>4. CASE RecvLoopPuts(l, item)
  BY <1>1, <1>2, <1>3, <1>4, PutsKeepsItems, SMTT(30)
<1>5. CASE RecvLoopWaits(l, item)
  <2>1. /\ recvQueue # <<>> /\ recvQueue' = recvQueue
        /\ holding' = [holding EXCEPT ![l[2]] = item]
        /\ loopPc' = [loopPc EXCEPT ![l] = "put"]
    BY <1>5 DEF RecvLoopWaits, LoopGoesTo
  <2>2. \A m \in Loops : loopPc[m] # "put"
    BY <1>1, Runners, SMTT(30) DEF LoopInv, PcInv, Active
  <2>3. \A m \in Loops : loopPc'[m] = "put" => m = l /\ holding'[m[2]] = item
    BY <2>1, <2>2, Runners
  <2>4. Head(recvQueue).n < nextIn /\ Head(recvQueue).n \in Nat
    <3>1. Head(recvQueue) \in Item
      BY <2>1
    <3> QED
      BY <2>1, <3>1 DEF ItemInv, Item
  <2>5. ItemInv'
    <3>1. (lastGot.n < nextIn /\ lastGot.at <= epoch)'
      BY <1>2, <1>3 DEF ItemInv
    <3>2. (recvQueue # <<>> =>
             /\ lastGot.n < Head(recvQueue).n /\ Head(recvQueue).n < nextIn
             /\ lastGot.at = epoch => Head(recvQueue).from = epoch)'
      BY <1>2, <2>1, <2>4 DEF ItemInv
    <3>3. ASSUME NEW m \in Loops, loopPc'[m] = "put"
          PROVE  /\ holding'[m[2]].from = m[2]
                 /\ lastGot'.n < holding'[m[2]].n /\ holding'[m[2]].n < nextIn'
                 /\ recvQueue' # <<>> => Head(recvQueue').n < holding'[m[2]].n
      BY <1>1, <1>2, <1>3, <2>1, <2>3, <2>4, <3>3
    <3> QED
      BY <3>1, <3>2, <3>3 DEF ItemInv
  <2>6. QueueOK'
    <3>1. holding' \in [Epochs -> Item]
      BY <1>1, <2>1
    <3> QED
      BY <1>2, <2>1, <3>1
  <2> QED
    BY <2>5, <2>6
<1> QED
  BY <1>4, <1>5 DEF RecvLoopReads

\* Every step of a loop (LoopStep).
LEMMA LoopKeepsItems ==
  ASSUME CoreInv, QueueInv, NEW l \in Loops, LoopStep(l)
  PROVE  QueueOK' /\ ItemInv'
<1>1. epoch' = epoch
  BY DEF LoopStep
<1>2. CASE LoopStarts(l) \/ SendLoopReturns(l)
  <2>1. NoNewPut
    BY <1>2, EndsNoPut DEF LoopStarts, SendLoopReturns, NoNewPut, CoreInv, CoreOK
  <2>2. UNCHANGED <<holding, queueVars>>
    BY <1>2 DEF LoopStarts, SendLoopReturns
  <2> QED
    BY <1>1, <2>1, <2>2, OthersKeepItems DEF QueueInv, QueueOK, itemVars, queueVars
<1>3. CASE LoopCancelled(l)
  <2>1. NoNewPut /\ loopPc'[l] # "put"
    BY <1>3, EndsNoPut DEF LoopCancelled, CoreInv
  <2>2. UNCHANGED queueVars
    BY <1>3 DEF LoopCancelled
  <2>3. \A m \in Loops : loopPc'[m] = "put" => holding'[m[2]] = holding[m[2]]
    <3> SUFFICES ASSUME NEW m \in Loops, loopPc'[m] = "put"
                 PROVE  holding'[m[2]] = holding[m[2]]
      OBVIOUS
    <3>1. m # l /\ m[1] = "recv"
      BY <2>1, Runners DEF NoNewPut, CoreInv, PcInv
    <3>2. CASE l[1] = "recv"
      <4>1. m[2] # l[2]
        BY <3>1, <3>2, Runners
      <4> QED
        BY <1>3, <4>1, Runners DEF LoopCancelled, QueueInv, QueueOK
    <3>3. CASE l[1] # "recv"
      BY <1>3, <3>3 DEF LoopCancelled
    <3> QED
      BY <3>2, <3>3
  <2>4. holding' \in [Epochs -> Item]
    <3>1. None \in Item
      BY ConnectionAssumption DEF None, Item, Epochs
    <3> QED
      BY <1>3, <3>1 DEF LoopCancelled, QueueInv, QueueOK
  <2> QED
    BY <1>1, <2>1, <2>2, <2>3, <2>4 DEF QueueInv, QueueOK, ItemInv, NoNewPut, queueVars
<1>4. CASE SendLoopTakes(l)
  <2>1. NoNewPut
    BY <1>4, EndsNoPut DEF SendLoopTakes, LoopGoesTo, NoNewPut, CoreInv, CoreOK
  <2>2. /\ UNCHANGED <<holding, recvQueue, sender, receiver, sends, nextIn, lastGot>>
        /\ sendQueue' = 0
    BY <1>4 DEF SendLoopTakes
  <2> QED
    BY <1>1, <2>1, <2>2, OthersKeepItems DEF QueueInv, QueueOK, itemVars
<1>5. CASE RecvLoopResumes(l)
  <2>1. l[1] = "recv" /\ Active(l) /\ loopPc[l] = "put"
    BY <1>5, Runners DEF RecvLoopResumes, At, Active, CoreInv, PcInv
  <2>2. holding[l[2]] \in Item
    BY Runners DEF QueueInv, QueueOK
  <2>3. /\ holding[l[2]].from = l[2]
        /\ lastGot.n < holding[l[2]].n /\ holding[l[2]].n < nextIn
    BY <2>1 DEF QueueInv, ItemInv
  <2>4. UNCHANGED <<sendQueue, sender, receiver, sends, nextIn, lastGot>>
        /\ RecvLoopPuts(l, holding[l[2]])
    BY <1>5 DEF RecvLoopResumes
  <2>5. nextIn \in Nat /\ nextIn' >= nextIn /\ nextIn' = nextIn
    BY <2>4 DEF QueueInv, QueueOK
  <2> QED
    BY <1>1, <2>1, <2>2, <2>3, <2>4, <2>5, PutsKeepsItems
<1> QED
  BY <1>1, <1>2, <1>3, <1>4, <1>5, ReadsKeepItems DEF LoopStep

\* Every step of the connection.
LEMMA QueueInvStep == CoreInv /\ QueueInv /\ [Next]_vars => QueueInv'
<1> SUFFICES ASSUME CoreInv, QueueInv, [Next]_vars
             PROVE  QueueOK' /\ ItemInv'
  BY DEF QueueInv
<1>1. ASSUME UNCHANGED <<holding, queueVars>>, NoNewPut, epoch' \in {epoch, epoch + 1}
      PROVE  QueueOK' /\ ItemInv'
  BY <1>1, OthersKeepItems DEF QueueInv, QueueOK, itemVars, queueVars
<1>2. CASE Connect
  BY <1>1, <1>2 DEF Connect, NoNewPut, loopVars
<1>3. CASE ConnectStep \/ OwnerDisconnects
  <2>1. CASE ConnectOpens \/ ConnectSendsHeader
    BY <1>1, <2>1 DEF ConnectOpens, ConnectSendsHeader, NoNewPut, loopVars
  <2>2. CASE ConnectReturns
    BY <1>1, <2>2 DEF ConnectReturns, NoNewPut, CoreInv, CoreOK
  <2>3. CASE ConnectRaises \/ OwnerDisconnects
    BY <1>1, <2>3, Runners, GoesToNoPut DEF ConnectRaises, OwnerDisconnects, CoreInv
  <2> QED
    BY <1>3, <2>1, <2>2, <2>3 DEF ConnectStep
<1>4. ASSUME NEW p \in Procs, DiscStep(p)
      PROVE  QueueOK' /\ ItemInv'
  <2>1. NoNewPut
    BY <1>4, GoesToNoPut DEF CoreInv
  <2> QED
    BY <1>1, <1>4, <2>1 DEF DiscStep
<1>5. CASE CallStep
  <2>1. UNCHANGED <<epoch, loopPc, holding>> /\ NoNewPut
    BY <1>5 DEF CallStep, loopVars, ownerVars, NoNewPut
  <2>2. CASE RecvTakes
    BY <2>1, <2>2, TakesKeepsItems
  <2>3. CASE SendCalls \/ SendPuts \/ RecvWaits \/ GivesUp
    <3>1. UNCHANGED itemVars
      BY <2>1, <2>3 DEF SendCalls, SendPuts, RecvWaits, GivesUp, itemVars
    <3>2. sendQueue' \in 0 .. 1 /\ sends' \in Nat
      BY <2>3 DEF SendCalls, SendPuts, RecvWaits, GivesUp, QueueInv, QueueOK
    <3>3. sender' \in BOOLEAN
      BY <2>3 DEF SendCalls, SendPuts, RecvWaits, GivesUp, QueueInv, QueueOK
    <3>4. receiver' \in BOOLEAN
      BY <2>3 DEF SendCalls, SendPuts, RecvWaits, GivesUp, QueueInv, QueueOK
    <3> QED
      BY <2>1, <3>1, <3>2, <3>3, <3>4, OthersKeepItems DEF QueueInv, QueueOK, itemVars
  <2> QED
    BY <1>5, <2>2, <2>3 DEF CallStep
<1>6. CASE CarrierStep
  BY <1>1, <1>6 DEF CarrierStep, NoNewPut, loopVars, ownerVars
<1>7. CASE UNCHANGED vars
  BY <1>1, <1>7 DEF vars, NoNewPut, loopVars, ownerVars
<1> QED
  BY <1>2, <1>3, <1>4, <1>5, <1>6, <1>7, LoopKeepsItems DEF Next

\* Nothing is queued at the start (WebProxyConnection.__init__).
LEMMA QueueInvInit == Init => QueueInv
<1> SUFFICES ASSUME Init
             PROVE  QueueOK /\ ItemInv
  BY DEF QueueInv
<1>1. None \in Item /\ 0 \in 0 .. MaxConnects
  BY ConnectionAssumption DEF None, Item, Epochs
<1>2. QueueOK
  <2>1. holding \in [Epochs -> Item] /\ recvQueue \in Seq(Item) /\ Len(recvQueue) <= 1
    BY <1>1 DEF Init
  <2>2. lastGot \in [from : 0 .. MaxConnects, n : Nat, at : 0 .. MaxConnects]
    BY <1>1 DEF Init
  <2>3. sendQueue \in 0 .. 1 /\ sends \in Nat /\ nextIn \in Nat
    BY DEF Init
  <2>4. sender \in BOOLEAN /\ receiver \in BOOLEAN
    BY DEF Init
  <2> QED
    BY <2>1, <2>2, <2>3, <2>4 DEF QueueOK
<1>3. ItemInv
  BY DEF Init, ItemInv
<1> QED
  BY <1>2, <1>3

\* In every behaviour the items are numbered in order, from the queue's end to
\* its head (_recv_queue).
THEOREM QueueInvariant == Spec => []QueueInv
BY QueueInvInit, QueueInvStep, ConnectionInvariant, PTL DEF Spec

\* Everything the connection keeps has its type.
THEOREM ConnectionTyped == Spec => []TypeOK
<1>1. CoreInv /\ QueueInv => TypeOK
  BY TypeParts DEF CoreInv, QueueInv
<1> QED
  BY <1>1, ConnectionInvariant, QueueInvariant, PTL

\* However often the object connects again, recv() gets what was read once and in
\* order, and at most its first item of a connection is one that an earlier
\* connection has left (recv, _recv_loop).
THEOREM ReceivedInOrder == Spec => ReceivedOnceInOrder
<1>1. ASSUME CoreInv, QueueInv, [Next]_vars
      PROVE  [RecvTakes => /\ lastGot'.n > lastGot.n
                           /\ lastGot'.at = lastGot.at => lastGot'.from = lastGot'.at]_vars
  <2> SUFFICES ASSUME RecvTakes
               PROVE  /\ lastGot'.n > lastGot.n
                      /\ lastGot'.at = lastGot.at => lastGot'.from = lastGot'.at
    OBVIOUS
  <2> DEFINE item == Head(recvQueue)
  <2>1. item \in Item /\ lastGot.n < item.n /\ (lastGot.at = epoch => item.from = epoch)
    BY <1>1 DEF RecvTakes, QueueInv, QueueOK, ItemInv
  <2>2. lastGot' = [from |-> item.from, n |-> item.n, at |-> epoch]
    BY DEF RecvTakes
  <2>3. item.n \in Nat /\ lastGot.n \in Nat
    BY <1>1, <2>1 DEF Item, QueueInv, QueueOK
  <2> QED
    BY <2>1, <2>2, <2>3
<1> QED
  BY <1>1, ConnectionInvariant, QueueInvariant, PTL DEF Spec, ReceivedOnceInOrder
=============================================================================
