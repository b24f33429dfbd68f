------------------------- MODULE HttpsCarrierProofs -------------------------
(***************************************************************************)
(* Proofs about HttpsCarrier: its types, the order in which the relay takes *)
(* the frames of the uplink, the order in which the polling loop dispatches *)
(* those of the downlink, and the bound on the frames the uplink loses.    *)
(***************************************************************************)
EXTENDS HttpsCarrier, BaseCarrierProofs, FiniteSetTheorems

-----------------------------------------------------------------------------
(* The life cycle. *)

\* Where _on_batch leaves the background task.
LEMMA DispatchEnds ==
  ASSUME NEW b, NEW g, Dispatches(b, g)
  PROVE  \/ reader' \in ReaderPcs \ {"bye"} /\ UNCHANGED discVars
         \/ TaskEnds /\ UNCHANGED <<connected, stop>>
         \/ TaskByes
BY Pcs DEF Dispatches, Loops, discVars

\* What a step of the uplink does to the background task.
LEMMA UplinkEnds ==
  ASSUME UpStep, BaseTypeOK
  PROVE  \/ reader' \in ReaderPcs /\ UNCHANGED discVars
         \/ TaskEnds /\ UNCHANGED <<connected, stop>>
         \/ TaskByes
<1> PICK c \in Active :
      UpPosts(c) \/ RelayTakes(c) \/ UpAccepted(c) \/ UpRefused(c) \/ UpFails(c)
  BY DEF UpStep
<1> reader \in ReaderPcs
  BY DEF BaseTypeOK, LifeCycleTypeOK
<1>1. CASE UpRaises(c)
  BY <1>1 DEF UpRaises, discVars
<1>2. ASSUME NEW pc, UpGoesOn(c, pc)
      PROVE  reader' \in ReaderPcs /\ UNCHANGED discVars
  BY <1>2 DEF UpGoesOn
<1>3. CASE UpAccepted(c)
  BY <1>3, DispatchEnds DEF UpAccepted
<1> QED
  BY <1>1, <1>2, <1>3 DEF UpPosts, RelayTakes, UpRefused, UpFails

\* Every step of the carrier keeps the type of its life cycle.
LEMMA BaseStep == BaseTypeOK /\ [Next]_vars => BaseTypeOK'
<1> SUFFICES ASSUME BaseTypeOK, [Next]_vars
             PROVE  BaseTypeOK'
  OBVIOUS
<1>r. reader \in ReaderPcs /\ cancelled \in BOOLEAN
  BY DEF BaseTypeOK, LifeCycleTypeOK
<1>1. CASE StartConnect \/ Bootstrapped \/ ConnectFails \/ UserDisconnect
  BY <1>1, ConnectTyped DEF StartConnect, Bootstrapped, ConnectFails, UserDisconnect
<1>2. ASSUME NEW d \in Discs, DisconnectStep(d)
      PROVE  BaseTypeOK'
  <2>1. reader' \in ReaderPcs
    BY <1>r, <1>2, Pcs DEF DisconnectStep
  <2> QED
    BY <1>2, <2>1, DisconnectTyped DEF DisconnectStep
<1>3. ASSUME NEW d \in Discs, StopStep(d)
      PROVE  BaseTypeOK'
  BY <1>3, StopTyped, Pcs DEF StopStep
<1>4. CASE \/ \E c \in Senders : CallUp(c)
           \/ DeadlinePasses
           \/ \E kind \in Kinds : RelaySends(kind)
           \/ UNCHANGED vars
  BY <1>4, BaseUnchangedTyped DEF CallUp, DeadlinePasses, RelaySends, vars
<1>5. CASE UpStep
  <2>1. UNCHANGED <<connectVars, readerRef>> /\ cancelled' \in BOOLEAN
    BY <1>r, <1>5 DEF UpStep, UnchangedByUplink
  <2> QED
    BY <1>5, <2>1, UplinkEnds, TaskStepTyped
<1>6. ASSUME NEW m, PollAnswered(m)
      PROVE  BaseTypeOK'
  <2>1. UNCHANGED <<connectVars, readerRef>> /\ cancelled' \in BOOLEAN
    BY <1>r, <1>6 DEF PollAnswered, UnchangedByPoll
  <2>2. \/ reader' \in ReaderPcs /\ UNCHANGED discVars
        \/ TaskEnds /\ UNCHANGED <<connected, stop>>
        \/ TaskByes
    BY <1>6, DispatchEnds, Pcs DEF PollAnswered, Loops, discVars
  <2> QED
    BY <2>1, <2>2, TaskStepTyped
<1>7. CASE PollIdles \/ PollFails \/ PollStep
  <2>1. UNCHANGED <<connectVars, readerRef>> /\ cancelled' \in BOOLEAN
    BY <1>r, <1>7 DEF PollIdles, PollFails, PollStep, PollStarts, PollCancelled,
       PollFinishes, UnchangedByPoll, TaskStarts, TaskCancelled, TaskFinishes
  <2>2. CASE PollIdles \/ PollStarts \/ PollFinishes
    <3>1. reader' \in ReaderPcs /\ UNCHANGED discVars
      BY <2>2, Pcs DEF PollIdles, PollStarts, PollFinishes, Loops, TaskStarts,
         TaskFinishes, discVars
    <3> QED
      BY <2>1, <3>1, TaskStepTyped
  <2>3. CASE PollFails \/ PollCancelled
    BY <2>1, <2>3, TaskStepTyped DEF PollFails, PollCancelled, TaskCancelled
  <2> QED
    BY <1>7, <2>2, <2>3 DEF PollStep
<1> QED
  BY <1>1, <1>2, <1>3, <1>4, <1>5, <1>6, <1>7 DEF Next

-----------------------------------------------------------------------------
(* The uplink. *)

\* Handing on the lock keeps its state in its range, and free only when nobody
\* calls.
LEMMA CallsTyped ==
  ASSUME UplinkTypeOK, NEW g \in [Tasks -> Nat], Calls(g)
  PROVE  /\ calling' = g
         /\ upPc' \in {"free", "start", "post", "taken", "sleep"}
         /\ upPc' \in {upPc, "free", "start"}
         /\ upPc' = "free" <=> Idle(g)
BY DEF UplinkTypeOK, Calls, Holds, Idle

\* A step in which calls end, and at most one begins.
CallsMove ==
  /\ calling' \in [Tasks -> Nat]
  /\ Calls(calling')
  /\ \A x \in Tasks : calling'[x] \in {0, calling[x], nextFrame}
  /\ \A x, y \in Tasks : calling'[x] = nextFrame /\ calling'[y] = nextFrame => x = y
  /\ \/ nextFrame' = nextFrame + 1
     \/ nextFrame' = nextFrame /\ \A x \in Tasks : calling'[x] # nextFrame

\* The end of the calls that g leaves out (Calls).
LEMMA CallsEnd ==
  ASSUME UplinkTypeOK, CallsInv, NEW g \in [Tasks -> Nat], Calls(g), UNCHANGED nextFrame,
         \A x \in Tasks : g[x] \in {0, calling[x]}
  PROVE  CallsMove
<1>1. calling' = g
  BY DEF Calls
<1>2. \A x \in Tasks : g[x] < nextFrame
  BY DEF UplinkTypeOK, CallsInv
<1>3. \A x \in Tasks : g[x] # nextFrame
  BY <1>2 DEF UplinkTypeOK
<1> QED
  BY <1>1, <1>3 DEF CallsMove

\* A call is made, while others may end (Calls).
LEMMA CallBegins ==
  ASSUME UplinkTypeOK, CallsInv, NEW g \in [Tasks -> Nat], NEW c \in Tasks,
         Calls([g EXCEPT ![c] = nextFrame]), nextFrame' = nextFrame + 1,
         \A x \in Tasks : g[x] \in {0, calling[x]}
  PROVE  CallsMove
<1> DEFINE h == [g EXCEPT ![c] = nextFrame]
<1>1. h \in [Tasks -> Nat]
  BY DEF UplinkTypeOK
<1>2. \A x \in Tasks : h[x] = IF x = c THEN nextFrame ELSE g[x]
  OBVIOUS
<1>3. Calls(h)
  OBVIOUS
<1> HIDE DEF h
<1>4. calling' = h
  BY <1>3 DEF Calls
<1>5. \A x \in Tasks : g[x] < nextFrame
  BY DEF UplinkTypeOK, CallsInv
<1>6. \A x \in Tasks : h[x] = nextFrame => x = c
  BY <1>2, <1>5 DEF UplinkTypeOK
<1>7. \A x \in Tasks : h[x] \in {0, calling[x], nextFrame}
  BY <1>2
<1> QED
  BY <1>1, <1>3, <1>4, <1>6, <1>7 DEF CallsMove

\* The dispatch of a batch adds at most the call for a PONG (_on_batch).
LEMMA DispatchCalls ==
  ASSUME UplinkTypeOK, CallsInv, NEW b, NEW g \in [Tasks -> Nat], Dispatches(b, g),
         \A x \in Tasks : g[x] \in {0, calling[x]}
  PROVE  CallsMove
<1>1. \/ Calls(g) /\ UNCHANGED nextFrame
      \/ Calls([g EXCEPT !["reader"] = nextFrame]) /\ nextFrame' = nextFrame + 1
  BY DEF Dispatches
<1>2. "reader" \in Tasks
  BY DEF Tasks
<1> QED
  BY <1>1, <1>2, CallsEnd, CallBegins

\* The calls without that of c.
LEMMA Without ==
  ASSUME UplinkTypeOK, NEW c \in Tasks
  PROVE  /\ [calling EXCEPT ![c] = 0] \in [Tasks -> Nat]
         /\ \A x \in Tasks : [calling EXCEPT ![c] = 0][x] \in {0, calling[x]}
         /\ [calling EXCEPT ![c] = 0][c] = 0
BY DEF UplinkTypeOK

\* What the calls outstanding are to the relay's frames is kept when calls end
\* and begin, if the number moves on only past a call that ends (CallsInv).
LEMMA CallsInvKept ==
  ASSUME UplinkTypeOK, CallsInv, CallsMove, UNCHANGED relayLog,
         \/ UNCHANGED upSeq
         \/ \A x \in Tasks, i \in DOMAIN relayLog : calling'[x] > 0 => relayLog[i] # calling'[x]
  PROVE  CallsInv'
<1>1. /\ nextFrame \in Nat /\ nextFrame' \in Nat /\ nextFrame <= nextFrame'
      /\ \A i \in DOMAIN relayLog : relayLog[i] \in Nat
      /\ \A x \in Tasks : calling[x] \in Nat /\ calling'[x] \in Nat
  BY DEF UplinkTypeOK, CallsMove
<1>2. \A x \in Tasks : calling'[x] < nextFrame'
  <2> SUFFICES ASSUME NEW x \in Tasks PROVE calling'[x] < nextFrame'
    OBVIOUS
  <2>1. calling[x] < nextFrame /\ 0 < nextFrame
    BY DEF CallsInv, UplinkTypeOK
  <2> QED
    BY <1>1, <2>1 DEF CallsMove
<1>3. ASSUME NEW x \in Tasks, NEW y \in Tasks, calling'[x] > 0, calling'[x] = calling'[y]
      PROVE  x = y
  <2>1. calling[x] < nextFrame /\ calling[y] < nextFrame
    BY DEF CallsInv
  <2>2. CASE calling'[x] = nextFrame
    BY <1>3, <2>2 DEF CallsMove
  <2>3. CASE calling'[x] # nextFrame
    BY <1>1, <1>3, <2>1, <2>3 DEF CallsMove, CallsInv
  <2> QED
    BY <2>2, <2>3
<1>4. \A i \in DOMAIN relayLog : relayLog[i] < nextFrame'
  BY <1>1 DEF CallsInv
<1>5. ASSUME NEW x \in Tasks, NEW i \in DOMAIN relayLog, calling'[x] > 0
      PROVE  /\ relayLog[i] <= calling'[x]
             /\ relayLog[i] = calling'[x] => upSeq' = Len(relayLog)
  <2>1. relayLog[i] < nextFrame
    BY DEF CallsInv
  <2>2. CASE calling'[x] = nextFrame
    BY <1>1, <2>1, <2>2
  <2>3. CASE calling'[x] = calling[x]
    <3>1. /\ relayLog[i] <= calling[x]
          /\ relayLog[i] = calling[x] => upSeq = Len(relayLog)
      BY <1>5, <2>3 DEF CallsInv
    <3> QED
      BY <1>5, <2>3, <3>1
  <2> QED
    BY <1>1, <1>5, <2>2, <2>3 DEF CallsMove
<1> QED
  BY <1>2, <1>3, <1>4, <1>5 DEF CallsInv

\* _up_seq stays one ahead of the relay, or level with it while the oldest call
\* has been taken, when calls end and begin (NumberInv).
LEMMA NumberInvKept ==
  ASSUME UplinkTypeOK, NumberInv, CallsMove, UNCHANGED <<upSeq, relayLog>>
  PROVE  NumberInv'
<1>1. upPc' \in {upPc, "free", "start"}
  BY CallsTyped DEF CallsMove
<1> QED
  BY <1>1 DEF NumberInv

\* The oldest call is alone: every other is younger.
LEMMA Oldest ==
  ASSUME UplinkTypeOK, CallsInv, NEW c \in Active
  PROVE  /\ c \in Tasks /\ calling[c] > 0 /\ calling[c] \in Nat /\ ~Idle(calling)
         /\ \A x \in Tasks : calling[x] > 0 /\ x # c => calling[c] < calling[x]
<1>1. c \in Tasks /\ Holds(c)
  BY DEF Active
<1>2. ASSUME NEW x \in Tasks, calling[x] > 0, x # c
      PROVE  calling[c] < calling[x]
  BY <1>1, <1>2 DEF Holds, CallsInv, UplinkTypeOK
<1> QED
  BY <1>1, <1>2 DEF Holds, Idle, UplinkTypeOK

\* The relay takes the oldest call's frame, or has it already (RelayTakes).
LEMMA Taken ==
  ASSUME UplinkTypeOK, CallsInv, NumberInv, UplinkOnceInOrder,
         NEW c \in Active, RelayTakes(c)
  PROVE  relayLog' \in Seq(Nat) /\ CallsInv' /\ NumberInv' /\ UplinkOnceInOrder'
<1>1. UNCHANGED <<calling, upSeq, nextFrame>> /\ upPc' = "taken"
  BY DEF RelayTakes, UpGoesOn
<1>2. relayLog \in Seq(Nat) /\ Len(relayLog) \in Nat
  BY DEF UplinkTypeOK
<1>3. CASE upSeq = Len(relayLog)
  <2>1. UNCHANGED relayLog
    BY <1>2, <1>3 DEF RelayTakes
  <2> QED
    BY <1>1, <1>2, <1>3, <2>1 DEF CallsInv, NumberInv, UplinkOnceInOrder
<1>4. CASE upSeq = Len(relayLog) + 1
  <2> DEFINE log == Append(relayLog, calling[c])
  <2>1. relayLog' = log
    BY <1>4 DEF RelayTakes
  <2>2. /\ log \in Seq(Nat) /\ Len(log) = upSeq /\ DOMAIN log = 1 .. upSeq
        /\ \A i \in DOMAIN log : log[i] = IF i = upSeq THEN calling[c] ELSE relayLog[i]
        /\ \A i \in DOMAIN log : i # upSeq => i \in DOMAIN relayLog
    BY <1>2, <1>4, Oldest
  <2> HIDE DEF log
  <2>3. \A i \in DOMAIN relayLog, x \in Tasks : calling[x] > 0 => relayLog[i] < calling[x]
    <3> SUFFICES ASSUME NEW i \in DOMAIN relayLog, NEW x \in Tasks, calling[x] > 0
                 PROVE  relayLog[i] < calling[x]
      OBVIOUS
    <3>1. relayLog[i] <= calling[x] /\ relayLog[i] # calling[x]
      BY <1>2, <1>4 DEF CallsInv
    <3> QED
      BY <1>2, <3>1 DEF UplinkTypeOK
  <2>4. NumberInv'
    BY <1>1, <2>1, <2>2 DEF NumberInv
  <2>5. UplinkOnceInOrder'
    <3> SUFFICES ASSUME NEW i \in DOMAIN log, NEW j \in DOMAIN log, i < j
                 PROVE  log[i] < log[j]
      BY <2>1 DEF UplinkOnceInOrder
    <3>1. i # upSeq /\ i \in DOMAIN relayLog /\ log[i] = relayLog[i]
      BY <1>2, <1>4, <2>2
    <3>2. CASE j = upSeq
      BY <2>2, <2>3, <3>1, <3>2, Oldest
    <3>3. CASE j # upSeq
      BY <2>2, <3>1, <3>3 DEF UplinkOnceInOrder
    <3> QED
      BY <3>2, <3>3
  <2>6. \A i \in DOMAIN log : log[i] < nextFrame
    BY <2>2, Oldest DEF CallsInv
  <2>7. ASSUME NEW x \in Tasks, NEW i \in DOMAIN log, calling[x] > 0
        PROVE  log[i] <= calling[x]
    <3>1. CASE i = upSeq
      BY <2>2, <2>7, <3>1, Oldest DEF UplinkTypeOK
    <3>2. CASE i # upSeq
      <4>1. i \in DOMAIN relayLog /\ log[i] = relayLog[i] /\ log[i] \in Nat
        BY <1>2, <2>2, <3>2
      <4> QED
        BY <2>3, <2>7, <4>1 DEF UplinkTypeOK
    <3> QED
      BY <3>1, <3>2
  <2>8. CallsInv'
    BY <1>1, <2>1, <2>2, <2>6, <2>7 DEF CallsInv
  <2> QED
    BY <2>1, <2>2, <2>4, <2>5, <2>8
<1> QED
  BY <1>3, <1>4 DEF NumberInv

\* 204: the oldest call ends, and the number moves on (UpAccepted).
LEMMA Accepted ==
  ASSUME UplinkTypeOK, CallsInv, NumberInv, NEW c \in Active, UpAccepted(c)
  PROVE  CallsMove /\ CallsInv' /\ NumberInv' /\ calling'[c] # calling[c]
<1> DEFINE g == [calling EXCEPT ![c] = 0]
<1>1. c \in Tasks /\ g \in [Tasks -> Nat] /\ g[c] = 0
      /\ \A x \in Tasks : g[x] \in {0, calling[x]}
  BY Without DEF Active
<1>2. Dispatches(batch, g) \/ (Calls(g) /\ UNCHANGED nextFrame)
  BY DEF UpAccepted
<1>3. CallsMove
  <2> HIDE DEF g
  <2>1. CASE Dispatches(batch, g)
    BY <1>1, <2>1, DispatchCalls
  <2>2. CASE Calls(g) /\ UNCHANGED nextFrame
    BY <1>1, <2>2, CallsEnd
  <2> QED
    BY <1>2, <2>1, <2>2
<1>4. CallsMove
  BY <1>3
<1>5. UNCHANGED relayLog /\ upSeq' = upSeq + 1 /\ upPc = "taken"
  BY DEF UpAccepted
<1>6. calling'[c] # calling[c]
  <2>1. calling'[c] \in {0, nextFrame}
    <3>1. CASE calling' = g
      BY <1>1, <3>1
    <3>2. CASE calling' = [g EXCEPT ![c] = nextFrame]
      BY <1>1, <3>2
    <3> QED
      BY <3>1, <3>2 DEF UpAccepted, Dispatches, Calls
  <2>2. calling[c] < nextFrame /\ calling[c] > 0
    BY Oldest DEF CallsInv
  <2> QED
    BY <2>1, <2>2, Oldest DEF UplinkTypeOK
<1>7. \A x \in Tasks, i \in DOMAIN relayLog : calling'[x] > 0 => relayLog[i] # calling'[x]
  <2> SUFFICES ASSUME NEW x \in Tasks, NEW i \in DOMAIN relayLog, calling'[x] > 0
               PROVE  relayLog[i] # calling'[x]
    OBVIOUS
  <2>1. relayLog[i] \in Nat /\ relayLog[i] < nextFrame /\ relayLog[i] <= calling[c]
    BY Oldest DEF UplinkTypeOK, CallsInv
  <2>2. CASE calling'[x] = nextFrame
    BY <2>1, <2>2 DEF UplinkTypeOK
  <2>3. CASE calling'[x] = calling[x]
    <3>1. x # c
      BY <1>6, <2>3
    <3>2. calling[c] < calling[x]
      BY <2>3, <3>1, Oldest
    <3> QED
      BY <2>1, <2>3, <3>2, Oldest DEF UplinkTypeOK
  <2>4. calling'[x] # 0
    OBVIOUS
  <2> QED
    BY <1>4, <2>2, <2>3, <2>4 DEF CallsMove
<1>8. CallsInv'
  BY <1>4, <1>5, <1>7, CallsInvKept
<1>9. upPc' \in {"free", "start"}
  <2>1. \A x \in Tasks : Holds(x) => x = c
    <3> SUFFICES ASSUME NEW x \in Tasks, Holds(x), x # c PROVE FALSE
      OBVIOUS
    <3>1. calling[x] > 0 /\ calling[x] <= calling[c] /\ calling[c] < calling[x]
      BY Oldest DEF Holds
    <3> QED
      BY <3>1, Oldest DEF UplinkTypeOK
  <2> QED
    BY <1>4, <1>6, <2>1 DEF CallsMove, Calls
<1>10. NumberInv'
  BY <1>5, <1>9 DEF NumberInv, UplinkTypeOK
<1> QED
  BY <1>4, <1>6, <1>8, <1>10

-----------------------------------------------------------------------------
(* The downlink. *)

\* Dispatching keeps the batch and what has been dispatched sequences of
\* positions (_on_batch).
LEMMA DispatchTyped ==
  ASSUME DownlinkTypeOK, NEW b \in Seq(Nat), NEW g, Dispatches(b, g)
  PROVE  seen' \in Seq(Nat) /\ batch' \in Seq(Nat)
<1>1. <<>> \in Seq(Nat)
  OBVIOUS
<1>2. CASE Stops(b) = {} /\ seen' = seen \o b /\ batch' = <<>>
  BY <1>1, <1>2 DEF DownlinkTypeOK
<1>3. ASSUME NEW k \in Stops(b), seen' = seen \o SubSeq(b, 1, k),
             batch' \in {<<>>, SubSeq(b, k + 1, Len(b))}
      PROVE  seen' \in Seq(Nat) /\ batch' \in Seq(Nat)
  <2>1. k \in 1 .. Len(b) /\ Len(b) \in Nat
    BY DEF Stops
  <2> DEFINE s == SubSeq(b, 1, k)
             t == SubSeq(b, k + 1, Len(b))
  <2>2. s \in Seq(Nat) /\ t \in Seq(Nat)
    BY <2>1
  <2>3. seen' = seen \o s /\ batch' \in {<<>>, t}
    BY <1>3
  <2> HIDE DEF s, t
  <2>4. seen \in Seq(Nat)
    BY DEF DownlinkTypeOK
  <2>5. seen \o s \in Seq(Nat)
    BY <2>2, <2>4
  <2>6. batch' \in Seq(Nat)
    BY <1>1, <2>2, <2>3
  <2> QED
    BY <2>3, <2>5, <2>6
<1> QED
  BY <1>2, <1>3 DEF Dispatches

\* Every step keeps the types of the downlink (_poll_loop, _on_batch).
LEMMA DownlinkStep == DownlinkTypeOK /\ [Next]_vars => DownlinkTypeOK'
<1> SUFFICES ASSUME DownlinkTypeOK, [Next]_vars
             PROVE  DownlinkTypeOK'
  OBVIOUS
<1>e. <<>> \in Seq(Nat)
  OBVIOUS
<1>1. CASE UNCHANGED <<pollVars, downLog>>
  BY <1>1 DEF DownlinkTypeOK, pollVars
<1>2. ASSUME NEW kind \in Kinds, RelaySends(kind)
      PROVE  DownlinkTypeOK'
  BY <1>2 DEF RelaySends, DownlinkTypeOK, pollVars
<1>3. CASE UpStep
  <2>1. UNCHANGED <<downCursor, downLog>>
    BY <1>3 DEF UpStep, UnchangedByUplink
  <2>2. \/ UNCHANGED <<seen, batch>>
        \/ UNCHANGED seen /\ batch' = <<>>
        \/ \E g : Dispatches(batch, g)
    BY <1>3 DEF UpStep, UpPosts, RelayTakes, UpAccepted, UpRefused, UpFails, UpGoesOn,
       UpRaises
  <2>3. seen' \in Seq(Nat) /\ batch' \in Seq(Nat)
    BY <1>e, <2>2, DispatchTyped DEF DownlinkTypeOK
  <2> QED
    BY <2>1, <2>3 DEF DownlinkTypeOK
<1>4. ASSUME NEW m \in downCursor + 1 .. Len(downLog), PollAnswered(m)
      PROVE  DownlinkTypeOK'
  <2> DEFINE b == [i \in 1 .. m - downCursor |-> downCursor + i]
  <2>1. m \in Nat /\ downCursor \in Nat /\ m - downCursor \in Nat
    BY DEF DownlinkTypeOK
  <2>2. b \in Seq(Nat)
    BY <2>1
  <2>3. downCursor' = m /\ UNCHANGED downLog
    BY <1>4 DEF PollAnswered, UnchangedByPoll, relayVars
  <2>4. UNCHANGED <<seen, batch>> \/ Dispatches(b, calling)
    BY <1>4 DEF PollAnswered
  <2> HIDE DEF b
  <2>5. seen' \in Seq(Nat) /\ batch' \in Seq(Nat)
    BY <2>2, <2>4, DispatchTyped DEF DownlinkTypeOK
  <2> QED
    BY <2>1, <2>3, <2>5 DEF DownlinkTypeOK
<1>5. CASE PollCancelled
  BY <1>e, <1>5 DEF PollCancelled, DownlinkTypeOK, relayVars
<1>6. CASE PollIdles \/ PollFails \/ PollStarts \/ PollFinishes
  BY <1>1, <1>6 DEF PollIdles, PollFails, PollStarts, PollFinishes, UnchangedByPoll,
     relayVars
<1>7. CASE \/ StartConnect \/ Bootstrapped \/ ConnectFails \/ UserDisconnect
           \/ \E d \in Discs : DisconnectStep(d) \/ StopStep(d)
           \/ \E c \in Senders : CallUp(c)
           \/ DeadlinePasses
           \/ UNCHANGED vars
  BY <1>1, <1>7 DEF StartConnect, Bootstrapped, ConnectFails, UserDisconnect,
     DisconnectStep, StopStep, CallUp, DeadlinePasses, relayVars, vars
<1> QED
  BY <1>2, <1>3, <1>4, <1>5, <1>6, <1>7 DEF Next, PollStep

-----------------------------------------------------------------------------
(* The invariant. *)

\* A step of the uplink that leaves the calls and the relay alone.
CallsStay ==
  /\ UNCHANGED <<calling, upSeq, nextFrame, relayLog>>
  /\ \/ UNCHANGED upPc
     \/ upPc' \in {"post", "sleep"} /\ ~Idle(calling)

\* The end of one call leaves the rest to go on (UpRaises, PollCancelled).
LEMMA CallEnds ==
  ASSUME UplinkTypeOK, CallsInv, NEW c \in Tasks,
         Calls([calling EXCEPT ![c] = 0]), UNCHANGED nextFrame
  PROVE  CallsMove
<1> DEFINE g == [calling EXCEPT ![c] = 0]
<1>1. g \in [Tasks -> Nat] /\ \A x \in Tasks : g[x] \in {0, calling[x]}
  BY Without
<1>2. Calls(g)
  OBVIOUS
<1> HIDE DEF g
<1> QED
  BY <1>1, <1>2, CallsEnd

\* What a step can be to the uplink.
LEMMA UplinkCases ==
  ASSUME UplinkTypeOK, CallsInv, [Next]_vars
  PROVE  \/ CallsStay
         \/ CallsMove /\ UNCHANGED <<upSeq, relayLog>>
         \/ \E c \in Active : RelayTakes(c) \/ UpAccepted(c)
<1>1. ASSUME NEW c \in Senders, CallUp(c)
      PROVE  CallsMove /\ UNCHANGED <<upSeq, relayLog>>
  <2>1. c \in Tasks /\ calling \in [Tasks -> Nat] /\ \A x \in Tasks : calling[x] \in {0, calling[x]}
    BY DEF Tasks, UplinkTypeOK
  <2>2. Calls([calling EXCEPT ![c] = nextFrame]) /\ nextFrame' = nextFrame + 1
    BY <1>1 DEF CallUp
  <2>3. CallsMove
    BY <2>1, <2>2, CallBegins
  <2> QED
    BY <1>1, <2>3 DEF CallUp, relayVars
<1>2. ASSUME NEW c \in Active, ~RelayTakes(c), ~UpAccepted(c),
             UpPosts(c) \/ UpRefused(c) \/ UpFails(c)
      PROVE  CallsStay \/ (CallsMove /\ UNCHANGED <<upSeq, relayLog>>)
  <2>1. c \in Tasks /\ ~Idle(calling)
    BY Oldest
  <2>2. CASE UpRaises(c)
    <3>1. Calls([calling EXCEPT ![c] = 0]) /\ UNCHANGED <<nextFrame, upSeq, relayLog>>
      BY <2>2 DEF UpRaises
    <3> QED
      BY <2>1, <3>1, CallEnds
  <2>3. CASE (UpGoesOn(c, "post") \/ UpGoesOn(c, "sleep")) /\ UNCHANGED relayLog
    BY <2>1, <2>3 DEF UpGoesOn, CallsStay
  <2> QED
    BY <1>2, <2>2, <2>3 DEF UpPosts, UpRefused, UpFails
<1>3. ASSUME NEW m, PollAnswered(m)
      PROVE  CallsStay \/ (CallsMove /\ UNCHANGED <<upSeq, relayLog>>)
  <2> DEFINE b == [i \in 1 .. m - downCursor |-> downCursor + i]
  <2>1. UNCHANGED <<upSeq, relayLog>>
    BY <1>3 DEF PollAnswered, UnchangedByPoll, relayVars
  <2>2. \/ UNCHANGED <<calling, upPc, nextFrame>>
        \/ Dispatches(b, calling)
    BY <1>3 DEF PollAnswered
  <2>3. calling \in [Tasks -> Nat] /\ \A x \in Tasks : calling[x] \in {0, calling[x]}
    BY DEF UplinkTypeOK
  <2> HIDE DEF b
  <2>4. CASE Dispatches(b, calling)
    BY <2>1, <2>3, <2>4, DispatchCalls
  <2> QED
    BY <2>1, <2>2, <2>4 DEF CallsStay
<1>4. CASE PollCancelled
  <2>1. "reader" \in Tasks
    BY DEF Tasks
  <2>2. Calls([calling EXCEPT !["reader"] = 0]) /\ UNCHANGED <<nextFrame, upSeq, relayLog>>
    BY <1>4 DEF PollCancelled, relayVars
  <2> QED
    BY <2>1, <2>2, CallEnds
<1>5. CASE PollIdles \/ PollFails \/ PollStarts \/ PollFinishes
  BY <1>5 DEF PollIdles, PollFails, PollStarts, PollFinishes, UnchangedByPoll,
     relayVars, CallsStay
<1>6. CASE \/ StartConnect \/ Bootstrapped \/ ConnectFails \/ UserDisconnect
           \/ \E d \in Discs : DisconnectStep(d) \/ StopStep(d)
           \/ DeadlinePasses
           \/ \E kind \in Kinds : RelaySends(kind)
           \/ UNCHANGED vars
  BY <1>6 DEF StartConnect, Bootstrapped, ConnectFails, UserDisconnect, DisconnectStep,
     StopStep, DeadlinePasses, RelaySends, relayVars, uplinkVars, vars, CallsStay
<1>7. CASE UpStep
  BY <1>2, <1>7 DEF UpStep
<1> QED
  BY <1>1, <1>3, <1>4, <1>5, <1>6, <1>7 DEF Next, PollStep

\* The deadlines and the histories stay in their ranges.
LEMMA HistoriesTyped ==
  ASSUME UplinkTypeOK, [Next]_vars
  PROVE  expired' \in Nat /\ accepted' \in SUBSET Nat /\ failed' \in SUBSET Nat
<1>1. \A c \in Tasks : calling[c] \in Nat
  BY DEF UplinkTypeOK
<1>2. CASE UNCHANGED <<expired, accepted, failed>>
  BY <1>2 DEF UplinkTypeOK
<1>3. CASE DeadlinePasses
  BY <1>1, <1>3 DEF DeadlinePasses, UplinkTypeOK
<1>4. CASE UpStep
  <2> PICK c \in Active :
        UpPosts(c) \/ RelayTakes(c) \/ UpAccepted(c) \/ UpRefused(c) \/ UpFails(c)
    BY <1>4 DEF UpStep
  <2>1. calling[c] \in Nat
    BY <1>1 DEF Active
  <2>2. /\ accepted' = accepted \/ accepted' = accepted \cup {calling[c]}
        /\ failed' = failed \/ failed' = failed \cup {calling[c]}
    BY DEF UpPosts, RelayTakes, UpAccepted, UpRefused, UpFails, UpRaises, UpGoesOn
  <2>3. UNCHANGED expired
    BY <1>4 DEF UpStep, UnchangedByUplink
  <2> QED
    BY <2>1, <2>2, <2>3 DEF UplinkTypeOK
<1>5. CASE PollCancelled
  <2>1. calling["reader"] \in Nat
    BY <1>1 DEF Tasks
  <2> QED
    BY <1>5, <2>1 DEF PollCancelled, UplinkTypeOK
<1>6. ASSUME NEW m, PollAnswered(m)
      PROVE  UNCHANGED <<expired, accepted, failed>>
  BY <1>6 DEF PollAnswered, UnchangedByPoll
<1>7. CASE PollIdles \/ PollFails \/ PollStarts \/ PollFinishes
  BY <1>2, <1>7 DEF PollIdles, PollFails, PollStarts, PollFinishes, UnchangedByPoll
<1>8. CASE \/ StartConnect \/ Bootstrapped \/ ConnectFails \/ UserDisconnect
           \/ \E d \in Discs : DisconnectStep(d) \/ StopStep(d)
           \/ \E c \in Senders : CallUp(c)
           \/ \E kind \in Kinds : RelaySends(kind)
           \/ UNCHANGED vars
  BY <1>2, <1>8 DEF StartConnect, Bootstrapped, ConnectFails, UserDisconnect,
     DisconnectStep, StopStep, CallUp, RelaySends, uplinkVars, vars
<1> QED
  BY <1>2, <1>3, <1>4, <1>5, <1>6, <1>7, <1>8 DEF Next, PollStep

\* Every step of the carrier keeps the invariant of the uplink.
LEMMA UplinkStep == UplinkInv /\ [Next]_vars => UplinkInv'
<1> SUFFICES ASSUME UplinkInv, [Next]_vars
             PROVE  UplinkInv'
  OBVIOUS
<1> USE DEF UplinkInv, HttpsTypeOK
<1>1. /\ expired' \in Nat /\ accepted' \in SUBSET Nat /\ failed' \in SUBSET Nat
  BY HistoriesTyped
<1>2. CASE CallsStay
  <2>1. UplinkTypeOK'
    BY <1>1, <1>2 DEF CallsStay, UplinkTypeOK, Idle
  <2>2. CallsInv' /\ NumberInv' /\ UplinkOnceInOrder'
    BY <1>2 DEF CallsStay, CallsInv, NumberInv, UplinkOnceInOrder
  <2> QED
    BY <2>1, <2>2, BaseStep, DownlinkStep
<1>3. ASSUME CallsMove, UNCHANGED relayLog, upSeq' \in Nat, CallsInv', NumberInv'
      PROVE  UplinkInv'
  <2>1. /\ calling' \in [Tasks -> Nat]
        /\ upPc' \in {"free", "start", "post", "taken", "sleep"}
        /\ upPc' = "free" <=> Idle(calling')
    BY <1>3, CallsTyped DEF CallsMove
  <2>2. nextFrame' \in Nat \ {0}
    BY <1>3 DEF CallsMove, UplinkTypeOK
  <2>3. UplinkTypeOK'
    BY <1>1, <1>3, <2>1, <2>2 DEF UplinkTypeOK, Idle
  <2>4. UplinkOnceInOrder'
    BY <1>3 DEF UplinkOnceInOrder
  <2> QED
    BY <1>3, <2>3, <2>4, BaseStep, DownlinkStep
<1>4. CASE CallsMove /\ UNCHANGED <<upSeq, relayLog>>
  <2>1. upSeq' \in Nat
    BY <1>4 DEF UplinkTypeOK
  <2> QED
    BY <1>3, <1>4, <2>1, CallsInvKept, NumberInvKept
<1>5. ASSUME NEW c \in Active, UpAccepted(c)
      PROVE  UplinkInv'
  <2>1. UNCHANGED relayLog /\ upSeq' \in Nat
    BY <1>5 DEF UpAccepted, UplinkTypeOK
  <2> QED
    BY <1>3, <1>5, <2>1, Accepted
<1>6. ASSUME NEW c \in Active, RelayTakes(c)
      PROVE  UplinkInv'
  <2>1. relayLog' \in Seq(Nat) /\ CallsInv' /\ NumberInv' /\ UplinkOnceInOrder'
    BY <1>6, Taken
  <2>2. UNCHANGED <<calling, upSeq, nextFrame>> /\ upPc' = "taken" /\ ~Idle(calling)
    BY <1>6, Oldest DEF RelayTakes, UpGoesOn
  <2>3. UplinkTypeOK'
    BY <1>1, <2>1, <2>2 DEF UplinkTypeOK, Idle
  <2> QED
    BY <2>1, <2>3, BaseStep, DownlinkStep
<1> QED
  BY <1>2, <1>4, <1>5, <1>6, UplinkCases

\* The invariant of the uplink holds from the start (HTTPSCarrier.__init__).
LEMMA UplinkInit == Init => UplinkInv
<1> SUFFICES ASSUME Init
             PROVE  UplinkInv
  OBVIOUS
<1>1. BaseTypeOK
  BY BaseInitTyped DEF Init
<1>2. UplinkTypeOK /\ DownlinkTypeOK
  BY DEF Init, UplinkTypeOK, DownlinkTypeOK, Idle
<1>3. CallsInv /\ NumberInv /\ UplinkOnceInOrder
  BY DEF Init, CallsInv, NumberInv, UplinkOnceInOrder
<1> QED
  BY <1>1, <1>2, <1>3 DEF UplinkInv, HttpsTypeOK

\* The calls outstanding are younger than all the relay has taken, but for the
\* oldest, which may have been taken under the number _up_seq still has
\* (_send_up).
THEOREM UplinkInvariant == Spec => []UplinkInv
BY UplinkInit, UplinkStep, PTL DEF Spec

\* Every state of the carrier has the types of HttpsTypeOK; in particular
\* _up_lock is free just when no call of _send_up is outstanding.
THEOREM HttpsTypeCorrect == Spec => []HttpsTypeOK
<1>1. UplinkInv => HttpsTypeOK
  BY DEF UplinkInv
<1> QED
  BY <1>1, UplinkInvariant, PTL

\* The relay takes the frames in the order of the calls of _send_up and none
\* of them twice, for any number of callers, refusals, failures and teardowns
\* (X-Up-Seq).
THEOREM UplinkOrdered == Spec => []UplinkOnceInOrder
<1>1. UplinkInv => UplinkOnceInOrder
  BY DEF UplinkInv
<1> QED
  BY <1>1, UplinkInvariant, PTL

-----------------------------------------------------------------------------
(* The order of the downlink. *)

\* The polling loop calls _send_up only for a PONG, and keeps a batch only
\* meanwhile; it starts once.
ReaderInv ==
  /\ calling["reader"] > 0 => reader = "pong"
  /\ reader # "pong" => batch = <<>>
  /\ connectPc \in {"new", "bootstrap", "upgrade"} => reader = "none"

NothingGarbled == \A i \in DOMAIN downLog : downLog[i] # "GARBLED"

\* Will the loop poll again?
WillPoll == reader \in {"none", "created", "reading", "pong"}

\* The positions b follow on a; those of s are in order, and not after a; they
\* are the first of the relay's.
Follows(b, a) == b \in Seq(Nat) /\ \A i \in 1 .. Len(b) : b[i] = a + i
InOrder(s, a) ==
  /\ s \in Seq(Nat)
  /\ \A i \in 1 .. Len(s) : s[i] <= a
  /\ \A i, j \in 1 .. Len(s) : i < j => s[i] < s[j]
NoHole(s) == \A i \in 1 .. Len(s) : s[i] = i

\* The loop has come to position a: what it has dispatched does not go beyond,
\* and what it keeps goes from there to the cursor.  Unless a batch did not parse,
\* a loop that will poll again has left nothing out (_down_cursor, _on_batch).
Reached(a) ==
  /\ a \in Nat
  /\ a + Len(batch) = downCursor
  /\ Follows(batch, a)
  /\ InOrder(seen, a)
  /\ NothingGarbled => NoHole(seen) /\ (WillPoll => Len(seen) = a)

OrderInv == downCursor <= Len(downLog) /\ \E a \in Nat : Reached(a)

\* Two sequences, one after the other.
LEMMA Joined ==
  ASSUME NEW p \in Seq(Nat), NEW s \in Seq(Nat)
  PROVE  /\ p \o s \in Seq(Nat) /\ Len(p \o s) = Len(p) + Len(s)
         /\ \A i \in 1 .. Len(p) : (p \o s)[i] = p[i]
         /\ \A i \in 1 .. Len(s) : (p \o s)[Len(p) + i] = s[i]
OBVIOUS

\* Positions in order up to a, and those that follow on a.
LEMMA FollowOn ==
  ASSUME NEW a \in Nat, NEW p, InOrder(p, a), NEW s, Follows(s, a)
  PROVE  /\ InOrder(p \o s, a + Len(s))
         /\ Len(p \o s) = Len(p) + Len(s)
         /\ NoHole(p) /\ Len(p) = a => NoHole(p \o s)
<1> DEFINE n == Len(p)
           k == Len(s)
           q == p \o s
<1>1. p \in Seq(Nat) /\ s \in Seq(Nat) /\ n \in Nat /\ k \in Nat
  BY DEF InOrder, Follows
<1>2. /\ q \in Seq(Nat) /\ Len(q) = n + k
      /\ \A i \in 1 .. n : q[i] = p[i]
      /\ \A i \in 1 .. k : q[n + i] = s[i]
  BY <1>1, Joined
<1>3. /\ \A i \in 1 .. n : p[i] \in Nat /\ p[i] <= a
      /\ \A i, j \in 1 .. n : i < j => p[i] < p[j]
      /\ NoHole(p) => \A i \in 1 .. n : p[i] = i
  BY <1>1 DEF InOrder, NoHole
<1>4. \A i \in 1 .. k : s[i] = a + i
  BY DEF Follows
<1> HIDE DEF n, k, q
<1>5. \A i \in 1 .. n + k : i <= n => i \in 1 .. n
  BY <1>1
<1>6. \A i \in 1 .. n + k : i > n => q[i] = a + (i - n)
  <2> SUFFICES ASSUME NEW i \in 1 .. n + k, i > n
               PROVE  q[i] = a + (i - n)
    OBVIOUS
  <2>1. i - n \in 1 .. k /\ n + (i - n) = i
    BY <1>1
  <2> QED
    BY <1>2, <1>4, <2>1
<1>a. \A i \in 1 .. n + k : i <= n => q[i] = p[i] /\ q[i] \in Nat /\ q[i] <= a
  BY <1>2, <1>3, <1>5
<1>7. \A i \in 1 .. n + k : q[i] <= a + k
  BY <1>1, <1>6, <1>a
<1>8. ASSUME NEW i \in 1 .. n + k, NEW j \in 1 .. n + k, i < j
      PROVE  q[i] < q[j]
  <2>1. CASE j <= n
    BY <1>1, <1>2, <1>3, <1>5, <1>8, <2>1
  <2>2. CASE j > n /\ i <= n
    <3>1. q[i] \in Nat /\ q[i] <= a /\ q[j] = a + (j - n)
      BY <1>6, <1>a, <2>2
    <3> QED
      BY <1>1, <2>2, <3>1
  <2>3. CASE i > n
    BY <1>1, <1>6, <1>8, <2>3
  <2> QED
    BY <1>1, <2>1, <2>2, <2>3
<1>9. InOrder(q, a + k)
  BY <1>2, <1>7, <1>8 DEF InOrder
<1>10. NoHole(p) /\ n = a => \A i \in 1 .. n + k : q[i] = i
  BY <1>1, <1>2, <1>3, <1>5, <1>6
<1> QED
  BY <1>2, <1>9, <1>10 DEF NoHole, n, k, q

\* The first k of what follows on a, and the others.
LEMMA Split ==
  ASSUME NEW a \in Nat, NEW b, Follows(b, a), NEW k \in 1 .. Len(b)
  PROVE  /\ Follows(SubSeq(b, 1, k), a) /\ Len(SubSeq(b, 1, k)) = k
         /\ Follows(SubSeq(b, k + 1, Len(b)), a + k)
         /\ k + Len(SubSeq(b, k + 1, Len(b))) = Len(b)
<1> DEFINE s == SubSeq(b, 1, k)
           t == SubSeq(b, k + 1, Len(b))
<1>1. b \in Seq(Nat) /\ Len(b) \in Nat /\ k \in Nat
  BY DEF Follows
<1>2. s \in Seq(Nat) /\ Len(s) = k /\ \A i \in 1 .. k : s[i] = b[i]
  BY <1>1
<1>3. t \in Seq(Nat) /\ k + Len(t) = Len(b) /\ \A i \in 1 .. Len(t) : t[i] = b[k + i]
  BY <1>1
<1>4. \A i \in 1 .. Len(b) : b[i] = a + i
  BY DEF Follows
<1> HIDE DEF s, t
<1>5. \A i \in 1 .. k : s[i] = a + i
  BY <1>1, <1>2, <1>4
<1>6. \A i \in 1 .. Len(t) : t[i] = a + k + i
  <2> SUFFICES ASSUME NEW i \in 1 .. Len(t)
               PROVE  t[i] = a + k + i
    OBVIOUS
  <2>1. Len(t) \in Nat /\ k + i \in 1 .. Len(b)
    BY <1>1, <1>3
  <2> QED
    BY <1>1, <1>3, <1>4, <2>1
<1>7. Follows(s, a) /\ Follows(t, a + k)
  BY <1>2, <1>3, <1>5, <1>6 DEF Follows
<1> QED
  BY <1>2, <1>3, <1>7 DEF s, t

\* Positions in order up to a are so up to any later one; and nothing follows on
\* any.
LEMMA Later ==
  ASSUME NEW a \in Nat, NEW c \in Nat, a <= c
  PROVE  /\ \A s : InOrder(s, a) => InOrder(s, c)
         /\ Follows(<<>>, c) /\ Len(<<>>) = 0
<1>1. ASSUME NEW s, InOrder(s, a)
      PROVE  InOrder(s, c)
  <2>1. s \in Seq(Nat) /\ \A i \in 1 .. Len(s) : s[i] <= a /\ s[i] \in Nat
    BY <1>1 DEF InOrder
  <2>2. \A i \in 1 .. Len(s) : s[i] <= c
    BY <2>1
  <2> QED
    BY <1>1, <2>2 DEF InOrder
<1> QED
  BY <1>1 DEF Follows

\* A batch at hand at position a: it goes to the cursor.
AtHand(b, a, cursor) ==
  /\ a \in Nat /\ cursor \in Nat
  /\ Follows(b, a)
  /\ a + Len(b) = cursor
  /\ InOrder(seen, a)
  /\ NothingGarbled => NoHole(seen) /\ Len(seen) = a

\* _on_batch keeps the order, and comes to the cursor, to a PONG or to the end
\* of the loop (Dispatches).
LEMMA DispatchKeeps ==
  ASSUME NEW a, NEW c, downCursor' = c, NEW b, AtHand(b, a, c), UNCHANGED downLog,
         NEW g, Dispatches(b, g)
  PROVE  \E x \in Nat : Reached(x)'
<1>1. /\ a \in Nat /\ b \in Seq(Nat) /\ Len(b) \in Nat
      /\ c \in Nat /\ a + Len(b) = c /\ a <= c
      /\ InOrder(seen, a) /\ Follows(b, a)
  BY DEF AtHand, Follows
<1>2. NothingGarbled' => NoHole(seen) /\ Len(seen) = a
  BY DEF AtHand, NothingGarbled
<1>3. CASE seen' = seen \o b /\ batch' = <<>>
  <2>1. InOrder(seen', c) /\ (NothingGarbled' => NoHole(seen'))
        /\ (NothingGarbled' => Len(seen') = c)
    <3>1. /\ InOrder(seen \o b, a + Len(b)) /\ Len(seen \o b) = Len(seen) + Len(b)
          /\ NoHole(seen) /\ Len(seen) = a => NoHole(seen \o b)
      BY <1>1, FollowOn
    <3>2. NothingGarbled' => Len(seen') = a + Len(b)
      BY <1>2, <1>3, <3>1
    <3> QED
      BY <1>1, <1>2, <1>3, <3>1, <3>2
  <2>2. Follows(batch', c) /\ c + Len(batch') = c
    BY <1>1, <1>3, Later
  <2>3. Reached(c)'
    BY <1>1, <2>1, <2>2 DEF Reached
  <2> QED
    BY <1>1, <2>3
<1>4. ASSUME NEW k \in Stops(b), seen' = seen \o SubSeq(b, 1, k),
             \/ batch' = SubSeq(b, k + 1, Len(b))
             \/ batch' = <<>> /\ ~WillPoll'
      PROVE  \E x \in Nat : Reached(x)'
  <2> DEFINE s == SubSeq(b, 1, k)
             t == SubSeq(b, k + 1, Len(b))
  <2>1. k \in 1 .. Len(b)
    BY <1>1 DEF Stops
  <2>2. Follows(s, a) /\ Len(s) = k /\ Follows(t, a + k) /\ k + Len(t) = Len(b)
    BY <1>1, <2>1, Split
  <2>3. t \in Seq(Nat) /\ Len(t) \in Nat /\ a + k \in Nat /\ a + k <= c
    BY <1>1, <2>1, <2>2 DEF Follows
  <2>4. seen' = seen \o s /\ (batch' = t \/ (batch' = <<>> /\ ~WillPoll'))
    BY <1>4
  <2> HIDE DEF s, t
  <2>5. InOrder(seen', a + k) /\ (NothingGarbled' => NoHole(seen') /\ Len(seen') = a + k)
    <3>1. /\ InOrder(seen \o s, a + Len(s)) /\ Len(seen \o s) = Len(seen) + Len(s)
          /\ NoHole(seen) /\ Len(seen) = a => NoHole(seen \o s)
      <4>1. a \in Nat /\ InOrder(seen, a) /\ Follows(s, a)
        BY <1>1, <2>2
      <4> QED
        BY <4>1, FollowOn
    <3>2. NothingGarbled' => Len(seen') = a + k
      BY <1>2, <2>2, <2>4, <3>1
    <3> QED
      BY <1>2, <2>2, <2>4, <3>1, <3>2
  <2>6. CASE batch' = t
    <3>1. a + k + Len(t) = c
      BY <1>1, <2>1, <2>2, <2>3
    <3>2. Reached(a + k)'
      BY <2>2, <2>3, <2>5, <2>6, <3>1 DEF Reached
    <3> QED
      BY <2>3, <3>2
  <2>7. CASE batch' = <<>> /\ ~WillPoll'
    <3>1. Follows(batch', c) /\ c + Len(batch') = c
          /\ InOrder(seen', c)
      BY <1>1, <2>3, <2>5, <2>7, Later
    <3>2. Reached(c)'
      BY <1>1, <2>5, <2>7, <3>1 DEF Reached
    <3> QED
      BY <1>1, <3>2
  <2> QED
    BY <2>4, <2>6, <2>7
<1>5. \A k \in Stops(b) : TaskByes \/ TaskEnds => ~WillPoll'
  BY DEF TaskByes, TaskEnds, WillPoll
<1> QED
  BY <1>3, <1>4, <1>5 DEF Dispatches

\* _on_batch leaves a PONG outstanding just when it keeps a batch (Dispatches).
LEMMA DispatchPongs ==
  ASSUME NEW b, NEW g \in [Tasks -> Nat], g["reader"] = 0, Dispatches(b, g)
  PROVE  /\ calling'["reader"] > 0 => reader' = "pong"
         /\ reader' # "pong" => batch' = <<>>
<1>1. CASE Calls(g) /\ batch' = <<>>
  BY <1>1 DEF Calls
<1>2. CASE reader' = "pong"
  BY <1>2
<1> QED
  BY <1>1, <1>2 DEF Dispatches

\* A step that dispatches nothing keeps the order, if it keeps the batch or drops
\* it with the loop.
LEMMA OrderKept ==
  ASSUME DownlinkTypeOK, OrderInv, UNCHANGED <<downCursor, seen>>,
         Len(downLog) <= Len(downLog'), downLog' \in Seq(Kinds),
         NothingGarbled' => NothingGarbled,
         \/ UNCHANGED batch /\ (WillPoll' => WillPoll)
         \/ batch' = <<>> /\ ~WillPoll'
  PROVE  OrderInv'
<1> PICK a \in Nat : Reached(a)
  BY DEF OrderInv
<1>1. downCursor \in Nat /\ downCursor' <= Len(downLog')
  BY DEF OrderInv, DownlinkTypeOK
<1>2. CASE UNCHANGED batch /\ (WillPoll' => WillPoll)
  <2>1. Reached(a)'
    BY <1>2 DEF Reached
  <2> QED
    BY <1>1, <2>1 DEF OrderInv
<1>3. CASE batch' = <<>> /\ ~WillPoll'
  <2> PICK c \in Nat : c = downCursor
    BY <1>1
  <2>1. InOrder(seen, a) /\ a <= c /\ (NothingGarbled => NoHole(seen))
    BY DEF Reached, Follows
  <2>2. InOrder(seen, c) /\ Follows(<<>>, c) /\ c + Len(<<>>) = c
    BY <2>1, Later
  <2>3. Reached(c)'
    BY <1>3, <2>1, <2>2 DEF Reached
  <2> QED
    BY <1>1, <2>3 DEF OrderInv
<1> QED
  BY <1>2, <1>3

\* The positions after the cursor up to m, that the relay answers with.
LEMMA Answered ==
  ASSUME DownlinkTypeOK, NEW m \in downCursor + 1 .. Len(downLog)
  PROVE  LET b == [i \in 1 .. m - downCursor |-> downCursor + i]
         IN  /\ m \in Nat /\ m <= Len(downLog) /\ downCursor <= m /\ downCursor \in Nat
             /\ Follows(b, downCursor) /\ downCursor + Len(b) = m
             /\ \A i \in DOMAIN b : b[i] \in DOMAIN downLog
<1> DEFINE b == [i \in 1 .. m - downCursor |-> downCursor + i]
<1>1. downCursor \in Nat /\ Len(downLog) \in Nat /\ DOMAIN downLog = 1 .. Len(downLog)
  BY DEF DownlinkTypeOK
<1>2. m \in Nat /\ m <= Len(downLog) /\ downCursor <= m /\ m - downCursor \in Nat
  BY <1>1
<1>3. b \in Seq(Nat) /\ Len(b) = m - downCursor
  BY <1>1, <1>2
<1>4. \A i \in 1 .. m - downCursor : b[i] = downCursor + i /\ b[i] \in DOMAIN downLog
  BY <1>1, <1>2
<1> HIDE DEF b
<1>5. downCursor + Len(b) = m
  BY <1>1, <1>2, <1>3
<1>6. Follows(b, downCursor)
  BY <1>3, <1>4 DEF Follows
<1>7. \A i \in DOMAIN b : b[i] \in DOMAIN downLog
  BY <1>3, <1>4
<1> QED
  BY <1>2, <1>1, <1>5, <1>6, <1>7 DEF b

\* 200 with frames: the order goes on from the cursor to m (PollAnswered).
LEMMA AnswerOrdered ==
  ASSUME UplinkTypeOK, DownlinkTypeOK, OrderInv, ReaderInv,
         NEW m \in downCursor + 1 .. Len(downLog), PollAnswered(m)
  PROVE  OrderInv' /\ ReaderInv'
<1> DEFINE b == [i \in 1 .. m - downCursor |-> downCursor + i]
<1>1. /\ m \in Nat /\ m <= Len(downLog) /\ downCursor <= m /\ downCursor \in Nat
      /\ Follows(b, downCursor) /\ downCursor + Len(b) = m
      /\ \A i \in DOMAIN b : b[i] \in DOMAIN downLog
  BY Answered
<1>2. /\ reader = "reading" /\ downCursor' = m /\ UNCHANGED <<downLog, connectPc>>
      /\ \/ /\ \E i \in DOMAIN b : downLog[b[i]] = "GARBLED"
            /\ Loops /\ UNCHANGED <<calling, batch, seen>>
         \/ Dispatches(b, calling)
  BY DEF PollAnswered, Polling, UnchangedByPoll, connectVars, relayVars
<1> HIDE DEF b
<1>3. calling["reader"] = 0 /\ calling \in [Tasks -> Nat] /\ batch = <<>>
  BY <1>2 DEF ReaderInv, UplinkTypeOK, Tasks
<1>4. connectPc' \notin {"new", "bootstrap", "upgrade"}
  BY <1>2 DEF ReaderInv
<1> PICK a \in Nat : Reached(a)
  BY DEF OrderInv
<1>5. a = downCursor
  BY <1>1, <1>3 DEF Reached
<1>6. downCursor' <= Len(downLog')
  BY <1>1, <1>2
<1>7. CASE /\ \E i \in DOMAIN b : downLog[b[i]] = "GARBLED"
           /\ Loops /\ UNCHANGED <<calling, batch, seen>>
  <2>1. ~NothingGarbled'
    BY <1>1, <1>2, <1>7 DEF NothingGarbled
  <2>2. InOrder(seen, m) /\ Follows(<<>>, m) /\ m + Len(<<>>) = m
    BY <1>1, <1>5, Later DEF Reached
  <2>3. Reached(m)'
    BY <1>1, <1>2, <1>3, <1>7, <2>1, <2>2 DEF Reached
  <2>4. ReaderInv'
    BY <1>3, <1>4, <1>7 DEF ReaderInv
  <2> QED
    BY <1>1, <1>6, <2>3, <2>4 DEF OrderInv
<1>8. CASE Dispatches(b, calling)
  <2>1. AtHand(b, a, m)
    BY <1>1, <1>2, <1>5 DEF AtHand, Reached, WillPoll
  <2>2. \E x \in Nat : Reached(x)'
    BY <1>2, <1>8, <2>1, DispatchKeeps
  <2>3. ReaderInv'
    BY <1>3, <1>4, <1>8, DispatchPongs DEF ReaderInv
  <2> QED
    BY <1>6, <2>2, <2>3 DEF OrderInv
<1> QED
  BY <1>2, <1>7, <1>8

\* 204 to a PONG: the order goes on with what is kept of the batch (UpAccepted).
LEMMA PongOrdered ==
  ASSUME UplinkTypeOK, DownlinkTypeOK, OrderInv, ReaderInv, "reader" \in Active,
         UpAccepted("reader"), UNCHANGED <<connectPc, downCursor, downLog>>
  PROVE  OrderInv' /\ ReaderInv'
<1> DEFINE g == [calling EXCEPT !["reader"] = 0]
<1>1. g \in [Tasks -> Nat] /\ g["reader"] = 0 /\ Dispatches(batch, g)
  BY DEF UplinkTypeOK, Tasks, UpAccepted
<1>2. reader = "pong" /\ connectPc' \notin {"new", "bootstrap", "upgrade"}
  BY DEF Active, Holds, ReaderInv
<1> HIDE DEF g
<1> PICK a \in Nat : Reached(a)
  BY DEF OrderInv
<1>3. downCursor \in Nat
  BY DEF DownlinkTypeOK
<1>4. AtHand(batch, a, downCursor)
  BY <1>2, <1>3 DEF AtHand, Reached, WillPoll
<1>5. \E x \in Nat : Reached(x)'
  <2> PICK c : c = downCursor
    OBVIOUS
  <2> QED
    BY <1>1, <1>4, DispatchKeeps
<1>6. ReaderInv'
  BY <1>1, <1>2, DispatchPongs DEF ReaderInv
<1> QED
  BY <1>5, <1>6 DEF OrderInv

\* Another step of the uplink keeps the order: it leaves the batch alone, or drops
\* it with the loop (UpStep).
LEMMA UplinkOrder ==
  ASSUME UplinkTypeOK, DownlinkTypeOK, OrderInv, ReaderInv, UpStep
  PROVE  OrderInv' /\ ReaderInv'
<1>1. UNCHANGED <<connectPc, downCursor, downLog>>
  BY DEF UpStep, UnchangedByUplink, connectVars
<1>2. "reader" \in Tasks /\ calling \in [Tasks -> Nat] /\ downLog \in Seq(Kinds)
  BY DEF Tasks, UplinkTypeOK, DownlinkTypeOK
<1> PICK c \in Active :
      UpPosts(c) \/ RelayTakes(c) \/ UpAccepted(c) \/ UpRefused(c) \/ UpFails(c)
  BY DEF UpStep
<1>3. c \in Tasks /\ calling[c] > 0 /\ (c = "reader" => reader = "pong")
  BY DEF Active, Holds, ReaderInv
<1>4. ASSUME UNCHANGED <<seen, batch, reader>>, calling'["reader"] \in {0, calling["reader"]}
      PROVE  OrderInv' /\ ReaderInv'
  <2>1. OrderInv'
    BY <1>1, <1>2, <1>4, OrderKept DEF WillPoll, NothingGarbled
  <2>2. ReaderInv'
    BY <1>1, <1>4 DEF ReaderInv
  <2> QED
    BY <2>1, <2>2
<1>5. CASE \E pc : UpGoesOn(c, pc)
  BY <1>4, <1>5 DEF UpGoesOn
<1>6. CASE UpRaises(c)
  <2>1. calling'["reader"] = IF c = "reader" THEN 0 ELSE calling["reader"]
    BY <1>2, <1>3, <1>6 DEF UpRaises, Calls
  <2>2. CASE c # "reader"
    BY <1>4, <1>6, <2>1, <2>2 DEF UpRaises
  <2>3. CASE c = "reader"
    <3>1. reader' \in {"finally", "done"} /\ batch' = <<>> /\ UNCHANGED seen
      BY <1>6, <2>3 DEF UpRaises, TaskEnds
    <3>2. OrderInv'
      BY <1>1, <1>2, <3>1, OrderKept DEF WillPoll, NothingGarbled
    <3>3. ReaderInv'
      BY <1>1, <1>3, <2>1, <2>3, <3>1 DEF ReaderInv
    <3> QED
      BY <3>2, <3>3
  <2> QED
    BY <2>2, <2>3
<1>7. CASE UpAccepted(c) /\ c = "reader"
  BY <1>1, <1>7, PongOrdered
<1>8. CASE UpAccepted(c) /\ c # "reader"
  <2>1. calling'["reader"] = calling["reader"] /\ UNCHANGED <<seen, batch, reader>>
    BY <1>2, <1>8 DEF UpAccepted, Calls
  <2> QED
    BY <1>4, <2>1
<1> QED
  BY <1>5, <1>6, <1>7, <1>8 DEF UpPosts, RelayTakes, UpRefused, UpFails

\* Every step of the carrier keeps the order of the downlink.
LEMMA OrderStep ==
  ASSUME UplinkTypeOK, DownlinkTypeOK, OrderInv, ReaderInv, [Next]_vars
  PROVE  OrderInv' /\ ReaderInv'
<1>1. "reader" \in Tasks /\ calling \in [Tasks -> Nat] /\ downLog \in Seq(Kinds)
      /\ "reader" \notin Senders
  BY HttpsAssumption DEF Tasks, UplinkTypeOK, DownlinkTypeOK
<1>2. ASSUME UNCHANGED <<downCursor, seen, batch, downLog>>,
             calling'["reader"] = calling["reader"],
             WillPoll' => WillPoll, reader = "pong" => reader' = "pong",
             connectPc' \in {"new", "bootstrap", "upgrade"} =>
               connectPc \in {"new", "bootstrap", "upgrade"} /\ UNCHANGED reader
      PROVE  OrderInv' /\ ReaderInv'
  <2>1. OrderInv'
    BY <1>1, <1>2, OrderKept DEF NothingGarbled
  <2>2. ReaderInv'
    BY <1>2 DEF ReaderInv
  <2> QED
    BY <2>1, <2>2
<1>3. CASE StartConnect \/ Bootstrapped \/ ConnectFails \/ UserDisconnect
  <2>1. UNCHANGED <<downCursor, seen, batch, downLog, calling>>
    BY <1>3 DEF StartConnect, Bootstrapped, ConnectFails, UserDisconnect, uplinkVars,
       pollVars, relayVars
  <2>2. CASE Bootstrapped
    <3>1. /\ connectPc' = "returned" /\ reader = "none" /\ reader' = "created"
      BY <2>2 DEF Bootstrapped, ConnectReturns, TaskCreated, ReaderInv
    <3> QED
      BY <1>2, <2>1, <3>1 DEF WillPoll
  <2>3. CASE StartConnect \/ ConnectFails \/ UserDisconnect
    <3>1. UNCHANGED reader /\ (connectPc' \in {"new", "bootstrap", "upgrade"} =>
            connectPc \in {"new", "bootstrap", "upgrade"})
      BY <2>3 DEF StartConnect, ConnectFails, UserDisconnect, ConnectStarts, ConnectRaises,
         CallDisconnect, connectVars, readerVars
    <3> QED
      BY <1>2, <2>1, <3>1 DEF WillPoll
  <2> QED
    BY <1>3, <2>2, <2>3
<1>4. ASSUME NEW d \in Discs, DisconnectStep(d)
      PROVE  OrderInv' /\ ReaderInv'
  <2>1. UNCHANGED <<downCursor, seen, batch, downLog, calling, connectPc>>
    BY <1>4 DEF DisconnectStep, DisconnectStarts, DisconnectClears, SessionDeleted,
       DeleteCancelled, DisconnectReturns, connectVars, uplinkVars, pollVars, relayVars
  <2>2. UNCHANGED reader \/ (reader = "bye" /\ reader' = "done")
    BY <1>4 DEF DisconnectStep, Inline
  <2>3. connectPc' \in {"new", "bootstrap", "upgrade"} => UNCHANGED reader
    BY <2>1, <2>2 DEF ReaderInv
  <2> QED
    BY <1>2, <2>1, <2>2, <2>3 DEF WillPoll
<1>5. ASSUME NEW d \in Discs, StopStep(d)
      PROVE  OrderInv' /\ ReaderInv'
  <2>1. UNCHANGED <<downCursor, seen, batch, downLog, calling, connectPc, reader>>
    BY <1>5 DEF StopStep, connectVars, uplinkVars, pollVars, relayVars
  <2> QED
    BY <1>2, <2>1 DEF WillPoll
<1>6. ASSUME NEW c \in Senders, CallUp(c)
      PROVE  OrderInv' /\ ReaderInv'
  <2>1. UNCHANGED <<downCursor, seen, batch, downLog, connectPc, reader>>
    BY <1>6 DEF CallUp, baseVars, connectVars, readerVars, pollVars, relayVars
  <2>2. calling'["reader"] = calling["reader"]
    BY <1>1, <1>6 DEF CallUp, Calls
  <2> QED
    BY <1>2, <2>1, <2>2 DEF WillPoll
<1>7. CASE DeadlinePasses \/ UNCHANGED vars
  <2>1. UNCHANGED <<downCursor, seen, batch, downLog, connectPc, reader, calling>>
    BY <1>7 DEF DeadlinePasses, vars, baseVars, connectVars, readerVars, uplinkVars,
       pollVars, relayVars
  <2> QED
    BY <1>2, <2>1 DEF WillPoll
<1>8. CASE UpStep
  BY <1>8, UplinkOrder
<1>9. ASSUME NEW m \in downCursor + 1 .. Len(downLog), PollAnswered(m)
      PROVE  OrderInv' /\ ReaderInv'
  BY <1>9, AnswerOrdered
<1>10. CASE PollIdles \/ PollFails \/ PollStarts \/ PollFinishes
  <2>1. UNCHANGED <<downCursor, seen, batch, downLog, connectPc, calling>>
    BY <1>10 DEF PollIdles, PollFails, PollStarts, PollFinishes, UnchangedByPoll,
       connectVars, pollVars, relayVars
  <2>2. /\ reader \in {"created", "reading"} \/ (reader = "finally" /\ reader' = "done")
        /\ reader # "pong"
    BY <1>10 DEF PollIdles, PollFails, PollStarts, PollFinishes, Polling, TaskStarts,
       TaskFinishes
  <2>3. WillPoll' => WillPoll
    BY <2>2 DEF WillPoll
  <2>4. connectPc \notin {"new", "bootstrap", "upgrade"}
    BY <2>2 DEF ReaderInv
  <2> QED
    BY <1>2, <2>1, <2>2, <2>3, <2>4
<1>11. CASE PollCancelled
  <2>1. UNCHANGED <<downCursor, seen, downLog, connectPc>> /\ batch' = <<>>
    BY <1>11 DEF PollCancelled, connectVars, relayVars
  <2>2. calling'["reader"] = 0
    BY <1>1, <1>11 DEF PollCancelled, Calls
  <2>3. reader' \in {"finally", "done"} /\ reader # "none"
    BY <1>11 DEF PollCancelled, TaskCancelled, TaskEnds
  <2>4. OrderInv'
    BY <1>1, <2>1, <2>3, OrderKept DEF NothingGarbled, WillPoll
  <2>5. ReaderInv'
    BY <2>1, <2>2, <2>3 DEF ReaderInv
  <2> QED
    BY <2>4, <2>5
<1>12. ASSUME NEW kind \in Kinds, RelaySends(kind)
       PROVE  OrderInv' /\ ReaderInv'
  <2>1. /\ UNCHANGED <<downCursor, seen, batch, connectPc, reader, calling>>
        /\ downLog' = Append(downLog, kind)
    BY <1>12 DEF RelaySends, baseVars, connectVars, readerVars, uplinkVars, pollVars
  <2>2. /\ downLog' \in Seq(Kinds) /\ Len(downLog) <= Len(downLog')
        /\ \A i \in DOMAIN downLog : i \in DOMAIN downLog' /\ downLog'[i] = downLog[i]
    BY <1>1, <2>1
  <2>3. NothingGarbled' => NothingGarbled
    BY <2>2 DEF NothingGarbled
  <2>4. OrderInv'
    BY <2>1, <2>2, <2>3, OrderKept DEF WillPoll
  <2>5. ReaderInv'
    BY <2>1 DEF ReaderInv
  <2> QED
    BY <2>4, <2>5
<1> QED
  BY <1>3, <1>4, <1>5, <1>6, <1>7, <1>8, <1>9, <1>10, <1>11, <1>12 DEF Next, PollStep

\* The loop starts at position 0 (HTTPSCarrier.__init__).
LEMMA OrderInit == Init => OrderInv /\ ReaderInv
<1> SUFFICES ASSUME Init
             PROVE  OrderInv /\ ReaderInv
  OBVIOUS
<1>1. ReaderInv
  BY DEF Init, BaseInit, ReaderInv, Tasks
<1>2. Reached(0) /\ downCursor <= Len(downLog)
  BY DEF Init, Reached, Follows, InOrder, NoHole
<1> QED
  BY <1>1, <1>2 DEF OrderInv

\* What the loop has dispatched is in order and ends where the kept batch begins,
\* and the loop calls _send_up only for a PONG, in every state (_on_batch).
THEOREM DownlinkInvariant == Spec => [](UplinkInv /\ OrderInv /\ ReaderInv)
<1>1. UplinkInv => UplinkTypeOK /\ DownlinkTypeOK
  BY DEF UplinkInv, HttpsTypeOK
<1>2. UplinkInv /\ OrderInv /\ ReaderInv /\ [Next]_vars
        => (UplinkInv /\ OrderInv /\ ReaderInv)'
  BY <1>1, UplinkStep, OrderStep
<1> QED
  BY <1>2, UplinkInit, OrderInit, PTL DEF Spec

\* The polling loop dispatches the relay's frames once and in order, and without
\* a hole unless some batch did not parse, for any number of polls, PONGs and
\* disconnects (_down_cursor, _on_batch).
THEOREM DownlinkOrdered == Spec => []DownlinkOnceInOrder
<1>1. ASSUME UplinkInv, OrderInv
      PROVE  DownlinkOnceInOrder
  <2> PICK a \in Nat : Reached(a)
    BY <1>1 DEF OrderInv
  <2>1. seen \in Seq(Nat) /\ DOMAIN seen = 1 .. Len(seen)
    BY DEF Reached, InOrder
  <2> QED
    BY <2>1 DEF Reached, InOrder, NoHole, NothingGarbled, DownlinkOnceInOrder
<1> QED
  BY <1>1, DownlinkInvariant, PTL

-----------------------------------------------------------------------------
(* The losses of the uplink. *)

\* The last frame the relay has taken; is it one whose call has given up, and
\* whose number the next call will use again?
Last == relayLog[Len(relayLog)]
Reused == upSeq = Len(relayLog) /\ Last \in failed

\* The frames lost, and those that were delivered although their calls failed.
Lost  == accepted \ Delivered
Spent == failed \cap Delivered

\* A call is over at most once, and a number that is used again was given to
\* the relay by a call that has failed; the frame lost to it is still to come
\* (_send_up, _up_seq).
LossInv ==
  /\ upSeq # 0
  /\ IsFiniteSet(accepted) /\ IsFiniteSet(failed)
  /\ \A n \in accepted \cup failed : n < nextFrame
  /\ \A c \in Tasks : calling[c] > 0 => calling[c] \notin accepted \cup failed
  /\ upSeq = Len(relayLog) => 
       Last \in failed \/ \E c \in Tasks : calling[c] > 0 /\ calling[c] = Last
  /\ Cardinality(Lost) + (IF Reused THEN 1 ELSE 0) <= Cardinality(Spent)

\* What a step can be to the losses, but for the relay's taking a frame and its
\* acceptance: no call ends, or that of c fails.
NoCallEnds ==
  /\ UNCHANGED <<accepted, failed, upSeq, relayLog>>
  /\ CallsMove \/ UNCHANGED <<calling, nextFrame>>
  /\ \A x \in Tasks : calling[x] > 0 => calling'[x] = calling[x]

CallFails(c) ==
  /\ calling[c] > 0
  /\ CallsMove
  /\ calling' = [calling EXCEPT ![c] = 0]
  /\ failed' = failed \cup {calling[c]}
  /\ UNCHANGED <<accepted, upSeq, relayLog>>

\* Those are all the steps there are: a PONG's call begins only when the loop has
\* no other (_send_up, _on_batch).
LEMMA LossCases ==
  ASSUME UplinkTypeOK, CallsInv, ReaderInv, [Next]_vars
  PROVE  \/ NoCallEnds
         \/ \E c \in Tasks : CallFails(c)
         \/ \E c \in Active : RelayTakes(c) \/ UpAccepted(c)
<1>1. \/ CallsStay
      \/ CallsMove /\ UNCHANGED <<upSeq, relayLog>>
      \/ \E c \in Active : RelayTakes(c) \/ UpAccepted(c)
  BY UplinkCases
<1>2. CASE UNCHANGED <<accepted, failed>> /\ \A x \in Tasks : calling[x] > 0 => calling'[x] = calling[x]
  BY <1>1, <1>2 DEF CallsStay, NoCallEnds
<1>3. ASSUME NEW c \in Active, UpRaises(c)
      PROVE  \E x \in Tasks : CallFails(x)
  <2>1. c \in Tasks /\ calling[c] > 0
    BY Oldest
  <2>2. Calls([calling EXCEPT ![c] = 0]) /\ UNCHANGED nextFrame
    BY <1>3 DEF UpRaises
  <2>3. CallsMove /\ calling' = [calling EXCEPT ![c] = 0]
    BY <2>1, <2>2, CallEnds DEF Calls
  <2> QED
    BY <1>3, <2>1, <2>3 DEF UpRaises, CallFails
<1>4. CASE UpStep
  <2> PICK c \in Active :
        UpPosts(c) \/ RelayTakes(c) \/ UpAccepted(c) \/ UpRefused(c) \/ UpFails(c)
    BY <1>4 DEF UpStep
  <2>1. CASE UpRaises(c)
    BY <1>3, <2>1
  <2>2. CASE ~UpRaises(c) /\ ~RelayTakes(c) /\ ~UpAccepted(c)
    BY <1>2, <2>2 DEF UpPosts, UpRefused, UpFails, UpGoesOn
  <2> QED
    BY <2>1, <2>2
<1>5. CASE PollCancelled
  <2> DEFINE r == "reader"
  <2>1. r \in Tasks /\ calling[r] \in Nat
    BY DEF Tasks, UplinkTypeOK
  <2>2. Calls([calling EXCEPT ![r] = 0]) /\ UNCHANGED <<nextFrame, upSeq, relayLog, accepted>>
    BY <1>5 DEF PollCancelled, relayVars
  <2>3. CallsMove /\ calling' = [calling EXCEPT ![r] = 0]
    BY <2>1, <2>2, CallEnds DEF Calls
  <2>4. CASE calling[r] = 0
    <3>1. failed' = failed /\ \A x \in Tasks : calling'[x] = calling[x]
      BY <1>5, <2>1, <2>3, <2>4 DEF PollCancelled, UplinkTypeOK
    <3> QED
      BY <1>2, <2>2, <3>1
  <2>5. CASE calling[r] > 0
    <3>1. failed' = failed \cup {calling[r]}
      BY <1>5, <2>5 DEF PollCancelled
    <3> QED
      BY <2>1, <2>2, <2>3, <2>5, <3>1 DEF CallFails
  <2> QED
    BY <2>1, <2>4, <2>5
<1>6. ASSUME NEW m, PollAnswered(m)
      PROVE  /\ UNCHANGED <<accepted, failed>>
             /\ \A x \in Tasks : calling[x] > 0 => calling'[x] = calling[x]
  <2>1. UNCHANGED <<accepted, failed>> /\ calling["reader"] = 0 /\ "reader" \in Tasks
    BY <1>6 DEF PollAnswered, UnchangedByPoll, Polling, ReaderInv, UplinkTypeOK, Tasks
  <2>2. calling' = calling \/ calling' = [calling EXCEPT !["reader"] = nextFrame]
    BY <1>6 DEF PollAnswered, Dispatches, Calls
  <2>3. \A x \in Tasks : calling[x] > 0 => calling'[x] = calling[x]
    BY <2>1, <2>2 DEF UplinkTypeOK
  <2> QED
    BY <2>1, <2>3
<1>7. ASSUME NEW c \in Senders, CallUp(c)
      PROVE  /\ UNCHANGED <<accepted, failed>>
             /\ \A x \in Tasks : calling[x] > 0 => calling'[x] = calling[x]
  <2>1. /\ UNCHANGED <<accepted, failed>> /\ c \in Tasks /\ calling[c] = 0
        /\ calling' = [calling EXCEPT ![c] = nextFrame]
    BY <1>7 DEF CallUp, Calls, Tasks
  <2>2. \A x \in Tasks : calling[x] > 0 => calling'[x] = calling[x]
    BY <2>1 DEF UplinkTypeOK
  <2> QED
    BY <2>1, <2>2
<1>8. CASE PollIdles \/ PollFails \/ PollStarts \/ PollFinishes
  BY <1>2, <1>8 DEF PollIdles, PollFails, PollStarts, PollFinishes, UnchangedByPoll
<1>9. CASE \/ StartConnect \/ Bootstrapped \/ ConnectFails \/ UserDisconnect
           \/ \E d \in Discs : DisconnectStep(d) \/ StopStep(d)
           \/ DeadlinePasses
           \/ \E kind \in Kinds : RelaySends(kind)
           \/ UNCHANGED vars
  BY <1>2, <1>9 DEF StartConnect, Bootstrapped, ConnectFails, UserDisconnect,
     DisconnectStep, StopStep, DeadlinePasses, RelaySends, uplinkVars, vars
<1> QED
  BY <1>2, <1>4, <1>5, <1>6, <1>7, <1>8, <1>9 DEF Next, PollStep

\* The frames of calls that are over stay apart from those of the calls
\* outstanding, when one call at most ends (CallsInv).
LEMMA OverStaysApart ==
  ASSUME UplinkTypeOK, CallsInv, CallsMove, NEW S \in SUBSET Nat, NEW T \in SUBSET Nat,
         \A n \in S : n < nextFrame,
         \A x \in Tasks : calling[x] > 0 => calling[x] \notin S,
         T = S \/ \E c \in Tasks : /\ calling[c] > 0 /\ calling'[c] # calling[c]
                                   /\ T = S \cup {calling[c]}
  PROVE  /\ \A n \in T : n < nextFrame'
         /\ \A x \in Tasks : calling'[x] > 0 => calling'[x] \notin T
<1>1. /\ nextFrame \in Nat /\ nextFrame' \in Nat /\ nextFrame <= nextFrame'
      /\ \A x \in Tasks : calling[x] \in Nat /\ calling[x] < nextFrame
  BY DEF UplinkTypeOK, CallsInv, CallsMove
<1>2. \A n \in T : n \in Nat /\ n < nextFrame
  BY <1>1
<1>3. ASSUME NEW x \in Tasks, calling'[x] > 0, calling'[x] \in T
      PROVE  FALSE
  <2>1. calling'[x] = calling[x]
    BY <1>1, <1>2, <1>3 DEF CallsMove
  <2>2. calling[x] \notin S
    BY <1>3, <2>1
  <2>3. PICK c \in Tasks : calling[c] > 0 /\ calling'[c] # calling[c] /\ T = S \cup {calling[c]}
    BY <1>3, <2>1, <2>2
  <2>4. calling[x] = calling[c]
    BY <1>3, <2>1, <2>2, <2>3
  <2>5. x = c
    BY <2>3, <2>4 DEF CallsInv
  <2> QED
    BY <2>1, <2>3, <2>5
<1>4. \A n \in T : n < nextFrame'
  BY <1>1, <1>2
<1> QED
  BY <1>3, <1>4

\* A frame the relay has, of a call outstanding, is the last it has taken.
LEMMA DeliveredIsLast ==
  ASSUME UplinkInv, NEW c \in Tasks, calling[c] > 0, calling[c] \in Delivered
  PROVE  calling[c] = Last /\ upSeq = Len(relayLog)
<1> USE DEF UplinkInv, HttpsTypeOK
<1>1. PICK i \in DOMAIN relayLog : relayLog[i] = calling[c]
  BY DEF Delivered
<1>2. upSeq = Len(relayLog)
  BY <1>1 DEF CallsInv
<1>3. /\ Len(relayLog) \in Nat /\ DOMAIN relayLog = 1 .. Len(relayLog)
      /\ \A j \in DOMAIN relayLog : relayLog[j] \in Nat
      /\ calling[c] \in Nat
  BY DEF UplinkTypeOK
<1>4. Len(relayLog) \in DOMAIN relayLog
  BY <1>1, <1>3
<1>5. Last <= calling[c]
  BY <1>4 DEF CallsInv, Last
<1>6. i < Len(relayLog) => relayLog[i] < Last
  BY <1>4 DEF UplinkOnceInOrder, Last
<1>7. i = Len(relayLog)
  BY <1>1, <1>3, <1>4, <1>5, <1>6 DEF Last
<1> QED
  BY <1>1, <1>2, <1>7 DEF Last

\* The sets that are counted are finite.
LEMMA LossesFinite ==
  ASSUME LossInv
  PROVE  /\ IsFiniteSet(Lost) /\ Cardinality(Lost) \in Nat
         /\ IsFiniteSet(Spent) /\ Cardinality(Spent) \in Nat
<1>1. IsFiniteSet(Lost) /\ IsFiniteSet(Spent)
  BY FS_Subset DEF LossInv, Lost, Spent
<1> QED
  BY <1>1, FS_CardinalityType

\* The last frame is one the relay has.
LEMMA LastDelivered ==
  ASSUME UplinkInv, LossInv, upSeq = Len(relayLog)
  PROVE  Len(relayLog) \in DOMAIN relayLog /\ Last \in Delivered /\ Last \in Nat
<1>1. relayLog \in Seq(Nat) /\ Len(relayLog) \in Nat /\ Len(relayLog) # 0
  BY DEF LossInv, UplinkInv, HttpsTypeOK, UplinkTypeOK
<1>2. Len(relayLog) \in DOMAIN relayLog
  BY <1>1
<1> QED
  BY <1>1, <1>2 DEF Last, Delivered

\* No call ends: nothing is lost.
LEMMA NoLoss ==
  ASSUME UplinkInv, LossInv, NoCallEnds
  PROVE  LossInv'
<1> USE DEF UplinkInv, HttpsTypeOK
<1>1. UNCHANGED <<accepted, failed, upSeq, relayLog>>
  BY DEF NoCallEnds
<1>2. UNCHANGED <<Delivered, Lost, Spent, Last, Reused>>
  BY <1>1 DEF Delivered, Lost, Spent, Last, Reused
<1>3. /\ \A n \in (accepted \cup failed)' : n < nextFrame'
      /\ \A x \in Tasks : calling'[x] > 0 => calling'[x] \notin (accepted \cup failed)'
  <2>1. CASE UNCHANGED <<calling, nextFrame>>
    BY <1>1, <2>1 DEF LossInv
  <2>2. CASE CallsMove
    <3> DEFINE S == accepted \cup failed
    <3>1. /\ S \in SUBSET Nat /\ (accepted \cup failed)' = S
          /\ \A n \in S : n < nextFrame
          /\ \A x \in Tasks : calling[x] > 0 => calling[x] \notin S
      BY <1>1 DEF UplinkTypeOK, LossInv
    <3> HIDE DEF S
    <3> QED
      BY <2>2, <3>1, OverStaysApart
  <2> QED
    BY <2>1, <2>2 DEF NoCallEnds
<1>4. upSeq = Len(relayLog) =>
        Last \in failed \/ \E x \in Tasks : calling'[x] > 0 /\ calling'[x] = Last
  BY DEF LossInv, NoCallEnds
<1> QED
  BY <1>1, <1>2, <1>3, <1>4 DEF LossInv

\* A call fails: if the relay has its frame, then a later one may be lost.
LEMMA FailsLoses ==
  ASSUME UplinkInv, LossInv, NEW c \in Tasks, CallFails(c)
  PROVE  LossInv'
<1> USE DEF UplinkInv, HttpsTypeOK
<1> DEFINE f == calling[c]
<1>1. /\ f \in Nat /\ f > 0 /\ calling'[c] = 0 /\ failed' = failed \cup {f}
      /\ UNCHANGED <<accepted, upSeq, relayLog>> /\ CallsMove
      /\ \A x \in Tasks : x # c => calling'[x] = calling[x]
  BY DEF CallFails, UplinkTypeOK
<1>2. UNCHANGED <<Delivered, Lost, Last>>
  BY <1>1 DEF Delivered, Lost, Last
<1>3. f \notin accepted \cup failed
  BY <1>1 DEF LossInv
<1>4. IsFiniteSet(failed') /\ IsFiniteSet(accepted')
  BY <1>1, FS_AddElement DEF LossInv
<1>5. /\ \A n \in (accepted \cup failed)' : n < nextFrame'
      /\ \A x \in Tasks : calling'[x] > 0 => calling'[x] \notin (accepted \cup failed)'
  <2> DEFINE S == accepted \cup failed
             T == S \cup {f}
  <2>1. S \in SUBSET Nat /\ T \in SUBSET Nat /\ (accepted \cup failed)' = T
    BY <1>1 DEF UplinkTypeOK
  <2>2. /\ \A n \in S : n < nextFrame
        /\ \A x \in Tasks : calling[x] > 0 => calling[x] \notin S
    BY DEF LossInv
  <2>3. \E x \in Tasks : calling[x] > 0 /\ calling'[x] # calling[x] /\ T = S \cup {calling[x]}
    BY <1>1
  <2> HIDE DEF S, T
  <2> QED
    BY <1>1, <2>1, <2>2, <2>3, OverStaysApart
<1>6. upSeq = Len(relayLog) =>
        Last \in failed' \/ \E x \in Tasks : calling'[x] > 0 /\ calling'[x] = Last
  BY <1>1 DEF LossInv
<1>7. Cardinality(Lost) + (IF Reused' THEN 1 ELSE 0) <= Cardinality(Spent')
  <2>1. /\ Cardinality(Lost) \in Nat /\ Cardinality(Spent) \in Nat
        /\ Cardinality(Lost) + (IF Reused THEN 1 ELSE 0) <= Cardinality(Spent)
    BY LossesFinite DEF LossInv
  <2>2. CASE f \in Delivered
    <3>1. Spent' = Spent \cup {f} /\ f \notin Spent
      BY <1>1, <1>2, <1>3, <2>2 DEF Spent
    <3>2. Cardinality(Spent') = Cardinality(Spent) + 1
      BY <3>1, LossesFinite, FS_AddElement
    <3>3. ~Reused
      BY <1>1, <1>3, <2>2, DeliveredIsLast DEF Reused
    <3> QED
      BY <2>1, <3>2, <3>3
  <2>3. CASE f \notin Delivered
    <3>1. Spent' = Spent
      BY <1>1, <1>2, <2>3 DEF Spent
    <3>2. ASSUME Reused' PROVE Reused
      <4>1. upSeq = Len(relayLog) /\ Last \in failed'
        BY <1>1, <1>2, <3>2 DEF Reused
      <4>2. Last # f
        BY <2>3, <4>1, LastDelivered
      <4> QED
        BY <1>1, <4>1, <4>2 DEF Reused
    <3> QED
      BY <2>1, <3>1, <3>2
  <2> QED
    BY <2>2, <2>3
<1> QED
  BY <1>1, <1>2, <1>4, <1>5, <1>6, <1>7 DEF LossInv

\* The relay takes a frame: it is one of a call outstanding (RelayTakes).
LEMMA TakesLoses ==
  ASSUME UplinkInv, LossInv, NEW c \in Active, RelayTakes(c)
  PROVE  LossInv'
<1> USE DEF UplinkInv, HttpsTypeOK
<1> DEFINE f == calling[c]
<1>1. /\ UNCHANGED <<calling, upSeq, nextFrame, accepted, failed>>
      /\ relayLog' = IF upSeq = Len(relayLog) + 1 THEN Append(relayLog, f) ELSE relayLog
  BY DEF RelayTakes, UpGoesOn
<1>2. f \in Nat /\ f > 0 /\ c \in Tasks /\ f \notin accepted \cup failed
  BY Oldest DEF LossInv
<1>3. CASE UNCHANGED relayLog
  BY <1>1, <1>3 DEF LossInv, Last, Reused, Lost, Spent, Delivered
<1>4. CASE upSeq = Len(relayLog) + 1
  <2>1. /\ relayLog' = Append(relayLog, f) /\ relayLog \in Seq(Nat) /\ Len(relayLog) \in Nat
    BY <1>1, <1>4 DEF UplinkTypeOK
  <2> HIDE DEF f
  <2>2. /\ Len(relayLog') = Len(relayLog) + 1 /\ relayLog'[Len(relayLog) + 1] = f
        /\ \A i \in 1 .. Len(relayLog) : relayLog'[i] = relayLog[i]
    BY <1>2, <2>1
  <2>3. Last' = f
    BY <2>2 DEF Last
  <2>4. Delivered' = Delivered \cup {f}
    <3> DEFINE n == Len(relayLog)
    <3>1. DOMAIN relayLog = 1 .. n /\ DOMAIN relayLog' = 1 .. n + 1 /\ n \in Nat
      BY <1>2, <2>1
    <3>2. \A i \in 1 .. n + 1 : i \in 1 .. n \/ i = n + 1
      BY <3>1
    <3>3. \A i \in 1 .. n : i \in 1 .. n + 1
      BY <3>1
    <3>4. n + 1 \in 1 .. n + 1
      BY <3>1
    <3>5. relayLog'[n + 1] = f /\ \A i \in 1 .. n : relayLog'[i] = relayLog[i]
      BY <2>2
    <3> HIDE DEF n
    <3> QED
      BY <3>1, <3>2, <3>3, <3>4, <3>5 DEF Delivered
  <2>5. Lost' = Lost /\ Spent' = Spent
    BY <1>1, <1>2, <2>4 DEF Lost, Spent, f
  <2>6. ~Reused /\ ~Reused'
    BY <1>1, <1>2, <1>4, <2>1, <2>3 DEF Reused, f
  <2>7. \E x \in Tasks : calling'[x] > 0 /\ calling'[x] = Last'
    BY <1>1, <1>2, <2>3 DEF f
  <2> QED
    BY <1>1, <2>5, <2>6, <2>7 DEF LossInv
<1> QED
  BY <1>1, <1>3, <1>4

\* 204: the frame accepted is the last the relay has taken, or it has not got it;
\* then the number it went by had been used by a call that failed (UpAccepted).
LEMMA AcceptedLoses ==
  ASSUME UplinkInv, LossInv, NEW c \in Active, UpAccepted(c)
  PROVE  LossInv'
<1> USE DEF UplinkInv, HttpsTypeOK
<1> DEFINE f == calling[c]
<1>1. /\ c \in Tasks /\ f \in Nat /\ f > 0 /\ accepted' = accepted \cup {f}
      /\ upSeq' = upSeq + 1 /\ UNCHANGED <<failed, relayLog>> /\ upPc = "taken"
  BY Oldest DEF UpAccepted
<1>2. upSeq = Len(relayLog) /\ upSeq \in Nat
  BY <1>1 DEF NumberInv, UplinkTypeOK
<1>3. CallsMove /\ calling'[c] # f
  BY Accepted
<1>4. IsFiniteSet(failed') /\ IsFiniteSet(accepted')
  BY <1>1, FS_AddElement DEF LossInv
<1>5. /\ \A n \in (accepted \cup failed)' : n < nextFrame'
      /\ \A x \in Tasks : calling'[x] > 0 => calling'[x] \notin (accepted \cup failed)'
  <2> DEFINE S == accepted \cup failed
             T == S \cup {f}
  <2>1. S \in SUBSET Nat /\ T \in SUBSET Nat /\ (accepted \cup failed)' = T
    BY <1>1 DEF UplinkTypeOK
  <2>2. /\ \A n \in S : n < nextFrame
        /\ \A x \in Tasks : calling[x] > 0 => calling[x] \notin S
    BY DEF LossInv
  <2>3. \E x \in Tasks : calling[x] > 0 /\ calling'[x] # calling[x] /\ T = S \cup {calling[x]}
    BY <1>1, <1>3
  <2> HIDE DEF S, T
  <2> QED
    BY <1>3, <2>1, <2>2, <2>3, OverStaysApart
<1>6. upSeq' # 0 /\ upSeq' # Len(relayLog') /\ ~Reused'
  BY <1>1, <1>2 DEF Reused
<1>7. Cardinality(Lost') \in Nat /\ Cardinality(Lost') <= Cardinality(Spent')
  <2>1. /\ Cardinality(Lost) \in Nat /\ Cardinality(Spent) \in Nat
        /\ Cardinality(Lost) + (IF Reused THEN 1 ELSE 0) <= Cardinality(Spent)
    BY LossesFinite DEF LossInv
  <2>2. Delivered' = Delivered /\ Spent' = Spent
    BY <1>1 DEF Delivered, Spent
  <2>3. CASE f \in Delivered
    <3>1. Lost' = Lost
      BY <1>1, <2>2, <2>3 DEF Lost
    <3> QED
      BY <2>1, <2>2, <3>1
  <2>4. CASE f \notin Delivered
    <3>1. Lost' = Lost \cup {f}
      BY <1>1, <2>2, <2>4 DEF Lost
    <3>2. Cardinality(Lost') \in {Cardinality(Lost), Cardinality(Lost) + 1}
      BY <3>1, LossesFinite, FS_AddElement
    <3>3. ASSUME NEW x \in Tasks, calling[x] > 0, calling[x] = Last
          PROVE  FALSE
      <4>1. /\ Len(relayLog) \in DOMAIN relayLog /\ Last \in Delivered /\ Last \in Nat
        BY <1>2, LastDelivered
      <4>2. Last <= f /\ Last # f
        BY <1>1, <2>4, <4>1 DEF CallsInv, Last
      <4>3. x = c \/ f < calling[x]
        BY <3>3, Oldest
      <4> QED
        BY <1>1, <3>3, <4>1, <4>2, <4>3
    <3>4. Reused
      BY <1>2, <3>3 DEF Reused, LossInv
    <3> QED
      BY <2>1, <2>2, <3>2, <3>4
  <2> QED
    BY <2>3, <2>4
<1>8. Cardinality(Lost') + (IF Reused' THEN 1 ELSE 0) <= Cardinality(Spent')
  <2>1. Cardinality(Lost') + 0 <= Cardinality(Spent')
    BY <1>7
  <2> QED
    BY <1>6, <2>1
<1> QED
  BY <1>4, <1>5, <1>6, <1>8 DEF LossInv

\* Nothing is taken, accepted or failed at the start (HTTPSCarrier.__init__).
LEMMA LossInit == Init => LossInv
<1> SUFFICES ASSUME Init
             PROVE  LossInv
  OBVIOUS
<1>1. /\ accepted = {} /\ failed = {} /\ upSeq = 1 /\ relayLog = <<>>
      /\ \A c \in Tasks : calling[c] = 0
  BY DEF Init
<1>2. Lost = {} /\ Spent = {} /\ ~Reused /\ upSeq # Len(relayLog)
  BY <1>1 DEF Lost, Spent, Reused
<1>3. Cardinality(Lost) + (IF Reused THEN 1 ELSE 0) <= Cardinality(Spent)
  BY <1>2, FS_EmptySet
<1> QED
  BY <1>1, <1>2, <1>3, FS_EmptySet DEF LossInv

\* Every step of the carrier keeps count of its losses.
LEMMA LossStep == UplinkInv /\ ReaderInv /\ LossInv /\ [Next]_vars => LossInv'
<1> SUFFICES ASSUME UplinkInv, ReaderInv, LossInv, [Next]_vars
             PROVE  LossInv'
  OBVIOUS
<1>1. \/ NoCallEnds
      \/ \E c \in Tasks : CallFails(c)
      \/ \E c \in Active : RelayTakes(c) \/ UpAccepted(c)
  BY LossCases DEF UplinkInv, HttpsTypeOK
<1> QED
  BY <1>1, NoLoss, FailsLoses, TakesLoses, AcceptedLoses

\* The frames lost, and one more while the number of a call that failed waits to
\* be used again, are at most the failed calls whose frames the relay has
\* (_send_up).
THEOREM LossInvariant == Spec => []LossInv
<1>1. UplinkInv /\ OrderInv /\ ReaderInv /\ LossInv /\ [Next]_vars => LossInv'
  BY LossStep
<1> QED
  BY <1>1, LossInit, DownlinkInvariant, PTL DEF Spec

\* A call of _send_up that returns has given its frame to the relay, but for at
\* most one frame for every call that failed after the relay had taken its own,
\* for any number of callers, refusals and failures (_send_up, _up_seq).
THEOREM LossesAreBounded == Spec => []LossesBounded
<1>1. ASSUME LossInv PROVE LossesBounded
  <2>1. /\ Cardinality(Lost) \in Nat /\ Cardinality(Spent) \in Nat
        /\ Cardinality(Lost) + (IF Reused THEN 1 ELSE 0) <= Cardinality(Spent)
    BY <1>1, LossesFinite DEF LossInv
  <2>2. Cardinality(Lost) <= Cardinality(Spent)
    BY <2>1
  <2> QED
    BY <2>2 DEF LossesBounded, Lost, Spent
<1> QED
  BY <1>1, LossInvariant, PTL

-----------------------------------------------------------------------------
(* The end. *)

\* A step of the uplink changes the background task only from its PONG (UpStep).
LEMMA UplinkTask ==
  ASSUME UpStep, ReaderInv
  PROVE  \/ UNCHANGED <<reader, discVars>>
         \/ /\ reader = "pong"
            /\ \/ UNCHANGED discVars /\ reader' # "bye"
               \/ TaskEnds /\ UNCHANGED <<connected, stop>>
               \/ TaskByes
<1> PICK c \in Active :
      UpPosts(c) \/ RelayTakes(c) \/ UpAccepted(c) \/ UpRefused(c) \/ UpFails(c)
  BY DEF UpStep
<1>1. c = "reader" => reader = "pong"
  BY DEF Active, Holds, ReaderInv
<1>2. CASE UpRaises(c)
  BY <1>1, <1>2 DEF UpRaises, discVars
<1>3. ASSUME NEW pc, UpGoesOn(c, pc)
      PROVE  UNCHANGED <<reader, discVars>>
  BY <1>3 DEF UpGoesOn
<1>4. CASE UpAccepted(c)
  BY <1>1, <1>4, DispatchEnds DEF UpAccepted
<1> QED
  BY <1>2, <1>3, <1>4 DEF UpPosts, RelayTakes, UpRefused, UpFails

\* Every step that does not disturb a disconnect keeps what is known of the
\* session.
LEMMA SessionStep ==
  ASSUME BaseTypeOK, SessionInv, ReaderInv, [Next]_vars, [Undisturbed]_vars
  PROVE  SessionInv'
<1>1. CASE UNCHANGED vars
  BY <1>1, SessionKept DEF vars, baseVars, connectVars, readerVars, discVars
<1>2. CASE StartConnect \/ Bootstrapped \/ ConnectFails \/ UserDisconnect
  <2>1. Undisturbed \/ UNCHANGED vars
    OBVIOUS
  <2> QED
    BY <1>1, <1>2, <2>1, SessionConnect DEF StartConnect, Bootstrapped, ConnectFails,
       UserDisconnect
<1>3. ASSUME NEW d \in Discs, DisconnectStep(d)
      PROVE  SessionInv'
  <2>1. reader = "none" => reader' = "none"
    BY <1>3 DEF DisconnectStep, Inline
  <2>2. Undisturbed \/ UNCHANGED vars
    OBVIOUS
  <2> QED
    BY <1>1, <1>3, <2>1, <2>2, SessionDisconnect DEF DisconnectStep
<1>4. ASSUME NEW d \in Discs, StopStep(d)
      PROVE  SessionInv'
  BY <1>4, SessionKept DEF StopStep
<1>5. CASE \/ \E c \in Senders : CallUp(c)
           \/ DeadlinePasses
           \/ \E kind \in Kinds : RelaySends(kind)
  BY <1>5, SessionKept DEF CallUp, DeadlinePasses, RelaySends, baseVars, readerVars, discVars
<1>6. CASE UpStep
  <2>1. UNCHANGED connectVars
    BY <1>6 DEF UpStep, UnchangedByUplink
  <2> QED
    BY <1>6, <2>1, UplinkTask, SessionTask, SessionKept DEF discVars
<1>7. ASSUME NEW m, PollAnswered(m)
      PROVE  SessionInv'
  <2>1. UNCHANGED connectVars /\ reader = "reading"
    BY <1>7 DEF PollAnswered, UnchangedByPoll, Polling
  <2>2. \/ UNCHANGED discVars
        \/ TaskEnds /\ UNCHANGED <<connected, stop>>
        \/ TaskByes
    BY <1>7, DispatchEnds DEF PollAnswered, Loops, discVars
  <2> QED
    BY <2>1, <2>2, SessionTask
<1>8. CASE PollIdles \/ PollFails \/ PollStep
  <2>1. UNCHANGED connectVars /\ reader # "none"
    BY <1>8 DEF PollIdles, PollFails, PollStep, PollStarts, PollCancelled, PollFinishes,
       UnchangedByPoll, Polling, TaskStarts, TaskCancelled, TaskFinishes
  <2>2. UNCHANGED discVars \/ (TaskEnds /\ UNCHANGED <<connected, stop>>)
    BY <1>8 DEF PollIdles, PollFails, PollStep, PollStarts, PollCancelled, PollFinishes,
       Loops, TaskFinishes, TaskCancelled, discVars
  <2> QED
    BY <2>1, <2>2, SessionTask
<1> QED
  BY <1>1, <1>2, <1>3, <1>4, <1>5, <1>6, <1>7, <1>8 DEF Next

\* Whatever the two loops, the relay and the user do to one another: a session is
\* left open, or a disconnected carrier claims to be connected, only if a DELETE
\* was cancelled or connect returned after a disconnect had begun (disconnect).
THEOREM HttpsTornDown == Spec /\ [][Undisturbed]_vars => []TornDown
<1>1. UplinkInv => BaseTypeOK
  BY DEF UplinkInv, HttpsTypeOK
<1>2. Init => SessionInv
  BY SessionInit DEF Init
<1>3. BaseTypeOK /\ SessionInv => TornDown
  BY SessionClosed DEF TornDown, Disconnected
<1>4. UplinkInv /\ ReaderInv /\ SessionInv /\ [Next]_vars /\ [Undisturbed]_vars => SessionInv'
  BY <1>1, SessionStep
<1> QED
  BY <1>1, <1>2, <1>3, <1>4, DownlinkInvariant, PTL DEF Spec

\* Before a BYE, and with a user that waits for connect, no step disturbs a
\* disconnect (disconnect, _stop_transport).
LEMMA QuietStep ==
  ASSUME BaseTypeOK, ReaderInv, NoBye, UserWaits, [Next]_vars
  PROVE  Undisturbed
<1>1. ConnectsFirst
  <2>1. connectPc' # connectPc => StartConnect \/ Bootstrapped \/ ConnectFails
    BY DEF Next, UserDisconnect, CallDisconnect, DisconnectStep, StopStep, DisconnectStarts,
       DisconnectClears, SessionDeleted, DeleteCancelled, DisconnectReturns, CallUp,
       DeadlinePasses, UpStep, UnchangedByUplink, PollAnswered, PollIdles, PollFails, PollStep,
       PollStarts, PollCancelled, PollFinishes, UnchangedByPoll, RelaySends, connectVars,
       baseVars, vars
  <2>2. StartConnect \/ Bootstrapped \/ ConnectFails => connectPc # "failed"
    BY DEF StartConnect, Bootstrapped, ConnectFails, ConnectStarts, ConnectReturns,
       ConnectRaises
  <2> QED
    BY <2>1, <2>2, WaitsConnectsFirst
<1>2. DeleteCompletes
  <2>1. CASE \/ StartConnect \/ Bootstrapped \/ ConnectFails \/ DeadlinePasses
             \/ \E d \in Discs : StopStep(d)
             \/ \E c \in Senders : CallUp(c)
             \/ \E kind \in Kinds : RelaySends(kind)
             \/ UNCHANGED vars
    <3>1. UNCHANGED disc
      BY <2>1 DEF StartConnect, Bootstrapped, ConnectFails, ConnectStarts, ConnectReturns,
         ConnectRaises, StopStep, DeadlinePasses, CallUp, RelaySends, vars, baseVars, discVars
    <3> QED
      BY <3>1, DeleteUncancelled
  <2>2. CASE UserDisconnect \/ \E d \in Discs : DisconnectStep(d)
    BY <2>2, DeleteUncancelled DEF UserDisconnect, DisconnectStep
  <2>3. CASE UpStep
    BY <2>3, UplinkTask, DeleteUncancelled DEF discVars
  <2>4. CASE PollIdles \/ PollFails \/ PollStep \/ \E m : PollAnswered(m)
    <3>1. UNCHANGED disc \/ TaskEnds \/ TaskByes
      BY <2>4, DispatchEnds DEF PollAnswered, PollIdles, PollFails, PollStep, PollStarts,
         PollCancelled, PollFinishes, Loops, TaskStarts, TaskFinishes, TaskCancelled, discVars
    <3> QED
      BY <3>1, DeleteUncancelled
  <2> QED
    BY <2>1, <2>2, <2>3, <2>4 DEF Next
<1> QED
  BY <1>1, <1>2 DEF Undisturbed

\* As long as the relay has not said BYE, and if the user calls disconnect when
\* connect is over, everything is torn down: in whatever order several disconnects,
\* the PONGs and the polls meet (disconnect).
THEOREM HttpsTornDownBeforeBye == Spec /\ []UserWaits /\ []NoBye => []TornDown
<1>1. UplinkInv => BaseTypeOK
  BY DEF UplinkInv, HttpsTypeOK
<1>2. BaseTypeOK /\ ReaderInv /\ NoBye /\ UserWaits /\ [Next]_vars => [Undisturbed]_vars
  BY QuietStep
<1> QED
  BY <1>1, <1>2, DownlinkInvariant, HttpsTornDown, PTL DEF Spec
=============================================================================
