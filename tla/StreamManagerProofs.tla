------------------------ MODULE StreamManagerProofs ------------------------
(***************************************************************************)
(* Proofs about StreamManager, for any set of callers, any window, chunk   *)
(* size and message lengths.                                               *)
(***************************************************************************)
EXTENDS StreamManager, TLAPS

USE DEF Eof, SendPcs, Outcomes

\* The quarter window is a positive number (protocol.py INITIAL_WINDOW).
LEMMA Quarter ==
  /\ InitialWindow \in Nat
  /\ InitialWindow \div 4 \in Nat /\ InitialWindow \div 4 >= 1
<1>1. \A w \in Nat : w >= 4 => w \div 4 \in Nat /\ w \div 4 >= 1
  OBVIOUS
<1> QED
  BY <1>1, StreamManagerAssumption

\* A frame carries a natural number.
LEMMA FrameNat == \A f \in Frame : f.n \in Nat
<1>1. FrameSizes \cup {0} \subseteq Nat
  BY StreamManagerAssumption
<1> QED
  BY <1>1 DEF Frame

\* Stream ids are natural numbers.
LEMMA SidNat == Sids \subseteq Nat /\ 1 \in Sids
BY StreamManagerAssumption DEF Sids

\* Appending to, and taking the head off, a sequence (asyncio.Queue).
LEMMA Queue ==
  ASSUME NEW q \in Seq(Nat), NEW n \in Nat
  PROVE  /\ Append(q, n) \in Seq(Nat)
         /\ Append(q, n) # <<>>
         /\ q # <<>> => Head(q) \in Nat /\ Tail(q) \in Seq(Nat)
OBVIOUS

\* The initial state satisfies the inductive invariant (StreamManager.__init__).
LEMMA InitInv == SMInit => SMInv
BY Quarter, SidNat, StreamManagerAssumption DEF SMInit, SMInv, TypeOK, TablesInv,
   WindowsInv, SentWithinCredit, GrantsFollowConsumption, CallersInv,
   NoStrandedWaiter, InPlaceInv, NoMissedCredit

\* The ids and counters that the arithmetic of the steps is about are numbers.
LEMMA Numbers ==
  ASSUME TypeOK
  PROVE  /\ nextStreamId \in Nat
         /\ known \subseteq Sids
         /\ \A s \in Sids :
              /\ s \in Nat
              /\ sendWindows[s] \in Nat /\ recvWindows[s] \in Int
              /\ sent[s] \in Nat /\ credited[s] \in Nat
              /\ consumed[s] \in Nat /\ granted[s] \in Nat
BY SidNat DEF TypeOK

\* So are the stream and the bytes left of a caller of send_data.
LEMMA CallerNumbers ==
  ASSUME TypeOK
  PROVE  \A t \in Callers : sendSid[t] \in Sids /\ sendSid[t] \in Nat /\ sendLeft[t] \in Nat
BY SidNat DEF TypeOK

\* Dropping all streams wakes every sender and ends every reader (_clear_streams).
LEMMA ClearStreamsInv ==
  ASSUME SMInv, ClearStreams
  PROVE  SMInv'
<1> USE DEF SMInv, ClearStreams, SetEvents, senderVars, historyVars
<1>1. TypeOK'
  BY Queue DEF TypeOK
<1>2. TablesInv'
  BY DEF TablesInv
<1>3. WindowsInv' /\ SentWithinCredit' /\ GrantsFollowConsumption'
  BY DEF WindowsInv, SentWithinCredit, GrantsFollowConsumption
<1>4. CallersInv'
  BY DEF CallersInv, TypeOK, TablesInv
<1>5. NoStrandedWaiter'
  BY Queue DEF NoStrandedWaiter, TypeOK
<1>6. InPlaceInv'
  BY DEF InPlaceInv, NoMissedCredit, Short, SendWindow, ChunkOf, TypeOK,
     NoStrandedWaiter
<1> QED
  BY <1>1, <1>2, <1>3, <1>4, <1>5, <1>6

\* Dropping one stream nobody uses (_remove_stream).
LEMMA RemoveStreamInv ==
  ASSUME SMInv, NEW s \in Sids, RemoveStream(s)
  PROVE  SMInv'
<1> USE DEF SMInv, RemoveStream, SetEvents, Unused, historyVars
<1>1. TypeOK'
  BY DEF TypeOK
<1>2. TablesInv'
  BY DEF TablesInv
<1>3. WindowsInv' /\ SentWithinCredit' /\ GrantsFollowConsumption'
  BY DEF WindowsInv, SentWithinCredit, GrantsFollowConsumption
<1>4. CallersInv'
  BY DEF CallersInv, TypeOK
<1>5. NoStrandedWaiter'
  BY DEF NoStrandedWaiter, TypeOK
<1>6. InPlaceInv'
  BY DEF InPlaceInv, NoMissedCredit, Short, SendWindow, ChunkOf, TypeOK,
     NoStrandedWaiter
<1> QED
  BY <1>1, <1>2, <1>3, <1>4, <1>5, <1>6

\* Closing a stream locally (close_stream).
LEMMA DiscardOpenInv ==
  ASSUME SMInv, NEW s \in Sids, DiscardOpen(s)
  PROVE  SMInv'
<1> USE DEF SMInv, DiscardOpen, senderVars, historyVars
<1>1. TypeOK'
  BY DEF TypeOK
<1>2. TablesInv'
  BY DEF TablesInv
<1>3. WindowsInv' /\ SentWithinCredit' /\ GrantsFollowConsumption'
  BY DEF WindowsInv, SentWithinCredit, GrantsFollowConsumption
<1>4. CallersInv'
  BY DEF CallersInv, TypeOK
<1>5. NoStrandedWaiter'
  BY DEF NoStrandedWaiter, TypeOK
<1>6. InPlaceInv'
  BY DEF InPlaceInv, NoMissedCredit, Short, SendWindow, ChunkOf
<1> QED
  BY <1>1, <1>2, <1>3, <1>4, <1>5, <1>6

\* The end of a stream found out by its transport (_lane_reader).
LEMMA EndStreamInv ==
  ASSUME SMInv, NEW s \in Sids, EndStream(s)
  PROVE  SMInv'
<1> USE DEF SMInv, EndStream, senderVars, historyVars
<1>1. TypeOK'
  BY Queue DEF TypeOK
<1>2. TablesInv'
  BY DEF TablesInv
<1>3. WindowsInv' /\ SentWithinCredit' /\ GrantsFollowConsumption'
  BY DEF WindowsInv, SentWithinCredit, GrantsFollowConsumption
<1>4. CallersInv'
  BY DEF CallersInv, TypeOK
<1>5. NoStrandedWaiter'
  BY Queue DEF NoStrandedWaiter, TypeOK
<1>6. InPlaceInv'
  BY DEF InPlaceInv, NoMissedCredit, Short, SendWindow, ChunkOf
<1> QED
  BY <1>1, <1>2, <1>3, <1>4, <1>5, <1>6

\* A DATA frame (_dispatch_frame).
LEMMA DispatchDataInv ==
  ASSUME SMInv, NEW f \in Frame, DispatchData(f)
  PROVE  SMInv'
<1> USE DEF SMInv, DispatchData, tableVars, senderVars, historyVars
<1>1. TypeOK'
  BY Queue, FrameNat DEF TypeOK
<1>2. TablesInv'
  BY DEF TablesInv
<1>3. WindowsInv' /\ SentWithinCredit' /\ GrantsFollowConsumption'
  BY DEF WindowsInv, SentWithinCredit, GrantsFollowConsumption
<1>4. CallersInv'
  BY DEF CallersInv, TypeOK
<1>5. NoStrandedWaiter'
  BY Queue, FrameNat DEF NoStrandedWaiter, TypeOK
<1>6. InPlaceInv'
  BY DEF InPlaceInv, NoMissedCredit, Short, SendWindow, ChunkOf
<1> QED
  BY <1>1, <1>2, <1>3, <1>4, <1>5, <1>6

\* A CLOSE frame (_dispatch_frame).
LEMMA DispatchCloseInv ==
  ASSUME SMInv, NEW f \in Frame, DispatchClose(f)
  PROVE  SMInv'
<1> USE DEF SMInv, DispatchClose, senderVars, historyVars
<1>1. TypeOK'
  BY Queue DEF TypeOK
<1>2. TablesInv'
  BY DEF TablesInv
<1>3. WindowsInv' /\ SentWithinCredit' /\ GrantsFollowConsumption'
  BY DEF WindowsInv, SentWithinCredit, GrantsFollowConsumption
<1>4. CallersInv'
  BY DEF CallersInv, TypeOK
<1>5. NoStrandedWaiter'
  BY Queue DEF NoStrandedWaiter, TypeOK
<1>6. InPlaceInv'
  BY DEF InPlaceInv, NoMissedCredit, Short, SendWindow, ChunkOf
<1> QED
  BY <1>1, <1>2, <1>3, <1>4, <1>5, <1>6

\* A call of send_data.
LEMMA BeginSendInv ==
  ASSUME SMInv, NEW t \in Callers, NEW s \in Sids, NEW n \in MessageSizes, BeginSend(t, s, n)
  PROVE  SMInv'
<1> USE DEF SMInv, BeginSend, tableVars, historyVars
<1>1. TypeOK'
  BY StreamManagerAssumption DEF TypeOK
<1>2. TablesInv'
  BY DEF TablesInv
<1>3. WindowsInv' /\ SentWithinCredit' /\ GrantsFollowConsumption'
  BY DEF WindowsInv, SentWithinCredit, GrantsFollowConsumption
<1>4. CallersInv'
  <2>1. n > 0
    BY StreamManagerAssumption
  <2>2. \A u \in Callers : u # t => /\ sendPc'[u] = sendPc[u]
                                    /\ sendSid'[u] = sendSid[u]
                                    /\ sendLeft'[u] = sendLeft[u]
    BY DEF TypeOK
  <2>3. sendSid'[t] = s /\ sendLeft'[t] = n
    BY DEF TypeOK
  <2> QED
    BY <2>1, <2>2, <2>3 DEF CallersInv
<1>5. NoStrandedWaiter'
  BY DEF NoStrandedWaiter, TypeOK
<1>6. InPlaceInv'
  BY DEF InPlaceInv, NoMissedCredit, Short, SendWindow, ChunkOf, TypeOK
<1> QED
  BY <1>1, <1>2, <1>3, <1>4, <1>5, <1>6

\* A sender that is short of window goes to sleep (_wait_send_window).
LEMMA SenderBlocksInv ==
  ASSUME SMInv, NEW t \in Callers, SenderBlocks(t)
  PROVE  SMInv'
<1> USE DEF SMInv, SenderBlocks, tableVars, historyVars
<1>1. TypeOK'
  BY DEF TypeOK
<1>2. TablesInv'
  BY DEF TablesInv
<1>3. WindowsInv' /\ SentWithinCredit' /\ GrantsFollowConsumption'
  BY DEF WindowsInv, SentWithinCredit, GrantsFollowConsumption
<1>4. CallersInv'
  <2>1. \A u \in Callers : sendPc'[u] # "idle" => sendPc[u] # "idle"
    BY DEF TypeOK, Testing
  <2>2. \A s \in Sids : s \notin known => windowEvents'[s] = windowEvents[s]
    BY DEF TypeOK, TablesInv
  <2> QED
    BY <2>1, <2>2 DEF CallersInv
<1>5. NoStrandedWaiter'
  BY DEF NoStrandedWaiter, TypeOK, TablesInv
<1>6. InPlaceInv'
  BY DEF InPlaceInv, NoMissedCredit, Short, SendWindow, ChunkOf, TypeOK
<1> QED
  BY <1>1, <1>2, <1>3, <1>4, <1>5, <1>6

\* A sender whose wait runs in a task of its own (_wait_send_window).
LEMMA SenderRegistersInv ==
  ASSUME SMInv, NEW t \in Callers, SenderRegisters(t)
  PROVE  SMInv'
<1> USE DEF SMInv, SenderRegisters, tableVars, historyVars
<1>1. TypeOK'
  BY DEF TypeOK
<1>2. TablesInv'
  BY DEF TablesInv
<1>3. WindowsInv' /\ SentWithinCredit' /\ GrantsFollowConsumption'
  BY DEF WindowsInv, SentWithinCredit, GrantsFollowConsumption
<1>4. CallersInv'
  BY DEF CallersInv, TypeOK
<1>5. NoStrandedWaiter'
  BY DEF NoStrandedWaiter, TypeOK, CallersInv
<1>6. InPlaceInv'
  BY DEF InPlaceInv, NoMissedCredit, Short, SendWindow, ChunkOf, TypeOK
<1> QED
  BY <1>1, <1>2, <1>3, <1>4, <1>5, <1>6

\* A sender that finds its stream closed (_wait_send_window).
LEMMA SenderFindsClosedInv ==
  ASSUME SMInv, NEW t \in Callers, SenderFindsClosed(t)
  PROVE  SMInv'
<1> USE DEF SMInv, SenderFindsClosed, EndSend, tableVars, historyVars
<1>1. TypeOK'
  BY DEF TypeOK
<1>2. TablesInv'
  BY DEF TablesInv
<1>3. WindowsInv' /\ SentWithinCredit' /\ GrantsFollowConsumption'
  BY DEF WindowsInv, SentWithinCredit, GrantsFollowConsumption
<1>4. CallersInv'
  BY DEF CallersInv, TypeOK
<1>5. NoStrandedWaiter'
  BY DEF NoStrandedWaiter, TypeOK
<1>6. InPlaceInv'
  BY DEF InPlaceInv, NoMissedCredit, Short, SendWindow, ChunkOf, TypeOK
<1> QED
  BY <1>1, <1>2, <1>3, <1>4, <1>5, <1>6

\* A sender whose wait has timed out (_wait_send_window).
LEMMA SenderTimesOutInv ==
  ASSUME SMInv, NEW t \in Callers, SenderTimesOut(t)
  PROVE  SMInv'
<1> USE DEF SMInv, SenderTimesOut, EndSend, tableVars, historyVars
<1>1. TypeOK'
  BY DEF TypeOK
<1>2. TablesInv'
  BY DEF TablesInv
<1>3. WindowsInv' /\ SentWithinCredit' /\ GrantsFollowConsumption'
  BY DEF WindowsInv, SentWithinCredit, GrantsFollowConsumption
<1>4. CallersInv'
  BY DEF CallersInv, TypeOK, TablesInv
<1>5. NoStrandedWaiter'
  BY DEF NoStrandedWaiter, TypeOK
<1>6. InPlaceInv'
  BY DEF InPlaceInv, NoMissedCredit, Short, SendWindow, ChunkOf, TypeOK
<1> QED
  BY <1>1, <1>2, <1>3, <1>4, <1>5, <1>6

\* A reader that finds its queue empty (_recv_data_from_queue).
LEMMA RecvWaitsInv ==
  ASSUME SMInv, NEW s \in Sids, RecvWaits(s)
  PROVE  SMInv'
<1> USE DEF SMInv, RecvWaits, tableVars, senderVars, historyVars
<1>1. TypeOK'
  BY DEF TypeOK
<1>2. TablesInv'
  BY DEF TablesInv
<1>3. WindowsInv' /\ SentWithinCredit' /\ GrantsFollowConsumption'
  BY DEF WindowsInv, SentWithinCredit, GrantsFollowConsumption
<1>4. CallersInv'
  BY DEF CallersInv, TypeOK
<1>5. NoStrandedWaiter'
  BY DEF NoStrandedWaiter, TypeOK
<1>6. InPlaceInv'
  BY DEF InPlaceInv, NoMissedCredit, Short, SendWindow, ChunkOf
<1> QED
  BY <1>1, <1>2, <1>3, <1>4, <1>5, <1>6

\* A reader that takes the end of the stream (_recv_data_from_queue).
LEMMA RecvEofInv ==
  ASSUME SMInv, NEW s \in Sids, RecvEof(s)
  PROVE  SMInv'
<1> USE DEF SMInv, RecvEof, HasItem, tableVars, senderVars, historyVars
<1>1. TypeOK'
  BY Queue DEF TypeOK
<1>2. TablesInv'
  BY DEF TablesInv
<1>3. WindowsInv' /\ SentWithinCredit' /\ GrantsFollowConsumption'
  BY DEF WindowsInv, SentWithinCredit, GrantsFollowConsumption
<1>4. CallersInv'
  BY DEF CallersInv, TypeOK
<1>5. NoStrandedWaiter'
  BY DEF NoStrandedWaiter, TypeOK
<1>6. InPlaceInv'
  BY DEF InPlaceInv, NoMissedCredit, Short, SendWindow, ChunkOf
<1> QED
  BY <1>1, <1>2, <1>3, <1>4, <1>5, <1>6

\* A chunk of a stream that was dropped (recv_data's KeyError).
LEMMA RecvGoneInv ==
  ASSUME SMInv, NEW s \in Sids, RecvGone(s)
  PROVE  SMInv'
<1> USE DEF SMInv, RecvGone, HasItem, tableVars, senderVars, historyVars
<1>1. TypeOK'
  BY Queue DEF TypeOK
<1>2. TablesInv'
  BY DEF TablesInv
<1>3. WindowsInv' /\ SentWithinCredit' /\ GrantsFollowConsumption'
  BY DEF WindowsInv, SentWithinCredit, GrantsFollowConsumption
<1>4. CallersInv'
  BY DEF CallersInv, TypeOK
<1>5. NoStrandedWaiter'
  BY DEF NoStrandedWaiter, TypeOK
<1>6. InPlaceInv'
  BY DEF InPlaceInv, NoMissedCredit, Short, SendWindow, ChunkOf
<1> QED
  BY <1>1, <1>2, <1>3, <1>4, <1>5, <1>6

\* A WINDOW frame adds its credit and wakes every sender of its stream
\* (_dispatch_frame).
LEMMA DispatchWindowInv ==
  ASSUME SMInv, NEW f \in Frame, DispatchWindow(f)
  PROVE  SMInv'
<1> DEFINE sid == f.sid
           w == sendWindows[sid] + f.n
           c == credited[sid] + f.n
<1> USE DEF SMInv
<1>1. /\ sendWindows' = [sendWindows EXCEPT ![sid] = w]
      /\ credited' = [credited EXCEPT ![sid] = c]
      /\ windowEvents' = [s \in Sids |-> s = sid \/ windowEvents[s]]
      /\ sendPc' = [t \in Callers |-> IF sendPc[t] = "wait" /\ sendSid[t] = sid
                                      THEN "woken" ELSE sendPc[t]]
      /\ UNCHANGED <<nextStreamId, known, openStreams, recvQueues, recvWindows,
                     sendSid, sendLeft, outcome, receivers, sent, consumed, granted>>
  BY DEF DispatchWindow, SetEvents, tableVars
<1>2. /\ sid \in known /\ sid \in Sids
      /\ w \in Nat /\ c \in Nat /\ c >= credited[sid]
      /\ c - credited[sid] = w - sendWindows[sid]
  BY FrameNat DEF DispatchWindow, TypeOK
<1> HIDE DEF sid, w, c
<1>3. \A s \in Sids : /\ sendWindows'[s] = IF s = sid THEN w ELSE sendWindows[s]
                     /\ credited'[s] = IF s = sid THEN c ELSE credited[s]
  BY <1>1, <1>2 DEF TypeOK
<1>4. TypeOK'
  BY <1>1, <1>2 DEF TypeOK
<1>5. TablesInv'
  BY <1>1, <1>2, <1>3, Numbers DEF TablesInv
<1>6. WindowsInv'
  <2> SUFFICES ASSUME NEW s \in known
               PROVE  /\ sent[s] + sendWindows'[s] = InitialWindow + credited'[s]
                      /\ granted[s] + (InitialWindow - recvWindows[s]) = consumed[s]
                      /\ InitialWindow - recvWindows[s] >= 0
                      /\ InitialWindow - recvWindows[s] < InitialWindow \div 4
    BY <1>1 DEF WindowsInv
  <2> QED
    BY <1>2, <1>3, Quarter, Numbers DEF WindowsInv
<1>7. SentWithinCredit' /\ GrantsFollowConsumption'
  BY <1>1, <1>2, <1>3, Quarter, Numbers DEF SentWithinCredit, GrantsFollowConsumption
<1>8. CallersInv'
  BY <1>1, <1>2 DEF TypeOK, CallersInv
<1>9. NoStrandedWaiter'
  BY <1>1, <1>2 DEF TypeOK, NoStrandedWaiter
<1>10. InPlaceInv'
  BY <1>1, <1>2 DEF TypeOK, InPlaceInv, NoMissedCredit, Short, SendWindow, ChunkOf
<1> QED
  BY <1>4, <1>5, <1>6, <1>7, <1>8, <1>9, <1>10

\* A new stream starts with full windows (_alloc_stream).
LEMMA AllocStreamInv ==
  ASSUME SMInv, AllocStream
  PROVE  SMInv'
<1> DEFINE n == nextStreamId
<1> USE DEF SMInv
<1>1. /\ nextStreamId' = n + 1
      /\ known' = known \cup {n} /\ openStreams' = openStreams \cup {n}
      /\ recvQueues' = [recvQueues EXCEPT ![n] = <<>>]
      /\ sendWindows' = [sendWindows EXCEPT ![n] = InitialWindow]
      /\ recvWindows' = [recvWindows EXCEPT ![n] = InitialWindow]
      /\ windowEvents' = [windowEvents EXCEPT ![n] = TRUE]
      /\ UNCHANGED <<sendPc, sendSid, sendLeft, outcome, receivers, sent, credited,
                     consumed, granted>>
  BY DEF AllocStream, senderVars, historyVars
<1>2. /\ n \in Sids /\ n \in Nat /\ n + 1 \in Nat /\ n + 1 \in 1 .. MaxStreamId + 2
      /\ n = nextStreamId
  BY StreamManagerAssumption DEF AllocStream, TypeOK, Sids
<1> HIDE DEF n
<1>3. \A s \in Sids :
        /\ sendWindows'[s] = IF s = n THEN InitialWindow ELSE sendWindows[s]
        /\ recvWindows'[s] = IF s = n THEN InitialWindow ELSE recvWindows[s]
        /\ windowEvents'[s] = (s = n \/ windowEvents[s])
        /\ s # n => recvQueues'[s] = recvQueues[s]
  BY <1>1, <1>2 DEF TypeOK
<1>4. TypeOK'
  <2>1. <<>> \in Seq(Nat)
    OBVIOUS
  <2>2. nextStreamId' \in 1 .. MaxStreamId + 2
    BY <1>1, <1>2
  <2>3. QED
    <3>1. known' \in SUBSET Sids /\ openStreams' \in SUBSET Sids
      BY <1>1, <1>2 DEF TypeOK
    <3>2. /\ recvQueues' \in [Sids -> Seq(Nat)]
          /\ windowEvents' \in [Sids -> BOOLEAN]
      BY <1>1, <2>1 DEF TypeOK
    <3>3. sendWindows' \in [Sids -> Nat]
      BY <1>1, Quarter DEF TypeOK
    <3>4. recvWindows' \in [Sids -> Int]
      <4>1. InitialWindow \in Int
        BY Quarter
      <4> QED
        BY <4>1, <1>1 DEF TypeOK
    <3> QED
      BY <2>2, <3>1, <3>2, <3>3, <3>4, <1>1 DEF TypeOK
<1>5. TablesInv'
  <2>1. openStreams' \subseteq known'
    BY <1>1 DEF TablesInv
  <2>3. \A s \in known : s < n + 1
    <3>1. \A s \in known : s \in Nat /\ s < n
      BY <1>2, Numbers DEF TablesInv
    <3> QED
      BY <3>1, <1>2
  <2>4. \A s \in known' : s < nextStreamId'
    BY <2>3, <1>1, <1>2
  <2>2. \A s \in Sids : s >= nextStreamId' => s >= nextStreamId
    BY <1>1, <1>2, Numbers
  <2> QED
    BY <2>1, <2>2, <2>4, <1>1 DEF TablesInv
<1>6. WindowsInv'
  <2> SUFFICES ASSUME NEW s \in known'
               PROVE  /\ sent[s] + sendWindows'[s] = InitialWindow + credited[s]
                      /\ granted[s] + (InitialWindow - recvWindows'[s]) = consumed[s]
                      /\ InitialWindow - recvWindows'[s] >= 0
                      /\ InitialWindow - recvWindows'[s] < InitialWindow \div 4
    BY <1>1 DEF WindowsInv
  <2>1. CASE s = n
    <3>1. sent[n] = 0 /\ credited[n] = 0 /\ consumed[n] = 0 /\ granted[n] = 0
      BY <1>2 DEF TablesInv
    <3> QED
      BY <2>1, <3>1, <1>2, <1>3, Quarter
  <2>2. CASE s # n
    BY <2>2, <1>1, <1>3, Numbers DEF WindowsInv
  <2> QED
    BY <2>1, <2>2
<1>7. SentWithinCredit' /\ GrantsFollowConsumption'
  BY <1>1 DEF SentWithinCredit, GrantsFollowConsumption
<1>8. CallersInv'
  <2>1. \A u \in Callers : sendSid[u] < nextStreamId => sendSid[u] < nextStreamId'
    BY <1>1, <1>2, CallerNumbers
  <2>2. \A s \in Sids : s < nextStreamId' /\ s # n => s < nextStreamId
    BY <1>1, <1>2, Numbers
  <2> QED
    BY <2>1, <2>2, <1>1, <1>3 DEF CallersInv
<1>9. NoStrandedWaiter'
  BY <1>1, <1>2, <1>3 DEF NoStrandedWaiter
<1>10. InPlaceInv'
  <2> SUFFICES ASSUME ~WaitForSpawnsTask, NEW u \in Callers
               PROVE  sendPc[u] # "arm" /\ (sendPc[u] = "wait" => Short(u)')
    BY <1>1 DEF InPlaceInv, NoMissedCredit
  <2>1. sendPc[u] = "wait" => sendSid[u] # n /\ sendSid[u] \in Sids
    BY <1>2, CallerNumbers DEF CallersInv
  <2>2. sendPc[u] = "wait" => SendWindow(sendSid[u])' = SendWindow(sendSid[u])
    BY <1>1, <1>3, <2>1 DEF SendWindow
  <2> QED
    BY <1>1, <2>2 DEF InPlaceInv, NoMissedCredit, Short, ChunkOf, SendWindow
<1> QED
  BY <1>4, <1>5, <1>6, <1>7, <1>8, <1>9, <1>10

\* A sender takes a chunk's bytes from the window only if they are there
\* (send_data).
LEMMA SendChunkInv ==
  ASSUME SMInv, NEW t \in Callers, NEW ok \in BOOLEAN, SendChunk(t, ok)
  PROVE  SMInv'
<1> DEFINE sid == sendSid[t]
           k == ChunkOf(t)
           w == sendWindows[sid] - k
           b == sent[sid] + k
           left == IF ok /\ sendLeft[t] > k THEN sendLeft[t] - k ELSE 0
           pc == IF ok /\ sendLeft[t] > k THEN "check" ELSE "idle"
<1> USE DEF SMInv
<1>1. /\ sendLeft[t] \in Nat /\ sendLeft[t] > 0
      /\ sid \in Sids /\ sid < nextStreamId
  BY DEF SendChunk, Testing, TypeOK, CallersInv
<1>2. k \in Nat /\ k > 0 /\ k <= sendLeft[t]
  BY <1>1, StreamManagerAssumption DEF ChunkOf
<1>3. sid \in known /\ k <= sendWindows[sid]
  <2>1. ~(SendWindow(sid) < k)
    BY DEF SendChunk, Short
  <2> HIDE DEF k
  <2> QED
    BY <2>1, <1>1, <1>2, Numbers DEF SendWindow
<1>4. /\ sendWindows' = [sendWindows EXCEPT ![sid] = w]
      /\ sent' = [sent EXCEPT ![sid] = b]
      /\ sendPc' = [sendPc EXCEPT ![t] = pc]
      /\ sendLeft' = [sendLeft EXCEPT ![t] = left]
      /\ outcome' = outcome \/ \E o \in Outcomes : outcome' = [outcome EXCEPT ![t] = o]
      /\ UNCHANGED <<nextStreamId, known, openStreams, recvQueues, recvWindows,
                     windowEvents, receivers, sendSid, credited, consumed, granted>>
  BY DEF SendChunk, EndSend, tableVars
<1>5. /\ w \in Nat /\ b \in Nat /\ left \in Nat
      /\ w <= sendWindows[sid] /\ b + w = sent[sid] + sendWindows[sid]
      /\ pc \in {"check", "idle"} /\ (pc # "idle" => left > 0)
  <2> HIDE DEF k
  <2> QED
    BY <1>1, <1>2, <1>3, Numbers
<1> HIDE DEF sid, k, w, b, left, pc
<1>6. \A s \in Sids : /\ sendWindows'[s] = IF s = sid THEN w ELSE sendWindows[s]
                      /\ sent'[s] = IF s = sid THEN b ELSE sent[s]
  BY <1>1, <1>4 DEF TypeOK
<1>7. \A u \in Callers : /\ sendPc'[u] = IF u = t THEN pc ELSE sendPc[u]
                         /\ sendLeft'[u] = IF u = t THEN left ELSE sendLeft[u]
  BY <1>4 DEF TypeOK
<1>8. TypeOK'
  <2>1. outcome' \in [Callers -> Outcomes]
    BY <1>4 DEF TypeOK
  <2> QED
    BY <1>1, <1>4, <1>5, <2>1 DEF TypeOK
<1>9. TablesInv'
  BY <1>1, <1>3, <1>4, <1>6, Numbers DEF TablesInv
<1>10. WindowsInv'
  <2> SUFFICES ASSUME NEW s \in known
               PROVE  /\ sent'[s] + sendWindows'[s] = InitialWindow + credited[s]
                      /\ granted[s] + (InitialWindow - recvWindows[s]) = consumed[s]
                      /\ InitialWindow - recvWindows[s] >= 0
                      /\ InitialWindow - recvWindows[s] < InitialWindow \div 4
    BY <1>4 DEF WindowsInv
  <2> QED
    BY <1>5, <1>6, Quarter, Numbers DEF WindowsInv
<1>11. SentWithinCredit' /\ GrantsFollowConsumption'
  <2>1. b <= InitialWindow + credited[sid]
    BY <1>1, <1>3, <1>5, Quarter, Numbers DEF WindowsInv
  <2> QED
    BY <2>1, <1>1, <1>4, <1>6 DEF SentWithinCredit, GrantsFollowConsumption
<1>12. CallersInv'
  BY <1>1, <1>4, <1>5, <1>7 DEF CallersInv, sid
<1>13. NoStrandedWaiter'
  BY <1>4, <1>5, <1>7 DEF NoStrandedWaiter
<1>14. InPlaceInv'
  <2> SUFFICES ASSUME ~WaitForSpawnsTask, NEW u \in Callers
               PROVE  sendPc'[u] # "arm" /\ (sendPc'[u] = "wait" => Short(u)')
    BY DEF InPlaceInv, NoMissedCredit
  <2>1. CASE u = t
    BY <2>1, <1>5, <1>7
  <2>2. CASE u # t
    <3>1. /\ sendPc'[u] = sendPc[u]
          /\ ChunkOf(u)' = ChunkOf(u) /\ ChunkOf(u) \in Int
      BY <2>2, <1>4, <1>7, CallerNumbers, StreamManagerAssumption DEF ChunkOf
    <3>2. sendWindows'[sendSid[u]] <= sendWindows[sendSid[u]]
      BY <1>5, <1>6, Numbers, CallerNumbers
    <3>3. sendWindows'[sendSid[u]] \in Int /\ sendWindows[sendSid[u]] \in Int
      BY <1>5, <1>6, Numbers, CallerNumbers
    <3>4. Short(u) => Short(u)'
      BY <3>1, <3>2, <3>3, <1>4 DEF Short, SendWindow
    <3> QED
      BY <3>1, <3>4 DEF InPlaceInv, NoMissedCredit
  <2> QED
    BY <2>1, <2>2
<1> QED
  BY <1>8, <1>9, <1>10, <1>11, <1>12, <1>13, <1>14

\* A reader takes a chunk, and grants the rest of the window back from a quarter
\* on (_recv_data_from_queue, _compute_window_grant).
LEMMA RecvChunkInv ==
  ASSUME SMInv, NEW s \in Sids, RecvChunk(s)
  PROVE  SMInv'
<1> DEFINE n == Head(recvQueues[s])
           c == consumed[s] + n
           g == granted[s] + GrantDue(s)
           w == InitialWindow - (Owed(s) - GrantDue(s))
<1> USE DEF SMInv
<1>1. n \in Nat /\ Tail(recvQueues[s]) \in Seq(Nat) /\ s \in known
  BY Queue DEF RecvChunk, HasItem, TypeOK
<1>2. Owed(s) \in Nat /\ Owed(s) = InitialWindow - recvWindows[s] + n
  <2> HIDE DEF n
  <2>1. Owed(s) = InitialWindow - (recvWindows[s] - n)
    BY DEF Owed, n
  <2> QED
    BY <2>1, <1>1, Quarter, Numbers DEF WindowsInv
<1>3. \/ GrantDue(s) = Owed(s)
      \/ GrantDue(s) = 0 /\ Owed(s) < InitialWindow \div 4
  BY <1>2, Quarter DEF GrantDue
<1>4. /\ recvQueues' = [recvQueues EXCEPT ![s] = Tail(recvQueues[s])]
      /\ receivers' = [receivers EXCEPT ![s] = "idle"]
      /\ consumed' = [consumed EXCEPT ![s] = c]
      /\ recvWindows' = [recvWindows EXCEPT ![s] = w]
      /\ granted' = [granted EXCEPT ![s] = g]
      /\ UNCHANGED <<nextStreamId, known, openStreams, sendWindows, windowEvents,
                     sendPc, sendSid, sendLeft, outcome, sent, credited>>
  BY DEF RecvChunk, tableVars, senderVars
<1>5. /\ c \in Nat /\ g \in Nat /\ w \in Int
      /\ g + (InitialWindow - w) = c
      /\ InitialWindow - w >= 0 /\ InitialWindow - w < InitialWindow \div 4
  <2> HIDE DEF n
  <2>1. /\ granted[s] + (InitialWindow - recvWindows[s]) = consumed[s]
        /\ recvWindows[s] \in Int /\ granted[s] \in Nat /\ consumed[s] \in Nat
    BY <1>1, Numbers DEF WindowsInv
  <2>2. /\ GrantDue(s) \in Nat
        /\ Owed(s) - GrantDue(s) \in Nat
        /\ Owed(s) - GrantDue(s) < InitialWindow \div 4
    BY <1>2, <1>3, Quarter
  <2>3. c \in Nat /\ g \in Nat /\ w \in Int
    <3>1. c \in Nat
      BY <2>1, <1>1
    <3>2. g \in Nat
      BY <2>1, <2>2
    <3>3. w \in Int
      BY <2>2, Quarter
    <3> QED
      BY <3>1, <3>2, <3>3
  <2>4. InitialWindow - w = Owed(s) - GrantDue(s)
    BY <2>2, <1>2, Quarter
  <2>5. g + (InitialWindow - w) = c
    <3>1. g + (InitialWindow - w) = granted[s] + Owed(s)
      BY <2>4, <2>1, <2>2, <1>2
    <3>2. granted[s] + Owed(s) = c
      BY <2>1, <1>1, <1>2, Quarter
    <3> QED
      BY <3>1, <3>2
  <2> QED
    BY <2>2, <2>3, <2>4, <2>5, Quarter
<1> HIDE DEF n, c, g, w
<1>6. \A r \in Sids : /\ consumed'[r] = IF r = s THEN c ELSE consumed[r]
                      /\ granted'[r] = IF r = s THEN g ELSE granted[r]
                      /\ recvWindows'[r] = IF r = s THEN w ELSE recvWindows[r]
  BY <1>4 DEF TypeOK
<1>7. TypeOK'
  BY <1>1, <1>4, <1>5 DEF TypeOK
<1>8. TablesInv'
  BY <1>1, <1>4, <1>6, Numbers DEF TablesInv
<1>9. WindowsInv'
  <2> SUFFICES ASSUME NEW r \in known
               PROVE  /\ sent[r] + sendWindows[r] = InitialWindow + credited[r]
                      /\ granted'[r] + (InitialWindow - recvWindows'[r]) = consumed'[r]
                      /\ InitialWindow - recvWindows'[r] >= 0
                      /\ InitialWindow - recvWindows'[r] < InitialWindow \div 4
    BY <1>4 DEF WindowsInv
  <2> QED
    BY <1>5, <1>6, Numbers DEF WindowsInv
<1>10. SentWithinCredit' /\ GrantsFollowConsumption'
  <2>1. g <= c /\ c - g < InitialWindow \div 4
    BY <1>5, Quarter
  <2> QED
    BY <2>1, <1>4, <1>6 DEF SentWithinCredit, GrantsFollowConsumption
<1>11. CallersInv'
  BY <1>4 DEF CallersInv
<1>12. NoStrandedWaiter'
  BY <1>1, <1>4 DEF NoStrandedWaiter, TypeOK
<1>13. InPlaceInv'
  BY <1>4 DEF InPlaceInv, NoMissedCredit, Short, SendWindow, ChunkOf
<1> QED
  BY <1>7, <1>8, <1>9, <1>10, <1>11, <1>12, <1>13

-----------------------------------------------------------------------------
\* A frame of any type (_dispatch_frame).
LEMMA DispatchFrameInv ==
  ASSUME SMInv, NEW f \in Frame, DispatchFrame(f)
  PROVE  SMInv'
<1>1. CASE DispatchIgnored(f)
  BY <1>1 DEF DispatchIgnored, smVars, SMInv, TypeOK, TablesInv, WindowsInv,
     SentWithinCredit, GrantsFollowConsumption, CallersInv, NoStrandedWaiter,
     InPlaceInv, NoMissedCredit, Short, SendWindow, ChunkOf
<1> QED
  BY <1>1, DispatchDataInv, DispatchWindowInv, DispatchCloseInv DEF DispatchFrame

\* A step of a caller of send_data.
LEMMA SenderStepInv ==
  ASSUME SMInv, NEW t \in Callers, SenderStep(t)
  PROVE  SMInv'
BY SenderBlocksInv, SenderRegistersInv, SenderFindsClosedInv, SenderTimesOutInv,
   SendChunkInv DEF SenderStep

\* SMInv is inductive.
LEMMA NextInv == SMInv /\ [SMNext]_smVars => SMInv'
<1> SUFFICES ASSUME SMInv, [SMNext]_smVars
             PROVE  SMInv'
  OBVIOUS
<1>1. CASE AllocStream
  BY <1>1, AllocStreamInv
<1>2. CASE ClearStreams
  BY <1>2, ClearStreamsInv
<1>3. ASSUME NEW s \in Sids, RemoveStream(s) \/ DiscardOpen(s) \/ EndStream(s)
      PROVE  SMInv'
  BY <1>3, RemoveStreamInv, DiscardOpenInv, EndStreamInv
<1>4. ASSUME NEW f \in Frame, DispatchFrame(f)
      PROVE  SMInv'
  BY <1>4, DispatchFrameInv
<1>5. ASSUME NEW t \in Callers, NEW s \in Sids, NEW n \in MessageSizes,
             BeginSend(t, s, n)
      PROVE  SMInv'
  BY <1>5, BeginSendInv
<1>6. ASSUME NEW t \in Callers, SenderStep(t)
      PROVE  SMInv'
  BY <1>6, SenderStepInv
<1>7. ASSUME NEW s \in Sids, RecvWaits(s) \/ RecvEof(s) \/ RecvChunk(s) \/ RecvGone(s)
      PROVE  SMInv'
  BY <1>7, RecvWaitsInv, RecvEofInv, RecvChunkInv, RecvGoneInv
<1>8. CASE UNCHANGED smVars
  BY <1>8 DEF smVars, SMInv, TypeOK, TablesInv, WindowsInv, SentWithinCredit,
     GrantsFollowConsumption, CallersInv, NoStrandedWaiter, InPlaceInv,
     NoMissedCredit, Short, SendWindow, ChunkOf
<1> QED
  BY <1>1, <1>2, <1>3, <1>4, <1>5, <1>6, <1>7, <1>8 DEF SMNext

\* The inductive invariant holds throughout.
THEOREM StreamInvariant == SMSpec => []SMInv
BY InitInv, NextInv, PTL DEF SMSpec

\* Every table and counter of StreamManager keeps its type; the send window,
\* a Python int, never goes below zero.
THEOREM TypeCorrect == SMSpec => []TypeOK
<1>1. SMInv => TypeOK
  BY DEF SMInv
<1> QED
  BY <1>1, StreamInvariant, PTL

\* send_data never takes more from a stream's window than the initial window
\* and the relay's credit, however many callers share the stream.
THEOREM SendsWithinCredit == SMSpec => []SentWithinCredit
<1>1. SMInv => SentWithinCredit
  BY DEF SMInv
<1> QED
  BY <1>1, StreamInvariant, PTL

\* recv_data grants the relay no byte twice and withholds less than a quarter
\* of the window.
THEOREM GrantsConsumption == SMSpec => []GrantsFollowConsumption
<1>1. SMInv => GrantsFollowConsumption
  BY DEF SMInv
<1> QED
  BY <1>1, StreamInvariant, PTL

\* _clear_streams and _remove_stream leave no task waiting on a dropped object.
THEOREM NobodyStranded == SMSpec => []NoStrandedWaiter
<1>1. SMInv => NoStrandedWaiter
  BY DEF SMInv
<1> QED
  BY <1>1, StreamInvariant, PTL

\* Where wait_for runs its argument in place (Python 3.12), no sender sleeps
\* through credit that is enough for its chunk.
THEOREM CreditWakesSenders ==
  ASSUME ~WaitForSpawnsTask
  PROVE  SMSpec => []NoMissedCredit
<1>1. SMInv => NoMissedCredit
  BY DEF SMInv, InPlaceInv
<1> QED
  BY <1>1, StreamInvariant, PTL
=============================================================================
