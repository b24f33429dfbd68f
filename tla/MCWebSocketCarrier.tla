------------------------ MODULE MCWebSocketCarrier ------------------------
(***************************************************************************)
(* WebSocketCarrier on small instances.  The bounds restrict the user, the *)
(* relay and the network only; the carrier's own steps are never cut off.  *)
(***************************************************************************)
EXTENDS WebSocketFlow, Functions, FiniteSets, TLC

CONSTANTS
  MaxOpened,      \* streams opened
  MaxUpBytes,     \* bytes of a stream given to send_data
  MaxDownBytes,   \* bytes of a stream sent by the relay
  MaxOdd,         \* PING, PONG and faulty frames in flight
  MaxUses,        \* how many of sending, receiving and odd frames at a time
  MayBye,         \* may the relay send BYE?
  MayLose,        \* may the socket be lost?
  Disconnects     \* when the user may call disconnect: "never"; "any"; once
                  \* connect has returned ("connected"); then, but not in a
                  \* run with a BYE ("unless BYE")

CountFrames(frames, type) == Len(SelectSeq(frames, LAMBDA f : f.type = type))

\* The frames the code does not expect: an empty DATA, a zero WINDOW.
Faulty == Len(SelectSeq(down, LAMBDA f : f.type \in {"DATA", "WINDOW"} /\ f.n = 0))

\* Bytes of s that send_data has sent or still has to send.
Asked(s) == FoldFunctionOnSet(+, sent[s], sendLeft, {t \in Callers : sendSid[t] = s})
SentDown(s) == consumed[s] + Total(recvQueues[s]) + Amount(down, "DATA", s)

Odd == CountFrames(down, "PING") + CountFrames(up, "PONG") + Faulty

Uses == {u \in {"send", "receive", "odd"} :
           \/ u = "send" /\ \E s \in Sids : Asked(s) > 0
           \/ u = "receive" /\ \E s \in Sids : SentDown(s) > 0
           \/ u = "odd" /\ Odd > 0}

InBounds ==
  /\ Cardinality(Uses) <= MaxUses
  /\ nextStreamId <= MaxOpened + 1
  /\ \A s \in Sids : Asked(s) <= MaxUpBytes /\ SentDown(s) <= MaxDownBytes
  /\ Odd <= MaxOdd
  /\ ~byeSent \/ MayBye
  /\ socket = "broken" => MayLose \/ http = "closed"
  /\ \/ disc["user"] # "called"
     \/ Disconnects = "any"
     \/ Disconnects \in {"connected", "unless BYE"} /\ connectPc \in {"returned", "failed"}
  /\ Disconnects = "unless BYE" => ~byeSent \/ disc["user"] = "idle"

\* An empty frame is sent only while no end of stream is queued.
FaultyInBounds ==
  Faulty' > Faulty =>
    \A s \in Sids : \A i \in DOMAIN recvQueues[s] : recvQueues[s][i] # Eof

MCSpec == Init /\ [][Next /\ InBounds' /\ FaultyInBounds]_vars
MCFairSpec == MCSpec /\ Fairness
=============================================================================
