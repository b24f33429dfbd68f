--------------------------- MODULE MCLanesCarrier ---------------------------
(***************************************************************************)
(* LanesCarrier on small instances.  The bounds restrict the callers and   *)
(* the relay only; the carrier's own steps are never cut off.              *)
(***************************************************************************)
EXTENDS LanesCarrier, FiniteSets, Functions

CONSTANTS
  MaxOpened,    \* streams opened, and one more once they have all failed to open
  MaxHeard,     \* messages of all lanes together
  Busy,         \* the streams that are used: sent on, received on and closed
  MaxBytes,     \* bytes of a stream given to send_data
  First         \* the name in Closings of a close_stream that is alone

\* Bytes of s that send_data has sent or still has to send.
Asked(s) == FoldFunctionOnSet(+, sent[s], sendLeft, {t \in Callers : sendSid[t] = s})

\* A caller sends while there is one stream less than there may be.
Used == {s \in Busy : Asked(s) > 0}
Heard == FoldFunction(+, 0, heard)

Outstanding(c) == \E s \in Sids : closing[c][s] # "idle"

InBounds ==
  /\ \/ nextStreamId <= MaxOpened + (IF Used = {} THEN 1 ELSE 0)
     \/ nextStreamId = MaxOpened + 2 /\ \A s \in 1 .. MaxOpened : laneWs[s] = "none"
  /\ Heard <= MaxHeard
  \* Two calls of close_stream at a time are enough where there is nothing else.
  /\ Cardinality({c \in Closings : Outstanding(c)}) > 1 =>
       nextStreamId = 2 /\ Used = {} /\ Heard = 0
  /\ \A s \in Busy : Asked(s) <= MaxBytes
  /\ \A t \in Callers : sendPc[t] # "idle" => sendSid[t] \in Busy
  /\ \A s \in Sids \ Busy : /\ receivers[s] = "idle"
                             /\ \A c \in Closings : closing[c][s] = "idle"
  /\ disc["user"] = "idle" \/ connectPc \in {"returned", "failed"}

\* Another name is taken for a call only while First is outstanding.
FirstComesFirst ==
  \A c \in Closings \ {First} :
    ~Outstanding(c) /\ Outstanding(c)' => \E s \in Sids : closing[First][s] # "idle"

MCSpec == Init /\ [][Next /\ InBounds' /\ FirstComesFirst]_vars
MCFairSpec == MCSpec /\ Fairness
=============================================================================
