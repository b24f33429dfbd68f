--------------------------- MODULE MCHttpsCarrier ---------------------------
(***************************************************************************)
(* HttpsCarrier on small instances.  The bounds restrict the callers, the  *)
(* relay and the user only; the carrier's own steps are never cut off.     *)
(***************************************************************************)
EXTENDS HttpsCarrier

CONSTANTS
  MaxCalls,     \* calls of the senders
  MaxDown,      \* frames from the relay; one fewer in a run with calls
  Sends,        \* the kinds among them
  Disconnects   \* when the user may call disconnect: "never"; "any"; or once
                \* connect has returned and not in a run with a BYE ("unless BYE")

Sent == {downLog[i] : i \in DOMAIN downLog}

Pings == {i \in DOMAIN seen : downLog[seen[i]] = "PING"}

OwnCalls == nextFrame - 1 - Cardinality(Pings)

InBounds ==
  /\ OwnCalls <= MaxCalls
  /\ Len(downLog) <= MaxDown - (IF OwnCalls > 0 THEN 1 ELSE 0)
  /\ Sent \subseteq Sends
  /\ \/ disc["user"] = "idle"
     \/ Disconnects = "any"
     \/ /\ Disconnects = "unless BYE"
        /\ connectPc \in {"returned", "failed"}
        /\ "BYE" \notin Sent

MCSpec == Init /\ [][Next /\ InBounds']_vars
MCFairSpec == MCSpec /\ Fairness
=============================================================================
