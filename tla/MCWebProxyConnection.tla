------------------------ MODULE MCWebProxyConnection ------------------------
(***************************************************************************)
(* WebProxyConnection on small instances.  The bounds restrict the calls   *)
(* of send() and the packets of the relay; errors stay free, for fairness  *)
(* has the loops read them.                                                *)
(***************************************************************************)
EXTENDS WebProxyConnection

CONSTANTS
  MaxOut,      \* packets given to send()
  MaxIn,       \* items the receive loops have read when the relay stops
  MaxItems     \* of both kinds together

MoreOut == sends' # sends
MoreIn == nextIn' # nextIn /\ \A l \in Loops : ~RecvLoopReads(l, "error")

InBounds ==
  /\ MoreOut => sends < MaxOut
  /\ MoreIn => nextIn <= MaxIn
  /\ MoreOut \/ MoreIn => sends + nextIn < MaxItems + 1

MCSpec == Init /\ [][Next /\ InBounds]_vars
MCFairSpec == MCSpec /\ Fairness
=============================================================================
