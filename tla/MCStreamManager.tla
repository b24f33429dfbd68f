-------------------------- MODULE MCStreamManager --------------------------
(***************************************************************************)
(* StreamManager under any calls and any frames, up to bounds on the       *)
(* streams opened, the bytes of a stream and the length of its queue.      *)
(***************************************************************************)
EXTENDS StreamManager, TLC

CONSTANTS MaxOpened, MaxSent, MaxCredited, MaxConsumed, MaxQueue

InBounds ==
  /\ nextStreamId <= MaxOpened + 1
  /\ \A s \in Sids : /\ sent[s] <= MaxSent
                     /\ credited[s] <= MaxCredited
                     /\ consumed[s] <= MaxConsumed
  \* Room for the end of a stream, and for the end that a teardown queues.
  /\ \A s \in known : Len(recvQueues[s]) <= MaxQueue + IF s \in openStreams THEN 0 ELSE 1

MCSpec == SMInit /\ [][SMNext /\ InBounds']_smVars

\* Callers are interchangeable; no liveness is checked here.
CallerSymmetry == Permutations(Callers)
=============================================================================
