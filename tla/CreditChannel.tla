--------------------------- MODULE CreditChannel ---------------------------
(***************************************************************************)
(* What one direction of one stream promises: a channel with credit-based  *)
(* flow control.  The four counters say where the bytes of the window are: *)
(* with the producer as credit, on the way to the consumer, held by the    *)
(* consumer, or on the way back as credit.  Carriers implement it twice    *)
(* per stream, once in each direction (see WebSocketFlow).                 *)
(***************************************************************************)
EXTENDS Integers

CONSTANT Window     \* protocol.py INITIAL_WINDOW, per direction per stream

VARIABLES credit, inTransit, held, returning

vars == <<credit, inTransit, held, returning>>

Init ==
  /\ credit = Window
  /\ inTransit = 0
  /\ held = 0
  /\ returning = 0

\* The producer sends n bytes it has credit for.
Send(n) ==
  /\ n <= credit
  /\ credit' = credit - n
  /\ inTransit' = inTransit + n
  /\ UNCHANGED <<held, returning>>

Arrive(n) ==
  /\ n <= inTransit
  /\ inTransit' = inTransit - n
  /\ held' = held + n
  /\ UNCHANGED <<credit, returning>>

\* The consumer gives back credit for bytes it is done with.
Grant(n) ==
  /\ n <= held
  /\ held' = held - n
  /\ returning' = returning + n
  /\ UNCHANGED <<credit, inTransit>>

Return(n) ==
  /\ n <= returning
  /\ returning' = returning - n
  /\ credit' = credit + n
  /\ UNCHANGED <<inTransit, held>>

\* Closing the stream or losing the transport: bytes and credit disappear,
\* they are never made up for.
Lose ==
  /\ credit' \in 0 .. credit
  /\ inTransit' \in 0 .. inTransit
  /\ held' \in 0 .. held
  /\ returning' \in 0 .. returning

Next ==
  \/ \E n \in 1 .. Window : Send(n) \/ Arrive(n) \/ Grant(n) \/ Return(n)
  \/ Lose

Spec == Init /\ [][Next]_vars

-----------------------------------------------------------------------------
TypeOK ==
  /\ credit \in Nat
  /\ inTransit \in Nat
  /\ held \in Nat
  /\ returning \in Nat

\* No byte of the window exists twice.
Conserved == credit + inTransit + held + returning <= Window

\* The consumer never has to hold more than the window, and the producer is
\* never allowed more than the window, even counting what is still under way
\* to either of them.
NeverOverrun == held + inTransit <= Window /\ credit + returning <= Window
=============================================================================
