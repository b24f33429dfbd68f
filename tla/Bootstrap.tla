------------------------------ MODULE Bootstrap ------------------------------
(***************************************************************************)
(* The HTTPS bootstrap of every carrier (carrier_base.py,                  *)
(* bootstrap_session): GET the bridge page, then POST the session, each in *)
(* a loop that retries while the relay is busy or the network fails, both  *)
(* against one deadline that is looked at before an attempt only.          *)
(*                                                                         *)
(* Time passes in Tick.  The relay and the network are external: a request *)
(* is answered, fails or times out; from some time on the relay may be     *)
(* ready, and then answers every request well, in AnswerTime.              *)
(***************************************************************************)
EXTENDS Integers

CONSTANTS
  Budget,            \* what deadline adds to the time of the call
  RequestTimeout,    \* of the HTTP session
  AnswerTime,        \* in which a relay that is ready answers
  MaxRetryAfter,     \* the largest Retry-After of the relay
  ErrorWait,         \* the wait after a request has failed, without the jitter
  Jitter             \* the most that is added to a wait

ASSUME BootstrapAssumption ==
  /\ {Budget, ErrorWait} \subseteq Nat \ {0}
  /\ {RequestTimeout, AnswerTime, MaxRetryAfter, Jitter} \subseteq Nat
  /\ AnswerTime < RequestTimeout
  /\ ErrorWait <= MaxRetryAfter

MaxWait == MaxRetryAfter + Jitter

VARIABLES
  now,
  deadline,
  phase,      \* "page" until the bootstrap token is known, then "session"
  pc,         \* at the loop's test, in a request, or asleep
  due,        \* when the request times out, or the sleep ends
  outcome,    \* how the call has ended
  created,    \* sessions the relay has created
  ready,      \* is the relay ready,
  readyAt     \* since when

clientVars == <<deadline, phase, pc, due, outcome>>
vars == <<now, clientVars, created, ready, readyAt>>

TypeOK ==
  /\ {now, due, created, readyAt} \subseteq Nat
  /\ deadline \in Nat
  /\ phase \in {"page", "session"}
  /\ pc \in {"test", "request", "sleep"}
  /\ outcome \in {"running", "session", "refused", "late", "cancelled"}
  /\ ready \in BOOLEAN

Init ==
  /\ now = 0 /\ deadline = Budget
  /\ phase = "page" /\ pc = "test" /\ due = 0
  /\ outcome = "running"
  /\ created = 0
  /\ ready = FALSE /\ readyAt = 0

-----------------------------------------------------------------------------
(* Steps of bootstrap_session. *)

At(p) == outcome = "running" /\ pc = p

Stays == UNCHANGED <<now, deadline, ready, readyAt>>

\* Mutant: the deadline is tested too early.
TimeUp_Early == now + MaxWait >= deadline

TimeUp == now >= deadline

Attempt ==
  /\ At("test") /\ ~TimeUp
  /\ pc' = "request"
  /\ due' = now + RequestTimeout
  /\ Stays /\ UNCHANGED <<phase, outcome, created>>

Sleeps(w) == pc' = "sleep" /\ due' = now + w

\* Mutant: a loop whose time is up goes on.
GivesUp_GoesOn ==
  /\ At("test") /\ TimeUp
  /\ Sleeps(0)
  /\ Stays /\ UNCHANGED <<phase, outcome, created>>

GivesUp ==
  /\ At("test") /\ TimeUp
  /\ outcome' = "late"
  /\ Stays /\ UNCHANGED <<phase, pc, due, created>>

Wakes ==
  /\ At("sleep") /\ now >= due
  /\ pc' = "test"
  /\ Stays /\ UNCHANGED <<phase, due, outcome, created>>

\* A POST that is refused, fails or is cancelled may have created its session.
MayCreate == created' \in created .. created + IF phase = "session" THEN 1 ELSE 0

\* Mutant: a negative Retry-After sets the timer back.
Busy_Negative ==
  /\ At("request") /\ ~ready
  /\ \E w \in -1 .. MaxWait : Sleeps(w)
  /\ Stays /\ UNCHANGED <<phase, outcome, created>>

\* 503 or 429: the wait is the relay's Retry-After, which is not cut off at the
\* deadline (and a negative one is no wait).  By this answer the relay says that it
\* has created no session; that it keeps to it is assumed of it (external).
Busy ==
  /\ At("request") /\ ~ready
  /\ \E w \in 0 .. MaxWait : Sleeps(w)
  /\ Stays /\ UNCHANGED <<phase, outcome, created>>

\* Another status, a page without a token, an answer that is no WELCOME.
Refused ==
  /\ At("request") /\ ~ready
  /\ outcome' = "refused"
  /\ MayCreate
  /\ Stays /\ UNCHANGED <<phase, pc, due>>

\* Mutant: each loop has a deadline of its own.
PageAccepted_NewDeadline ==
  /\ At("request") /\ phase = "page"
  /\ phase' = "session" /\ pc' = "test"
  /\ deadline' = now + Budget
  /\ UNCHANGED <<now, ready, readyAt, due, outcome, created>>

PageAccepted ==
  /\ At("request") /\ phase = "page"
  /\ phase' = "session" /\ pc' = "test"
  /\ Stays /\ UNCHANGED <<due, outcome, created>>

SessionAccepted ==
  /\ At("request") /\ phase = "session"
  /\ created' = created + 1
  /\ outcome' = "session"
  /\ Stays /\ UNCHANGED <<phase, pc, due>>

\* Mutant: a request that failed is repeated at once.
RequestFails_NoWait ==
  /\ At("request")
  /\ ~ready \/ now = due
  /\ Sleeps(0)
  /\ MayCreate
  /\ Stays /\ UNCHANGED <<phase, outcome>>

\* The connection fails, or the request times out: while the relay is ready,
\* only one that was sent before.
RequestFails ==
  /\ At("request")
  /\ ~ready \/ now = due
  /\ \E w \in ErrorWait .. ErrorWait + Jitter : Sleeps(w)
  /\ MayCreate
  /\ Stays /\ UNCHANGED <<phase, outcome>>

\* The caller's wait_for, or the caller, cancels the call.
Cancelled ==
  /\ At("request") \/ At("sleep")
  /\ outcome' = "cancelled"
  /\ IF pc = "request" THEN MayCreate ELSE UNCHANGED created
  /\ Stays /\ UNCHANGED <<phase, pc, due>>

-----------------------------------------------------------------------------
(* Time, and the relay (external). *)

Started == due - RequestTimeout
Answers == (IF Started < readyAt THEN readyAt ELSE Started) + AnswerTime

Tick ==
  /\ At("request") \/ At("sleep")
  /\ now < due
  /\ pc = "request" /\ ready => now < Answers
  /\ now' = now + 1
  /\ UNCHANGED <<clientVars, created, ready, readyAt>>

GetsReady ==
  /\ outcome = "running" /\ ~ready
  /\ ready' = TRUE /\ readyAt' = now
  /\ UNCHANGED <<now, clientVars, created>>

Accepted == PageAccepted \/ SessionAccepted

Next ==
  \/ Attempt \/ GivesUp \/ Wakes
  \/ Busy \/ Refused \/ Accepted \/ RequestFails \/ Cancelled
  \/ Tick \/ GetsReady

Spec == Init /\ [][Next]_vars

\* The event loop runs; time goes on, however fast a busy relay answers; and
\* the HTTP session times requests out.
Fairness ==
  /\ WF_vars(Attempt \/ GivesUp \/ Wakes)
  /\ WF_vars(RequestFails /\ now = due)
  /\ WF_vars(ready /\ Accepted)
  /\ SF_vars(Tick)

FairSpec == Spec /\ Fairness

-----------------------------------------------------------------------------
(* Properties. *)

\* The call ends at most one request and one wait after the deadline, through
\* both loops (bootstrap_session, deadline): the last attempt may begin just
\* before it, and the wait that follows is not cut off.
OverrunBounded == now < Budget + RequestTimeout + MaxWait

\* A relay that gets ready early enough before the deadline, by one wait, the
\* answer that wait was for and the page, is not given up: no loop sleeps or
\* gives up through the time in which it would be served (bootstrap_session).
PatientEnough ==
  outcome = "late" /\ ready => readyAt + 2 * AnswerTime + MaxWait >= Budget

\* The sessions that a relay creates for one call, of which at most one is ever
\* used or deleted, are no more than the waits after failures that fit into the
\* budget, and one (bootstrap_session repeats a POST that may have succeeded),
\* provided that the relay creates none that it answers with 503 or 429.
SessionsBounded == created * ErrorWait < Budget + ErrorWait

\* The call ends, whatever the relay and the network do (bootstrap_session).
Ends == <>(outcome # "running")
=============================================================================
