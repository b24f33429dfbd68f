--------------------------- MODULE BootstrapProofs ---------------------------
(***************************************************************************)
(* Theorems about Bootstrap, for every budget, time-out and wait.          *)
(***************************************************************************)
EXTENDS Bootstrap, TLAPS

\* The latest time of a loop's test, for the budget and for a relay that is
\* ready.
Latest == Budget + RequestTimeout + MaxWait
Served == readyAt + AnswerTime + MaxWait

\* The timers: a request began before the deadline and runs no longer than its
\* time-out; a wait was begun by one that did.
Timers ==
  /\ deadline = Budget
  /\ now < Latest
  /\ At("request") => now <= due /\ Started \in Nat /\ Started <= now /\ Started < Budget
  /\ At("sleep") => now <= due /\ due <= now + MaxWait /\ due < Latest

\* Each session of the relay that the call does not have has cost a wait.
Cost ==
  /\ SessionsBounded
  /\ At("test") => created * ErrorWait <= now
  /\ At("request") => created * ErrorWait <= Started
  /\ At("sleep") => created * ErrorWait <= due

\* A ready relay is asked again in time.
ServedInTime ==
  /\ readyAt <= now
  /\ At("request") => now <= Answers
  /\ At("sleep") => due <= Served
  /\ phase = "page" /\ At("test") => now <= Served
  /\ phase = "page" /\ At("request") => Started <= Served
  /\ phase = "session" /\ At("test") => now <= Served + AnswerTime

Inv == TypeOK /\ Timers /\ Cost /\ (ready => ServedInTime) /\ PatientEnough

-----------------------------------------------------------------------------

\* One more session costs one more wait.
LEMMA OneMore ==
  ASSUME NEW n \in Nat, NEW w \in Nat
  PROVE  /\ n * w \in Nat
         /\ (n + 1) * w = n * w + w
  OBVIOUS

\* Inv holds initially.
LEMMA InitInv == Init => Inv
<1> SUFFICES ASSUME Init PROVE Inv
  OBVIOUS
<1> USE BootstrapAssumption DEF Init, MaxWait, Latest
<1>1. created * ErrorWait = 0
  BY OneMore
<1>2. TypeOK
  <2>1. Budget \in Nat /\ {0, 0, 0, 0} \subseteq Nat
    OBVIOUS
  <2> QED
    BY <2>1 DEF TypeOK
<1>3. Timers
  BY DEF Timers, At
<1>4. Cost
  BY <1>1 DEF Cost, SessionsBounded, At
<1> QED
  BY <1>2, <1>3, <1>4 DEF Inv, PatientEnough

\* Every step keeps Inv.
LEMMA NextInv == Inv /\ [Next]_vars => Inv'
<1> SUFFICES ASSUME Inv, [Next]_vars PROVE Inv'
  OBVIOUS
<1> USE BootstrapAssumption
<1>0. /\ created * ErrorWait \in Nat
      /\ (created + 1) * ErrorWait = created * ErrorWait + ErrorWait
  BY OneMore DEF Inv, TypeOK
<1>1. CASE Attempt
  <2> USE <1>1 DEF Attempt, Stays, At
  <2>1. TypeOK'
    BY DEF Inv, TypeOK
  <2>2. Timers' /\ Started' = now
    BY DEF Inv, TypeOK, Timers, TimeUp, Started, Latest, MaxWait
  <2>3. Cost'
    BY <2>2, <1>0 DEF Inv, Cost, SessionsBounded
  <2>4. (ready => ServedInTime)'
    BY <2>2 DEF Inv, TypeOK, ServedInTime, Answers, Served, Started
  <2> QED
    BY <2>1, <2>2, <2>3, <2>4 DEF Inv, PatientEnough
<1>2. CASE GivesUp
  <2> USE <1>2 DEF GivesUp, Stays, At
  <2>1. TypeOK'
    BY DEF Inv, TypeOK
  <2>2. Timers'
    BY DEF Inv, Timers
  <2>3. Cost'
    BY DEF Inv, Cost, SessionsBounded
  <2>4. (ready => ServedInTime)'
    BY DEF Inv, ServedInTime
  <2>5. PatientEnough'
    BY DEF Inv, TypeOK, Timers, TimeUp, PatientEnough, ServedInTime, Served, MaxWait
  <2> QED
    BY <2>1, <2>2, <2>3, <2>4, <2>5 DEF Inv
<1>3. CASE Wakes
  <2> USE <1>3 DEF Wakes, Stays, At
  <2>1. TypeOK'
    BY DEF Inv, TypeOK
  <2>2. Timers' /\ now = due
    BY DEF Inv, TypeOK, Timers
  <2>3. Cost'
    BY <2>2, <1>0 DEF Inv, Cost, SessionsBounded
  <2>4. (ready => ServedInTime)'
    BY <2>2 DEF Inv, TypeOK, ServedInTime, Served, MaxWait
  <2> QED
    BY <2>1, <2>2, <2>3, <2>4 DEF Inv, PatientEnough
<1>4. CASE Busy
  <2> USE <1>4 DEF Busy, Stays, Sleeps, At
  <2>0. PICK w \in 0 .. MaxWait : due' = now + w /\ pc' = "sleep"
    OBVIOUS
  <2>1. TypeOK'
    BY <2>0 DEF Inv, TypeOK, MaxWait
  <2>2. Timers'
    BY <2>0 DEF Inv, TypeOK, Timers, Started, Latest, MaxWait
  <2>3. Cost'
    BY <2>0, <1>0 DEF Inv, TypeOK, Cost, Timers, SessionsBounded, MaxWait
  <2> QED
    BY <2>1, <2>2, <2>3 DEF Inv, PatientEnough
<1>5. CASE Refused
  <2> USE <1>5 DEF Refused, Stays, At, MayCreate
  <2>1. TypeOK'
    BY DEF Inv, TypeOK
  <2>2. Timers'
    BY DEF Inv, Timers
  <2>3. Cost'
    BY <1>0 DEF Inv, TypeOK, Cost, Timers, SessionsBounded
  <2> QED
    BY <2>1, <2>2, <2>3 DEF Inv, PatientEnough
<1>6. CASE PageAccepted
  <2> USE <1>6 DEF PageAccepted, Stays, At
  <2>1. TypeOK'
    BY DEF Inv, TypeOK
  <2>2. Timers'
    BY DEF Inv, Timers
  <2>3. Cost'
    BY <1>0 DEF Inv, TypeOK, Cost, Timers, SessionsBounded
  <2>4. (ready => ServedInTime)'
    BY DEF Inv, TypeOK, Timers, ServedInTime, Answers, Served, MaxWait
  <2> QED
    BY <2>1, <2>2, <2>3, <2>4 DEF Inv, PatientEnough
<1>7. CASE SessionAccepted
  <2> USE <1>7 DEF SessionAccepted, Stays, At
  <2>1. TypeOK'
    BY DEF Inv, TypeOK
  <2>2. Timers'
    BY DEF Inv, Timers
  <2>3. Cost'
    BY <1>0 DEF Inv, TypeOK, Cost, Timers, SessionsBounded
  <2>4. (ready => ServedInTime)'
    BY DEF Inv, ServedInTime
  <2> QED
    BY <2>1, <2>2, <2>3, <2>4 DEF Inv, PatientEnough
<1>8. CASE RequestFails
  <2> USE <1>8 DEF RequestFails, Stays, Sleeps, At, MayCreate
  <2>0. PICK w \in ErrorWait .. ErrorWait + Jitter : due' = now + w /\ pc' = "sleep"
    OBVIOUS
  <2>1. TypeOK'
    BY <2>0 DEF Inv, TypeOK
  <2>2. Timers'
    BY <2>0 DEF Inv, TypeOK, Timers, Started, Latest, MaxWait
  <2>3. Cost'
    BY <2>0, <1>0 DEF Inv, TypeOK, Cost, Timers, SessionsBounded
  <2>4. (ready => ServedInTime)'
    BY <2>0 DEF Inv, TypeOK, Timers, ServedInTime, Answers, Started, Served, MaxWait
  <2> QED
    BY <2>1, <2>2, <2>3, <2>4 DEF Inv, PatientEnough
<1>9. CASE Cancelled
  <2> USE <1>9 DEF Cancelled, Stays, At, MayCreate
  <2>1. TypeOK'
    BY DEF Inv, TypeOK
  <2>2. Timers'
    BY DEF Inv, Timers
  <2>3. Cost'
    BY <1>0 DEF Inv, TypeOK, Cost, Timers, SessionsBounded
  <2>4. (ready => ServedInTime)'
    BY DEF Inv, ServedInTime
  <2> QED
    BY <2>1, <2>2, <2>3, <2>4 DEF Inv, PatientEnough
<1>10. CASE Tick
  <2> USE <1>10 DEF Tick, clientVars
  <2>1. TypeOK'
    BY DEF Inv, TypeOK
  <2>2. Timers'
    BY DEF Inv, TypeOK, Timers, Started, Latest, MaxWait, At
  <2>3. Cost'
    BY DEF Inv, Cost, SessionsBounded, At, Started
  <2>4. (ready => ServedInTime)'
    BY DEF Inv, TypeOK, ServedInTime, Answers, Started, Served, At
  <2> QED
    BY <2>1, <2>2, <2>3, <2>4 DEF Inv, PatientEnough
<1>11. CASE GetsReady
  <2> USE <1>11 DEF GetsReady, clientVars
  <2>1. TypeOK'
    BY DEF Inv, TypeOK
  <2>2. Timers'
    BY DEF Inv, Timers, At, Started, Latest
  <2>3. Cost'
    BY DEF Inv, Cost, SessionsBounded, At, Started
  <2>4. (ready => ServedInTime)'
    BY DEF Inv, TypeOK, Timers, ServedInTime, Answers, Started, Served, MaxWait, At
  <2> QED
    BY <2>1, <2>2, <2>3, <2>4 DEF Inv, PatientEnough
<1>12. CASE UNCHANGED vars
  BY <1>12 DEF Inv, TypeOK, Timers, Cost, SessionsBounded, ServedInTime, PatientEnough, Answers,
             Started, Served, Latest, At, vars, clientVars
<1> QED
  BY <1>1, <1>2, <1>3, <1>4, <1>5, <1>6, <1>7, <1>8, <1>9, <1>10, <1>11, <1>12
     DEF Next, Accepted

\* The invariant the properties follow from.
THEOREM BootstrapInvariant == Spec => []Inv
  BY InitInv, NextInv, PTL DEF Spec

\* The variables keep to their types (bootstrap_session).
THEOREM BootstrapTypeCorrect == Spec => []TypeOK
<1>1. Inv => TypeOK
  BY DEF Inv
<1> QED
  BY <1>1, BootstrapInvariant, PTL

\* The call never lasts longer than budget, time-out and longest wait together
\* (bootstrap_session, deadline).
THEOREM BootstrapOverrunBounded == Spec => []OverrunBounded
<1>1. Inv => OverrunBounded
  BY DEF Inv, Timers, Latest, OverrunBounded
<1> QED
  BY <1>1, BootstrapInvariant, PTL

\* It does not give up a relay that was ready soon enough (bootstrap_session).
THEOREM BootstrapPatient == Spec => []PatientEnough
<1>1. Inv => PatientEnough
  BY DEF Inv
<1> QED
  BY <1>1, BootstrapInvariant, PTL

\* It has only so many sessions created (bootstrap_session).
THEOREM BootstrapSessionsBounded == Spec => []SessionsBounded
<1>1. Inv => SessionsBounded
  BY DEF Inv, Cost
<1> QED
  BY <1>1, BootstrapInvariant, PTL
=============================================================================
