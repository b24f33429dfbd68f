------------------------- MODULE BaseCarrierProofs -------------------------
(***************************************************************************)
(* What the steps of BaseCarrier do to its type invariant and to the HTTP  *)
(* session it tears down, for the proofs about the carriers that extend it. *)
(***************************************************************************)
EXTENDS BaseCarrier, TLAPS

\* Moving the program counter of one disconnect (discVars).
LEMMA Moves ==
  ASSUME NEW x, NEW g
  PROVE  /\ g \in [Discs -> DiscPcs] /\ x \in DiscPcs
              => \A d \in Discs : [g EXCEPT ![d] = x] \in [Discs -> DiscPcs]
         /\ g \in [Discs -> StopPcs] /\ x \in StopPcs
              => \A d \in Discs : [g EXCEPT ![d] = x] \in [Discs -> StopPcs]
OBVIOUS

\* The program counters that the steps of a disconnect assign.
LEMMA Pcs ==
  /\ {"called", "stopping", "deleting", "closing", "done"} \subseteq DiscPcs
  /\ {"start", "join", "closing", "done"} \subseteq StopPcs
  /\ {"user", "reader"} \subseteq Discs
  /\ {"created", "reading", "pong", "bye", "finally", "done"} \subseteq ReaderPcs
BY DEF DiscPcs, StopPcs, Discs, ReaderPcs

\* A new carrier is typed (BaseCarrier.__init__).
LEMMA BaseInitTyped == BaseInit => BaseTypeOK
BY DEF BaseInit, BaseTypeOK, LifeCycleTypeOK, DisconnectTypeOK, DiscPcs, StopPcs, ReaderPcs

\* A step that leaves the life cycle alone keeps its type.
LEMMA BaseUnchangedTyped == BaseTypeOK /\ UNCHANGED baseVars => BaseTypeOK'
BY DEF BaseTypeOK, LifeCycleTypeOK, DisconnectTypeOK, baseVars, connectVars, readerVars,
   discVars

\* The steps of connect, and the call of disconnect.
LEMMA ConnectTyped ==
  ASSUME BaseTypeOK,
         \/ ConnectStarts \/ ConnectUpgrades \/ ConnectRaises \/ CallDisconnect
         \/ /\ ConnectReturns /\ infoRef' \in BOOLEAN
            /\ TaskCreated \/ UNCHANGED readerVars
  PROVE  BaseTypeOK'
<1> USE DEF BaseTypeOK, LifeCycleTypeOK, DisconnectTypeOK, connectVars, readerVars, discVars
<1>1. CASE ConnectStarts
  BY <1>1 DEF ConnectStarts
<1>2. CASE ConnectUpgrades
  BY <1>2 DEF ConnectUpgrades
<1>3. CASE ConnectRaises
  BY <1>3 DEF ConnectRaises
<1>4. CASE CallDisconnect
  BY <1>4, Moves, Pcs DEF CallDisconnect
<1>5. CASE /\ ConnectReturns /\ infoRef' \in BOOLEAN
           /\ TaskCreated \/ UNCHANGED readerVars
  BY <1>5, Pcs DEF ConnectReturns, TaskCreated
<1> QED
  BY <1>1, <1>2, <1>3, <1>4, <1>5

\* The steps of disconnect, wherever they send the background task.
LEMMA DisconnectTyped ==
  ASSUME BaseTypeOK, NEW d \in Discs, reader' \in ReaderPcs,
         \/ DisconnectStarts(d) \/ DisconnectClears(d) \/ SessionDeleted(d)
         \/ DeleteCancelled(d) \/ DisconnectReturns(d)
  PROVE  BaseTypeOK'
<1> USE DEF BaseTypeOK, LifeCycleTypeOK, DisconnectTypeOK, connectVars
<1>1. CASE DisconnectStarts(d)
  BY <1>1, Moves, Pcs DEF DisconnectStarts, BeginDisconnect
<1>2. CASE DisconnectClears(d)
  <2>1. disc' \in [Discs -> DiscPcs]
    BY <1>2, Moves, Pcs DEF DisconnectClears, CloseHttp, Finish
  <2>2. /\ http' \in {"none", "open", "closed"}
        /\ httpRef' \in BOOLEAN /\ infoRef' \in BOOLEAN /\ cancelled' \in BOOLEAN
    BY <1>2 DEF DisconnectClears, CloseHttp, Finish
  <2> QED
    BY <1>2, <2>1, <2>2 DEF DisconnectClears
<1>3. CASE SessionDeleted(d)
  <2>1. disc' \in [Discs -> DiscPcs]
    BY <1>3, Moves, Pcs DEF SessionDeleted, CloseHttp, Finish
  <2>2. /\ http' \in {"none", "open", "closed"}
        /\ httpRef' \in BOOLEAN /\ infoRef' \in BOOLEAN
    BY <1>3 DEF SessionDeleted, CloseHttp, Finish
  <2> QED
    BY <1>3, <2>1, <2>2 DEF SessionDeleted
<1>4. CASE DeleteCancelled(d)
  BY <1>4, Moves, Pcs DEF DeleteCancelled, Finish
<1>5. CASE DisconnectReturns(d)
  <2>1. disc' \in [Discs -> DiscPcs]
    BY <1>5, Moves, Pcs DEF DisconnectReturns, Finish
  <2>2. httpRef' \in BOOLEAN /\ infoRef' \in BOOLEAN /\ cancelled' \in BOOLEAN
    BY <1>5 DEF DisconnectReturns, Finish
  <2> QED
    BY <1>5, <2>1, <2>2 DEF DisconnectReturns
<1> QED
  BY <1>1, <1>2, <1>3, <1>4, <1>5

\* The steps of _stop_transport, wherever they send its program counter.
LEMMA StopTyped ==
  ASSUME BaseTypeOK, NEW d \in Discs,
         UNCHANGED <<connectVars, reader, connected, disc>>,
         \/ StopCancels(d)
         \/ /\ StopSkips(d) \/ StopJoins(d) \/ UNCHANGED <<readerRef, cancelled>>
            /\ \E pc \in StopPcs : stop' = [stop EXCEPT ![d] = pc]
  PROVE  BaseTypeOK'
<1>1. stop' \in [Discs -> StopPcs]
  BY Moves, Pcs DEF BaseTypeOK, DisconnectTypeOK, StopCancels
<1>2. readerRef' \in BOOLEAN /\ cancelled' \in BOOLEAN
  BY DEF BaseTypeOK, LifeCycleTypeOK, StopCancels, StopSkips, StopJoins
<1> QED
  BY <1>1, <1>2 DEF BaseTypeOK, LifeCycleTypeOK, DisconnectTypeOK, connectVars

\* The ends of the background task (its finally clause, BYE).
LEMMA TaskTyped ==
  ASSUME BaseTypeOK
  PROVE  /\ TaskEnds => reader' \in ReaderPcs /\ disc' \in [Discs -> DiscPcs]
         /\ TaskByes => /\ reader' \in ReaderPcs /\ connected' \in BOOLEAN
                        /\ DisconnectTypeOK'
<1> USE DEF BaseTypeOK, DisconnectTypeOK
<1>1. TaskEnds => reader' \in ReaderPcs
  BY Pcs DEF TaskEnds
<1>2. TaskEnds => disc' \in [Discs -> DiscPcs]
  BY Moves, Pcs DEF TaskEnds
<1>3. TaskByes => reader' \in ReaderPcs /\ connected' \in BOOLEAN
  BY Pcs DEF TaskByes, BeginDisconnect
<1>4. TaskByes => DisconnectTypeOK'
  BY Moves, Pcs DEF TaskByes, BeginDisconnect
<1> QED
  BY <1>1, <1>2, <1>3, <1>4

\* A step of the background task, which leaves connect's variables alone.
LEMMA TaskStepTyped ==
  ASSUME BaseTypeOK, UNCHANGED <<connectVars, readerRef>>, cancelled' \in BOOLEAN,
         \/ reader' \in ReaderPcs /\ UNCHANGED discVars
         \/ TaskEnds /\ UNCHANGED <<connected, stop>>
         \/ TaskByes
  PROVE  BaseTypeOK'
<1>1. reader' \in ReaderPcs /\ connected' \in BOOLEAN
  BY TaskTyped DEF BaseTypeOK, LifeCycleTypeOK, discVars
<1>2. DisconnectTypeOK'
  BY TaskTyped DEF BaseTypeOK, DisconnectTypeOK, discVars
<1> QED
  BY <1>1, <1>2 DEF BaseTypeOK, LifeCycleTypeOK, connectVars

-----------------------------------------------------------------------------
(* Tearing down. *)

\* Has the disconnect d taken its first step?
Begun(d) == disc[d] \notin {"idle", "called"}

\* The HTTP session is referenced as long as it is open; nothing is torn down
\* before connect is called, and the background task does nothing before it
\* returns; a disconnect that is past the close has closed it, and none that has
\* begun leaves the carrier connected (connect, disconnect).
SessionInv ==
  /\ connectPc = "new" => http = "none" /\ ~httpRef /\ \A d \in Discs : disc[d] = "idle"
  /\ connectPc # "new" => http # "none"
  /\ http = "open" => httpRef
  /\ connectPc \in {"new", "bootstrap", "upgrade"} => reader = "none" /\ disc["reader"] = "idle"
  /\ \A d \in Discs : /\ disc[d] = "closing" => http = "closed"
                      /\ disc[d] = "done" => ~httpRef
                      /\ Begun(d) => ~connected

\* A step that ends no disconnect in its DELETE while the session is still there,
\* as DeleteCancelled does.
DeleteCompletes == \A d \in Discs : disc[d] = "deleting" /\ disc'[d] = "done" => ~httpRef

\* A step that does not let connect return after the user's disconnect has begun.
ConnectsFirst == connectPc' = "returned" /\ connectPc # "returned" => ~Begun("user")

Undisturbed == DeleteCompletes /\ ConnectsFirst

\* What the program counter of one disconnect becomes, and those of the others.
LEMMA Moved ==
  ASSUME BaseTypeOK, NEW d \in Discs, NEW x, disc' = [disc EXCEPT ![d] = x]
  PROVE  /\ disc'[d] = x
         /\ \A e \in Discs : e # d => disc'[e] = disc[e]
BY DEF BaseTypeOK, DisconnectTypeOK

\* A new carrier has no session (BaseCarrier.__init__).
LEMMA SessionInit == BaseInit => SessionInv
BY Pcs DEF BaseInit, SessionInv, Begun

\* A step that leaves connect, the background task and the disconnects alone.
LEMMA SessionKept ==
  SessionInv /\ UNCHANGED <<connectVars, reader, connected, disc>> => SessionInv'
BY DEF SessionInv, Begun, connectVars

\* Once a disconnect is over, whatever else still runs, the session is closed and
\* the carrier does not claim to be connected.
LEMMA SessionClosed ==
  ASSUME BaseTypeOK, SessionInv, NEW d \in Discs, disc[d] = "done"
  PROVE  http = "closed" /\ ~httpRef /\ ~connected
BY DEF BaseTypeOK, LifeCycleTypeOK, SessionInv, Begun

\* The steps of connect, and the call of disconnect.
LEMMA SessionConnect ==
  ASSUME BaseTypeOK, SessionInv, Undisturbed,
         \/ ConnectStarts \/ ConnectUpgrades \/ ConnectRaises \/ CallDisconnect
         \/ ConnectReturns
  PROVE  SessionInv'
<1>1. CASE ConnectStarts
  BY <1>1, Pcs DEF ConnectStarts, SessionInv, Begun, readerVars, discVars
<1>2. CASE ConnectUpgrades
  BY <1>2 DEF ConnectUpgrades, SessionInv, Begun, readerVars, discVars
<1>3. CASE ConnectRaises
  BY <1>3 DEF ConnectRaises, SessionInv, Begun, readerVars, discVars, BaseTypeOK,
     LifeCycleTypeOK
<1>4. CASE CallDisconnect
  <2>1. /\ disc'["user"] = "called"
        /\ \A e \in Discs : e # "user" => disc'[e] = disc[e]
    BY <1>4, Moved, Pcs DEF CallDisconnect
  <2>2. connectPc # "new" /\ UNCHANGED <<connectVars, reader, connected>>
    BY <1>4 DEF CallDisconnect, connectVars, readerVars
  <2> QED
    BY <2>1, <2>2, Pcs DEF SessionInv, Begun, connectVars
<1>5. CASE ConnectReturns
  <2>1. \A d \in Discs : ~Begun(d)
    BY <1>5 DEF ConnectReturns, SessionInv, Undisturbed, ConnectsFirst, Begun, Discs
  <2> QED
    BY <1>5, <2>1 DEF ConnectReturns, SessionInv, Begun
<1> QED
  BY <1>1, <1>2, <1>3, <1>4, <1>5

\* The steps of disconnect.
LEMMA SessionDisconnect ==
  ASSUME BaseTypeOK, SessionInv, Undisturbed, NEW d \in Discs,
         reader = "none" => reader' = "none",
         \/ DisconnectStarts(d) \/ DisconnectClears(d) \/ SessionDeleted(d)
         \/ DeleteCancelled(d) \/ DisconnectReturns(d)
  PROVE  SessionInv'
<1>1. /\ disc[d] # "idle" /\ UNCHANGED connectPc
      /\ disc[d] # "called" => Begun(d) /\ UNCHANGED connected
  BY DEF DisconnectStarts, DisconnectClears, SessionDeleted, DeleteCancelled,
     DisconnectReturns, Begun, connectVars
<1>2. connectPc # "new" /\ http # "none" /\ (disc[d] # "called" => ~connected)
  BY <1>1 DEF SessionInv
<1>3. connectPc \in {"bootstrap", "upgrade"} => d # "reader" /\ reader' = "none"
  BY <1>1 DEF SessionInv
<1>4. ASSUME NEW x, x # "idle", disc' = [disc EXCEPT ![d] = x], ~connected',
             http' # "none", http' = "open" => httpRef',
             http = "closed" => http' = "closed", ~httpRef => ~httpRef',
             x = "closing" => http' = "closed", x = "done" => ~httpRef'
      PROVE  SessionInv'
  <2>1. disc'[d] = x /\ \A e \in Discs : e # d => disc'[e] = disc[e]
    BY <1>4, Moved
  <2>2. connectPc' \in {"new", "bootstrap", "upgrade"} =>
          reader' = "none" /\ disc'["reader"] = "idle"
    BY <1>1, <1>2, <1>3, <2>1, Pcs DEF SessionInv
  <2>3. \A e \in Discs : /\ disc'[e] = "closing" => http' = "closed"
                         /\ disc'[e] = "done" => ~httpRef'
    BY <1>4, <2>1 DEF SessionInv
  <2> QED
    BY <1>1, <1>2, <1>4, <2>2, <2>3 DEF SessionInv, Begun
<1>5. http \in {"open", "closed"} /\ (http = "open" => httpRef)
  BY <1>2 DEF SessionInv, BaseTypeOK, LifeCycleTypeOK
<1>6. CASE DisconnectStarts(d)
  BY <1>2, <1>4, <1>5, <1>6 DEF DisconnectStarts, BeginDisconnect, connectVars
<1>7. CASE DisconnectClears(d)
  <2>1. ~connected'
    BY <1>2, <1>7 DEF DisconnectClears
  <2>2. CASE disc' = [disc EXCEPT ![d] = "deleting"] /\ UNCHANGED <<http, httpRef, infoRef>>
    BY <1>4, <1>5, <2>1, <2>2
  <2>3. CASE CloseHttp(d)
    BY <1>4, <1>5, <2>1, <2>3 DEF CloseHttp
  <2>4. CASE ~(httpRef /\ http = "open") /\ Finish(d) /\ UNCHANGED http
    BY <1>4, <1>5, <2>1, <2>4 DEF Finish
  <2> QED
    BY <1>7, <2>2, <2>3, <2>4 DEF DisconnectClears
<1>8. CASE SessionDeleted(d)
  <2>1. ~connected'
    BY <1>2, <1>8 DEF SessionDeleted
  <2>2. CASE CloseHttp(d)
    BY <1>4, <1>5, <2>1, <2>2 DEF CloseHttp
  <2>3. CASE ~httpRef /\ Finish(d) /\ UNCHANGED http
    BY <1>4, <1>5, <2>1, <2>3 DEF Finish
  <2> QED
    BY <1>8, <2>2, <2>3 DEF SessionDeleted
<1>9. CASE DeleteCancelled(d)
  <2>1. disc[d] = "deleting" /\ disc' = [disc EXCEPT ![d] = "done"] /\ ~connected'
        /\ ~httpRef' /\ UNCHANGED http
    BY <1>2, <1>9 DEF DeleteCancelled, Finish
  <2>2. ~httpRef
    BY <2>1, Moved DEF Undisturbed, DeleteCompletes
  <2> QED
    BY <1>4, <1>5, <2>1, <2>2
<1>10. CASE DisconnectReturns(d)
  <2>1. /\ disc' = [disc EXCEPT ![d] = "done"] /\ ~connected'
        /\ ~httpRef' /\ UNCHANGED http /\ http = "closed"
    BY <1>2, <1>10 DEF DisconnectReturns, Finish, SessionInv
  <2> QED
    BY <1>4, <1>5, <2>1
<1> QED
  BY <1>6, <1>7, <1>8, <1>9, <1>10

\* A step of the background task, which leaves connect's variables alone.
LEMMA SessionTask ==
  ASSUME BaseTypeOK, SessionInv, UNCHANGED connectVars, reader # "none",
         \/ UNCHANGED discVars
         \/ TaskEnds /\ UNCHANGED <<connected, stop>>
         \/ TaskByes
  PROVE  SessionInv'
<1>1. connectPc \notin {"new", "bootstrap", "upgrade"} /\ UNCHANGED <<connectPc, http, httpRef>>
  BY DEF SessionInv, connectVars
<1>2. CASE UNCHANGED <<connected, disc>>
  BY <1>1, <1>2 DEF SessionInv, Begun
<1>3. ASSUME NEW x \in {"called", "stopping"}, disc' = [disc EXCEPT !["reader"] = x],
             UNCHANGED connected \/ ~connected', x = "stopping" => ~connected'
      PROVE  SessionInv'
  <2>1. disc'["reader"] = x /\ \A e \in Discs : e # "reader" => disc'[e] = disc[e]
    BY <1>3, Moved, Pcs
  <2> QED
    BY <1>1, <1>3, <2>1 DEF SessionInv, Begun
<1> QED
  BY <1>2, <1>3 DEF TaskEnds, TaskByes, BeginDisconnect, discVars

-----------------------------------------------------------------------------
(* Tearing down before a BYE. *)

\* The user calls disconnect when connect is over.
UserWaits == disc["user"] # "idle" => connectPc \in {"returned", "failed"}

\* The background task is not disconnecting for a BYE.
NoBye == reader # "bye"

\* A step that moves one disconnect, and does not end it in its DELETE.
LEMMA MovesOn ==
  ASSUME BaseTypeOK, NEW d \in Discs, NEW x, disc' = [disc EXCEPT ![d] = x],
         disc[d] = "deleting" /\ x = "done" => ~httpRef
  PROVE  DeleteCompletes
BY Moved DEF DeleteCompletes

\* Only the background task's own disconnect can be cancelled in its DELETE.
LEMMA DeleteUncancelled ==
  ASSUME BaseTypeOK, NoBye,
         \/ UNCHANGED disc \/ CallDisconnect \/ TaskEnds \/ TaskByes
         \/ \E d \in Discs : \/ DisconnectStarts(d) \/ DisconnectClears(d) \/ SessionDeleted(d)
                            \/ DeleteCancelled(d) \/ DisconnectReturns(d)
  PROVE  DeleteCompletes
<1>1. CASE UNCHANGED disc
  BY <1>1 DEF DeleteCompletes
<1>2. CASE CallDisconnect \/ TaskEnds \/ TaskByes
  BY <1>1, <1>2, MovesOn, Pcs DEF CallDisconnect, TaskEnds, TaskByes, BeginDisconnect
<1>3. ASSUME NEW d \in Discs,
             \/ DisconnectStarts(d) \/ DisconnectClears(d) \/ SessionDeleted(d)
             \/ DeleteCancelled(d) \/ DisconnectReturns(d)
      PROVE  DeleteCompletes
  <2>1. ~DeleteCancelled(d)
    BY DEF DeleteCancelled, Inline, NoBye
  <2>2. PICK x : disc' = [disc EXCEPT ![d] = x] /\ (disc[d] = "deleting" /\ x = "done" => ~httpRef)
    BY <1>3, <2>1 DEF DisconnectStarts, BeginDisconnect, DisconnectClears, SessionDeleted,
       DisconnectReturns, CloseHttp, Finish
  <2> QED
    BY <2>2, MovesOn
<1> QED
  BY <1>1, <1>2, <1>3

\* connect returns before the user's disconnect begins.
LEMMA WaitsConnectsFirst ==
  ASSUME UserWaits, connectPc' # connectPc => connectPc # "failed"
  PROVE  ConnectsFirst
BY DEF UserWaits, ConnectsFirst, Begun
=============================================================================
