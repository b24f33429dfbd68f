---------------------------- MODULE BaseCarrier ----------------------------
(***************************************************************************)
(* The life cycle that every carrier inherits from BaseCarrier             *)
(* (carrier_base.py): connect, the disconnect that a user calls, the one   *)
(* that the transport's background task calls, and that task (_reader_loop *)
(* of carrier.py, _poll_loop of carrier_https.py) as far as they join and  *)
(* cancel one another.                                                     *)
(*                                                                         *)
(* Every action ends where the code may suspend.  disconnect runs          *)
(* _stop_transport under asyncio.shield, in a task of its own: `disc' and  *)
(* `stop' are the program counters of the two, for each caller.  A module  *)
(* that extends this one adds what its transport does in each step, and    *)
(* where `reader' goes in the steps of a disconnect.                       *)
(***************************************************************************)
EXTENDS Integers

\* Who may be running disconnect(): the code that owns the carrier, or the
\* background task (in its own task on BYE, in a new one when it ends).
Discs == {"user", "reader"}

VARIABLES
  connectPc,    \* progress of connect()
  connected,    \* _connected
  http,         \* the aiohttp.ClientSession
  httpRef,      \* is _http set?
  infoRef,      \* is _session_info set?
  reader,       \* where the background task stands
  readerRef,    \* is _reader_task or _poll_task set?
  cancelled,    \* a CancelledError the task will see when it resumes
  disc, stop    \* progress of disconnect() and of its _stop_transport()

connectVars == <<connectPc, http, httpRef, infoRef>>
readerVars  == <<reader, readerRef, cancelled>>
discVars    == <<connected, disc, stop>>
baseVars    == <<connectVars, readerVars, discVars>>

DiscPcs == {"idle", "called", "stopping", "deleting", "closing", "done"}
StopPcs == {"idle", "start", "join", "closing", "done"}
ReaderPcs == {"none", "created", "reading", "pong", "bye", "finally", "done"}

LifeCycleTypeOK ==
  /\ connectPc \in {"new", "bootstrap", "upgrade", "returned", "failed"}
  /\ connected \in BOOLEAN
  /\ http \in {"none", "open", "closed"}
  /\ httpRef \in BOOLEAN
  /\ infoRef \in BOOLEAN
  /\ reader \in ReaderPcs
  /\ readerRef \in BOOLEAN
  /\ cancelled \in BOOLEAN

DisconnectTypeOK ==
  /\ disc \in [Discs -> DiscPcs]
  /\ stop \in [Discs -> StopPcs]

BaseTypeOK == LifeCycleTypeOK /\ DisconnectTypeOK

BaseInit ==
  /\ connectPc = "new"
  /\ connected = FALSE
  /\ http = "none"
  /\ httpRef = FALSE
  /\ infoRef = FALSE
  /\ reader = "none"
  /\ readerRef = FALSE
  /\ cancelled = FALSE
  /\ disc = [d \in Discs |-> "idle"]
  /\ stop = [d \in Discs |-> "idle"]

-----------------------------------------------------------------------------
(* connect() *)

ConnectStarts ==
  /\ connectPc = "new"
  /\ connectPc' = "bootstrap"
  /\ http' = "open"
  /\ httpRef' = TRUE
  /\ UNCHANGED <<infoRef, readerVars, discVars>>

\* bootstrap_session has returned, and the transport suspends in its start.
ConnectUpgrades ==
  /\ connectPc = "bootstrap"
  /\ http = "open" /\ httpRef
  /\ connectPc' = "upgrade"
  /\ infoRef' = TRUE
  /\ UNCHANGED <<http, httpRef, readerVars, discVars>>

\* _start_transport is done: connect returns.
ConnectReturns ==
  /\ connectPc \in {"bootstrap", "upgrade"}
  /\ http = "open"
  /\ connectPc' = "returned"
  /\ connected' = TRUE
  /\ UNCHANGED <<http, httpRef, disc, stop>>

\* What a _start_transport with a background task does at its end.
TaskCreated ==
  /\ reader' = "created"
  /\ readerRef' = TRUE
  /\ UNCHANGED cancelled

\* Any exception, the session having been closed under it, or a timeout: the
\* except branch closes the session if it is still there.
ConnectRaises ==
  /\ connectPc \in {"bootstrap", "upgrade"}
  /\ connectPc' = "failed"
  /\ http' = IF httpRef THEN "closed" ELSE http
  /\ httpRef' = FALSE
  /\ UNCHANGED <<infoRef, readerVars, discVars>>

-----------------------------------------------------------------------------
(* disconnect() *)

CallDisconnect ==
  /\ connectPc # "new"
  /\ disc["user"] = "idle"
  /\ disc' = [disc EXCEPT !["user"] = "called"]
  /\ UNCHANGED <<connectVars, readerVars, connected, stop>>

\* The first stretch of disconnect: _stop_transport becomes a task.
BeginDisconnect(d) ==
  /\ connected' = FALSE
  /\ disc' = [disc EXCEPT ![d] = "stopping"]
  /\ stop' = [stop EXCEPT ![d] = "start"]

DisconnectStarts(d) ==
  /\ disc[d] = "called"
  /\ BeginDisconnect(d)
  /\ UNCHANGED <<connectVars, readerRef, cancelled>>

\* Is d the background task itself, inside _on_batch?
Inline(d) == d = "reader" /\ reader = "bye"

\* The last assignments of disconnect.
Finish(d) ==
  /\ httpRef' = FALSE
  /\ infoRef' = FALSE
  /\ disc' = [disc EXCEPT ![d] = "done"]

CloseHttp(d) ==
  /\ http' = "closed"
  /\ disc' = [disc EXCEPT ![d] = "closing"]
  /\ UNCHANGED <<httpRef, infoRef>>

\* Mutant: only the end of _stop_transport ends the wait for it.
DisconnectClears_Joins(d) ==
  /\ disc[d] = "stopping"
  /\ stop[d] = "done"
  /\ IF httpRef /\ http = "open" THEN CloseHttp(d) ELSE Finish(d) /\ UNCHANGED http
  /\ UNCHANGED <<connectPc, readerRef, cancelled, connected, stop>>

\* _stop_transport is done, or its wait was cancelled: clear the streams, and
\* start the DELETE of the relay session if there is one.  A cancelled wait
\* resumes after _stop_transport has started, which was scheduled before.
DisconnectClears(d) ==
  /\ disc[d] = "stopping"
  /\ stop[d] = "done" \/ (Inline(d) /\ cancelled /\ stop[d] # "start")
  /\ cancelled' = (cancelled /\ ~Inline(d))
  /\ \/ /\ httpRef /\ http = "open" /\ infoRef
        /\ disc' = [disc EXCEPT ![d] = "deleting"]
        /\ UNCHANGED <<http, httpRef, infoRef>>
     \/ /\ httpRef /\ http = "open" /\ ~infoRef
        /\ CloseHttp(d)
     \/ /\ ~(httpRef /\ http = "open")
        /\ Finish(d)
        /\ UNCHANGED http
  /\ UNCHANGED <<connectPc, readerRef, connected, stop>>

\* Mutant: a DELETE that fails takes the close of the session with it.
SessionDeleted_NoClose(d) ==
  /\ disc[d] = "deleting"
  /\ ~(Inline(d) /\ cancelled)
  /\ Finish(d)
  /\ UNCHANGED <<connectPc, http, readerRef, cancelled, connected, stop>>

\* The DELETE has been answered, has failed, or has run into its two seconds.
\* If another disconnect has reset _http meanwhile, its close is an
\* AttributeError that is swallowed.
SessionDeleted(d) ==
  /\ disc[d] = "deleting"
  /\ ~(Inline(d) /\ cancelled)
  /\ \/ httpRef /\ CloseHttp(d)
     \/ ~httpRef /\ Finish(d) /\ UNCHANGED http
  /\ UNCHANGED <<connectPc, readerRef, cancelled, connected, stop>>

\* CancelledError in the DELETE is not an Exception: the outer handler takes
\* it, past the close of the session.
DeleteCancelled(d) ==
  /\ disc[d] = "deleting"
  /\ Inline(d) /\ cancelled
  /\ cancelled' = FALSE
  /\ Finish(d)
  /\ UNCHANGED <<connectPc, http, readerRef, connected, stop>>

\* _http.close() is done, or the wait for it was cancelled.
DisconnectReturns(d) ==
  /\ disc[d] = "closing"
  /\ Finish(d)
  /\ cancelled' = (cancelled /\ ~Inline(d))
  /\ UNCHANGED <<connectPc, http, readerRef, connected, stop>>

-----------------------------------------------------------------------------
(* What every _stop_transport does with the background task. *)

MustJoin == readerRef /\ reader # "done"

StopCancels(d) ==
  /\ stop[d] = "start"
  /\ MustJoin
  /\ cancelled' = TRUE
  /\ stop' = [stop EXCEPT ![d] = "join"]
  /\ UNCHANGED readerRef

StopSkips(d) ==
  /\ stop[d] = "start"
  /\ ~MustJoin
  /\ UNCHANGED <<readerRef, cancelled>>

StopJoins(d) ==
  /\ stop[d] = "join"
  /\ reader = "done"
  /\ readerRef' = FALSE
  /\ UNCHANGED cancelled

-----------------------------------------------------------------------------
(* What every background task does at its ends. *)

\* A task cancelled before its first step never runs its body.
TaskStarts(goesOn) ==
  /\ reader = "created"
  /\ reader' = IF cancelled \/ ~goesOn THEN "done" ELSE "reading"
  /\ cancelled' = FALSE

\* Mutant: the task ends without a disconnect.
TaskEnds_Quietly ==
  /\ reader' = "done"
  /\ UNCHANGED disc

\* The finally clause: disconnect in a task of its own, and wait for it.
TaskEnds ==
  \/ /\ connected
     /\ reader' = "finally"
     /\ disc' = [disc EXCEPT !["reader"] = "called"]
  \/ /\ ~connected
     /\ reader' = "done"
     /\ UNCHANGED disc

\* BYE: the task runs disconnect itself.
TaskByes ==
  /\ reader' = "bye"
  /\ BeginDisconnect("reader")

\* CancelledError where the task waits for the relay.
TaskCancelled ==
  /\ reader \in {"reading", "pong"}
  /\ cancelled
  /\ cancelled' = FALSE
  /\ TaskEnds

\* The wait for the finally clause's disconnect is over, or cancelled.
TaskFinishes ==
  /\ reader = "finally"
  /\ cancelled \/ disc["reader"] = "done"
  /\ reader' = "done"
  /\ cancelled' = FALSE
  /\ UNCHANGED disc

-----------------------------------------------------------------------------
(* Properties. *)

\* Nothing is running any more: connect is over, the background task has ended
\* and every disconnect that was called has returned.
AllQuiet ==
  /\ connectPc \in {"returned", "failed"}
  /\ reader \in {"none", "done"}
  /\ \A d \in Discs : disc[d] \in {"idle", "done"} /\ stop[d] \in {"idle", "done"}

\* Some disconnect has returned, and nothing is running any more.
Disconnected == AllQuiet /\ \E d \in Discs : disc[d] = "done"

\* "Tear down everything" (disconnect, carrier_base.py): once the dust of one
\* or more disconnects has settled, in whatever order they and the background
\* task met, the HTTP session is closed, the reference to it is gone and the
\* carrier does not claim to be connected.
TornDown == Disconnected => http = "closed" /\ ~httpRef /\ ~connected

\* Everyone who starts a disconnect gets out of it (disconnect, _stop_transport
\* and the background task wait for one another).
DisconnectTerminates ==
  \A d \in Discs : disc[d] \notin {"idle", "done"} ~> disc[d] = "done"
=============================================================================
