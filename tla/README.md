# A verification project for telethon-webproxy

telethon-webproxy carries Telegram's MTProto over a WEB proxy: it opens a
session with a relay over HTTPS, keeps one transport open to it (a WebSocket, a
WebSocket per stream, or long polling), and multiplexes byte streams with
credit-based flow control through OPEN, DATA, CLOSE and WINDOW frames.
Everything runs on one asyncio event loop, and nearly everything that can go
wrong lies between two of its tasks: a sender asleep on window, a reader asleep
on a queue, the reader task of the transport, the two loops of a connection, and
several `disconnect()` calls that join, cancel and clear what the others are
waiting for.

This directory holds TLA+ models of that code, the TLC runs that check them and
the TLAPS proofs about them. Paths below are relative to `telethon_webproxy/`.

## 1. Inventory

| Part | Code | State | Operations | What makes it correct |
|---|---|---|---|---|
| Frame codec, capability | `protocol.py` | none (pure) | `encode_*`, `parse_frames`, `parse_window`, `compute_capability` | parsing inverts encoding; malformed batches are refused whole; ids stay within 24 bits |
| Stream bookkeeping | `carrier_base.py` `StreamManager` | id counter, five tables by stream: queue, two windows, event, open set | `_alloc_stream`, `_remove_stream`, `_clear_streams`, `_dispatch_frame`, `_wait_send_window`, `_recv_data_from_queue`, `_compute_window_grant` | nobody sends beyond the relay's credit; grants follow consumption; no lost wake-up; nobody is left waiting on something that was dropped |
| Bootstrap | `carrier_base.py` `bootstrap_session` | deadline, token | GET the bridge page, POST the session, with retries | ends, not long after its deadline; does not give up a relay that was ready in time; leaves few sessions behind |
| Carrier life cycle | `carrier_base.py` `BaseCarrier` | `_http`, `_session_info`, `_connected` | `connect`, `disconnect`, `recv_data` | after a disconnect everything is closed, whoever called it, however often, whenever |
| Multiplexed WebSocket | `carrier.py` | `_ws`, `_reader_task` | the five stream operations, `_reader_loop`, `_stop_transport` | the loss of the socket closes the session and releases everybody; the reader and the disconnects do not deadlock |
| WebSocket lanes | `carrier_lanes.py` | one `_LaneSocket` per stream | the same, per lane | a lane's failure closes its stream and no other; no lane outlives the carrier |
| HTTPS long polling | `carrier_https.py` | `_up_seq`, `_up_lock`, `_down_cursor`, `_poll_task` | `_send_up` with retries, `_poll_loop` | every frame reaches the relay once and in order, or its sender is told |
| Telethon v1 connection | `connector_v1.py` | carrier, stream id, two queues, two loops, receive buffer | `connect`, `disconnect`, `send`, `recv`, the loops, `_WebProxyReader.read` | a caller of `recv` gets an answer; every disconnect ends; no carrier is left open; no loop of one connection works on the next; packets arrive whole and in order |
| Telethon v2 connector | `connector_v2.py` | carrier, stream id, buffer | `read`, `write`, `close` | (unusable as it stands, see section 7) |
| MTProxy framing | `mtproxy.py` | two cipher states | `pack_frame`, `unpack_frame`, `encrypt`, `decrypt` | unpacking inverts packing; the cipher sees each byte of the stream once and in order |

How they interact: a connector owns one carrier and one stream of it. The
carrier's operations are called from the connector's tasks; its reader task
calls `_dispatch_frame`, which fills queues and sets events the connector's
tasks wait on. `BaseCarrier.disconnect` is called by the connector, by the reader
on BYE (in the reader task itself) and by the reader's `finally` clause after a
loss (in a new task): up to two run at once, and they share every attribute. The
connector's own `disconnect` is called by its owner, by a failing `connect` and by
both loops: up to four at once, again over the same attributes.

The hard behaviours are listed line by line under `hazards` in `PROJECT.json`.

## 2. Modules

| Module | Models |
|---|---|
| `StreamManager` | class `StreamManager` with the tasks that use it: any number of callers of `send_data`, one reader per stream |
| `CreditChannel` | abstract: one direction of one stream, as four counters of bytes |
| `BaseCarrier` | class `BaseCarrier`: connect, up to two disconnects with their `_stop_transport` tasks, and a background task as far as they join and cancel one another |
| `WebSocketCarrier` | class `WebSocketCarrier` over the two modules above: every stream operation, the socket, the reader task; the network and the relay are external |
| `WebSocketFlow` | the refinement mappings from a carrier's stream to two `CreditChannel`s: what is queued and what is on the wire, as sums by a recursive function |
| `LanesCarrier` | class `WebSocketLanesCarrier` over the same two modules: a socket and a reader task per stream, `open_stream` across its waits, `_close_lane` under `close_stream` and under `_stop_transport` |
| `HttpsCarrier` | class `HTTPSCarrier` over `BaseCarrier`: the uplink (`_send_up` with its lock, numbers, retries and deadline) and the polling loop; the relay is external |
| `Bootstrap` | `bootstrap_session`: two retry loops under one deadline, in discrete time |
| `WebProxyConnection` | class `ConnectionWebProxy`: connects, disconnects, both queues and both loops, and of each carrier its life: loss, BYE, disconnects that meet; the owner is external |
| `FrameCodec` | `encode_frame` and `parse_frames` as functions on byte strings, with the ids that `encode_frame` takes (`Encodable`), and a definition of a batch that does not scan |
| `PacketStream` | the packets of one direction: `pack_frame`, `encrypt`, the relay's cutting into frames and batches, `parse_frames`, `decrypt`, `_WebProxyReader.read`, `unpack_frame` |
| `MCStreamManager`, `MCWebSocketCarrier`, `MCLanesCarrier`, `MCHttpsCarrier`, `MCWebProxyConnection`, `MCPacketStream` | bounds for TLC |
| `StreamManagerProofs`, `BaseCarrierProofs`, `WebSocketCarrierProofs` (with those of `WebSocketFlow` and `CreditChannel`), `LanesCarrierProofs`, `HttpsCarrierProofs`, `BootstrapProofs`, `WebProxyConnectionProofs`, `PacketStreamProofs` (with `FrameCodec`'s) | theorems and the lemmas they rest on |

The carriers extend `StreamManager` (the WebSocket, the lanes) and `BaseCarrier`
(all three) as the classes inherit: their actions conjoin the actions of the base
modules with what the transport does, so the one source of truth for the windows
and for the life cycle is checked, proved and composed. `PacketStream` extends
`FrameCodec`. The state of the modules is that of the code:

| Code | Variables |
|---|---|
| `_recv_queues`, `_send_windows`, `_recv_windows`, `_window_events`, `_open_streams`, the id counter of `StreamManager` | `recvQueues`, `sendWindows`, `recvWindows`, `windowEvents`, `openStreams`, `nextStreamId` |
| a task in `_wait_send_window` or in `queue.get()` | `sendPc`, `sendSid`, `receivers` |
| `_http`, `_session_info`, `_connected` | `http` (the session), `httpRef` (the attribute), `infoRef`, `connected` |
| `_reader_task` or `_poll_task`, and the task | `readerRef`, `reader`, `cancelled` |
| calls of `connect`, `disconnect`, `_stop_transport` | `connectPc`, `disc`, `stop` |
| `_ws` | `socket` (the WebSocket), `wsRef` (the attribute) |
| `_lanes`; a lane's `ws` and `reader_task`; calls of `_close_lane` | `lanes`; `laneWs`, `laneReader`, `laneCancelled`; `closing`, and `toClose` for the list in `_stop_transport` |
| `_up_seq`, `_down_cursor`, `_up_lock` with the calls of `_send_up` | `upSeq`, `downCursor`, `calling` and `upPc` |
| `bootstrap_session`: the line it is at, `deadline`, the timer it waits for | `phase` and `pc`, `deadline`, `due` |
| `ConnectionWebProxy`: `_connected`, `_carrier`, `_stream_id`, `_send_task` and `_recv_task`, the queues | `connected`, `carrierRef`, `streamRef`, `loopsRef`, `sendQueue`, `recvQueue` |
| its calls of `connect`, `disconnect`, `send`, `recv`, and its loops | `connectPc`, `disc` (by who runs it), `sender`, `receiver`, `loopPc`, `cancelled` |
| `_WebProxyReader._buffer`, the position of the cipher | `buffer`, `deciphered` |

### Granularity

asyncio switches tasks only where an `await` really suspends. An action is the
code between two such points:

* `_wait_send_window` is a loop around one `await`: *test and block*
  (`SenderBlocks`), *wake* (inside `SetEvents`), *test again*. The debit of the
  window and the hand-over of the frame follow the successful test without a
  suspension (`SendChunk`): `ws.send_bytes` has put the frame in the transport's
  buffer before it can suspend.
* `queue.get()` on a non-empty queue does not suspend, so `recv_data` is one
  action (`RecvChunk`), or two around the suspension (`RecvWaits` first). Between
  the two the stream may have gone: `RecvGone` is the `KeyError` of line 174.
* `asyncio.shield(coro)` runs `coro` in a task: `disc[d]` is the program
  counter of a disconnect, `stop[d]` that of its `_stop_transport`.
* A POST to `/up` is three steps: it goes out, the relay takes it, the answer or a
  failure comes back (`UpPosts`, `RelayTakes`, `UpAccepted`/`UpRefused`/`UpFails`),
  because what matters is which of them a failure finds done.
* `asyncio.Lock` is handed on first come, first served: the holder of `_up_lock` is
  the oldest call outstanding (`Holds`).
* Cancellation is a flag a task sees when it next resumes. Two `cancel()`
  calls before that are one `CancelledError`, as in asyncio. Cancelling a task that
  awaits another cancels that other (`Target` in `WebProxyConnection`); a task
  cancelled before its first step never runs its body, nor its `finally`.
* A disconnect of the v1 connection is one action from one suspension to the next:
  `Begin`, which goes as far as the first loop it must wait for, `DiscJoined`,
  `DiscStreamClosed`, `DiscCarrierClosed`.
* The event loop is first-in first-out, and the models use this in two places
  and nowhere else. `ClearStreams` never runs while a reader that has been given
  an item has not resumed, on the two carriers with a background task: `disconnect`
  yields at least twice (its `shield`, the task inside it) after the last
  dispatched frame. On the lanes carrier a lane may still dispatch while
  `_stop_transport` runs, so there `RecvGone` is possible. And a `disconnect` whose wait
  was cancelled resumes only after its own `_stop_transport` task has started,
  because that one was scheduled first.

### Data

A chunk of payload is its length. The five tables of `StreamManager`
always have the same keys, so `known` stands for the key set. A batch is
modelled frame by frame: a relay may always send frames one to a batch, and the
reader suspends between the frames of a batch only to write a PONG or to
disconnect, after which the batch is abandoned. `nextStreamId` goes one beyond
`MAX_STREAM_ID`: the code allocates that id and then `encode_frame` refuses it.

In `HttpsCarrier` a frame is a number, given in the order of the calls of
`_send_up`; a frame of the downlink is its position in what the relay has for the
client, with its kind. `calling` is the frame each task is sending, or 0.

In `LanesCarrier` what a lane receives is left open: any frame at any time, also
one of another stream, a BYE (which `_dispatch_frame` only logs: on lanes nobody
disconnects for it) or a batch that does not parse. `Closings` names the calls of
`close_stream` that may be outstanding at once, on the same lane or on several, whatever
its caller is waiting for. A reader that is over is `"done"`, `"refused"` after such a
batch, or `"unstarted"` when it was cancelled before its first step.

In `WebProxyConnection` a carrier and its two loops are named by the number of the
`connect` that made them. `carriers` is what has become of each carrier: on a BYE it
is in a disconnect of its own (`"bye"`); a disconnect of the connection that comes then
may close it, or cancel the DELETE and leave it `"stuck"`, which ends as `"leaked"` if
the relay closes the socket. A packet given to `send` is a unit of a count, an item of
`_recv_queue` its kind, the connection that put it there and its number.

In `FrameCodec` and `PacketStream` bytes are digits of a small base, with fewer of
them for ids and lengths, so that TLC can try every short string; the cipher adds a
key stream to the byte at each position, and the parity of a packet's number fills
its payload. Windows are left out, payloads are multiples of four bytes as MTProto's
are, and the far end pads as the client does.

History variables `sent`, `credited`, `consumed`, `granted` count the bytes of
each stream, `accepted`, `failed` and `seen` the frames of the HTTPS carrier,
`heard` the messages of a lane, `created` the sessions of a bootstrap, `nextIn` and
`lastGot` the items of a connection; no guard reads them except the bounds.

### Assumptions about the code's users and surroundings

* One reader per stream and one `connect` per carrier, as the connectors have it.
* The user of a carrier calls `disconnect` at most once; the carrier itself may call
  it too.
* The owner of a `ConnectionWebProxy` has one `send` and one `recv` waiting at most,
  may cancel either, may call `disconnect` at any time but not twice at once, and
  connects again only when its last `connect` has raised or a `disconnect` of its
  own, begun after that `connect`, has returned. A `connect` that is cancelled again
  while it cleans up is left out.
* The carriers under a connection keep what their modules show: a lost carrier makes
  `recv_data` raise, and a disconnect ends and closes the session, except one that
  cancels the DELETE of the carrier's own disconnect for a BYE. That one leaves the
  session open and waits until the relay closes the socket, which nothing obliges it
  to do.
* Writes to a socket that aiohttp has marked closed are dropped by `_ws_send`;
  writes to a connection that is lost but not marked yet raise.
* What is in flight when the socket goes is lost.
* The relay respects the credit it was given, answers nothing after its BYE, and
  may send empty DATA frames and zero WINDOW deltas.
* The HTTPS relay takes a POST when its number is the next one, and answers as it
  likes; it serves the frames after the cursor. A POST ends at the latest with
  aiohttp's own timeout of five minutes, which the code leaves as it is.
* In `Bootstrap` a relay that is ready stays so, and answers within `AnswerTime`; the
  event loop acts in the instant a timer is due; the clock, which in the code is the
  wall clock, does not jump; Retry-After is bounded by a constant that stands for the
  relay's choice (the code has no bound: a very large value, or `inf`, is slept
  through, and `OverrunBounded` holds of a relay within that constant only). A relay
  that answers 503 or 429 has created no session.
* As it stands `carrier_base.py` uses `time.time()` at line 203 without importing
  `time`, so `bootstrap_session` always raises `NameError`; the models describe the
  program with the name resolved.

## 3. Runs

`tlc -workers 2 -config <run>.cfg <module>`.

| Run (module) | Checks | Instance |
|---|---|---|
| `streams` (`MCStreamManager`) | `SentWithinCredit`, `NoStrandedWaiter`, `NoMissedCredit` | two callers (symmetric) of one stream, window 4, chunks of 3 and messages of 4, so a message takes two chunks and two callers compete for one window; credit in ones and threes; the stream is torn down with callers asleep and items queued |
| `ws` (`MCWebSocketCarrier`) | `CarrierTypeOK`, `WsTornDown`, `DisconnectTerminates`, `LossReleasesStreams`, `UpImplementsChannel` | the whole life cycle with a stream that has a sender with a message longer than the window, or a reader and a chunk, or a ping or a faulty frame; loss against BYE or against the user's disconnect; fairness of section 4 |
| `ws_flow_down` (`MCWebSocketCarrier`) | `DownImplementsChannel`, `GrantsFollowConsumption` | window 8 and nine bytes sent in ones and fours, so the relay needs a grant to finish, grants are withheld below a quarter window, and the socket may be lost anywhere |
| `https` (`MCHttpsCarrier`) | `HttpsTypeOK`, `UplinkOnceInOrder`, `LossesBounded`, `DownlinkOnceInOrder`, `TornDown`, `UplinkTerminates`, `DisconnectTerminates` | two senders with two calls, two frames from the relay of any kind (a chunk, a PING, a BYE, a frame whose dispatch raises, a batch that does not parse), any number of refusals and repetitions, failures anywhere, the user's disconnect |
| `lanes` (`MCLanesCarrier`) | `LanesTypeOK`, `LaneIsolation`, `CloseStreamEnds`, `LossEndsStream`, `DisconnectEndsLanes`, `DisconnectTerminates` | two lanes, of which one is sent on, received on and closed, by two `close_stream` at once also while its reader has not started or its caller waits; any frame on either, also of the other's stream; losses, failing and late opens, the user's disconnect; a third stream, one past the limit of ids, whose OPEN cannot be encoded and whose lane has no reader |
| `v1` (`MCWebProxyConnection`) | `TypeOK`, `OldLoopsEnded`, `OwnCarrier`, `NoCircle`, `ReceivedOnceInOrder`, `DisconnectEnds`, `CarriersClosed`, `LossEndsConnection` | two connects of one object; owner, failing connect and both loops of both connections disconnect at any time, carriers are lost or hear a BYE; a packet out or an item in, errors without bound; fairness of section 4 |
| `framing` (`MCPacketStream`) | `TypeOK`, `PacketsIntact`, `NothingWithheld`, `ParseExact` | two packets of one or two words with every padding, cut into frames of 1, 3 or 6 bytes, two to a batch, with foreign frames between; and every string of up to fifteen bytes as a batch |
| `bootstrap` (`Bootstrap`) | `TypeOK`, `OverrunBounded`, `PatientEnough`, `SessionsBounded`, `Ends` | budget 7, time-out 3, waits up to 4: a loop makes several attempts, the deadline may fall into each state of each |

What each property says is stated at its definition. Four runs are expected to
find a violation, and document a disagreement between the code and what it says
of itself:

* `ws_double_grant` (`RelayCreditBounded`): `_WebProxyReader` of
  `connector_v1.py` calls `grant_window` for each chunk on top of the grants of
  `recv_data`; the relay's credit outgrows "4 MiB per direction per stream".
* `ws_bye_user` (`WsTornDown`): the reader runs `disconnect` itself on BYE. If the
  user disconnects while it awaits the DELETE, the cancellation skips `_http.close()`
  and the reference is dropped. The reader then goes back to a socket nobody has
  closed while the user's disconnect waits for the reader; only the loss of the socket
  ends that. The v1 connection is such a user: the reader's disconnect clears the
  streams (`carrier.py:154`), so `read` raises, and the receive loop disconnects
  (`connector_v1.py:213`, `156`) while the reader is in its DELETE. In
  `WebProxyConnection` a carrier is then `"stuck"`.
* `lanes_invalid` (`InvalidFailsCarrier`): `carrier_lanes.py:195` says of a batch that
  does not parse "invalid relay message → parent-carrier failure per spec"; the code
  ends that lane, and the carrier goes on. `LaneIsolation` leaves this case out: what it
  asks of all others is what the class comment says of a lane failure, and here the
  two comments disagree.
* `v1_recv` (`RecvAnswers`): a `recv` that waits on its queue while the connection
  is disconnected waits for ever: the receive loop, cancelled, puts nothing there,
  so the `ConnectionError("Not connected")` below the loop is never reached.

Behaviours the models have and the runs leave out, each with the way to see it:

* CLOSE does not set the window event (`carrier_base.py:128`), so a caller waiting for
  window on a stream the relay closes learns of it thirty seconds later, as a timeout
  instead of the `StreamClosedError` "closed while waiting for window" of line 151: run
  `streams` with the invariant that a caller asleep has its stream in `openStreams`.
* On Python 3.9 to 3.11, which `pyproject.toml` supports too, `wait_for` runs
  `ev.wait()` in a task of its own. A WINDOW may set the event before that task
  starts, and another caller clear it again; the first caller sleeps on a window that
  is large enough. Run `streams` with `WaitForSpawnsTask = TRUE` and `NoMissedCredit`
  is violated. With `FALSE` (Python 3.12) the property holds, and is proved.
* `disconnect` during `connect` leaves `_connected` set on a carrier whose session is
  closed: run `ws` with `Disconnects = "any"` and `WsTornDown` is violated. No document
  says the call is allowed; the v1 connection makes it when its owner disconnects
  during `connect`, and has dropped the carrier by then (run `v1` has that).
* `ws` and `https` keep BYE and the user's disconnect apart (`Disconnects =
  "unless BYE"`); what is left out by that is `ws_bye_user`.
* `_up_seq` advances only on a 204. When a POST fails after the relay has taken it,
  its caller is told so, and the next frame goes out under the same `X-Up-Seq`. A
  relay that takes each number once counts it as a repetition: the caller of the
  second frame gets its 204 and the frame is gone. `LossesBounded` (run `https`) says
  that this is the only way to lose a frame silently, and that each failed call
  costs at most one.
* The queues of a v1 connection survive a reconnect: `ReceivedOnceInOrder` allows
  each of the two, for the one item it may hold, and says that nothing more of an old
  connection comes through.
* A BYE on a lane is logged and no more.
* A lane whose reader is cancelled before its first step, by a `close_stream` in the same
  turn of the event loop as the `open_stream`, has no `finally` clause: a caller in its
  `recv_data` waits until the carrier is disconnected (`"unstarted"`, which
  `LossEndsStream` leaves out).
* Once a stream has a hole (a batch that was skipped), the cipher of the v1 reader is
  out of step, and a negative length makes `read` return an empty packet again and
  again without consuming anything (`Cut`).

Bounds. They are in the `MC` modules, and where liveness is checked they restrict only
the callers, the relay and the network: a step of the program's own code is never cut
off, so no liveness result rests on a bound. `streams`, which checks safety only,
bounds the queue of a stream as well: an open stream holds one item, a closed one two,
which leaves room for the end that a CLOSE queues, and a teardown is never cut; only a
second end of a stream that is closed and full already is. Some bounds are
alternatives, to keep every case and not their product: `MaxUses` in `ws` (one of
sending, receiving and odd frames in a behaviour), one stream fewer in `lanes` once a
caller sends, two `close_stream` at once there while there is one stream and no
message, an id past the limit there once the others failed to open, one relay frame
fewer in `https` once a sender calls, `MaxItems` over both directions in `v1`, and the
byte strings of `framing` in behaviours of their own. One stream is enough for the
multiplexed carrier's life cycle because streams meet only in `_clear_streams`, which
treats them alike; lanes meet in the tables and in `_stop_transport`, and two show it;
two `close_stream` and `_stop_transport` meet in one lane; two callers are enough for
the event, which has one setter and any number of clearers; windows of 4 and 8 with a
quarter of 1 and 2 make the window run dry, refill partially and be withheld. On the
uplink, what goes wrong takes a frame that was taken and given up and one more that
meets its number: two calls, and the PONG is a third. A v1 connection meets the one
before it and the one after it: two connects. Fifteen bytes hold two frames with
payload or three without, one more than a batch may have, at base 2 with a header of
five bytes. CHECK_DEADLOCK is off because a carrier that has been torn down, a
bootstrap that has ended and a stream that is closed have nothing left to do.

## 4. Fairness

`Fairness` in `WebSocketCarrier` is weak fairness of the steps the event loop
itself takes once they are enabled: the reader task, each disconnect and each
`_stop_transport`, a sender that is awake, a reader of a stream that has an item.
A disconnect's waits end because the DELETE has a timeout of two seconds
(`carrier_base.py:367`) and closing is local. Nothing is assumed of the relay, of
the network, of new calls, or of the thirty-second timeout of a sender: liveness
must not rest on it.

`Fairness` in `LanesCarrier` is the same for the tasks of that carrier, with
`_close_lane` and each lane's reader, and a `close_stream` goes on once it has begun;
nothing is assumed of `ws_connect`, so `DisconnectEndsLanes` also covers a lane that
never opens.

`Fairness` in `HttpsCarrier` adds that the holder of the uplink lock goes on
(`UpStep`: a POST ends, if only by its timeout, and the wait after a 503 is a timer)
and that time passes (`DeadlinePasses`). What the answers are is left open, so
`UplinkTerminates` rests on the deadline against endless refusals. The polls have
no such assumption: a poll may hang until a disconnect closes its session, which
is then all that `PollStep` counts on.

`Fairness` in `Bootstrap`: the event loop acts when it can, the HTTP session times
requests out, a relay that is ready answers, and time goes on (`SF_vars(Tick)`:
strong, because a busy relay that answers at once with a Retry-After of nothing
takes `Tick` away again and again, and seconds pass all the same).

`Fairness` in `WebProxyConnection`: the event loop runs what can run; the waits in
carriers end (`connect` under `wait_for`, `send_data` by its thirty seconds), and `read`
raises once its carrier is lost or closed, by `LossReleasesStreams` and `LossEndsStream`.
A carrier's disconnect ends by `DisconnectTerminates` of the carriers, which the runs
`ws` and `https` show where no BYE meets another disconnect; so it is assumed of
`CarrierCloses` and not of `StuckEnds`. `DisconnectEnds` and `CarriersClosed` therefore
leave out a carrier that is stuck; that it gets stuck is shown by `ws_bye_user`. Whether a
packet ever comes, or the owner sends or disconnects, is left open.
`LossEndsConnection` rests on an owner that takes what `_recv_queue` holds, as
Telethon's own receive loop does: with one that does not, the loop waits for room in
the queue for ever, in the code too, unless something else disconnects.

## 5. Proofs

`tlapm <module>`; every theorem is checked to the last leaf with Z3, Zenon and
LS4.

*StreamManager.* The theorem `StreamInvariant` (`SMSpec => []SMInv`) holds for any
set of callers, any window of at least 4, any chunk size, any frame sizes. None
of the properties is inductive alone. `SentWithinCredit` needs that the window
of a live stream is exactly what was credited and not sent (`WindowsInv`), and
that the history of an id starts at zero (`TablesInv`). `GrantsFollowConsumption`
needs the same accounting of the receive window. `NoStrandedWaiter` needs that
the event of a dropped stream stays set (`CallersInv`), or a caller between its
test and its wait could go to sleep on it. `SMInv` is the conjunction of the
parts, proved with one lemma per action.
From it follow `TypeCorrect`, `SendsWithinCredit`, `GrantsConsumption`,
`NobodyStranded` and, for a `wait_for` that runs in place, `CreditWakesSenders`.

*WebSocketCarrier.* `CarrierImplementsStreamManager` (`Spec => SMSpec`): every step
of the carrier is a step of `StreamManager` or changes none of its variables,
given that the frames the relay writes are frames (`DownTyped`, itself
invariant). So the stream properties hold of the carrier through connect, loss,
BYE and disconnect (`CarrierStreamInvariant`, `CarrierSendsWithinCredit`,
`CarrierStrandsNobody`). `CarrierTypeCorrect` adds the types of the life cycle,
the two disconnects, the wire and the relay's counters.

*LanesCarrier.* `LanesImplementStreamManager` and `LanesStreamInvariant` are the same
for the lanes: the tables stay sound with any number of readers dispatching into
them. `LanesTypeCorrect` adds the types of the lanes. `LanesIsolated` (`Spec =>
LaneIsolation`), for any number of lanes: a step in which a lane's reader moves or
takes a message, a batch that does not parse excepted, is a step of that lane's reader
alone, or the `create_task` of `open_stream`, and what it does to the tables goes through `DispatchFrame` with its
own stream or none (`DispatchIsolated`) or through `EndStream` (`EndIsolated`). It
needs only that the tables have their type, which `LanesStreamInvariant` gives.

*Windows end to end.* `UpImplements` (`Spec => UpImplementsChannel`): for every id,
window, chunk size, set of callers and interleaving, each direction of a stream of
the WebSocket carrier is a credit channel. The mapping sums over the frames on the
wire and the chunks in the queue. What `Total` is on a longer or a shorter sequence
(`TotalAppend`, `TotalTail`) is proved by induction over a set of numbers, which
follows from the well-foundedness of `<` on the naturals (`Least`, `Induction`): first
that a sequence has exactly one function of partial sums (`SumsExist`,
`SumsUnique`), then that `Total` is its last value. `FlowCases` reduces the carrier's
steps to those that touch windows, queues or wire; each of them is a move of the
channel of some size (`UpStep`), and a move of any size is a step or a stutter
because the channel conserves its window (`UpMovesAreSteps`), so the refinement and
the conservation are proved together. A frame that `_ws_send` drops and what
`_clear_streams` throws away are `Lose`.
`DownImplements` is the same from relay to client and needs `~ReaderGrants`: with a
reader that calls `grant_window` after each chunk, as `_WebProxyReader` does, it is
false, which is the run `ws_double_grant`. That neither side is ever beyond its
window follows (`UpNeverOverruns`, `DownNeverOverruns`).

*Tearing down.* `TornDown` and `WsTornDown` are false without a condition on when
`disconnect` is called (the run `ws_bye_user`; the hazard at `carrier_base.py:341`), so
two conditions are proved sufficient. `SessionInv` says what the session, the
references and the disconnects are to one another; it is inductive for every step
but two: a DELETE cancelled while the session is there (`DeleteCompletes` rules it
out) and a `connect` that returns after the user's disconnect has begun
(`ConnectsFirst`). `HttpsTornDown` and `CarrierTornDown` take these two as
hypotheses on the steps, so a session, a socket (`SocketInv`) or a claim to be
connected can be left in these two ways only. `HttpsTornDownBeforeBye` and
`CarrierTornDownBeforeBye` take two conditions on states instead: `UserWaits`, the user
disconnects when connect is over, and `NoBye`, no background task is in a disconnect of
its own for a BYE. The second is up to the relay: the user cannot keep clear of a BYE,
for it comes at any time, and the v1 connection disconnects because of it. Up
to then nothing cancels a disconnect in its DELETE (`DeleteUncancelled`), because the
one task that `_stop_transport` cancels is not in one. On lanes no task that is
joined runs a disconnect, so `LanesTornDown` needs `ConnectsFirst` only.
`BaseCarrierProofs` has no theorem of its own: what each step of the life cycle does
to the types and to `SessionInv`, cited for all carriers.

*HttpsCarrier.* `UplinkInvariant` (`Spec => []UplinkInv`), for any number of senders,
refusals, failures, polls and teardowns. `UplinkOnceInOrder` is not inductive: that
the relay appends a frame larger than all before it needs that every call
outstanding is younger than what the relay has taken, except that the oldest may
be the last one taken, and then `_up_seq` is still its number (`CallsInv`,
`NumberInv`). The proof splits the steps into those that leave the calls alone,
those where calls end and at most one begins (`CallsMove`), the relay's taking of a
frame and the 204; `CallsInv` survives the 204 because the other calls are strictly
younger than the one that ends. `UplinkOrdered` and `HttpsTypeCorrect` follow.
`DownlinkInvariant` is about the polling loop: `DownlinkOnceInOrder` needs what the
loop keeps of a batch while its PONG is out, that this continues what was dispatched,
and that the cursor is at its end (`ReaderInv`, `OrderInv`); a frame it has not
dispatched is either ahead of that or in a batch that did not parse. `DownlinkOrdered`
follows. `LossInvariant` counts: the frames lost silently, and one more while the
number of a failed call waits to be used again, are at most the failed calls whose
frames the relay has. Only with this rest (`Reused`) is the count inductive: a failed
call makes room for a loss that a later 204 takes. `LossesAreBounded` follows.

*WebProxyConnection.* `ConnectionInvariant` (`Spec => []CoreInv`), for any number of
connects and failures: which connection the references, the loops, the joining
disconnects and the carriers belong to. A loop of an earlier connection has ended
when the next `connect` begins, because the owner's disconnect has joined it or the
loop's own has ended; so no disconnect takes down a later carrier and none waits in
a circle (`OldLoopsHaveEnded`, `CarriersAreOwned`, `NoCircleOfLoops`).
`QueueInvariant` adds the receive queue, its waiter and what the last connection may
have left in it, from which `ReceivedInOrder` follows; `ConnectionTyped` is the types.

*Bootstrap.* `BootstrapInvariant` (`Spec => []Inv`), for every budget, time-out,
Retry-After and wait. `OverrunBounded` needs that a request in progress was started
before the deadline and a sleep in progress begun by such a request (`Timers`), and
that both loops have the deadline of the call. `SessionsBounded` needs an account of
what each session so far has cost (`Cost`). `PatientEnough` needs how late the next
attempt can be once the relay is ready (`ServedInTime`): each timer that was set
before is over by then, and each request after it is answered. The theorems
`BootstrapTypeCorrect`, `BootstrapOverrunBounded`, `BootstrapPatient` and
`BootstrapSessionsBounded` follow.

*CreditChannel.* `ChannelNeverOverrun`, in `WebSocketCarrierProofs` for the channels of
both directions: no byte of the window exists twice (`UpConserves`, `DownConserves`),
so neither side is ever beyond it, for any window.

*FrameCodec.* For every base, width of the fields, payload limit and frame limit:
`ParseInvertsEncode`, `parse_frames` returns the frames that `encode_frame` wrote, in
their order and no others; and `ParseIsExact`, it accepts no byte string but those
made up of such frames, whose encoding the batch then is. Numbers come first: a
number below `Power(width)` is read back as written (`WrittenIsRead`), and a byte
string is the digits of the number it is read as (`ReadIsWritten`). The places where
the scan comes to form a function on `0 .. MaxBatchFrames`: it stays where no
frame fits (`ScanStays`), so it ends exactly when it took a frame with each step
(`ScanTakesFrames`), and on a batch it comes to the end of each frame (`ScanOfBatch`).
What is recursive in the code is a recursive function in the model. The induction
theorems of the library, whose predicate is an operator, cannot be instantiated:
`Induction`, `BoundedInduction` and `SeqInduction` take a set for the predicate, and
`Recursion` says that a start and a step make a function.

*PacketStream.* `Inductive` (`Spec => []IInv`), for any number of packets, sizes,
paddings, and cuts into frames, batches and chunks. `PacketsIntact` says nothing of
the bytes under way. `IInv` adds that each packet has a place of its own in the stream
(`Placed`) and `RestPending`: the buffer, and behind it the queue and the wire
deciphered at their position, are together the rest of the stream, where each packet
not yet returned stands at its place, as `pack_frame` made it. `read` finds that
packet's end and its payload whatever the padding (`PacketRead`) and takes no packet
that is not there in full (`NextPacket`). A batch moves bytes from wire to queue and
changes none, because `ParseInvertsEncode` holds and frames of other streams hold no
byte of this one (`RelayKeepsBytes`); a chunk is deciphered where it was enciphered
(`CipherConcat`, `CipherInverse`). `StreamTyped`, `PacketsStayIntact` and
`PacketsAreReturned` follow. The padding is recognised because payloads are multiples
of four bytes; the padded length must fit a signed field (`PacketAssumption`).

The invariants `SMInv` of `StreamManager` and `UplinkInv` of `HttpsCarrier` serve the
proofs only; both hold in the runs `streams` and `https`.

Assumptions: the `ASSUME`s of `StreamManager`, `WebSocketCarrier`, `WebSocketFlow`,
`LanesCarrier`, `HttpsCarrier`, `WebProxyConnection`, `Bootstrap`, `FrameCodec` and `PacketStream`,
which TLC evaluates in every run of a module that has them.

Only model-checked: all liveness (`DisconnectTerminates`, `LossReleasesStreams`,
`UplinkTerminates`, `Ends`, `CloseStreamEnds`, `DisconnectEnds`, `CarriersClosed`,
`LossEndsConnection` and their like rest on fairness, which is out of the provers' reach). Every invariant
and every action property of a passing run has a theorem.

## 6. Plan

1. *Done*: stream bookkeeping, credit channel, WebSocket carrier with the life
   cycle, their type and stream invariants proved.
2. *Done*: the life cycle as a module of its own, and `HttpsCarrier` with its types
   and the order of its uplink proved.
3. *Done*: `LanesCarrier`, its isolation and its refinement of `StreamManager` proved.
4. *Done*: `WebProxyConnection`: disconnects of four parties across a reconnect.
5. *Done*: `Bootstrap`, checked and proved.
6. *Done*: `FrameCodec` and `PacketStream`.
7. *Done*: proofs of `WebProxyConnection`: its types, `NoCircle`, `OwnCarrier`,
   `OldLoopsEnded` and `ReceivedOnceInOrder`.
8. *Done*: proofs of `DownlinkOnceInOrder`, `LossesBounded`, of the teardown of all three
   carriers, and of the refinement of `CreditChannel` in both directions.
9. *Done*: proofs of `FrameCodec` and `PacketStream`: `ParseInvertsEncode`,
   `ParseIsExact`, `PacketsStayIntact` and `PacketsAreReturned`.

## 7. Not modelled

* AES, HMAC and key derivation; TLS; aiohttp beyond what the code observes of it.
  (`compute_capability_from_hex` takes the hex secret as it is, while `README.md` and
  `tests/test_protocol.py` speak of a `dd` byte before it: a matter of contents no
  model here has.)
* `connector_v2.py`: `make_web_proxy_connector` calls `WebProxyStream(carrier,
  stream_id)` without the obfuscator its constructor requires (line 163), and
  `read` raises `NotImplementedError` (line 91).
* A batch that does not parse, on the multiplexed carrier: it skips it and goes on.
  `HttpsCarrier` and `LanesCarrier` have such batches, and `FrameCodec` refuses them.
* The stream tables under the HTTPS carrier: each of its stream operations is one
  call of `_send_up`, without the windows, queues and events of `StreamManager`.
* Cancellation of a caller of `open_stream`, `send_data` or `recv_data` by its own
  task (in the v1 connection a cancelled loop ends, which is modelled; what its
  cancelled call leaves in the carrier is closed with the carrier), a second
  `connect` on the same carrier, and a caller that goes on using a carrier it has
  disconnected, beyond the `open_stream` of `LanesCarrier`.
* `_WebProxyReader.readexactly`, which nothing calls.
* That `wait_for(..., timeout or 30)` of the v1 connection cuts the ninety seconds of
  the bootstrap short: in `Bootstrap` the caller may cancel at any time, and
  `PatientEnough` speaks of calls that were not cancelled.
* `__init__.py`: no state.
