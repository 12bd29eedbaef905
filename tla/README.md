# FileDrop: formal specification

TLA+ models of FileDrop, a peer-to-peer file transfer whose Spring Boot server
keeps room records and relays WebRTC signaling, and whose browser pages move the
files over a data channel. The modules are checked with TLC on small instances. All
safety properties that hold, of the room service, the signaling handler, the server
composed of both, the page, the negotiation and the transfer, are proved with TLAPS for
every instance.

File names below are relative to `src/main/java/com/filedrop/` (Java) and
`src/main/resources/static/js/` (JavaScript).

## 1. The system

| Part | State | Operations | Talks to |
|---|---|---|---|
| Room service (`service/RoomService.java`, `repository/`, `entity/`) | tables `rooms`, `transfer_sessions` | create, look up, check PIN, register and unregister a peer, complete, delete | called by the controller, the handler and the scheduler, on their threads |
| Cleanup scheduler (`service/CleanupScheduler.java`) | none | every five minutes one bulk `UPDATE` that expires rooms | the table |
| REST controller (`controller/RoomController.java`) | none | one service call per endpoint | room service |
| Signaling handler (`websocket/SignalingWebSocketHandler.java`) | three concurrent maps, one `RoomSessions` object per room, in memory | join, relay, leave, ping, close, error | room service; the WebSocket of every page |
| Signaling client (`websocket.js`) | WebSocket, remembered room, role and PIN, heartbeat timer | connect, join, send, dispatch, disconnect | handler |
| WebRTC manager (`webrtc.js`) | `RTCPeerConnection`, data channel, queue of early candidates | offer, answer, candidates, close | signaling client, the peer's manager through the handler |
| Transfer engine (`file-transfer.js`) | sender: loop position, `isCancelled`; receiver: current file, chunks, counters | send a batch, cancel, receive, assemble | the peer's engine, over the data channel |
| Application controller (`app.js`) | role, room code, the current manager and engine | start, create flow, join flow, reconnect timer, batch start, audit report | all of the above |
| User interface (`ui.js`, `index.html`, css) | current view, selected files, a queue of file cards | show a view, select files, start, offer a download | the controller, which reads its view and files; the engine's events |
| `qrcode.min.js`, DTOs, exceptions, configuration, `schema.sql`, build and deployment files | wiring | | |

What makes each part correct, and what makes it hard:

* **Room service.** Every method is a transaction that reads rows and writes whole
  rows back; there is no `@Version` and no lock. Container threads, HTTP threads and
  the scheduler overlap. A room must not lose its PIN, its audit entry or a
  report; its status must agree with its peers; it must not expire early, and it
  must expire in the end.
* **Handler.** Messages of one session are handled in order, those of different
  sessions in parallel. The maps are concurrent and the setters synchronised, but
  `handleJoin` and `cleanupSession` are sequences of such accesses, with plain reads
  and writes of the seats in between. Routing must stay among sessions that passed
  the PIN check, seats and map entries must not leak, and concurrent joins must not
  miss each other. A send can fail, and a connection can break at any point.
* **Server.** The handler's memory dies with the process, the tables need not.
* **WebRTC manager.** Async functions interleave at each await; candidates may come
  before descriptions; the server may announce a pair twice; a WebSocket may break
  while peers negotiate.
* **Page.** The start, the flows and the reconnect timers share one client and one set
  of fields, and each of them reads these after an await. The promise of `connect()` is
  settled by `onopen` only; a join is dropped when the socket is not open; a late close
  event may belong to an older socket. There must be one socket, in one room, with one
  manager whose role fits it, and one batch at a time.
* **Transfer engine.** The loop waits for slices and for the buffer; the user may
  cancel meanwhile; the channel may close between any two messages. A file must be
  handed over whole or not at all, and what was offered for download must stay.

## 2. Modules

| Module | Models | Role |
|---|---|---|
| `RoomService` | room service, scheduler, endpoints | component |
| `RoomServiceProofs` | | theorems about `RoomService` |
| `SignalingHandler` | the WebSocket handler | component |
| `SignalingHandlerProofs` | | theorems about `SignalingHandler` |
| `SignalingServer` | handler calling service, beside HTTP, scheduler, restarts | composition |
| `SignalingServerProofs` | | theorems about `SignalingServer`, from those of both parts |
| `SignalingClient` | the page's WebSockets and the room it remembers | operators and invariants of a component |
| `FileDropPage` | the controller and what it uses of the UI, around the client | composition |
| `FileDropPageProofs` | | theorems about both |
| `PeerNegotiation` | the managers of both pages, the relay between them | component |
| `PeerNegotiationProofs` | | theorems about `PeerNegotiation` |
| `FileTransfer` | the engines of both pages and the data channel | component; implements `AbstractTransfer` |
| `FileTransferProofs` | | theorems about `FileTransfer`, the refinement among them |
| `TransferBytesProofs` | | theorems about its byte counts, with the induction they need |
| `AbstractTransfer` | what a transfer promises its receiver | abstract specification |
| `MC*` | | instances for TLC: symmetry, views, small data |

### RoomService

`db[r]` is the committed row of room `r`, `audit[r]` its audit row (the status, and
whether `completedAt` is set), `lapsed` the rooms whose `expiresAt` has passed, and `tx[t]` what the open
transaction of thread `t` will flush. A method is two steps: a *Begin* step named
after the method reads the tables and computes the rows it will write, and a *Commit*
step writes them. Hibernate's dirty checking is `Dirty`: an unchanged row is not
written. Between the two steps anything may commit, which is how lost updates arise.
`createRoom` may also start on an existing code (`createRoomFromClock`, after twenty
collisions); `CommitCreate` and `FailCreate` are the unique index on `room_code`.
The status of a report is whatever string the client sends (`Reports`): no code
validates it. `findActiveRoom` never writes: the `EXPIRED` status the method sets is rolled back
with the exception it throws. The bulk update of the scheduler is atomic. `Lapse` is
the clock.

A thread of the handler bears the name of its session. HTTP threads are `Workers`.

### SignalingHandler

`call[s]` is the program counter and locals of the thread that handles session `s`;
`rooms` maps a code to an object identity and `heap` gives the object's two seats, so
that a thread can hold a `RoomSessions` that the map has forgotten. Each step is one
operation of a concurrent map, one synchronised method, or one plain access to a
field. `handleJoin` is Enter, TakeSeat or RoomFull, the service call, Ack, the
double-read test (SenderSet, SenderOpen, ReceiverOpen, NullDereference) and the two
announcements; `forwardToPeer` is Forward, Route, Deliver; `cleanupSession` is Cleanup
to Unregistered. `link[s]` is what `isOpen()` answers. `SendThrows` is the
`IOException` that leaves the handler when a peer's connection is breaking; Spring
then closes the session that was being served. `FarewellThrows` is the other exception:
around `peer-left` only `IOException` is caught (line 230), and `isOpen()` is tested
(line 252) before the monitor and the send (lines 253-255), so that a peer that closes in
between makes `sendMessage` throw `IllegalStateException`, which ends the cleanup before
lines 235-247. The container's second cleanup finds the session in no map. `admitted`,
`joined`, `told` and `abandoned` (the sessions whose cleanup was ended like that) are
history variables. Unreachable objects may be allocated again (`Garbage`).

### SignalingServer

The handler instantiated beside the service, sharing `Rooms`, `Sessions` and `None`.
`validateRoomAccess` guards a join, and the handler's register and unregister steps
take the transaction of the same thread with them. The relay of messages is the
handler's own. `Restart` empties the handler's memory and keeps the tables. The history
variable `presented` holds which session typed which PIN for which room.

### SignalingClient and FileDropPage

`signaling` is the client: all sockets it has made, the last of which is `this.ws`,
`isConnected`, and the room and role that `onopen` joins again. Each socket records
the last join sent on it and who awaits its opening. The operators of
`SignalingClient` map a client to the client after a method or an event handler;
`FileDropPage` says when they run.

A step of `FileDropPage` is a task of the event loop together with the code that
follows it in promises already resolved. So `SocketOpens` is the `onopen` handler and
what its waiter does next (`Continue`: the rest of `init`, of the reconnect timer, of
`startCreateFlow` or of `joinExistingRoom`), and the answer to a `fetch` runs the flow
up to the socket it has to await, or to its end. A flow whose socket fails is never
heard of again, as in the code. `SocketFails`, `SocketBreaks` and the pair
`SocketClosing`, `SocketClosed` are the ways a socket ends; in the last, the close
event comes when a newer socket may exist. Server, peer and user are the environment:
a request is answered or refused, the peer negotiates, leaves or loses the channel,
and the user starts flows, switches views, selects files and presses Start whenever
the view has the button. `manager` and `engine` keep only what the page depends on;
their inner life is in `PeerNegotiation` and `FileTransfer`. `created`, `flow`,
`manager.alone` and `manager.shown` are history variables: `flow` says what became of the
flow started last, and whether it had the page for itself; `alone` the same of the flow
that made the manager; `shown` counts the rooms put on screen since it was made while
their socket was still to be opened.

### PeerNegotiation

`mgr[p]` is the manager of page `p` with its connection. The await discipline: all
awaits are on operations of the connection, the browser runs those of a connection
one at a time (`ops`), and drops them when the connection is closed. A function
therefore resumes only on the connection it awaited. `HearX` handles a message up to
its first await; `OfferCreated`, `RemoteDescriptionSet`, ... complete an operation
and run the code up to the next await. Descriptions and candidates carry the number
of the connection they come from. The server is reduced to an in-order relay that
announces the pair, drops what is sent to or by a page without a socket, and reports
a broken socket to the other page. `Announce` more than once is what the handler does
when two joins overlap: each of them finds both peers present.

### FileTransfer

`channel` holds messages sent and not yet handled, `onWire` how many of them have
left the sender's buffer, so `bufferedAmount` is the bytes of the rest. `pc` is where
`sendFiles`/`sendFile` is: between files, at the top of the chunk loop, waiting for
the buffer, or waiting for a slice. While it runs without an await (`Running`) nothing
else happens in the sender's page. `waitForBufferDrain` ends with the event
(`BufferLow`) or after 200 ms (`DrainTimeout`). `rx` is the receiving engine. `Close`
loses any tail of the channel. The receiver's cancellation arrives at `HearReceiver`,
which changes nothing in the sender. `rx.cards` is the queue in the receiver's
dashboard: progress and completion address a card by the index in the message, and a
card that offers a download holds the chunks of the file it offers. `ShowDashboard` is
`initDashboard`, which renders an empty queue (ui.js:262-277) at every `datachannel-open`
(app.js:271) and in the join flow (app.js:215): the cards of a former connection, with
the downloads they offer, are gone. The Cancel button may be pressed again and again.

`AbstractTransfer` is the promise: files arrive whole, each once and in the order of the
batch; completion is told after the last of them; and once the receiver has heard that
the sender cancelled, no file and no completion comes. It may stop anywhere.

## 3. What the runs check

| Run | Instance | Shows |
|---|---|---|
| `room_service` | 1 room, 2 sessions, 1 HTTP thread, 1 PIN, reports `COMPLETED` and `INITIALIZED` | no interleaving of transactions breaks `RoomTypeOK`, `StatusMatchesPeers`, `ExpiredOnlyWhenLapsed`, `CompletedIsAudited`, `RoomIdentity`; `RoomInv`, the invariant of the proofs, holds; every lapsed room becomes `EXPIRED` (`LapsedEventuallyExpired`) |
| `handler` | 1 room, 3 sessions, 3 joins in all | `HandlerTypeOK`, `RoutedOnlyAmongAdmitted`, `SeatsBelongToMembers`, `PairNotified`, `RoomsHaveMembers`; seats and entries are left behind only by sessions that moved or whose cleanup an exception ended |
| `handler_cleanup` | 2 rooms, 2 sessions, 2 joins | sessions that move between rooms: `HandlerInv`, the invariant of the proofs, also when a message names another room, and `ClosedIsForgotten`, with the same exceptions for seats |
| `server` | 1 room, 1 session, 1 HTTP thread, 1 PIN, 2 joins, no reports | `RecordedPeersKnowPin` (who is named in a row typed the PIN of its room) and `ServerInv`, the invariant of the proofs, across restarts |
| `page` | 2 rooms to create, 1 foreign room, 3 flows, 2 broken sockets, 2 data channels | `PageTypeOK`, `OneSocket`, `OpenSocketIsInRoom`, `FlowLeavesOneRoom`, `OneBatchAsSender`; `PageInv`, the invariant of the proofs; `SettlesOnline`, `FlowReachesItsRoom` |
| `negotiation` | 2 announcements, 1 broken socket, 2 candidates per connection | `NegotiationTypeOK`, `NoCandidateStranded`, `NoCandidateLost`, `ReceiverFollowsSender` (the last two while no socket has broken); `NegotiationInv`, the invariant of the proofs; `NegotiationCompletes` |
| `transfer` | batches `<<3,0,2>>`, `<<5>>`, `<<0>>`, chunks of 2, buffer 3, low water 1 | `TypeOK`, `FilesIntact`, `DownloadsOffered`, `CompleteMeansEverything`, `CancelStops`, `SenderReportsEverything`; `TransferInv`, the invariant of the proofs; `ImplementsTransfer`, the refinement of `AbstractTransfer`; `BatchArrives` |
| `handler_routing`, `server_register`, `negotiation_matches`, `negotiation_rejoin`, `page_sends` | | violated: see section 5 |

**Why these bounds are enough.** A lost update needs two transactions and a third
to observe or repair, and the rows of different rooms never interact (a transaction
over several rooms only repeats the same computation), so one room, two sessions and
one worker contain the cases. In the handler the conflicts are between a joiner, its
peer and a third session that displaces or cleans up; three joins allow a rejoin by
one or a displacement. Two rooms matter when a session joins the second without
leaving the first and when a message names a room that is not its sender's: two
sessions and two joins are enough for both. One object per session is enough, since
garbage is reused. The server run has one session because the handler's own races are
the subject of `handler`; what is new is the table's races with HTTP threads, the
scheduler and restarts. Its `JoinRoles` include `"other"`. For all the safety
invariants of these four runs the proofs remove the bounds.

In `page`, three flows are one that ends, one that is overtaken and the one that
overtakes it; two breaks are one socket that is replaced and one that fails while
being replaced; two data channels are one for each of two managers. In `negotiation`,
two announcements are the overlap that matters (a third restarts again), and two
candidates let one be queued while another is added directly. The proofs remove the
bounds of these runs and of `transfer` too. The batches cover an empty file, a file of exactly one chunk, a short last chunk and several files; a
buffer limit of 3 makes the loop wait with two chunks queued, and chunk boundaries
are cut wherever cancellation or closing may fall.

`MaxJoins`, `MaxAnnouncements`, `MaxBreaks`, `MaxCandidates`, `MaxFlows` and
`MaxOpens` are bounds in guards, and so is that one cancellation at a time is on its way in
`transfer`. Deadlock checking is on in `room_service`,
`server` and `server_register`. It is off where the system really stops: when the
joins or flows of the instance are used up, when a batch is over, when negotiation is
complete.

**Symmetry and views.** `handler`, `handler_routing`, `server` and `server_register`
use symmetry on sessions and objects, which occur symmetrically in the specification
and the properties. `handler` hides what unreachable objects hold. The runs with
liveness properties use neither.

**Fairness.** `RoomFairness`: the scheduler keeps running and a transaction ends.
`FairHandlerSpec`: the container runs each handler call and each close callback to
its end; nothing is assumed of clients. `FairPageSpec`: timers fire, a server that is
asked answers, a socket that neither fails nor breaks opens, and the close event of a
closing socket comes; nothing is assumed of the user or the peer, and that the server
can be reached in the end is the bound on breaks. `FairNegotiationSpec`: messages are
delivered, operations of open connections complete, candidates are found, a matching
pair connects; nothing is assumed of joins, breaks or rejoins. `Fairness` of
`FileTransfer`: event loops and the open transport make progress; nothing is assumed
of users, of a channel staying open or of files being readable. All are weak
fairness, since none of these steps depends on a race that it could lose forever.

Each property has a mutant: an operator beside the code's own (commented `Mutant`)
that differs as a plausible mistake would, and under which the property fails.

## 4. What is proved

All theorems hold for arbitrary, even infinite, sets of rooms, sessions, threads, PINs
and objects, and arbitrary bounds. Each is proved from an inductive invariant that TLC
has checked in the run of the module.

### RoomServiceProofs

Assumptions: `None` is no session and no status that can be reported or stored, and HTTP
threads are not handler threads. Nothing is assumed of `Reports`: clients may report any
strings.
`RoomSafety` is `RoomSpec => []RoomInv`; `RoomTypeCorrect`,
`StatusMatchesPeersHolds`, `ExpiredOnlyWhenLapsedHolds`, `CompletedIsAuditedHolds`
and `RoomIdentityHolds` are the safety properties of `room_service`.

*Why a strengthening is needed.* `StatusMatchesPeers` speaks of committed rows, but a
commit copies a row out of `tx` that was read long ago. So `RoomInv` says of a row on
its way to the tables that it is consistent in itself, never `EXPIRED` (methods
that keep a room's status refuse an expired room, the others set another status), is for an
existing room and carries that room's own PIN. `CompletedIsAudited` needs more: a
transaction may write `COMPLETED` back after reading it, which is harmless because the
audit row, once a report is recorded in it, stays a reported one, or else carries the
report itself. What is kept is that *a* report was recorded (`completedAt` is set), not
that it was an outcome (section 5). A creating
transaction carries a fresh `WAITING` row and must find the code free.

*Layout.* `NewRows`, `RegisteredRow`, `UnregisteredRow`, `RelabelledRow` say what the
row operators preserve; `BeginUpdate` and `InsertStep` say once what any Begin step
must show; `FlushEffect` and `FlushStep` do the same for commits; `RoomsKept` is the action property behind
`RoomIdentity`, one step at a time; `RoomStep` has one case per action.

### SignalingHandlerProofs

Assumption: `HandlerAssumption` (`None` is no session, object or room; roles).
`HandlerSafety` is `HandlerSpec => []HandlerInv`; from it `HandlerTypeCorrect`,
`RoutedOnlyAmongAdmittedHolds`, `SeatsBelongToMembersHolds`, `RoomsHaveMembersHolds`,
`PairNotifiedHolds`.

*Why a strengthening is needed.* `handleJoin` and `cleanupSession` hold references to
`RoomSessions` objects that the map may have forgotten, and test and write seats
without a lock. `RoutingInv` therefore speaks of every object that a room's map entry
*or a call in flight* denotes: it denotes one room only, and whoever sits in it passed
that room's PIN check; `Sound` says the same of the locals of each call, so that a
peer read long ago is still one of the same room when it is written to. `SeatingInv`
says who is responsible: whoever sits in a mapped room is a member, is
being cleaned up by a call that will still reach that seat (`Leaving`), or is `Stranded`:
it moved on to another room, or an exception ended its cleanup; a mapped room in
which nobody sits is in the hands of a call that will sit down in it or remove it
(`Keeps`), unless somebody moved out of it. `AbandonedAreClosed` says that whoever
escaped its cleanup has closed, so that it neither joins again nor counts as a peer.
`NoticeInv` says who announces: of two open peers that sit together and were
not told of each other, one is in a join that will find both and tell both
(`Announces`), or its join failed, or it is a member of another room. That needs
`Joining`: a session that sits in a room already and joins it again sits down in the same
object, so that it cannot be answered for another one. `PairNotified` is therefore about
members of the room: a session whose registration failed keeps its seat, joins another
room and is answered there, without the peer of its first room ever hearing of it.

*Layout.* One family of lemmas for types (`JoinTypes`, `ForwardTypes`,
`CleanupTypes`), one for `RoutingInv` (`EnterStep` to `ClientSteps`), one for
`SeatingInv` (`QuietStep` for steps that leave the seats alone, then one lemma per
step that does not), one for `NoticeInv` (`SteadyStep` for steps in which nobody sits
down; then `EnterNotice` and `TakeSeatNotice`).

### SignalingServerProofs

`ServerSafety` is `ServerSpec => []ServerInv`, where `ServerInv` is the invariants of
both parts, `PeersVouched` (each session named in a row, committed or on its way, was
admitted to that room) and `AdmittedKnowPin` (who was admitted typed the PIN that the
room has to this day). `RecordedPeersKnowPinHolds` follows. The second part needs that no
step of the tables changes the PIN of a room, which `RoomService`'s own action property
says of stale rows, too (`PinPart`).
The handler's steps are instances of its own (`HandlerPart`), for which the handler's
step lemma is reused through an instance of `SignalingHandlerProofs`
(`SameInvariant` says that the invariant of that instance is the one of the server's);
`RestartHandler` adds the restart, and `JoinerWasAdmitted` is where the two parts meet:
only an admitted session gets to register.

### FileDropPageProofs

`PageSafety` is `PageSpec => []PageInv`; from it `PageTypeCorrect`, `OneSocketHolds`,
`OpenSocketIsInRoomHolds`, `FlowLeavesOneRoomHolds`, `OneBatchAsSenderHolds`, for any
number of sockets, breaks, flows and channels.

*Why a strengthening is needed.* A flow reads `roomCode` and `role` after its awaits,
so its outcome depends on where everybody else is; that is `FlowInv`. `ClientInv`: all
sockets but the last are on their way out, and the last one, once open, was sent the
join of the remembered room. `FlowAlone`: a flow that has the page for itself is at
exactly one place, its fetch or the socket made last, and from the moment its room is
settled no one else writes room or role. `FlowDone`: it leaves nothing under way.
`SenderSends`: who is sending has left the view with the Start button and comes back to
it only with another room on screen, which is what `manager.shown` counts; and as long as
none was shown since the manager was made, that view, the role and the files on their
way are the sender's only if the manager is. `CountInv` is for `PageTypeOK`: a close event adds
a reconnect timer long after the break that causes it, so that timers alone are not
bounded by the breaks, while timers and sockets whose close event is still to come
are; likewise no flow awaits two answers.

*Layout.* First what each operator of the client preserves (`Connected`, `Joined`,
`Closing`, `Onclosed`, `Onopened`), then one lemma per step of the page, for `FlowInv`.
For `CountInv`, `LeavingCounts` says what an event does to the finite set `Leaving`,
and one lemma per kind of event (`OpensCounts` to `AnswerCounts`) what it does to the
counts.

### PeerNegotiationProofs

Assumption: the three bounds are natural numbers. `NegotiationSafety` is
`NegotiationSpec => []NegotiationInv`; from it `NegotiationTypeCorrect`,
`NoCandidateStrandedHolds`, `NoCandidateLostHolds` and `ReceiverFollowsSenderHolds`, for
any number of announcements, broken sockets and candidates.

*Why a strengthening is needed.* All three properties compare the two ends of a
conversation whose messages and operations are still under way. `QueueInv`: candidates
that wait beside a remote description are being drained by an operation of the chain.
`ManagerInv`: at most one operation at a time leads a page to its local description,
and none once it has one, so that a connection is described once. `Ordered`: that
description reaches the other page before the connection's candidates; each candidate
is on its way, held, or missed by a manager that was set to another connection first.
`Follows`: the sender's current offer is being made, or is the last one on its way, or
is what the receiver is being set to. The last two hold while no socket has broken,
as the properties they serve.

*Layout.* First what the operators on a manager do to its fields, its chain and the
sets it stands for (`Awaited`, `Popped`, `Drained`, ...); then that each keeps
`ManagerInv`; then how a step looks from either end of the conversation (`Advances`,
`PeerAlike` to `PeerGathers`); then one lemma per action, by `HearStep`, `ContinueStep`
or `SendStep`.

### FileTransferProofs

Assumption: `TransferAssumption` (batches are non-empty sequences of sizes, chunks have
at least one byte). `StreamSafety` is `Spec => []StreamInv`; from it `TransferTypeCorrect`,
`FilesIntactHolds`, `DownloadsOfferedHolds`, `CancelStopsHolds` and
`EnginesImplementTransfer`, the refinement of `AbstractTransfer`.

*Why a strengthening is needed.* The receiver takes at `file-end` whatever chunks it
has, without a check: that they are the file's depends on everything sent before.
`StreamInv` gives every message a place where it belongs and a place where it leads
(`Before`, `After`), and says that the messages in the channel are a connected stretch
of the batch which starts where the receiver is (`ReceiverAt`) and, while the channel is
open, ends where the sender's loop is. Only after a cancellation it may be torn, and
then nothing but chunks and cancellations follows, so that no file is finished any
more. Of the receiver it says that the files received are the first ones of the batch,
each with its pieces and its card, and that the current one is the next, with its first
pieces. `CancelStops` is inductive beside it.

*Layout.* `Sent`, `Handled`, `Lost` and `Kept` say what appending, removing, cutting and
leaving alone do to the channel's part; `PieceCount` and `PieceAdded` are the arithmetic
of chunks; then one lemma per step; `TransferSteps` maps each step to one of
`AbstractTransfer` or to a stutter: the handling of `file-end`, of `batch-complete` and
of `transfer-cancelled` to `Receive`, `Complete` and `Stop`.

### TransferBytesProofs

`TransferSafety` is `Spec => []TransferInv`, where `TransferInv` is `StreamInv` and
`AccountInv`; from it `CompleteMeansEverythingHolds` and `SenderReportsEverythingHolds`.

*Why a strengthening is needed.* Both properties sum sizes over the whole batch, while a
step adds one chunk at one end of the channel. `AccountInv` says, at every step of the
loop, that what the receiver has counted and what is in the open channel is what the
sender has sent so far (`BytesSent`), until the sender cancels; and that what the receiver
has counted is what it holds (`BytesHeld`: whole files and the pieces of the current one).
The second needs an exception: a chunk whose slice was awaited during a cancellation
arrives after the cancellation, and is counted for a file that never ends. It cannot be
behind `batch-complete`, which is why a cancellation after the last message spoils
nothing.

*Layout.* `Total`, the sum, is a recursive function, and what it returns takes
induction. The library's induction theorems have an operator as a parameter, which the
provers cannot instantiate, but `WFMin` (a non-empty set has a least element) has none:
`Induction` derives from it that a set of natural numbers which holds 0 and is closed
under successors is `Nat`. `SumsExist` and `SumsUnique` show by it that the recursive
function is well defined, `TotalAppend` and `TotalTail` that a sum changes as expected
at either end. `BytesLaws` and `PrefixLaws` restate that for messages and for the files
of the batch; then one lemma per step.

## 5. Findings

Each has a run with a counterexample.

* **Two peers that never meet** (`handler_routing`). A cleanup may remove the room
  that a joiner has just looked up, lines 242-243 against line 122. The joiner and its
  peer end up in different `RoomSessions`, both answered "joined".
* **Lost registration** (`server_register`). Of two concurrent
  `registerPeerConnection` calls, the later commit erases the earlier session id, and
  the room stays `WAITING` with both peers connected.
* **Answer on the wrong connection** (`negotiation_matches`). After a second
  `peer-joined`, the answer to the first offer is set on the second connection and
  the right answer is refused; both pages wait forever.
* **Deaf after a broken WebSocket** (`negotiation_rejoin`). `peer-left` makes the
  manager remove its listeners for good, so a peer that reconnects is not offered a
  connection.
* **A refused join silences the sender** (`page_sends`). `joinExistingRoom` stores room
  code and role (app.js:191-193) before the server has verified them, and its catch
  block restores nothing. A page that created a room, selected files and then tried
  another code in vain takes itself for a receiver when its own receiver connects: it
  sends nothing.

Observed while modelling, without a run of their own:

*Server*

* README.md:256 promises at most two peers and a `RoomFullException`; `setSender` has
  no check (handler line 39), a second sender displaces the first, which stays a
  member, and nothing throws that exception.
* README.md:257 says inactive rooms expire; `expireOldRooms` looks at the creation time
  only and expires rooms in use.
* `RoomController` answers "Room closed" to a DELETE, but the room can be joined again
  (`RoomService` lines 176-181 leave it `DISCONNECTED`).
* `peer-left` may be sent to the peer after the leaver's seat was taken again (handler
  lines 220-230), and closes a data channel that needs no WebSocket.
* A session that joins a second room without leaving the first keeps its seat there for
  good: `sessionToRoom` remembers the last room only (handler line 134). The page never
  sends `leave`.
* A receiver that reconnects while the server still believes its old connection open is
  answered that the room is full, and does not try again (handler line 44).
* `RoomService` line 164 stores whatever status the client sends, and the controller takes
  the body without `@Valid` (`RoomController` line 49), although `CompleteTransferRequest`
  line 14 says "COMPLETED or FAILED": a finished transfer may bear the status `INITIALIZED`,
  and a second report replaces the first.
* A cleanup compares a seat with its session (line 238) and clears it (line 239) without
  the monitor that `setReceiver` holds: a receiver that sits down in between is told
  "joined", sits nowhere, and is not reached by its peer.
* When the peer closes between `isOpen()` and `sendMessage`, the exception that `peer-left`
  throws is not caught (line 230): the leaver keeps its seat and the row keeps naming it.
  The map entry stays until the cleanup of another member of the room finds it empty
  (lines 242-243), or for good. This is the exception in `SeatsBelongToMembers`,
  `RoomsHaveMembers` and `ClosedIsForgotten`.
* After a restart the rows name sessions of the former process until other peers register.
* `getStats` computes its counters in separate queries.

*Page*

* The promise of `SignalingClient.connect` is never settled when the socket fails: the
  start of the page does not get to install its handlers (websocket.js:20-59,
  app.js:24-31), and a create flow leaves a room on the screen that is never joined.
  `flow = "stranded"` is that end.
* Two flows that overlap mix their rooms: the first reads `roomCode` and `role` as the
  second left them, and may join the other's room as its sender (app.js:211).
  `flow = "mixed"` marks them; `FlowLeavesOneRoom` is about the others.
* While a create flow awaits its socket, the old channel is still open beside the new
  room, and the Start button starts another batch on it (app.js:261), also in the page of
  a receiver. Each room shown like this may add one loop, until a flow makes the next
  manager, which never happens if the socket fails. And a manager made by a flow that
  another one overlapped need not go with the page's role, so that the page that did not
  create the room may send. These are the exceptions in `OneBatchAsSender`.
* A late close event of an older socket sets `isConnected` to false and stops the
  heartbeat of the newer one (websocket.js:53).
* The client dispatches signaling messages without a look at their room.
* The audit report is posted under the page's current room code, which a refused join or
  a later flow may have changed.

*Transfer*

* The sender reports and audits `COMPLETED` when the last message is queued
  (file-transfer.js:95-100); the channel may still lose it. `SenderReportsEverything` is
  what remains true.
* The receiver's cancellation does not stop the sender: file-transfer.js:238-241 only
  emits an event.
* Another connection, or another join, empties the dashboard, and files that were received
  and not yet saved are no longer offered (app.js:215, 271; ui.js:262-277).
  `DownloadsOffered` is about the time until then.
* A chunk may be sent after 200 ms although the buffer is still above its high-water
  mark (file-transfer.js:163).
* The cards of the sender's own dashboard never become "Transferred".

## 6. What is only model-checked, and what is not modelled

**Only model-checked.** Liveness (`LapsedEventuallyExpired`, `ClosedIsForgotten`,
`SettlesOnline`, `FlowReachesItsRoom`, `NegotiationCompletes`, `BatchArrives`), which is
out of the prover's reach. Every other property of a passing run is also a theorem.

**Not modelled.** In the service: byte and file counts of the audit entry, `getStats`
(read-only), `updateRoomStatus` (no caller). In the handler: ping and pong, messages that only earn an error. In the client and the page:
`disconnect()` (never called), the heartbeat (it follows `isConnected`), the room under
which the audit report is posted, the reload of a page (which is a new page). Of the
UI: toasts, sounds, telemetry, QR code, event log and theme, which are display only. In
`PeerNegotiation`: the replacement of a manager by the controller (it is in
`FileDropPage`, without the negotiation's messages). In `FileTransfer`: what two calls
of `sendFiles` on one engine would write (`FileDropPage` says when there can be two),
progress and speed. Further the QR library, DTOs and exception mapping, and
configuration, which keep no state. Java memory-model effects beyond the interleaving of single
accesses (the seats are plain fields) are not modelled.

## 7. Plan

The order is by importance of the behaviour; all items are done.

1. `RoomService`, with its proofs.
2. `SignalingHandler`, also with two rooms, with its proofs.
3. `SignalingServer`, with its proofs.
4. `FileTransfer`, implementing `AbstractTransfer`, with its proofs, byte counts included.
5. `PeerNegotiation`, with its proofs.
6. `SignalingClient` and `FileDropPage`, with their proofs.

Left for later: which engine writes what when two calls of `sendFiles` overlap on it, and
the negotiation's messages across a replacement of the manager, both of which join
modules that are separate now.
