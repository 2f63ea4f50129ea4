# Verification of the olcvpn-client transports

TLA+ models of the concurrent and distributed parts of this repository, checked
with TLC on small instances. The safety of the six concrete models is proved with
TLAPS for every value of their parameters, with the exceptions named in section 4.
`PROJECT.json` maps every definition to the source lines it models.

## 1. Inventory

The repository is a VPN client for Android with several interchangeable
transports and their servers. Most of `src/` is vendored or imported (sing-box,
xray-core, amneziawg-go, free-turn-proxy, openflux, csqtt, snolc). The project's
own concurrent logic is in the following parts.

| Part | Where | State | Operations |
|---|---|---|---|
| ARQ data plane | `masterdns/internal/arq/arq.go`, the queues of `stream_client.go`, `stream_server.go`, the dispatcher | send buffer with Dispatched flags, transmit queue, receive buffer, 16-bit counters | `ioLoop`, `checkRetransmits`, `NoteTXPacketDequeued`, `ReceiveAck`, `HandleDataNack`, `ReceiveData`, `rxLoop`, `writeLoop`, two watchdogs |
| ARQ closing | `arq.go` | half-close, reset and drain flags, control send buffer | `Close`, `MarkClose...`, `ReceiveControlAck`, `checkRetransmits` |
| Stream set-up | `masterdns/internal/udpserver`, `internal/fragmentstore` | marks of SYNs in flight, queues, lanes and counters of the deferred processor, fragment store, streams and recently closed streams of a session | `dispatchDeferredSessionPacketTracked`, `Enqueue`, `RemoveLane`, `finishLane`, the dial, `attachUpstreamConn`, resets, `cleanupClosedSession` |
| MasterDNS sessions | `masterdns/internal/client`, `masterdns/internal/udpserver` | session table, in-flight DNS queries | session initialisation, idle cleanup |
| Stream bond | `bond-server/bond.go`, `OlcrtcRoomManager.kt` (`runBondSession`), `OlcrtcBond.kt` | per lane dead flags, fan-in channel, reorder buffer, cancellation | splitter, lane readers, reorder, shutdown |
| Bond registry | `bond-server/main.go`, `OlcrtcRoomManager.kt` (`forwardBonded`) | sessions by connID, timers | dial, Hello, `handleLane`, `expire` |
| Room manager | `OlcrtcRoomManager.kt`, `olcrtc/mobile/mobile_rooms.go` | handles, pool of ports, latch, listening socket, live sockets, room registry | `start`, `superviseRoom`, accept loop, `stop`, `StartRoom`, `StopAllRooms` |
| olcRTC core | `olcrtc/internal` | WebRTC link, control stream, supervisor | handshake, health checks, reconnection |
| wdtt | `wdtt`, `wdtt-server` | sessions over TURN relays | dial, dispatch, NAT |

How they interact:

- An application connects to a local port. In MasterDNS mode, a stream is an ARQ
  object on each side. Its packets go through a transmit queue per stream that a
  dispatcher drains into DNS queries, and come back in DNS answers. The path
  loses, duplicates and reorders.
- In multi-room mode the room manager keeps several olcRTC rooms up and balances
  connections over their local ports. With the bond, one connection is striped
  over one lane per room. Each lane starts with a Hello; the bond server's
  registry groups lanes by the connID in it and hands a complete group to
  `serveSession`, which reassembles the stream for an inner SOCKS session.
- Threads share state through mutexes that are released between related steps
  (`arq.go`), through channels (bond) and through volatile fields and lists
  (room manager).

What is hard here, and what makes each part correct:

- ARQ data plane: six goroutines per stream touch the send buffer in separate
  critical sections; wire numbers wrap around; acknowledgements name only a
  number. Correct means: chunks are written in order and once, no acknowledgement
  frees what the receiver does not hold, and everything is eventually delivered.
- ARQ closing: either side may end, break or reset at any point, every close
  waits for the data before it and for its acknowledgement, and every wait has a
  deadline. Correct means: an end of stream comes when every chunk has arrived, an
  end without a reset hides none, and no endpoint stays open after its peer is gone.
- Stream set-up: a SYN is acknowledged before it is executed, so nobody sends it
  again; copies, resets, closes and the teardown of the session race with the
  queue and the dial. Correct means: the client is answered, no upstream
  connection leaks, no mark of a SYN outlives its task, and the counters that bound
  the queues stay exact.
- Bond: lanes have different speeds and fail, both ends cancel each other's
  reads and writes while data is on its way. Correct means: in order, no
  truncated stream ends with a FIN, no deadlock under backpressure, no goroutine
  left behind.
- Registry: the timer of an incomplete group races with its last lane; a connID
  may come twice. Correct means: every lane is in one place, is eventually
  served or closed, and a group is the lanes of one connection.
- Room manager: `stop` runs while rooms come up, while `start` waits and while
  connections are accepted. Correct means: a balancer that serves has a room,
  and nothing survives `stop`.

`PROJECT.json` lists the hazards one by one with their lines.

## 2. Modules

| Module | Models | Composes |
|---|---|---|
| `ReliableStream` | abstract: what a reliable byte stream promises (chunks read here are written there, in order, once) | |
| `ARQData` | one direction of the ARQ data plane, path included | refines `ReliableStream` |
| `ARQDataInv` | the assumption on the sizes and the inductive invariant | extends `ARQData` |
| `ARQDataProofs` | theorems about `ARQData` | extends `ARQDataInv` |
| `Bond` | both ends of one bonded connection, from established lanes to the last goroutine | refines `ReliableStream` twice, once per direction |
| `BondProofs` | theorems about `Bond` | extends `Bond` |
| `BondRegistry` | opening, announcing and grouping the lanes | hands to `Bond` |
| `BondRegistryProofs` | theorems about `BondRegistry` | extends `BondRegistry` |
| `RoomManager` | supervisors, `start`, accept loop, `stop`, with the registry of room instances | |
| `RoomManagerProofs` | theorems about `RoomManager` | extends `RoomManager` |
| `ClosingStream` | abstract: a reliable stream whose end comes when every chunk is acknowledged, unless it is aborted | extends `ReliableStream` |
| `ARQClose` | how the two endpoints of a stream end it | refines `ClosingStream` twice, once per direction; complements `ARQData`, which has the open stream |
| `ARQCloseProofs` | theorems about `ARQClose` | extends `ARQClose` |
| `DeferredConnect` | how the server sets a stream up, and takes a session down | ends where `ARQData` begins |
| `DeferredConnectProofs` | theorems about `DeferredConnect`: upstream connections | extends `DeferredConnect` |
| `DeferredQueueProofs` | its types, queues and counters | extends `DeferredConnectProofs` |
| `DeferredMarkProofs` | its marks of SYNs in flight | extends `DeferredQueueProofs` |

### ARQData

The i-th chunk that `ioLoop` reads is the number i; its wire number is i modulo
`2 * Half` (65536 in the code). One action is one critical section of `a.mu`, or
one operation on the transmit queue, with the thread-local code around it. So
the gaps in which the code holds no lock are in the model: between numbering a
chunk and pushing it (`IORead`, `IOPush`), between collecting retransmissions,
pushing each and clearing its Dispatched flag (`RtxCollect`, `RtxPush`,
`RtxMark`), between popping and noting the pop (`Pop`, `Dispatch`), between
forgetting an acknowledged chunk and removing its queued copies (`ReceiveAck`,
`AckRemove`), between storing a chunk and reporting gaps (`RxProcess`,
`MaybeSendDataNacks`), and between taking a run and writing it (`WriteTake`,
`WriteDone`). Timers may fire whenever the code would let them. The transmit
queue is a set: its priorities only decide which packet is next, and the model
allows any.

The path is a set of packets of each kind; `Lose` drops, `Consume` may leave the
packet for another arrival. Two ages bound it, both counted in chunks by which
the receiver advances: `MaxTransit` for a packet on its way and `MaxUnackedAge`
for a copy the sender still makes. Some bound is necessary: with 16-bit numbers,
a packet that is 32768 chunks late is indistinguishable from a new one, and the
code has no other protection. `WindowAssumption` states what must hold. With the
largest configurable window it leaves 4768 chunks for the two ages together.

`Init` starts in an idle state after `Base` delivered chunks, of which those in
`Unacked` still wait for an acknowledgement, so that a small instance starts
just before the numbers wrap around. With `Base = 0` it is the state `NewARQ`
returns.

### ARQClose

An endpoint is a record of the fields of `ARQ`; `FinalizeClose`, `TryFinalizeRemoteEOF`,
`EmitTerminalPacket`, `SettleTerminalDrain` and the other functions of `arq.go` are
operators from endpoint to endpoint that call each other as in the code. An action
is a section of `a.mu` with the sections the same goroutine enters right after it. It
is split where what one section has seen may have changed when the next acts on it:
`ioLoop` tests `stopLocalRead` (`IoTest`) and reads later (`IoChunk`, `IoEOF`, `IoError`,
`IoTimeout`); `writeLoop` takes chunks (`WriteTake`) and writes them later (`WriteDone`,
`WriteFail`), or it finds nothing to take (`WriteIdle`), looks for CLOSE_READ and an empty
`rxChan` in the next section (`WriteLook`) and half-closes in a third (`WriteEOF`); a packet
waits in `rxChan` between `ReceiveData` and `ProcessReceivedData`. Deadlines are choices:
each may pass at any moment after it is set (`DrainTimeout`, `AckWaitTimeout`,
`CloseWriteAfterGrace`, `InactivityTimeout`, `DataExpires`, `ControlExpires`).

The final close empties the buffers and cancels the context, but the loops notice it
later, as in the code: `ioLoop` still stores and pushes the chunk it has read, and `rxLoop`
still stores and acknowledges what is in `rxChan` until it drains it (`RxDrain`). One thing is
merged: a terminal packet is marked as sent and tracked in one step, where
`emitTerminalPacketWithTTL` and `SendControlPacketWithTTL` use two sections. In between another
goroutine may close or reset the stream, so that the packet is tracked after the buffers
were cleared; nothing reads `controlSndBuf` of a closed endpoint, and the packet itself is
pushed in both orders.

`out` is the set of packets an endpoint ever pushed, and a packet of it may be
received at any time, any number of times, or never. That is every behaviour of the
retransmissions, the transmit queues and the path. An endpoint that is closed
answers through its session: closes are acknowledged and data is answered by RST.

### DeferredConnect

One session of the server. A request worker marks the SYN in flight (`ReceiveSyn`),
queues it (`EnqueueDeferred`) and acknowledges it (`QueueAck`); a worker of the deferred
processor takes it, assembles the fragments, dials, attaches the connection,
answers, and leaves its lane step by step (`WorkerStep`); the goroutine that closes a
stream (`CloserStep`) and the teardown of the session (`TeardownStep`) run beside them.
The header of the module names the three places where more than one lock section is
one step. The test of `shouldExecuteDeferredPacket` and `getOrCreateStream` are two steps
(`Execute`, `GetStream`), because no lock spans them. `gen` counts how often a stream ID was
created, so that the model can tell a stream from its successor, which the code does by
pointer. `orphaned` is a history variable: the streams with an acknowledged SYN whose
task was lost.

The client opens each stream once, sends its SYN until it is acknowledged, may reset it,
and may have up to `MaxDups` late copies on the way.

### Bond

The two ends run the same algorithm in Go and in Kotlin; the actions take the
end as a parameter, and the differences are in them: only the server bounds
`pending`, looks at a context and sets deadlines; only the client calls
`shutdownOutput` and closes the channel. One action is one system call or
channel operation. Frames are records with type, number and payload. A lane is a
bounded queue per direction; `LaneBreak` loses an arbitrary suffix of it. The end
of a session follows the code's order: `AfterFunc` sets the socket's deadline and
then lane after lane, `ServeClose` cancels and then closes lane after lane,
`ClientFinish` closes all lanes and the channel.

The SOCKS session behind the server is an application that reads, writes and may
end at any time (`AppGone`). Kotlin's `Channel.close` does not resume a sender that
is suspended on a full buffer; such a reader becomes `stuck` in `ClientFinish`, and the
`coroutineScope` of `runBondSession` then never returns: this is the violated run
`bond_readers`. The lane index of the client is a Kotlin `Int` that is reduced only when it
is used; that it overflows after 2^31 chunks is outside the model.

`Delivers` and `ServerCleansUp` are invariants about the states in which no goroutine can
take a step (`Quiet`). That is as strong as progress: every step uses up a chunk, a
frame, a lane or a deadline, so that a session always comes to such a state. TLC confirms
that the state graph of the run has no cycle.

### BondRegistry

Connections are numbered over the whole run, so that the model can tell two
connections with the same connID apart, which the server cannot. A timer that
has fired is in `firing` until its `expire` gets `r.mu`: in between the last lane
may complete the session, or a new session may take the connID.

`bondConnSeq` starts at 0 in every new room manager, while an incomplete session stays
at the server for its timeout. `Reconnect` models this: the next connection may take a
connID that the server still knows, and its lanes complete the old session. Hence
the premise of `ServedWhole`, that nobody else has the connID: it is what the
server relies on and the client does not provide.

### RoomManager

Each supervisor, `start`, the accept loop, each connection's coroutine and each
caller of `stop` has a program counter; an action ends where another thread can
see the state. A coroutine launched in a cancelled scope, or cancelled before it
is dispatched, never runs. Every access to a field or a list is atomic: that
`handles` is an unsynchronised list is below the level of the model.

`stop` may come between a supervisor's test of `stopped` and its `handles.add`. The room
is then left running, and it releases `start`, which binds the port after `stop` has
looked for it. The violated run `rooms_late` shows it against the promise of `stop`
(`StopReleasesAll`); `OnlyLateRoomsLeft` says how far it goes: these are the only rooms left.

## 3. Runs

| Run | Shows | Result |
|---|---|---|
| `arq_safety` | `InOrder`, `NoLoss`, `ClassifiedRight`, `IInv`, refinement of `ReliableStream` | passes |
| `arq_live` | `TypeOK`; `DrainsOrForgets`: every chunk is delivered and acknowledged, unless `checkRetransmits` forgets one | passes |
| `arq_forgotten` | `Delivers`, without that exception | violated |
| `close` | `TypeOK`; `EofHeld`: at the half-close every chunk has arrived and none is still to come; `EndComplete`: an end without a reset never hides a chunk; `EndAcked`: whoever ends without a reset had everything acknowledged; `ClosesReliably`: refinement of `ClosingStream` in both directions; `GracefulEnds`: when both applications have ended both endpoints close, unless a wake-up of `writeLoop` is lost; `NoHalfOpen`: no endpoint outlives its peer | passes |
| `deferred_safety` | `TypeOK`, `PendingExact` (the counters of the queues), `NoLeak` (upstream connections), `MarkedHasTask` (no mark of a SYN in flight outlives its task while the client waits) | passes |
| `deferred_live` | `SynAnswered`: a client that opened a stream is told, except in two named races; `SessionDrains`: a closed session leaves nothing | passes |
| `bond` | `TypeOK`, `FinComplete`, `BondInv`, refinement of `ReliableStream` in both directions; `Delivers`: backpressure is no deadlock; `ServerCleansUp`: no goroutine of the server stays behind | passes |
| `bond_readers` | `ClientCleansUp`: no lane reader of the client stays behind | violated |
| `bond_eof` | `EofComplete`: the client closes the application's read side only when the response is complete | violated |
| `registry` | `RegistryOK`, `ServedWhole`, `EveryLaneSettles` | passes |
| `rooms` | `TypeOK`, `ServingHasRoom`, `OnlyLateRoomsLeft`, `RoomsComeUp`, `StopEndsAll` | passes |
| `rooms_late` | `StopReleasesAll`: after `stop` no room runs, and neither the port nor a connection is open | violated |

### Bounds

- `arq_safety`: ten wire numbers (`Half = 5`), two unacknowledged chunks, a receive
  window and an `rxChan` of one, one packet of each kind on the path. The stream
  starts at chunk 10 with chunk 0, which has the same wire number, unacknowledged:
  the first chunk that is read reuses the number. The ages are as large as
  `WindowAssumption` allows, so that a packet can be exactly `Half` late. The
  proofs cover all other sizes.
- `arq_live`: the counters wrap from 9 to 0, one chunk is unacknowledged at the
  start, no NACKs (they only add retransmissions). `arq_forgotten` has NACKs, to
  show that they do not help.
- `bond`: two lanes, one of which may fail; two chunks up and one down;
  a lane, the channel and the reorder buffer hold one frame, so that every send
  can block and the reorder buffer can overflow. An overflow ends the session at the
  server, which `Delivers` counts as an end, like a client that closes. The client's
  application may close at any point; the server's side then ends through the FIN, a
  broken lane, or its deadlines. That the SOCKS session ends by itself is in `bond_eof`
  and in the proofs, which cover any number of lanes and chunks, but not in this run.
- `bond_readers`: two chunks down, so that one fills the channel and the next is in a
  reader's hand.
- `registry`: one client with three rooms and a server that accepts at most two
  lanes (so that a group can be rejected), two connections, one reconnect. The
  proof covers any number of clients, rooms and connections.
- `rooms`: two rooms, one connection, `start` and the service both calling
  `stop`. The proof covers any number of rooms and connections.
- `close`: one chunk from the server, of which copies may come at any time, and none from
  the client; the server's local read may fail, and a write fails when it meets a
  connection that has been closed or half-closed in the meantime. A local connection that
  refuses a write at any other time (`MayBreak`) is in the five proofs, which hold for
  every value of the constant, and not in this run: with `MayBreak = {"client"}` all seven
  properties hold as well, over 327,769 states instead of 167,033, in about twice the time.
  One chunk is enough for every race of a chunk with a close, a wake-up or the final
  close. More chunks, and chunks in both directions, add orders of data, which `ARQData`
  has; the proofs of `EofHeld`, `EndComplete`, `EndAcked` and `ClosesReliably` cover them.
- `deferred_safety`: two streams and one stream slot, two workers with a queue of one
  and a session cap of two, one late copy, one reset: every limit is hit and every
  lane can have a queued and a running task. `deferred_live`: one stream with a SYN in
  two fragments and two request workers, so that both races that lose a SYN
  occur. `MaxFailures` bounds how often the ARQ of a stream fails by itself: once in the
  first run, never in the second. The proofs of the four safety properties cover all
  sizes.

`CHECK_DEADLOCK` is off because all of these systems really stop: streams end,
sessions end and the bounded environment runs out of input.

### Fairness

- Goroutines, threads and dispatched coroutines run: weak fairness of their
  next step.
- `arq_live`: an expired timer is noticed, a queued packet is popped (the
  dispatcher is round-robin over streams), and a path that is tried again and
  again lets a packet and an acknowledgement through. This is strong fairness,
  per chunk; it is what the retransmissions rely on.
- `bond_readers`: every goroutine and coroutine takes its steps; nothing is assumed of the
  applications and the rooms. `bond` needs no fairness, its progress properties being
  invariants.
- `registry`: a lane's goroutine has a read deadline, timers fire, and `expire` gets
  the lock. The fairness is joint, over all lanes and over all timers: each lane and
  each timer takes its step only once, so none can starve another. The clients
  need not do anything.
- `close`: what an endpoint keeps retransmitting reaches its peer, and the answer
  comes back; the path does not deliver copies of a packet for ever after its sender
  dropped it (`CopiesEnd`). `GracefulEnds` needs no timer. `NoHalfOpen` also assumes that
  the deadlines of `retransmitLoop` pass, which is `TimersRun` in its premise.
- `deferred_live`: a dial ends (it has a timeout) and the goroutines run. A SYN that is
  not acknowledged is retransmitted by the client's ARQ and gets through again and
  again: strong fairness, since a request worker must be free when it arrives. A SYN
  that is acknowledged need not arrive again.
- `rooms`: a room tried again and again comes up (strong fairness of
  `StartReady`, for `RoomsComeUp`), and a connection ends once its sockets are
  closed or its scope cancelled: `forward` waits in `join`, which the cancellation ends, and
  its `finally` closes the sockets. (A bonded connection of a late room may hang as
  `bond_readers` shows; only the cancellation of the scope ends it.) Nobody needs to
  connect or call `stop`.

### What the violated runs show

- `arq_forgotten`: `checkRetransmits` pushes a packet and clears its Dispatched
  flag afterwards. If the dispatcher pops the packet in between, the flag ends
  false with nothing queued, the timer skips the chunk for ever, and if that copy
  is lost the stream hangs. `DrainsOrForgets` shows that nothing else can stall it.
- `bond_eof`: `serveSession` closes the lanes as soon as the SOCKS session is over,
  without waiting for the splitter, and the client's reorder shuts the
  application's read side down whether it saw the FIN or not: the application
  gets a clean end of stream after a truncated response.
- `bond_readers`: the application goes away while a lane reader of the client is suspended in
  `recv.send` on the full channel. `reorder` ends, the session closes the lanes and the
  channel, and the reader is not resumed: it and the `coroutineScope` of the session stay
  until the manager is stopped, although the code's comment says that lingering readers
  are unblocked.
- `rooms_late`: `stop` comes between a supervisor's test of `stopped` and its `handles.add`. It
  finds no handle and stops no room. The room stays up; by the same race the port may be opened, and a
  connection accepted, after `stop` has returned. The service drops its reference to the manager, so that no second `stop`
  comes.

### Two more disagreements

Each of these was found with TLC on an instance of the models and contradicts a sentence
of the repository. They are not runs of the project; to see them, add the formula
to the module and check it with the run's configuration.

- The end of a stream before its last chunk (`ARQClose`). `Close` says of CLOSE_READ that the
  peer "should finish draining inbound and close writer". `writeLoop` finds `rcvBuf` empty
  (arq.go:1652-1676); the last chunk is stored and acknowledged, and CLOSE_READ arrives;
  `writeLoop` then reads `closeReadReceived` and an empty `pendingInbound` (1679-1683), does not
  look at `rcvBuf` again, and half-closes the local connection (1685). The chunk is in
  `rcvBuf`, its write fails, and the stream ends by CLOSE_WRITE. The formula is `EofHeld`
  with `ep[e].written = ep[Peer(e)].read` as its conclusion; the trace has 18 states.
- The revival of a closed stream (`DeferredConnect`). masterdns/README.MD:749 says that the
  table of recently closed streams is kept "so late SYN packets do not revive them". But
  `getOrCreateStream` deletes the entry instead of heeding it (session.go:777). A task that
  passed its last test (server_deferred.go:266) before the stream was closed creates it
  again; so does `queueImmediateControlAck` (server_postsession.go:213) for a SYN that is
  being acknowledged, and any SYN between `removeStream` and `noteStreamClosed`. The formula is
  `[][\A s \in recentlyClosed : strm'[s].gen = strm[s].gen]_vars`; the trace has 11 states:
  a SYN is queued and acknowledged, a late copy of it arrives, the stream fails and is
  closed, and the acknowledgement of the copy creates it again.

### What the exceptions in the passing properties mean

Several properties hold only with an exception that is written into them. Each
exception is a behaviour of the code that TLC exhibits when the exception is
removed.

ARQClose:

- `WakeLost` in `GracefulEnds`: `writeLoop` is woken while a copy of an old chunk is in
  `rxChan` (so `pendingInbound` is not zero) and goes back to sleep;
  `processReceivedData` then drops the copy without `signalFlushReady`. The stream ends
  by the inactivity timeout instead.
- `ClientGaveUp` in the safety properties: a client whose writer has failed announces
  the end of its stream while `ioLoop` may be in a read that still returns a chunk.
- `waitingAckFor` has one slot: a second close overwrites the wait for the first. And
  a deferred CLOSE_READ is cancelled by CLOSE_WRITE (arq.go:1347). Neither breaks a
  property here: the retransmission of the control packet goes on by itself.

DeferredConnect:

- `orphaned` in `SynAnswered`, first race: a copy of a SYN is answered as already pending,
  and acknowledged, while the request worker of the first copy is about to find no
  room in `Enqueue`. The client stops sending a SYN that nobody executes.
- Second race: `finishLane` deletes the lane's worker and cancels whatever runs for the
  lane. If the fragments of one SYN are with two workers, the end of the first task
  cancels the second, and the SYN is never answered.
- `MarkedHasTask` is restricted to clients that still wait: between clearing the marks
  and removing the lane a task may set a mark anew, and the lane's removal drops
  the task.

Registry and rooms: the shared connID after a reconnect in `ServedWhole`, described with its
module, and the late rooms in `OnlyLateRoomsLeft`, whose exception is the violated run.

ARQData: `Forgotten` in `DrainsOrForgets` is the violated run `arq_forgotten`. A chunk may also be
forgotten because `ReceiveAck` removes queued copies after it has released `a.mu`: if `ioLoop`
has queued a new chunk under the same number in between, its copy is removed and its
Dispatched flag stays false. `NoLoss` holds then, since `sndBuf` has the chunk; `arq_live` does
not reuse numbers and does not show it.

## 4. Proofs

`ARQDataProofs`, from `HalfAssumption`, `SizesAssumption` and `WindowAssumption`, for
all sizes and stream lengths: `TypeCorrect`, `Invariance` (`IInv`), `InOrderDelivery`,
`NothingLost`, `SerialNumbersUnambiguous` and `Implements` (refinement of
`ReliableStream`).

The properties are not inductive by themselves. That an old packet is classified
as old depends on how old it can be when `rxLoop` gets to it, which depends on
how long it waited in `rxChan` while `writeLoop` advanced. `IInv` bounds this: for the
k-th packet of the channel, what `writeLoop` can still take before `rxLoop` reaches
it is in `rcvBuf` or ahead of it in the channel (`RxOK`). With it the wire number
determines the chunk, so that what is stored under a number is the chunk that
`rcvNxt` will mean (`RcvBufOK`), only what the receiver holds is acknowledged
(`AckOK`), and an acknowledgement that reaches a reused number is for a chunk the
receiver has (`NoLoss`). `Sub`, `Inc` and `Wire` are related by lemmas on modular
arithmetic.

`BondProofs`, from `BondAssumption`, for any number of lanes, capacities and chunks,
any set of failing lanes and either end closing: `TypeCorrect`, `BondInvariance`
(`BondInv`), `FinMeansComplete` and `Implements` (both directions).

The invariant follows a frame: wherever it is, on a lane, in a reader's hand, in
the channel or in `pending`, a data frame carries the chunk of its number, and a
FIN exists only if its sender has written everything it read, and reads no more
(`GoodFrames`, `SplitterOK`). The delicate case is the server's splitter, whose read
may fail because of a deadline while a chunk is still unwritten: it cannot,
because the FIN loop is entered from the read only.

`BondRegistryProofs`, for any clients, rooms, limits and connections: `Registry`
(`RegistryOK`) and `Served` (`ServedWhole`). `RegistryOK` is inductive once the lanes that
exist are tied to what was announced (`ConnInv`, `HelloInv`): a Hello carries the
connID and the lane count of its connection, which has dialled all its rooms and
will not change them. `GroupInv` says that a group holds lanes with the same connID,
without repetition, and that a served one has at least as many as its first Hello
announced. For `ServedWhole` the lanes of the group are then among the announced lanes
and not fewer, hence all of them.

`RoomManagerProofs`, for any rooms and connections: `TypeCorrect`, `ServingRooms`,
`OnlyLateRooms`. `RoomInv` relates each supervisor's position to what `stop` has
already looked at: a room that `stop` cannot see any more has either not passed its
test or is counted as late. `ServeInv` says that `start` goes on only after a room was
published and that nothing is taken down before `stopped` is set. `SocketInv` says that what
is being forwarded is a connection that was accepted.

`ARQCloseProofs`, from `SizesAssumption`, for any number of chunks in either direction,
any window and any endpoints whose connections fail: `TypeCorrect`, `Invariance` (`IInv`),
`EofIsHeld`, `EndIsComplete`, `EndIsAcked` and `ClosesLikeAStream` (refinement of
`ClosingStream`). The invariant relates an endpoint to its
peer by a chain through both. Whoever sent CLOSE_READ had every chunk acknowledged, or
its peer's writer had failed (`Closing`). An acknowledged chunk is written or in `rcvBuf`,
unless the receiver broke or was reset (`Heard`). So an endpoint that received CLOSE_READ and
has nothing in order left has everything (`AllHere`), which is what a graceful end and the
client's own CLOSE_WRITE rest on; and one that looked for CLOSE_READ after it had nothing to
take has every chunk written or in `rcvBuf`, which is all that a half-close rests on. The chain needs that nothing is read
after CLOSE_READ was sent (`Flags`: `ioLoop` has ended), and this is where the client that
gave up is an exception. `IInv` was checked with TLC before it was proved. Each function of `arq.go` has a lemma that it keeps the relation
(`Pair`), and the lemma of an action composes them in the action's order.

The refinement looks at seven fields of an endpoint: `read`, `written`, `finSent`, the data
acknowledgements in `out`, whether the writer failed, and the two reset flags. Every function
of `arq.go` but the loops leaves them alone, except for the resets (`Kept`, `Same`), and every
action is a read, an acknowledgement, a write, an end, a reset or none of them (`Observed`).
Two facts about a step then need the invariant, in the state before it and in the state
after it: the half-close comes when every chunk the peer read is acknowledged, and the
peer reads nothing after it.

`DeferredConnectProofs`, from `DeferredAssumption`, for any streams, fragments, request
workers, workers and limits: `ConnectionsKept` (`NoLeak`).
`NoLeak` needs `CloserInv`: a stream that is being closed is in the session until it is
removed, and has lost its connection by then, so that no successor with the same ID
appears while a connection is open. The dial and the attachment are separated by any
number of steps of others; the attachment tests the stream it was given under the
stream's lock, and that test is what the proof turns on. The queues do not matter
here.

`DeferredQueueProofs`, from the same assumption: `ProcInvariance` (`ProcInv`), `CountersExact`
(`PendingExact`) and `TypeCorrect` (`TypeOK`). `sessionPending` is a sum over the workers, and
compaction filters queues; both are recursive functions. The induction theorems of the
library take an operator, which the provers cannot instantiate, so the inductions are made
over sets: a set of numbers that is not empty has a least element (`LeastNat`, from `WFMin`),
hence a subset of `0 .. N` that holds 0 and is closed under successor is the interval
(`Induction`), and the same for the subsets of a finite set (`SubsetInduction`). From these
come the facts the actions need: a sum changes with one of its terms, sums add, and a
compacted queue holds the tasks that were not dropped and is no longer than before. The
counters have to be exact for the code's own tests to mean anything: `Decrement` stops at
zero, and only because the count is exact does it never have to.

`DeferredMarkProofs`: `MarkInvariance` (`MarkInv`) and `MarksHaveTasks` (`MarkedHasTask`). Marks are
removed and queues cleared in separate steps, so a SYN may be marked again in between and
then lose its task; `MarkedHasTask` therefore is not inductive. `MarkInv` adds that this happens
only to a client that was told or has left: a worker drops the lane of its stream after it
answered (`Answered`); for a client that waits there is one dial at a time, because the
fragment store completes a SYN once (`Dialling`); nothing else closes the stream of a client
that waits (`Untouched`); and no task of a cancelled lane is queued, so that compaction drops
none by surprise (`NoneCancelled`).

Every invariant that a passing run checks but two, and each of the refinements, is stated
by a theorem. Only model-checked are the liveness properties (`DrainsOrForgets`,
`GracefulEnds`, `NoHalfOpen`, `SynAnswered`, `SessionDrains`, `EveryLaneSettles`, `RoomsComeUp`,
`StopEndsAll`), which depend on fairness, and `Delivers` and `ServerCleansUp`, which speak of
`ENABLED`: the prover has no rules for either.

## 5. Not modelled

- Of stream set-up: the second deferred processor (DNS queries), the expiry of
  fragments and of recently closed streams (both are timeouts of minutes), the idle
  cleanup of sessions, the sweep of terminal streams, and the reuse of a session ID
  while `cleanupClosedSession` still works by that ID.
- `compactWorkerLocked` drains and refills a channel while others may send to it; the
  model compacts at once and keeps the order.
- MasterDNS session initialisation, in-flight DNS queries and the cache: left for an
  extension, see below.
- The olcRTC core and wdtt: candidates for an extension.
- Byte-level encodings, encryption, compression, MTU search, resolver statistics,
  ping intervals, configuration, user interface: pure functions, timing or I/O.
- The choice of a live room for a connection (`connectToLiveRoom`) and the healing
  of a running room: they pick or repair a room; any choice is allowed.
- Memory visibility of unsynchronised Kotlin fields.
- Vendored and imported engines. They are most of the repository's lines, so that the
  map covers a small share of all lines although it covers the concurrent core of
  the project's own transports.

## 6. Plan

Done: the two data planes, the registry and the room manager with their proofs,
the closing of ARQ streams, against an abstract stream with an end, and stream set-up
with theirs.

Left, in this order:

1. `MasterSession`: initialisation retries, reuse of the 8-bit session IDs, idle cleanup,
   composed with `DeferredConnect` so that a late cleanup meets the next session with
   the same ID.
2. The in-flight DNS table: one upstream query for concurrent lookups, expiry.
3. The control stream and supervisor of the olcRTC core.
