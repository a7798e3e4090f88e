# zephyr-common in TLA+

Specifications of the communication and concurrency code of zephyr-common: a
set of Zephyr RTOS modules (`modules/`), an Ethernet-over-serial driver
(`drivers/net/eth_serial`) and the Python client of its RPC protocol
(`tools/protorpc`). TLC checks small instances, TLAPS proves the invariants for
every value of the constants. `PROJECT.json` says which lines of the source each
definition translates.

## 1. The system

| Component | State it keeps | Operations | Used by |
|---|---|---|---|
| `SwFifo` | memory, write and read index | init, write, peek, ack, read, flush, queries | `slip`, `Cobs` deframers |
| `CircBuffer` | memory, indices, a mutex | init, write (purges the oldest), read, flush | `TraceRam` |
| `TraceRam` | a `CircBuffer`; the tracing core's switch is external | backend output, enable, disable, count, read, flush | tracing thread, `SystemRpc` |
| `SystemRpc` | nothing between calls | status, enable, disable and read out the trace buffer, dump memory | RPC thread |
| `slip` | deframer state, escape flag, output index, a `SwFifo` | framer, deframer | `eth_serial` |
| `eth_serial` | deframer, slab, fifo, one thread, `init_done` | uart callback, `rx_thread`, send, interface init | network stack |
| `Cobs` | deframer state, a `SwFifo`, a work buffer | encode, decode, framer, deframer | `TcpRpcServer`, `eth_serial` (other build) |
| `ProtoRpc` | nothing between calls | `ProtoRpc_exec`: decode header, find resolver, run handler, encode reply | `TcpRpcServer` |
| `TcpServer`, `TcpSocket` | listening and client socket | accept, read, callback, close | `TcpRpcServer`, `TcpEcho`, `EchoServer` |
| `TcpRpcServer` | one deframer for all connections | read callback | RPC clients |
| `UdpServer`, `UdpSocket` | a socket | bind, receive, callback | none in the repository |
| Python client | pending request, deframer, connection thread | `send_sync`, `run`, `close` | command line tools |
| `WifiConnect` | event flags, a semaphore, monitor thread | connect, event handler | applications |
| `MqttClient` | connection state, topic list, message ids | connect, publish, subscribe, event handler | applications |
| `WS2812Led`, `CList` | segments, their modes, a semaphore | init, add and remove segment, effects, thread | applications |
| `SwTimer` | a start count | tic, toc, set, test, sleep | applications |
| `NvParms`, `PbGeneric`, `CheckCond`, `Random`, `TraceModule`, `RtosUtils` | none or a setting | wrappers and macros | everything |

How they interact, and where that is hard:

- *Shared memory with a lock that covers part of an operation.*
  `CircBuffer_write` computes its space before it takes the mutex, while other
  threads read and flush. The RPC handler that reads the trace out for a host
  counts, reads and counts again, each under a lock of its own.
- *An interrupt and a thread.* The uart callback of `eth_serial` deframes, takes
  a block of the slab, fills it and queues it; `rx_thread` takes it, copies it to
  the network stack and frees it, or fails on the way. The slab, the deframer's
  fifo and its output buffer can all be full.
- *Byte streams.* The SLIP deframer keeps state from call to call and gets the
  stream cut up in any way; after a loss it must find the next frame.
- *Two threads without a lock.* The caller and the connection thread of the
  Python client share the pending request and its flags; replies are late,
  unwanted or never come.
- *Connections that come and go.* `TcpServer` serves one client at a time and
  `TcpRpcServer` keeps one deframer for all of them: what a client leaves in it
  is there when the next one comes.
- *An effect and a command.* The effects' thread of `WS2812Led` reads, tests and
  writes a segment's mode and timer while the application calls its methods.
- *A library's events in several threads.* `MqttClient`'s thread polls, reads and
  answers packets, while a publish of the application may lose the connection and
  raise the event that says so. The library has changed its own state before it
  calls `event_handler`, which writes the flag that the threads share, and other
  threads come between. Identifiers are counted per topic, answers are late, lost
  or in parts.
- *A counter that wraps.* `SwTimer` compares 32-bit cycle counts taken at any
  distance from each other.
- *Event flags and a semaphore.* `WifiConnect`'s monitor reads flags, acts on
  them and clears them in separate steps while the event thread and callers set
  them; the caller's wait times out while the join goes on.

What makes each of them correct: the contents of a fifo or a buffer are the
right items in the right order at every index position; a block has one owner; a
frame that arrives was sent, and arrives whole, once and in order; a call gets
its own reply or a timeout, and returns; a request to connect is made and is
answered once; a client that lost its connection gets another and says so; a timer expires at its interval and not before. `PROJECT.json` lists
the places where this could go wrong as "hazards", each with the properties that
would show it.

## 2. The modules

| Module | Models | Its actions |
|---|---|---|
| `FifoQueue` | what `SwFifo` promises: a bounded FIFO queue and the values calls return | one per call |
| `SwFifo` | `SwFifo.c` on its circular memory | `Write` `Peek` `Ack` `Read` `Flush` `Query`; `Init` is `SwFifo_init` |
| `CircBuffer` | `CircBuffer.c` with a writer and several readers | `WriteAvail` `WritePurge` `WriteCopy` are `CircBuffer_write`; `Read`; `FlushWr` `FlushRd` are `CircBuffer_flush` |
| `TraceRam` | `TraceRam.c` and the trace handlers of `SystemRpc.c`, extending `CircBuffer` | external core: `Trace`; tracing thread: `ram_output` `Output`; RPC thread: `gettraceramstatus` `enabletraceram` `disabletraceram` `Disable` `getnexttraceram` `NextRead` `NextCount`; `Other` readers |
| `SlipFrame` | `slip.c` as operators | `slip_framer`, `Deframe` (one call of `slip_deframer`) |
| `EthSerial` | `eth_serial.c` with SLIP framing, over `SlipFrame` | `eth_serial_send` `eth_serial_iface_init` `recv_cb_early` `recv_cb` `RxGet` `RxAllocFail` `RxDeliver` `RxFree` |
| `ProtoRpc` | `ProtoRpc.c` as an operator | `ProtoRpc_exec` |
| `RpcClient` | `Request`, `BaseConnection.run` and `rpc_callback`, over `ProtoRpc` | `Send` `AddPending` `Return` `Expire`; `Receive` `GotNothing` `GotReply` `SetGotReply` `TestTtl` `RemovePending`; `rpc_callback` |
| `Cobs` | `Cobs.c`, byte by byte, as operators | `Cobs_encode`, `Cobs_decode` |
| `CobsFrame` | `Cobs_frame.c` as operators, over `Cobs` | `Cobs_framer`, `Cobs_deframer` (one call), `Cobs_deframer_init` |
| `TcpRpcServer` | `TcpServer.c`, the calls of `TcpSocket.c` it makes, and `rpc_callback`, with clients, over `CobsFrame` and `ProtoRpc` | `Connect` `Send` `Close` `Break`; `TcpServer_init` `TcpSocket_listen` `Accept` `AcceptFails` `Read` `ReadEnd` `ReadError` |
| `MqttClient` | `MqttClient.c`, with the library, the sockets and a broker | `client_thread`: `Loop` `MqttClient_connect` `ConnectFails` `Poll` `Live` `LiveFails`; `MqttClient_publish` and `PublishSend` of each topic's thread; `Callback` of whichever thread the library raised an event in; `BrokerReads` `BrokerPublishes` `BrokerCloses` |
| `SwTimer` | `SwTimer.c` without its callback timers | `Cycle`; `SwTimer_tic` `SwTimer_toc` `SwTimer_setUs` `SwTimer_test` |
| `WS2812Led` | `WS2812Led.c` for a strip with one segment | application: `WS2812Led_addSegment` `AddNoMemory` `AddAnother` `fill_solid` `fill_solid_rgb` `single` `show` `Begin` `blink`; `segment_loop`: `LoopSwitch` `LoopTest` `LoopToggle` `LoopRearm` `LoopDraw` `LoopDrawn` `LoopMode`; `led_main`: `MainInit` `MainCopy` `MainUpdate` |
| `WifiConnect` | `WifiConnect.c` and an external driver | `Call` (with `WifiConnect_init`) `SetDoConnect` `TakeSem`; `event_handler`; `Pend` `DoConnect` `Connected` `IpObtained` `Disconnected` `IfDown` `Reconnect`; `Driver` |
| `SwFifoProofs`, `TraceRamProofs` (with `CircBuffer`'s), `EthSerialProofs` (with the lemmas about `SlipFrame`), `TcpRpcServerProofs` (with the lemmas about `Cobs` and `CobsFrame`), `RpcClientProofs`, `WifiConnectProofs`, `MqttClientProofs`, `WS2812LedProofs` (with `SwTimer`'s) | the theorems | |
| `MC…` | values of constants that a cfg cannot write | |

A function is one action when nothing else can come between its steps and
several when something can: that is what each module's header says. Variables
have the names of the code; those that only properties read are marked
"(history)" where they are declared.

The abstractions, module by module:

- `SwFifo`: an item is an atom, as every caller in the repository stores bytes
  with `itemSize` 1 (for larger items the code's wrap is a different one). The
  lock macros are empty in this build and each fifo has one user, so calls do
  not overlap.
- `CircBuffer`: a byte is its position in the stream of written bytes. Zephyr's
  tracing thread is the one writer. A write is no longer than the buffer.
- `TraceRam`: the tracing core is a count of bytes it has yet to output, and its
  thread outputs any part of them. The switch is only changed by the RPC thread.
  Of a reply the model keeps what it says: an error, or that the buffer is empty,
  by a count of 0, a success without data, or `empty_on_read`.
- `SlipFrame`: bytes are the four of the protocol and one for all others. The
  delimiter is one byte on the wire; the model writes `SOF` or `EOF` so that
  properties can say at which end of a frame it was put, and the deframer treats
  the two alike. The deframer's fifo is the queue `SwFifo` is shown to implement.
- `EthSerial`: the line loses nothing, so all losses are the driver's own:
  bytes before the interface is up, a full fifo, a frame longer than the output
  buffer, an empty slab, failed allocations, a packet the stack refuses. The
  first of these is silent (history `discarded`), the others are logged (history
  `reported`). A chunk handed to `recv_cb` ends anywhere.
- `RpcClient`: a request is its sequence number and the fate it will meet in the
  server; frames are atoms, and a read gets any number of them. A reply that
  arrives in two parts loses its first part in the Python deframer and so is
  lost. A TTL that is over is the flag `expired`, which time sets at any moment.
- `Cobs`, `CobsFrame`: bytes are numbers and the greatest code word is a
  constant. The encoder's output buffer is large enough; a decoder that runs past
  its input returns an error, as it ends when its output is full.
- `TcpRpcServer`: a request is one byte that says which it is, for all that
  protobuf makes of it, and a tail of bytes; everything between the client's
  encoder and the handler is done on these bytes. A message that is the beginning
  of a request is answered by a header, or by nothing. TCP delivers the bytes of a
  client in order and in any pieces; a client that breaks down loses a tail of
  them. A client that waits for each reply before it goes on is told from one that
  does not by the history variable `patient`. The callback is `rpc_callback`, which
  is always finished, so that the branch of `tcp_server_task` that keeps calling an
  unfinished callback is not in the model. Replies fit the buffers.
- `MqttClient`: a packet is one record, and a connection is its socket. The
  library refuses to publish without a session, raises an event for each packet
  and one when a read, a write or a ping finds the connection lost. The broker
  keeps QoS 2 identifiers as the protocol says, over a lost connection or not. A
  payload comes whole, in part, late or is empty; when part of it stays unread the
  library reads nothing else, which `Deaf` names. Pings change nothing but the end
  they bring. The application has one thread for each topic. The library changes
  its client under its mutex, lets the mutex go and calls `event_handler` in the
  same thread, so the flag is written in a step of its own (`event`, `Callback`),
  after any steps of other threads. What `event_handler` does on a packet besides
  the flag, a read of the payload or one answer, is one step with the packet: a
  connection lost in between makes it fail, and is the same as one lost just
  before.
- `SwTimer`: one thread uses a timer, as `WS2812Led`'s do one after the other. The
  counter has W values, and a step of it comes at any moment. `CYCLES_PER_US`, a
  quotient of the clock's rate in the code, is taken as exact and not zero, as it is
  for the boards here.
- `WS2812Led`: a colour is whether a pixel is lit, and an effect draws any pixels
  in any order, so that no property depends on what an effect looks like. A
  method is one step: the application's threads have a higher priority than the
  15, the lowest, that the header's macro and comments give the two led threads.
  The application may add another segment, and stops there: the call waits for a
  semaphore that nobody gives again, so a second segment never has pixels.
  A delay of 0 is left out. `WS2812Led_init_strip` with an application that adds
  the segment itself is the same as `WS2812Led_init`, but for the length of
  `segment_loop`'s sleep: `WS2812Led_init` takes `segLoop_ms` and never stores it.
  `Displayed` is about what `use_rgb_pixels` selects, and so not about an RGB fill
  of a fresh segment, which nothing selects.
- `WifiConnect`: the driver joins, fails to join, gets an address or loses the
  link at any moment, and its events wait in a queue. `WifiConnect_init` makes the
  monitor thread or fails to, at every call that finds it missing; that each of its
  attempts adds the same two event callbacks once more is left out. `net_if_down` may or may
  not raise a disconnect event.

## 3. What TLC checks

| Run | Properties | Bounds |
|---|---|---|
| `swfifo` | `TypeOK`, `ImplementsQueue` (refinement of `FifoQueue`) | depth 3, two items, batches up to 4 |
| `traceram` | `TypeOK`, `HoldsNewest`, `NoOverrun`, `ReadsInOrder` of `CircBuffer`; `EmptyIsFinal`, `ErrorMeansTaken` | depth 3, the server and another reader, 8 bytes written, 3 queued |
| `eth_serial` | `TypeOK`, `OneOwner`, `PassedIntact`, `FirstLossReported`, `BlocksKept` | four packets, fifo of 6 bytes, output of 3, two blocks, chunks up to 4, 3 frames |
| `rpc_client` | `TypeOK`, `ReplyMatches`, `ReturnedStable`, `PendingCleared` | 3 requests of every fate |
| `wifi_connect` | `TypeOK`, `SuccessesCalledFor`, `OneSuccessPerJoin`, `RequestFollows` | 3 calls, 3 joins, 2 waiting events |
| `tcp_rpc_server` | `TypeOK`, `ExecutedInOrder`, `PatientAnswered`, `Accepted` | code words up to 3, two connections, two requests of 2, 3 or 5 bytes, buffers of 6 |
| `mqtt_client` | `TypeOK`, `FlagFollows`, `DropsAreClashes`, `Recovers`, `HandshakeEnds`, `ReceivedAcknowledged` | 2 topics of QoS 2, 2 identifiers, 2 sockets, 4 publishes, 1 message from the broker, 1 fault |
| `swtimer` | `TypeOK`, `InTime`, `MeasuresElapsed`, `NeverEarly` | counter of 8, 2 cycles to the microsecond, intervals of 0, 1, 3 and 5, 17 cycles between captures |
| `ws2812led` | `TypeOK`, `EffectPaced`, `CommandHolds`, `AddedStays`, `Displayed` | 2 pixels, an effect of each kind, 3 methods |
| `eth_serial_desync`, `rpc_client_hang`, `tcp_rpc_zero` | one property each, violated: section 5 | as above or smaller |

Why the bounds are enough:

- `SwFifo` is closed: all states of a depth-3 fifo are explored. Four slots put
  each index at every position, with reads and writes that end before, at and
  after the end of the memory; batches of 4 are refused or cut.
- `TraceRam`: 8 bytes through four slots wrap both indices twice, with purges of 0
  to 3 bytes and reads and flushes of another thread between any two steps of the
  writer and of a handler. `MaxQueued` holds the longest packet. The proofs remove
  the bounds.
- `EthSerial`: the packets are one with an escape, one with both kinds of bytes,
  one that exactly fills the output buffer (and is refused) and one that is
  longer. Two frames fill the fifo. Two blocks and three frames empty the slab.
- `RpcClient`: three calls are the least that let a late reply, a call without
  reply and a current call overlap; both directions hold up to three frames.
- `WifiConnect`: three calls with three joins let a timed-out call, a
  reconnection and a new call overlap; two waiting events keep the monitor one
  lost link behind.

- `TcpRpcServer`: two requests are the least that can arrive together, two
  connections the least that can meet each other's leavings. With code words up to
  3 a block is full with two bytes: the requests are one with a zero, one with a
  byte after a full block, and one whose frame overflows the buffers and leaves
  the deframer in its error state.
- `MqttClient`: two sockets let a late answer meet a new connection, and one fault is
  a refusal or a lost connection at any moment. Payloads are whole, late or empty
  with QoS 2 and cut with QoS 1. Of a topic's two identifiers 0 is refused, so that
  four publishes send the identifier 1 twice: on one topic, a turn apart, or on both.
  The broker may still hold the first when the second comes, and both kinds of drop
  that `DropsAreClashes` allows occur in the run.
- `SwTimer`: 17 cycles take the counter of 8 around twice, from any capture; the
  interval of 5 (10 cycles) does not fit it and is cut. The proof removes the
  bound.
- `WS2812Led`: three methods let a segment be shown, an effect begun and a
  command come into its pass; twinkle, meteor and blend stand for the effects on
  HSV pixels, on RGB pixels and the one that ends without writing its mode.

`CHECK_DEADLOCK FALSE` stands where the system may rightly stop: all bounded
work done and everybody waiting.

Each property has a mutant: a definition changed the way a plausible bug would
(`\* MUTANT:` before it), with which TLC finds the property violated. Mutants are
used by no specification.

### Fairness

`SwFifo`, `CircBuffer`, `TraceRam`, `EthSerial` and `SwTimer` state safety only
and need none.

- `RpcClient`: weak fairness of the caller's steps, of the connection thread's
  and of the clock. Both are threads of one Python process that poll in loops,
  and a TTL ends because time passes. The server and the network have no
  fairness: they may never answer, and `PendingCleared` holds nevertheless.
- `TcpRpcServer`: weak fairness of the server's thread, whose steps are enabled
  when there is something to accept or to read or a connection's end to see; and
  each client closes or breaks down at last, as the Python client's tools do when
  their calls are over. A client that never left would rightly keep the next one
  waiting. `ExecutedInOrder` and `PatientAnswered` are safety properties.
- `WS2812Led`: weak fairness of the two threads, which run in loops, of the end
  of an effect's drawing, which is a loop over the pixels, and of
  `WS2812Led_addSegment`. `led_strip_update_rgb` may fail, and is tried again
  every second; that it does not fail for ever (strong fairness of its success)
  is assumed of the hardware.
- `MqttClient`: weak fairness of the client's thread, which polls with timeouts, of
  the application's send, which does not block, and of the broker's reading, which
  without it would be a broker that is gone. Strong fairness of `LiveFails`: when
  the broker's end of a connection is closed, the keep-alive time passes at last
  and the ping's write fails. What the broker sends, closes or refuses has none.
- `WifiConnect`: weak fairness of the monitor and of the event thread, which are
  always runnable when they have work, and of the caller's two steps after
  `WifiConnect_init` (its wait has a timeout of 30 s). The driver has none: it may
  never join and never raise an event.

## 4. What is proved

TLAPS checks every theorem for all constants that meet the named ASSUMEs of the
modules, without the bounds of the runs.

**`SwFifoProofs`.** `TypeCorrect`: the indices stay inside the memory.
`Refinement`: `Spec => Abstract!Spec`, where `queue` is the items from the read
index on. The argument: `Advance` adds modulo `Depth + 1`; the slots of the
contents and the slots of a write are disjoint because the write fits; a read or
an ack takes the queue's front. `Ack` is only for what a peek has returned.

**`TraceRamProofs`.** `CircInv` (end of `CircBuffer.tla`) is inductive
(`Inductive`); from it `CircTypeCorrect`, `NeverOverruns`, `AlwaysHoldsNewest`
and `AlwaysReadsInOrder`. None of these is inductive alone. `CircInv` adds who
holds the mutex when (`MutexInv`); how far apart the indices are *while* the
writer holds it, when the purge may have moved the read index past the write
index (`GapInv`); that the space the writer computed without the lock can only
be too small, since only the writer adds bytes (`StaleSpaceInv`); and the
contents between the indices (`ContentsInv`). A flush resets both indices, so
while it is half done the stale space is arbitrary, and a finished one makes
every value safe.

`UsesCircBuffer`: `TraceSpec => Spec`, so that these theorems hold of the tracing
thread, the RPC handlers and the other readers.
`EmptyIsTrue` and `ErrorsAreTaken` need `TraceInv`: once tracing has stopped
nothing is on its way into the buffer (`QuietInv`), and the bytes a handler
counted outlast a purge, which makes room only for bytes that follow
(`CountedInv`: while the writer is between its purge and its copy the buffer may
be empty, but nobody can look).

**`EthSerialProofs`.** `BlocksHaveOneOwner`: for every slab, packet set and
chunking, a block is never free, queued twice, or queued and held at once. The
invariant is `OneOwner` together with the types of `rx_pool`, `rx_fifo`, `item`
and `stage`. What the deframer returns does not matter for it, so the proof does
not unfold it. `NoBlockVanishes`, from the same invariant: the blocks the driver
owns, in its fifo, in `rx_thread` or in the slab, are the same after every step
but a failed allocation of `rx_thread`.

`PassedFramesIntact` and `FirstLossIsReported`, for all packets, all sizes of the
deframer's fifo and output buffer and all ways the line is cut up and bytes are
dropped: what the stack gets are frames that were sent, whole, in order and once;
and no frame is missing while no error was logged and no byte came before the
interface was initialised. Both parts of the second hypothesis are needed: `recv_cb`
discards early bytes without a message, and after any loss the deframer may be out
of step and discard more in silence. Neither is inductive: both are
about frames that are half way through the deframer. The argument gives every byte
on the line a tag: the frame it comes from, its place in it and the half of an
escape it is.

- `FrameTags`: what `slip_framer` makes of a packet can be tagged, from its first
  byte to its last.
- `ByteMatched`: one byte leaves the deframer's state, escape flag and output buffer
  in line with the tags. It is either in step with them, and the output buffer then
  holds the beginning of the tagged frame, or one delimiter out of step, and then it
  holds nothing: `Matched` is that alternative, and it is what makes the empty frames
  of finding `eth_serial_desync` the worst that a loss does.
- `LoopMatched`, `DeframeStep`: so does a call, with a frame at most, an error that
  flushes the fifo, or a refusal; `StreamAfter` says what is then left to read.
- `StreamInv`: the deframer's fifo and the line are a stretch of the tagged bytes, the
  frames received were sent before it, and, while there was no loss (`Lossy`), all of them.

What the loops of `slip_framer` and `slip_deframer` compute is proved by induction on
the natural numbers: they are recursive functions in `SlipFrame`, whose recursion
(`FramingLoop`, `LoopRounds`) follows from a function that satisfies it, and `UpTo` takes a least counterexample by the library's `WFMin`.
`EthTypeCorrect` is the type invariant, with the bounds of both buffers.

**`RpcClientProofs`.** `RepliesMatch` and `ReturnedIsStable`, for any number of calls
and every fate of a request. `RpcInv` (end of `RpcClient.tla`) adds to
`ReplyMatches`: `TurnInv`, that what the connection's thread is about to write to is
the request its caller still waits for, though it checks `pending` and uses it in
different steps, and that a request it has flagged is never pending again, so that
what a call has returned stays as it is; `FlagInv`, that header and result of the
current reply are in place before `got_reply` says so; and `MessagesInv`, that a
callset in a reply comes from a handler that ran. `RpcTypeCorrect` is the type
invariant.

**`MqttClientProofs`.** `FlagFollowsSession`: for every set of topics and every
broker, a session the library has is known (`connected`) or about to be told of, and
a flag that is set without a session is about to be cleared, unless a session was
lost before its CONNACK was told of (`overtaken`, section 5). The flag is written by callbacks that come late, in any thread, so
`SessionInv` is about those on their way: a CONNACK is told of by `client_thread`
alone, and is late only when the session is gone; at most one thread is about to
tell of a loss, and none when there is a connection, or when `client_thread` could
make a new one, as a late loss would then clear the flag of another session.
`MqttTypeCorrect` is the type invariant;
`LinkInv` adds that the library's socket is one, that the broker's session is on an
open connection and that a CONNECT is the first thing on one.

`DropsOnlyClash`: for every identifier width, a QoS 2 message that the broker takes
for another is of another topic, or as many publishes after it as there are
identifiers. `DropInv` follows a message from its thread (`pub`) over the connection
(`up`) to the broker (`held`). `CountedInv` bounds the steps that `msg_id` made since
its identifier by the publishes since; `OrderInv` keeps the order within a topic,
which a lost connection may thin out and never turn round; and `OnSession`
says that connections left behind carry no PUBLISH, so that none comes late.

**`WifiConnectProofs`.** `EverySuccessCalledFor`: for any number of calls, joins
and lost links, the returns of 0 there were, and those that can come from a semaphore
left over or a join still to be answered, never outnumber the calls. It does not say
which join answers which call: after a timeout it may be a reconnection's, and the
next call returns 0 at once. `SuccessInv` says where the success a call is good for
is at each moment: with the caller, in the flag, in
`give_sem_on_connect`, in the semaphore, or used. It needs `SeenInv`: the flags
the monitor saw are still set when it acts on `DO_CONNECT`, as it alone clears
them. `EveryJoinAnswersOnce` follows a join the same way (`JoinedInv`): it is in an
event that waits, of which it counts the "connected" ones, in the flag, in the
semaphore or in a return; two joins' events may meet in the flag, which loses one
and never doubles it. `WifiTypeCorrect` is the type invariant it needs.

**`WS2812LedProofs`.** `KeepsPace`, `MethodsHold` and `SegmentsStay`, each from an
invariant at the end of `WS2812Led.tla`. `PacedInv` adds to `EffectPaced` that
the timer runs wherever a pass may still write its effect's mode; `HoldsInv` adds
to `CommandHolds` that the effect of a pass is one the mode may be, and that
blend, which does not end by writing its mode, leaves no `STATIC` behind;
`AddedInv` says that nothing is appended before the semaphore is given, which is after
the list was made. The first two need that `segment_loop` does not run before the
segment was added (`LoopBegins`), the third the type of the list.
`LedTypeCorrect` is the type invariant.

The same module proves of `SwTimer`, whose timers pace the effects,
`ExpiresInTime`, `ExpiresNeverEarly` and `Measures`, for every word length.
`TimerInv` says that DELTA of the count and the capture is the elapsed cycles
modulo W (`DeltaInv`), which needs the counter's wrap to be the subtraction's, and
that the interval kept is the one asked for, cut to W. `TimerTypeCorrect` is the type
invariant.

**`TcpRpcServerProofs`.** `ServerTypeCorrect`: the state of the thread, both
connections and the deframer keep their types, for any number of connections, any
requests and any buffer size. That takes what the deframer does with a chunk:
`EncodingLoop` and `FirstDelimiterIs` say what the encoder's loop and the scan for a
delimiter return, `FindEofFrom` where the scan for the end of a frame stops, and
`CallIs` that a call keeps a stretch of the end of its bytes and gives a message,
the beginning of one, or nothing for a stated reason. The clients' requests fit their
numbers: `PayloadOnce` and `RankOrders` say that a request's bytes and its place in
what is sent are its own.

`RoundTrip`: `Cobs_decode(Cobs_encode(x)) = x` for every message and every greatest
code word. It follows from what the decoder has written by the start of each block
(`DecodedUpTo`), and the same lemma says what it makes of the beginning of an
encoding (`DecodePart`): nothing, or the beginning of the message. As lengths are part
of a message, the beginning of a request is never another request.

`RequestsInOrder`: `ExecutedInOrder`, if no request's encoding has a delimiter in it
(`NoZeroInside`). `NoneInside` and `ShortRequests` say when that is so: when the byte
that closes a full block is not a zero, and so for all requests no longer than a full
block, 254 bytes in the code. The hypothesis is the finding `tcp_rpc_zero` and is needed:
with code words up to 3, buffers of 12, one connection, two requests and the tails
`<<9, 0, 2, 1>>` and `<<0>>`, TLC finds a run that executes a request nobody sent,
cut out of a longer one. The argument tags every byte that the server has not done with,
in the deframer, on the connection it serves and on those that wait, with its request
and its place in that frame. `OrderInv` says that the tags of what is unread are those
of frames in the order of the requests, each perhaps short of its end where a client
broke down (`Linked`), that they all come after what was executed (`ToDo`), and that
the clients that wait come after those served. `HeldIs` says that a call of the deframer
is done with a stretch of the bytes it holds, and that a message is what lies between
the two delimiters that this stretch ends with, so that the tags of the rest stay as
they are. Between two delimiters the tags are of one frame from its start on
(`RunsOn`), the decoder gives that frame's request or none (`FrameFound`), and what
follows is of later requests. Resetting the deframer between connections is not needed
for this, as the argument holds whatever one client leaves in it for the next.

`RepliesToPatient`: `PatientAnswered`, under the same hypothesis, which is the finding's
there too. `WaitsInv` says that while all clients wait, each connection either has
all its replies and no byte on its way, in the deframer or before it (`Settled`), or lacks the
last reply and has exactly that request's frame there, not yet read to its end (`Owed`).
A patient request's encoding is shorter than the buffers. `FrameCall` follows one frame through
`Cobs_deframer`: cut anywhere, a call keeps all of it that has come, and the call that brings
its last byte gives its message (`RoundTrip`) and leaves the deframer empty. So nothing
is held when the server goes from one connection to the next (`QuietWaits`).

Only model-checked: liveness (`PendingCleared`, `RequestFollows`, `Accepted`,
`Displayed`, `Recovers`, `HandshakeEnds`, `ReceivedAcknowledged`), which is out of the
prover's reach. Every safety property that a passing run checks is proved.

## 5. Findings

- `eth_serial_desync`: the deframer takes the end of a partly lost frame for the
  start of the next, returns an empty frame, skips that frame's payload and so
  on: one loss, for example bytes before the interface is up, costs every later
  frame until another loss shifts it back. What does come through is still
  intact (`PassedIntact`).
- `rpc_client_hang`: a reply that is a header alone (failed lookup or unpacking)
  makes the client's handler raise; the request is removed without either flag,
  and `send_sync` loops forever.
- `tcp_rpc_zero`: when a block of the encoding is full, `Cobs_encode` writes the
  byte that closed it into the next block whatever it is, and the client's `encode`
  does the same. 254 bytes without a zero and then a zero give an encoding with a
  zero inside, which the deframer takes for the end of the frame. The request is
  dropped and its client, which waits, never answered.

Steps of the models in which the code does not do what its documentation says, and
which no run has as a violated property:

- The connection's thread (`RpcClient`) sets a flag and then removes whatever
  request is pending (`connection/__init__.py:122`). A caller that returns in between
  and calls again has that request removed, and `send_sync`, which "Sends and waits
  for success or timeout" (`api.py:198`), loops for ever. With two calls and no header-only
  reply, `SendSyncReturns` fails of this alone.
- `WS2812Led_init_strip` says "Add additional segments with WS2812Led_addSegment"
  (`WS2812Led.c:1416-1417`). The semaphore that says a strip is initialised is given
  once and taken by every `WS2812Led_addSegment`: the second call waits for ever
  (`AddAnother`), and no step of the model adds its segment.
- `connected` is the "Bool indicating connection status" (`MqttClient.h:82`). A
  publish tests it in one session and sends in the next; if it loses that before the
  CONNACK's callback has set the flag, the flag is set after it was cleared, for
  good. `client_thread` then never connects again: this is `overtaken` in
  `FlagFollows`, and `Misled` in `Recovers`, which has to leave it out.
- `WifiConnect_connect` ignores what `WifiConnect_init` returns. Without a monitor
  thread the call makes no request and times out; a later call whose
  `WifiConnect_init` succeeds makes up for it, which is why `RequestFollows` asks for
  `initialized`.

Shown by what a passing property has to allow for:

- `CircBuffer_write` purges bytes for which there was room when a read comes
  between its space computation and its lock. `NoOverrun` and `HoldsNewest` show
  that this is the worst a stale space does.
- Both allocation failures of `rx_thread` leave its loop body before
  `k_mem_slab_free`: each costs the driver a block until none is left. `BlocksKept`
  shows that no block is lost in another way.
- A method called in the middle of an effect's pass is undone when the pass ends by
  writing the effect's mode. `CommandHolds` shows that this is the only way.
- Messages of two topics can have the same identifier, and the broker then takes
  one for the other. `DropsAreClashes` shows that, up to a wrap of the identifiers,
  nothing else makes it drop one.
- A connection whose CONNACK comes after `client_thread`'s poll timed out is left
  open and another one is made: each costs a socket, and `Recovers` holds only
  while there is one left. A payload that is not read whole leaves the client deaf,
  and one of length 0 with QoS 2 is not acknowledged.
- An interval is cut to 32 bits of cycles, and `NeverEarly` is about what is left; `InTime`
  needs tests that are less than a turn of the counter apart.

Seen in the source and not shown by a run:

- `WS2812Led`: `single` checks its
  index against the segment's place in the strip and then indexes the segment's own
  pixels with it, which agrees only in a segment that starts at 0; `off` blanks the
  HSV pixels and leaves `use_rgb_pixels` set, so that after an RGB effect the strip
  stays lit; `fill_solid_rgb` and `single_rgb` write the RGB pixels and never set it, so
  that on a fresh segment they are not shown; `WS2812Led_init` does not store
  `segLoop_ms`.
- `MqttClient`: identifiers start at 0, which the library refuses for messages with
  QoS, so that the first publish of a topic fails; there is no PUBCOMP after a
  PUBREL and no PUBACK for QoS 1; a hangup without data only logs, and `connected`
  stays set until a ping or a write fails.
- `disabletraceram` sleeps for the tracing thread's sake *before* it disables: what
  is traced in the last milliseconds of the sleep still reaches the buffer
  afterwards, and an `empty_on_read` before that is not the end. `EmptyIsFinal`
  starts from where nothing is queued.
- `WifiConnect`: a failed join sets no flag, so that a reconnection that fails is not
  tried again. After a timeout the next join, a reconnection's included, gives the
  semaphore, and the next call returns 0 at once, whatever the link is then.
- `TcpRpcServer`: the deframer is not reset between connections, so that a client that
  breaks down inside a frame costs the next client its first request.
- `CircBuffer`'s header speaks of items where the code purges bytes: of an item longer
  than a byte it may purge a part.
- `SwTimer_sleepUs` cuts its interval to 32 bits of cycles, about 18 s at 240 MHz.
- `RtosUtilsRpc.c`: the thread report starts its count at the first index asked for,
  and so always reports the first threads.
- `Cobs_deframer`'s comment promises -1 on error where it returns 0; `TcpServer.h`
  says that a finished callback closes the connection, where the task also waits for
  the client to close.

## 6. Not modelled

Boards and build files; code generation and command line tools; nanopb encoding
(`PbGeneric`) and colour arithmetic; `Random`, `CheckCond`, `TraceModule`,
`NvParms`, `TestRpc` (wrappers, macros, single reads); `RtosUtilsRpc` (a query);
`dumpmem` (a copy of memory); the COBS build of `eth_serial`; UDP servers and the
client's UDP connection; `TcpEcho` and `EchoServer`, which write back what they
get; `TcpSocket_connect`, which nothing calls; the callset query of `ProtoRpc`,
which no client here sends; `CList`, whose one user appends one item. Within
modelled parts: bytes lost on the serial line, an overflow of the network
management event queue, more than one thread that calls `WifiConnect_connect` or
`send_sync`, the client closing its socket when a frame does not decode, the
Python `Deframer` (its replies in two parts are lost replies), the pixels of further
segments, which are never added, and the callback timers of `SwTimer`, which are the kernel's.

## 7. Plan

In order, each with what is worth stating:

1. Proofs: that a request which is in the reader's buffers is executed, without the
   clients' patience, when its frame is not cut by a break-down and fits; the deframer
   may still drop it when two frames meet in one call, so that the property has to say
   which.
2. `UdpServer` and `UdpSocket` with `EchoServer`: datagrams lost, repeated and
   reordered, and a task that ends at the first error.
3. `CList`: its pointers against a sequence, every operation and the safe iterator.
4. The Python `Deframer`, byte by byte, against `Cobs`.
