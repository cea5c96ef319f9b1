# TLA+ models of SpaceWireRMAPLibrary

SpaceWireRMAPLibrary is a C++ library for SpaceWire networks: it sends and
receives packets over several kinds of interface (TCP bridges, SPI boards),
reads and writes remote memory with the Remote Memory Access Protocol (RMAP),
offers reliable channels (SpaceWire-R), and drives routers and one ADC board on
top of these.  This directory holds TLA+ models of the parts where threads,
messages and losses meet, the configurations that check them with TLC, and
theorems about them proved with TLAPS.

Contents: 1 inventory; 2 plan; 3 the modules, how they correspond to the code and
what was left out of each; 4 the runs, their bounds and their fairness; 5 findings
and other limits of the code; 6 proofs; 7 what is not modelled.

## 1. Inventory

| Component (under `src/includes/`) | State | Operations | Hard behaviour | Modules |
|---|---|---|---|---|
| `RMAPEngine.hh`: transaction IDs | list of available IDs, map ID -> transaction | pop, push back, register, look up, delete | several critical sections per operation | `TransactionIDs` |
| `RMAPEngine.hh`: receive loop; `RMAPInitiator.hh`, `RMAPTransaction.hh`: calls | `stopped`; a transaction's state and reply pointer | `read`, `write`, `nonblockingRead`, cancel, timeouts | caller and engine write the same fields; late, lost, unknown replies | `RMAPEngine` |
| `RMAPEngine.hh`: life cycle, target threads; `SpaceWireIFOverTCP.hh` | `stopped`, `hasStopped`, the SSDTP module's pointer | start, run, stop, close, stop and close actions, target threads | close deletes what other threads use; close actions that call back | `RMAPEngineLife` |
| `RMAPTarget.hh` | address ranges, actions | dispatch, reply | sums that wrap | `RMAPTarget` |
| `RMAPPacket.hh`, `RMAPUtilities.hh` | fields of a packet | construct, interpret, reply for a command | damage, lengths, CRCs, one packet object used again | `Bytes`, `RMAPPacket` |
| `RMAPMemoryObject.hh`, `RMAPTargetNode.hh` | tables of nodes and objects | construct, look up, access modes | order of key words | `RMAPTargetNodes` |
| an initiator with a target node | the above | whole calls, byte by byte | refusals, damage, stale fields | `RMAPExchange` |
| `SpaceWireR/SpaceWireRTEP.hh`, `...TransmitTEP.hh`, `...ReceiveTEP.hh` | channel state, numbers modulo 256, windows, retry timers | open, send, receive, acknowledge, retry, heart beat, close | loss and repetition, wrap-around, flow control | `SlidingWindow`, `SegmentStream`, `SpaceWireR` |
| `SpaceWireR/SpaceWireREngine.hh` | three tables of end points | dispatch, send, register, stop | the link fails while threads send; tables change under a loop | `SpaceWireREngine` |
| `SpaceWireR/SpaceWireRPacket.hh` | fields of a packet | construct, interpret, acknowledge | damage | `SpaceWireRPacket` |
| `SpaceWireSSDTPModule.hh` | buffers, locks, flags | send, receive, time codes, cancel | partial frames, locks on error paths | `SSDTP` |
| `SpaceWireIFOverSPI.hh`, `SpaceWireSpacePiModule.hh` | one mutex, the FPGA's buffers | open, close, send, receive | locks on error paths | `SpacePi` |
| `ConfigurationPorts/*` | the router's registers | link settings, routing table | read, modify, write | `RouterConfigurationPort` |
| `Boards/SpaceFibreADC.hh`, `RMAPHandler.hh`, `SemaphoreRegister.hh`, `Channel*.hh`, `ConsumerManagerSocketFIFO.hh` | connection, registers, semaphore | every method as accesses; retries | at-least-once execution; a semaphore the FPGA shares | `SpaceFibreADCBoard` |
| `EventDecoder.hh`, the event socket | decoder state, event instances | decode, get, free | pieces, cuts, instances used again | `EventReadout` |
| `SpaceWireIFMultiplexer*.hh`, `ConsumerManager.hh`, `DataRecorder.hh`, `RMAPNode.hh`, `SpaceWireUtilities.hh`, programs | - | - | - | section 7 |

How they interact.  An application thread calls an `RMAPInitiator`; it looks the
node and the memory object up by name, fills in a command, asks the shared
`RMAPEngine` for a transaction ID, registers its `RMAPTransaction` under it, sends
the command through the `SpaceWireIF`, and waits on the transaction's condition
variable.  The engine's thread receives packets from the same `SpaceWireIF`; a
reply is resolved to a transaction by its ID, attached to it, and its owner is
signalled; a command is handed to a target thread.  A `SpaceWireREngine` does the
same for channels: its thread hands packets to end points, each of which has a
thread of its own for retries.  `SpaceWireIFOverTCP` turns what
`SpaceWireSSDTPModule` throws into its own exceptions; closing an interface runs
the close actions, one of which stops the engine.  Router ports and the board's
`RMAPHandler` use an `RMAPInitiator`; the board's events come over a socket of
their own.

What makes it right:

* transaction IDs: each is in one place; none is lost, none is given to two
  transactions; a call that ends, in whatever way, gives its ID back;
* replies: a call accepts only the reply to its own command; no reply packet is
  leaked, used after deletion, or read through a NULL pointer; a call times out
  only if there was no reply; damage on the wire is noticed, and what a call
  returns is what the target did;
* every call returns, whatever is lost, and when the engine stops or the link fails;
* channels: segments come out in order and once, whole messages only; `send()`
  returns, and when it does the receiver has the message;
* interfaces: packets cross whole, in order and once; a lock is given back; no
  thread works with a module that `close()` has deleted;
* devices: a method that returned has done what it says, through lost replies
  and repetitions; shared registers change only under their semaphore; an event
  is what the board sent.

`PROJECT.json` lists the hazards one by one with the line where they bite and the
properties that watch them.

## 2. Plan

Done, in this order: the transaction database and the engine with its initiators;
SpaceWire-R channels with the abstract stream they implement; RMAP packets,
targets, nodes and the exchange between an initiator and a target; the engine's
life cycle; SSDTP; the SpaceWire-R engine and its packets; the devices.

| Composition | Parts |
|---|---|
| `RMAPEngine` EXTENDS `TransactionIDs` | calls, engine and network over the ID database |
| `SpaceWireR` EXTENDS `SlidingWindow`, INSTANCE `SegmentStream` | two end points over window arithmetic; refinement of the stream |
| `RMAPExchange` EXTENDS `RMAPPacket`, `RMAPTarget`, `RMAPTargetNodes` | calls by name, packets byte by byte, target's dispatch |
| `RMAPEngineLife` EXTENDS `RMAPTarget` | the same dispatch inside the engine's threads |
| `SpaceWireREngine` INSTANCE `SpaceWireRPacket` | the engine works on bytes |
| `MC...` | settings of one module, or components without shared state, put side by side |

Left, in order of use: proofs of the channel with heart beats; a channel over two `SpaceWireREngine`s in one model; the paths listed in section 7.

## 3. Modules

Each action stands for the code between two points where another thread can
observe or disturb it.  Formatting, logging and counters that nothing reads are
left out everywhere.

### `TransactionIDs`, `RMAPEngine`

`TransactionIDs` has the two variables of the database, `available` (the FIFO
list) and `transactions` (the map), and one operator per critical section of
`transactionIDMutex`.  `RMAPEngine` adds the threads:

* per initiator, `pc` is the point a calling thread has reached, `op` the call,
  `tid` the ID in its command packet, `tstate` and `treply` the state and reply
  pointer of its `RMAPTransaction`, `reply` its own `replyPacket`, `result` how
  the last call ended;
* `engine`, `stopped` and `hand` are the receive loop, `RMAPEngine::stopped`,
  and the transaction and packet it is working on;
* `network` is the set of commands that may still be answered, `live` the set of
  reply packets handed to a transaction and not deleted, `orphans` the IDs a
  failing `initiateTransaction()` left registered (the last two are ghosts).

Getting an ID, registering it, sending, setting `Initiated`, and (for `write`)
setting `CommandSent` are steps of their own; so are resolving a reply, storing its
pointer, and setting `ReplyReceived`.  `stateMutex`, held from sending to
`Initiated`, is `pc = "sent"`, which `SetReplyReceived` waits for.
`condition.wait()` may return at any time when `LateReplies` is TRUE (a timeout, or
a stale or spurious signal); when it is FALSE, only once the state is
`ReplyReceived` or no reply is on its way any more: a timeout long enough for every
reply.  A thread that reads through a NULL or deleted reply stops in `crashed`.
`cancelNonblockingRead()` is modelled only while the read is pending, and no other
call is made in between, as the comment above `nonblockingRead` asks.  A reply is
delivered at most once, in any order; its content is `ok` or `error`.

### `RMAPEngineLife`

`linkState`, `module` and `deleted` are the interface: a module is its number, 0 for
NULL.  Application threads (`Apps`) open, start, `stop()` and `close()`; the engine's
thread goes through `run()`, its stop actions (one closes the interface in style
`closesOnStop`) and its end; a command makes a target thread, which the arrival of
the next command collects once it has completed.  `patient` applications do not
call `stop()` or `close()` until the thread they started is in `run()`; without that a
`stop()` is lost (`RMAPEngine.hh:292`).  The link may break at any time.

### `Bytes`, `RMAPPacket`, `RMAPTarget`, `RMAPTargetNodes`, `RMAPExchange`

Packets are built and read byte by byte: paths, instruction bits, lengths, both
CRC tables (as linear maps over bits).  `Interpret` is a set: empty when the code
throws.  `RMAPTarget` holds the ranges and the sums in `AddressSpace` (2^32 in the
code).  `RMAPTargetNodes` builds nodes and objects from an XML file, with the order
in which access-mode words are tried.  `RMAPExchange` puts an initiator (`database`,
`options`, the one `commandPacket`, the `request` in progress) and a target
(`targetMemory`) at the two ends of a wire that may invert bits, cut or lose a packet.
The target's action is the tutorial's (`tutorial_RMAPTarget.cc`), with a memory that keeps what is
written.  The interleaving of threads is the subject of `RMAPEngine`.  What a file or a call
may contain is what the code's types and the fields of a packet can hold (`ExchangeAssumption`).

### `SlidingWindow`, `SegmentStream`, `SpaceWireR`

`SlidingWindow` is the arithmetic of sequence numbers: `Wrap` is the cast to
`uint8_t`, with `M` in place of 256 and `K` in place of the window size 8; each
predicate keeps the comparison (strict or not) its code has.  `SegmentStream` is
what a channel promises: `out` is a prefix of `given`, and both only grow.
`SpaceWireR` is one channel:

* the application's thread at the sending node: `tpc` is its place in `open()`,
  `send()` and `close()`; `message`, `segment` and `opens` count what it did;
* `SpaceWireRTransmitTEP`: `slots` (`slidingWindowBuffer`), `sent`, `acked`,
  `retries`, `from`, `sn`, `outstanding`, `masn`, `masnLapped`, `openAcked`,
  `closeAcked`, `beats` and `beatDue`, and `ackInHand` while `processAckPacket()` is half done;
* `SpaceWireRReceiveTEP`: `rstate`, `rbuffer`, `rfrom`, the message being put
  together (`current`), complete ones (`received`), and the phases of `run()` (`rpc`);
  `released` and `delivered` are what went through the window and to the caller;
* the link: `toR` and `toT`, FIFO, from which packets may be lost.

Sending a packet and marking it as sent are two steps, as the acknowledgement can
come in between; so are the two halves of `processAckPacket()`, as the first one
wakes the sender; so are, in the receiver, a batch of packets and the change to
closing.  `Malfunction` is `malfunctioningTransportChannel()` of the transmitter,
which dereferences NULL on purpose (line 156): `tpc` stays `crashed`.

The timers are abstracted to when they may expire.  `Delays` says what may be slow:
`lateAck` lets a wait or retry timer expire although an answer is on its way,
`earlyWake` lets `sendOpenCommand()` run between the halves of `processAckPacket()`,
`slowMark` lets an acknowledgement overtake the mark, `sendTimeout` lets the timeout of
`send()` come before the recovery from a loss (as the defaults do: 1000 ms against
2000 ms).  With `Delays` empty a timer expires exactly when no answer can come.
`checkRetryTimerThenRetry()` goes through the window in order and all counters run alike, so a
packet is retried only after those sent before it (`RetriedInOrder`); slot 0 is left out of
this, as its count and counter also serve `open()` and heart beats.
`InitialMASN` and `InitialFlags` are what uninitialised members can hold.  A heart beat
takes the slot of the next number, is sent with the number 0 and leaves between two calls of
`send()`, which holds `sendMutex`; one that finds no slot throws on the timer's thread, which
ends the process (`crashed`).

### `SpaceWireRPacket`, `SpaceWireREngine`

The fields and bytes of a packet and of the packet that acknowledges another; and the
engine's thread, its three tables, `sendPacket()` with its mutex, the failing link
(`telling` the end points one by one), opening again, and counters.  What an end point does with
data is `SpaceWireR`'s.  An end point found through a pointer that is gone makes the
engine `undefined`.  Packets from afar have fields as wide as their places in the header
(`P!Packet`): path addresses are below 32 and logical addresses are not, since that is where
`interpretPacket()` ends the path (`PacketAssumption`).

### `SSDTP`

Two threads send and one receives over a byte `stream`.  Bytes come in any pieces;
a wait may time out at each; the connection may break; `close()` and `cancelReceive()`
come at any time.  Requests are bytes, no longer than the ten bytes of the size part can
say (`SSDTPRequestAssumption`).  `sendmutex` and `receivemutex` count how often they are locked, since
`CxxUtilities::Mutex` is recursive.  Each way out of `send()` and `receive()` gives back
the locks the code gives back on it, not those it should.  `bytesLost` is a ghost: a call
has left with half a header or body read, after which the stream has no frames any more.

### `RouterConfigurationPort`, `SpaceFibreADCBoard`, `EventReadout`, `SpacePi`

* A router is a memory of 32-bit words as sets of bits; a setter reads, changes and
  writes in separate RMAP transactions, each of which may time out after or before
  it took effect, arrive late, or fail; two programs share the router.
* A method of the board is a program, a sequence of accesses: register reads and
  writes, the semaphore's loop, the opening and closing of the connection.
  `RMAPHandler` repeats an access that timed out up to `MaxTrials` times.  The FPGA is
  external: it takes the semaphore, stops channels under it, and counts live time.
* The board's events are bytes of words; `EventDecoder` goes state by state and
  takes event instances from a reservoir the program refills; the socket may be
  closed, cut and opened again.
* On a SpacePi board `send()` and `receive()` take the SPI bus under one mutex; the
  FPGA has room for one packet in each direction.  A packet that is not copied
  into the buffer (EEP, too long) is `Garbage`.

## 4. Runs

Every run has two initiators, two programs, or the one or two end points a channel has,
and bounds on calls, losses and packets, which the `.cfg` files and the `INSTANCE`s of
the `MC` modules name.  None checks deadlock: calls and messages are used up, and a
process may have ended.  States are distinct ones.

| Run | Configuration | States | Shows |
|---|---|---|---|
| `timely_reads` | `RMAPEngine`: reads, blocking and not, timely; 2 IDs, used again.  "faults": 2 calls each; all faults, error replies, failing sends, an engine that stops and starts.  "longer": 3 calls each, loss and failing sends | 765,012 | `TIDConservation`, and the hand-over of a reply: `TakesLivePacket`, `NoPacketLeak`, `OnlyFailedSendsLeakTIDs`, `CancelsOwnTransaction`, `ReadTimesOutOnlyWithoutReply` |
| `order` | `SpaceWireR` with M = 5, K = 2, every delay.  "order": messages of 3, 2 and 1 segments, close, 2 losses of anything but Close.  "beats": a message of 3 segments, a heart beat, 1 loss, of the heart beat or its acknowledgement too.  `RMAPEngine`, "mixed": all four kinds of call, one initiator with a specified ID, loss, failing sends, timely, 2 calls, 3 IDs | 991,278 | `StreamSpec` (the channel implements `SegmentStream`), `MessagesIntact`, `ChannelInv`, `DataNeverClosesReceiver`; `ReplyMatchesCommand`, `RegistersUnusedID` |
| `sessions` | "timely": M = 4, K = 2, 2 losses, 3 retries, no delay, one open.  "beats": M = 8, K = 3, messages of 3 segments and 1, which fill the window, 2 heart beats, 1 loss.  "close": close, reopen, one loss of Close or the acknowledgement of a command, every delay.  "flow": M = 8, K = 3, flow control, the MASN wraps, one loss of Open or Close | 63,881 | `OutstandingExact`, `NeitherEndGivesUp`, `SendReturnsReceived`, `SendCompletes`, `CallsEnd` |
| `interfaces` | `SSDTP`: two senders, one a fragment, an empty packet and a time code among their packets, sizes of one byte.  `RMAPEngineLife`: 2 links, 2 runs, 2 commands of which some wrap around or have length 0 | 349,285 | `SSDTPInv`, `CallsGiveBackTheirLocks`, `SentPacketsArrive`; `LifeInv`, `EngineReceivesOnLiveModule`, `StopAlwaysReturns` |
| `packets` | `RMAPExchange`: 2 of 9 calls, 3 settings, 2 configuration files, 1 damage.  `SpaceWireREngine`: one end point of each kind, 2 of 6 packets from afar, 1 damaged, a link that fails.  `RMAPEngine`, "late": all kinds of call, all faults, late replies, 1 call, 2 IDs | 184,888 | `DamageIsNoticed`, `ExchangeInv`, `AnswersTellTheTruth`, `TimeoutsHaveACause`; `EngineInv`, `AnswersFindTheirWay`, `EngineGoesOn`; `NoCrossTalk`, `EveryCallReturns` |
| `devices` | `RouterConfigurationPort`: two programs, one call each of all, all faults.  `SpaceFibreADCBoard`: 2 of some thirty calls, 2 trials, 2 faults, a semaphore taken once by the FPGA.  `EventReadout`: 2 events of two kinds, 2 openings, 1 cut.  `SpacePi`: two writers, one reader, 2 openings | 359,654 | `RouterInv`; `BoardInv`, `OkMeansDone`, `StartStopUnderSemaphore`; `EventInv`; `SpiInv`; `DeviceCallsReturn`, which is `EveryBoardCallReturns` and `SpiCallsReturn` |
| `write_timeout`, `late_ack`, `reopen`, `heartbeat_ack`, `flow_lap`, `refusals` | | | violated, see section 5 |

Why the bounds are enough for what each run looks at:

* Two calls per initiator let a reply of the first meet the second, a third one meets what
  both have left; two IDs make each ID change hands between initiators.
* M = 5 is the smallest number space in which the two windows of the receiver do
  not cover everything, so a packet can fall outside both; M = 4 = 2K is the
  tightest the assumption allows.  Six segments after the Open command use every
  number again, so an old acknowledgement or retransmission meets a new segment with
  the same number.  Two losses allow a data packet and its acknowledgement, or the same
  packet twice.
* A packet in three pieces of header and body, two writers and one break reach each way
  out of `SSDTP`; a second link and run reach every reuse of a pointer in
  `RMAPEngineLife`.
* In `packets` the second call reuses the packet of the first, of another kind and to
  another node; one damage of one byte in any place, or a cut anywhere, is what a CRC is
  asked to notice.  Two inverted bits in different bytes are not tried, and what lies beyond the end
  of a packet that was cut is 0 (`BeyondBytes`): the header's CRC is read there
  without a look at the length (`RMAPPacket.hh:355`), and one byte in 256 would pass for it.
* In `devices` each pair of the board's methods is made, with a loss before and after any
  access and a repetition; a second event finds the decoder and the instances as the first
  left them.

Bounds and settings that the properties need, and why:

* with late replies and IDs that come round, RMAP cannot tell an old reply from a new one,
  so `NoCrossTalk` needs no more calls than IDs and `ReplyMatchesCommand` timely replies;
* a write may lose its reply (finding `write_timeout`) and then cancel another initiator's
  transaction, so `CancelsOwnTransaction` and its companions are checked for reads;
  cancelling a non-blocking read that has completed leaks its packet, so `NoPacketLeak` is
  claimed where a caller gives up only on a lost reply;
* in `sessions`, "timely" and "beats" have exact timers and keep the acknowledgement
  of Open: findings `late_ack` and `reopen` show that each is needed; "close" counts
  giving the channel up as an end, since `open()` after `close()` finds no packet in its slots;
  "flow" ends before the sequence number wraps (finding `flow_lap`);
* a heart beat and its acknowledgement are numbered 0, so the settings with heart beats send
  no segment of that number (finding `heartbeat_ack`), and do not close meanwhile;
* `NeitherEndGivesUp` names the one case in "beats" in which the program ends: a heart beat between
  the halves of `processAckPacket()` with the window full (section 5);
* `SSDTPInv` and `SentPacketsArrive` hold until bytes are lost on purpose (a timeout within a
  header, a cancellation): then the stream has no frames any more;
* `StopAlwaysReturns` is for patient applications (section 3), with one thread that
  closes: of two, the second would find the state Closed and return before the module is
  deleted;
* `TimeoutsHaveACause` excepts the refused reads of finding `refusals`;
* `EventInv` is for a socket opened when the board is quiet and closed between events
  (`OpensWhenQuiet`, `ClosesBetweenEvents`): the decoder keeps its state over connections, and
  halves of two events make one;
* `AccessesLiveInterface` in `BoardInv` is for a device opened once or closed before it is
  opened again (`RetriesOpen = FALSE`): `openDevice()` after a failure replaces the interface
  under a running engine;
* `SpiCallsReturn` ends with the first `send()` that finds the FPGA's buffer taken: that one
  returns with the mutex locked.

Fairness, and what in the code justifies it:

* `RMAPEngine`: weak fairness of `CallStep(i)`: the wait has a timeout, the mutexes on the
  way are held for a bounded number of instructions.  None of the engine, the network, or
  the application between calls.
* `SpaceWireR`: weak fairness of the sending thread inside a call and of the two `run()`
  threads: each waits on a condition variable with a timeout and looks again.  None of
  the applications: nobody has to call `receive()`.  Losses are bounded, so retries need none.
* `SSDTP`: weak fairness of the threads inside a call, strong fairness of reading bytes
  that have come (`ReadStep`): a wait may time out again and again, but not each time although
  bytes are there.
* `RMAPEngineLife`: weak fairness of the engine's thread (its `receive()` has a timeout) and
  of the steps of `stop()` and `close()`; none of peers, target threads or applications.
* `SpaceWireREngine`: weak fairness of the engine's thread and the threads in `sendPacket()`.
* `SpaceFibreADCBoard`: weak fairness of a thread inside a method, as RMAP accesses have
  timeouts, and of the FPGA giving the semaphore back: without that `request()` loops for
  ever, as it has neither a timeout nor a limit (`SemaphoreRegister.hh:54`).
* `SpacePi`: weak fairness of the calling threads.  A default pthread mutex promises no more,
  and the reader's waiting is bounded by its timeout.

Six runs have an `MC` module with a next-state relation of its own.  It puts settings of one
module, or components that share no state, side by side, or restricts the bounds per setting:
a variable chosen at the start says which one a behaviour follows, and the fairness of each
is conjoined for its own behaviours only.  That is why `RMAPEngine` appears in three of them.

## 5. Findings and other limits of the code

Each finding is a run that ends in a violation.

* `write_timeout`: `write()` sets `CommandSent` after `initiateTransaction()` has returned
  (`RMAPInitiator.hh:610`).  If the reply has been processed by then, the state
  `ReplyReceived` is overwritten and the call ends in `Timeout`.
* `late_ack`: an acknowledgement of a segment that is already acknowledged decrements
  `nOfOutstandingPackets` again (`SpaceWireRTransmitTEP.hh:363`), so `send()` can return
  before the receiver has the message.  It takes two losses: the first segment is lost when
  it is sent and when it is sent again, as retries go in the order of the window; the
  second one is sent again with its acknowledgement on the way.
* `reopen`: Open sent again because its acknowledgement was lost closes the receiver
  (`SpaceWireRReceiveTEP.hh:406`).
* `heartbeat_ack`: a heart beat is sent with the number 0 (`SpaceWireRTEP.hh:829`), and
  `processAckPacket()` (`SpaceWireRTransmitTEP.hh:363`) takes its acknowledgement for that of the
  segment numbered 0.  In the run nothing is lost or late, and `send()` returns early; were that
  segment lost, nobody would send it again.
* `flow_lap`: the bit that says which of MASN and sequence number has wrapped is wrong when
  the sequence number wraps first (`SpaceWireRTransmitTEP.hh:531`), and then everything is sent.
* `refusals`: the reply that refuses a read announces the command's length without data
  (`RMAPPacket.hh:1356`); the initiator's engine drops it, and `read()` ends in `Timeout` in place
  of an `RMAPReplyException`.

Limits met while modelling, without a run of their own:

* RMAP.  A specified ID is checked at `RMAPEngine.hh:525` and taken at 533, in two critical
  sections.  A `stop()` before the thread reaches `run()` is lost (line 292).
* SpaceWire-R.  The MASN in an acknowledgement is computed before the window slides
  (`SpaceWireRReceiveTEP.hh:515`), so after a loss `send()` can wait for an MASN that cannot come;
  the first MASN is compared with an uninitialised one (`SpaceWireRTransmitTEP.hh:679`);
  the flags of the send window are read before they are written (`SpaceWireRTEP.hh:412`), as is
  `isConsumingReceivedPacketes` (`SpaceWireRReceiveTEP.hh:364`); `close()` empties the slots that a later
  `open()` needs (`SpaceWireRTransmitTEP.hh:120`); a receiver that closes drops messages not yet
  fetched (`SpaceWireRReceiveTEP.hh:208`); the retry timer leaves its mutex locked when the engine throws
  (`SpaceWireRTEP.hh:601`).  The last acknowledgement of a full window lets `send()` return
  (`SpaceWireRTransmitTEP.hh:365`) before the window slides (line 380); a heart beat that gets `sendMutex`
  in between finds no slot, and its exception, which nobody catches (`SpaceWireRTEP.hh:822`), ends
  the process.  This takes no delay but only the loss of the window's first segment, whose
  acknowledgement then comes last.  `InitialMASN`, `InitialFlags` and `Delays` let TLC show the
  consequences of those that are constants.
* SpaceWire-R, seen in the proof only, as it takes more packets than a run has.
  `sendPacket()` sets `packetHasBeenSent` after it has sent (`SpaceWireRTransmitTEP.hh:494`, and line 621
  for Open); if the answer has been processed by then, the flag is set for a slot that the window has
  passed, and once the numbers come round `checkRetryTimerThenRetry()` (`SpaceWireRTEP.hh:575`) sends
  what the slot holds from the round before; a left-over Open closes the receiver.  Close is
  numbered 0 (`SpaceWireRTransmitTEP.hh:648`), and its acknowledgement is taken for that of the segment in slot 0 if
  there is one.  So `ChannelInv` speaks of a transmitter that is open, as nothing relies on these flags
  afterwards.
* A malfunctioning receiver, too, reads through NULL on purpose (`SpaceWireRReceiveTEP.hh:720`) and
  ends its process; the model takes it to closing only.  `DataNeverClosesReceiver` says that data
  never get it there; a repeated Open does (finding `reopen`).
* Registering two end points of different kinds with one channel number makes them share
  an entry of `allTEPs` (`SpaceWireREngine.hh:278`).
* SSDTP.  `send(vector&)` keeps its own lock when the inner `send()` throws, and `receive()`
  keeps `receivemutex` when it finds the module closed or cancelled; `CallsGiveBackTheirLocks`
  lists these ways out.
* Routers.  `readWholeRoutingTable()` leaves the last row out of place; the getters of the device
  ID and the FPGA's revision are swapped; the divider for 2 MHz of the GbE router is 99
  (`ShimafujiElectricSpaceWireToGigabitEthernetStandalone.hh:296`), which does not fit the six bits that
  `getLinkFrequency()` reads (line 328): it is read as 35, a link of 5.5 MHz.
* Board.  `setPresetnEvents()` and `setadcClockCounter()` write the register of the preset live
  time; the count of triggers takes both halves from one register; a live time is read in two
  halves and can be torn; the answer of `startAcquisition`'s companion that tells whether it has started is inverted.
* SpacePi.  `send()` leaves its mutex locked when the FPGA has not yet sent the packet before
  (`SpaceWireSpacePiModule.hh:192`); a failing `open()` throws nothing.

## 6. Proofs

All are checked by TLAPS for every value of the constants that their assumptions allow.
`MCSessions`, `MCInterfaces`, `MCPackets` and `MCDevices` state the hypotheses below of their own
instances with ASSUME, so the runs show that what the theorems suppose can be met.

### `RMAPEngine_proofs`

For any initiators, IDs, calls and faults:

* `TypeCorrect`: `Spec => []TypeOK`.  `TypeOK` is inductive; its one conjunct that relates
  two variables says the engine holds a transaction exactly between resolving and
  completing it, which `SetReplyPacket` and `SetReplyReceived` need to be well defined.
* `TIDsConserved`: if no initiator specifies its ID, `Spec => []TIDConservation`, which is
  inductive together with `TypeOK`.  Each step changes where an ID is in one of four
  ways, one lemma each: not at all (`ConservationUntouched`), from the list into a thread's
  hands (`ConservationPop`), from hands into the map or back to the list
  (`ConservationRegister`), from the map to the list (`ConservationDelete`).
* `RegistrationsReplaceNone`: hence `RegistersUnusedID` holds under the same assumption.

The rest assumes `Timely`: IDs are assigned by the engine, a caller gives up only when no reply
is on its way, and no call is a write with a reply (whose defect is finding `write_timeout`).  Any
number of initiators, IDs and calls; any loss, failing send, stop and disconnection; IDs
that are used again.  Then `TakesLivePacket` (`RepliesAreLive`), `NoPacketLeak`
(`RepliesAreNotLeaked`), `ReplyMatchesCommand` (`RepliesMatch`), `OnlyFailedSendsLeakTIDs`
(`RegistrationsEnd`), `CancelsOwnTransaction` (`CancelsItsOwn`) and
`ReadTimesOutOnlyWithoutReply` (`TimeoutsAreLosses`).

None of these is inductive.  The inductive invariant is `TimelyInv`, on top of `TypeOK` and
`TIDConservation`:

* `CallsInOrder`: which states of the transaction and which pointers go with each place in a call;
* `IDsRegistered`: an ID stays registered to the command of its owner exactly until the
  engine resolves the reply or the caller cancels, or it is an orphan;
* `RepliesOnTheirWay`: a command in flight, or a reply in the engine's hands, is the current one of
  a caller that still waits: this is what "timely" buys;
* `PacketsKept`: which pointer keeps each packet that is not deleted.

There is one lemma per group of steps and conjunct.

### `RMAPEngineLife_proofs`

* `NoCommandIsLost` (no hypothesis): received commands are answered, discarded, aborted or
  with a thread.  Inductive as `CommandsInv`; the work is that a thread's number is new when
  it is made and that collecting threads only removes completed ones.
* `AccessesStayInRange`, if `RangesLeaveRoom`: a command that was given to an action lies in one
  of its ranges.  The sum of address and length is taken in 32 bits, so `contains()` compares the
  wrapped end: a range within an access of the whole address space would accept a command
  that wraps around, and the hypothesis says no more than that there is none.
* `EngineNeverReceivesOnDeleted`, and with the two above `LifeIsSound` (`LifeInv`), if
  `OnePatientThread`: one thread stops and closes, and not while the engine's thread is on its way
  into `run()`.  Both halves are needed: a second thread that closes deletes the module the first
  one still waits for, and a `stop()` that comes before `run()` sets its flag is forgotten, so that
  `close()` deletes what the engine goes on to receive on.

The inductive invariant `ThreadsInv` says in which places the engine's `hasStopped`, `stopped` and
`actionsRun` have which value (`EngineFlags`: nothing in the code ties them together), that
the application waits whenever it has asked the engine to stop and is past the wait only when the
engine is out of its loop (`AppWaits`), and that the module behind an open link lives (`ModulesInv`).

### `SpaceWireR_proofs`

For every `M` and `K` with 2 <= K and 2K <= M (256 and 8 in the code):

* `ForwardWindow`, `ForwardReceiveWindow`, `BackwardReceiveWindow`: the three predicates, each
  a comparison by cases on whether the window wraps, hold exactly for the K numbers
  they are meant for.  With K = 1 the strict comparison of the receiver would fail.
* `ReceiveWindowsDisjoint`, `LatePacketInsideAWindow`: the receiver's windows share no number,
  and together they cover everything from K behind to K - 1 ahead.

The windows rest on what the cast does to a sum or a difference of two numbers (`WrapLow`,
`WrapHigh`, `WrapNegative`) and on the distance between two numbers (`Ahead`).

The channel, for any messages, windows, numbers of retries, losses and delays, with or without flow
control, and numbers that come round any number of times, if `PlainChannel`:

* `MessagesComeWhole` (`MessagesIntact`): the messages come out of `receive()` whole, once and in order;
* `StreamIsImplemented` (`StreamSpec`): both end points together implement `SegmentStream`, with what was
  passed to the window as `given` and what left the receiver's window as `out`;
* `DataKeepsReceiverOpen` (`DataNeverClosesReceiver`): a data packet that arrives is in one of the two windows;
* `ChannelIsSound` (`ChannelInv`): a segment the transmitter takes for acknowledged has come.

The difficulty is that a number says nothing by itself: packet 7 and packet 7 + M look the same.  The
proof counts the packets of the channel's life without end, Open as 0, segment i of the stream as i, and
`PositionsInv` says which count each thing in the state stands for: the packets on one FIFO are those
counted q[1], q[2], ..., the acknowledgements on the other t[1], t[2], ..., the window of the transmitter
starts at a, that of the receiver at r, and up to b packets are in its buffer; no packet from
h on has been acknowledged.  The counts are related by inequalities (`Near`, `Above`, `Below`,
`Across`) which leave less than M between any two that are compared, so a number has one possible
count wherever the code compares it; that is where 2K <= M is used.  Retransmission makes the queues
unordered, but only within a window: no packet is K or more behind one that was sent before it.

`StreamInv`, the inductive invariant, is `StateInv` (what is well formed, and where the threads can
be), `GivenInv` (the stream is the segments of the messages in order, and `sn` the cast of its length),
`PositionsInv`, `ReleasedInv` (what was released is the beginning of the stream, and the messages put
together from it are the first ones and a part of the next: `Assembled`) and `MessageInv`.  Each has its
part of the module, and each action a lemma there.  `slideReceiveSlidingWindow()` and
`reconstructApplicationData()` go over the packets of a run of any length: they are unrolled as functions on
0 .. k and the induction is over k (`CommonLemmas`).

`PlainChannel` excludes four things, each of which breaks what is proved:

* heart beats: their acknowledgement is numbered 0 (finding `heartbeat_ack`);
* a second `open()` on the same end points, whose slots the `close()` before has emptied (section 5);
* send-window flags that start as anything but FALSE, as the code reads them before it writes them;
* marking a packet as sent after its answer was processed (`slowMark`; section 5).

Late acknowledgements, wake-ups in the middle of `processAckPacket()`, the timeout of `send()`, its
malfunction, `close()` at any time and the loss of any packet are all allowed.  The run `order`
checks the same properties with a heart beat and `slowMark` as well: there the effects of both need
more packets or a later moment than its six segments give.

What was given is written with the library's `FlattenSeq`, a fold; `FlattenIsJoining` turns it into a
joining step by step, from which `GivenTo` grows by one segment at a time.

### `Interfaces_proofs`

* `SpiInvariant`: `SpiSpec => []SpiInv`, for any threads, packets, calls and arrivals.  The
  inductive invariant `SpiIInv` names the thread that has the mutex as the only one on the bus
  (`BusIsLocked`) and says, for each place of that thread, what the FPGA's buffers hold and how
  the histories stand to each other (`SendingGoesInOrder`, `ReceivingGoesInOrder`).
* `OneUserOfEachHalf`: a thread of SSDTP past its lock holds the mutex of its half as often
  as its call locked it (`LocksInv`, inductive).  `sendmutex` and `receivemutex` are recursive, and
  `receive()` into a vector locks twice.  `LocksAreGivenBack`: a call that ends has undone all its
  locks on each way out but an exception.
* `FramesArrive`: `SSDTPSpec => []SSDTPInv`, for any number of threads, any requests, pieces of any
  size, time codes, fragments, timeouts and cancellations.  That what comes out is a prefix of
  what went in is not inductive: it says nothing of the bytes under way.  `FramingInv` adds a
  history, quantified: a sequence `F` of frames that were ever begun on the stream, and for each number
  of frames what they have come to (`S`: packets, fragment so far, time codes; `Follows` is
  one frame's effect).  `OnStream` says that the stream holds the bytes of `F` from the
  frame and the byte within it that the receiver has reached to those the sender has;
  `SenderAt` that `F` has come to what is in the senders' histories, but for the frame in the hands of
  the sender that holds the mutex; `ReceiverAt` the same of the receiver, for each of its
  places.  From `LocksInv` there is one of each.  A sender that begins extends `F`; a piece that is sent or read
  moves one end (`StreamTypes`, and the lemmas on `Joined` and `NextAre`); a frame
  complete moves on in `S`.  `QuotientsOf` and `SizeReadOf` show that `SizePart` and
  `HeaderSize`, repeated division by 256 and its undoing, give back every length that fits.
  Once `bytesLost`, nothing is claimed but the types and the locks.
* `EngineIsSound`: `EngineInv` of `SpaceWireREngine`, by the inductive invariant `TablesInv` (an end
  point in its table is in `allTEPs` too), `ThreadsInv`, `PacketsInv` (what is queued for an end
  point was sent to it, and each packet counts once), if `ChannelsDiffer` and `DamageIsTold`.
  Two end points of a node on one channel take each other's place in `allTEPs`, and the first to
  close takes the other out.  That damage is told by form or CRC is a fact about the damages;
  TLC computes it from the bytes.
* `IntactIsRead`, which `EngineIsSound` rests on: any packet in `P!Packet`, of any addresses, prefix and
  payload, is read by `Interpret` as it was laid out by `PacketBuffer`, and as nothing else.  The
  lemmas say where each field lies (`Holds`: bytes at a place; `HeaderIs`, `BufferIs`), that
  the first byte not below 32 ends the path, that numbers of 16 bits and the control byte come
  apart again, and that the CRC, whatever it computes, is a number of 16 bits.
* `AnswersArrive`: `AnswersFindTheirWay`, under the same two assumptions.  `AnswersInv`, the invariant: what is emitted
  as an answer is `ConstructAckForPacket` of a packet that fits `P!Packet`, whether it is about to be
  sent, waits for the mutex, or is out.  The rest is the layout again: the buffer begins
  with the way that the answered packet named as its prefix, and what is left when the routers have
  taken that off reads as the acknowledgement (`ReadOf`, without a path).

### `RouterConfigurationPort_proofs`

`RouterIsSound` (`RouterInv`), for both routers, any number of programs, any requests, lost
commands and lost replies.  `RouterIInv` adds to the types, for each call: where a call of its kind can
be (`InPlace`); while no other call has written the register, the word a setter is about to write
differs from what the register holds at most in the connected bit, which the cable changes by
itself (`WordIsFresh`), and the rows read so far are those of the table (`RowsAreFresh`); and a
call that returned has done it (`CallIsDone`).  `DividersFit` and `PortsFit` keep out a frequency
whose divider does not fit the six bits read back, and ports that no row has a bit for.  The table's
order, in which the loop puts rows, is shown to reach every address (`TableOrder`).

### `SpaceFibreADCBoard_proofs`

`BoardIsSound` (`BoardInv`), `OkIsDone` (`OkMeansDone`), `SwitchedUnderSemaphore`
(`StartStopUnderSemaphore`), for any number of channels, trials, and calls, timeouts and refusals anywhere.
A method is a program of register accesses; `ProgramsAre` shows once what all programs have in common
(they write what fits, `StartStopRegister` only between request and release of the semaphore,
agree with themselves on what a register shall hold), so that the induction speaks of programs
and not of twenty methods.  `BoardIInv` then has the connection (`HandlerInv`), the registers
(`FpgaInv`), where each call is and how often its access was executed (`CallsInv`), who has the
semaphore at which element (`SemaphoreInv`), and that what a call is past is done (`DoneInv`).

`OneUser`: with two threads one overwrites what the other has just set, and nothing in the classes
prevents it; `DoneInv` is false then.  `~RetriesOpen`: a program that opens an open device again, as it
might after an exception, leaves the engine of the deleted interface running.

The module also has the proofs of the board's other half, `EventReadout`: `EventsAreSound`
(`EventInv`).  For events of any length, a stream cut in pieces of any size and any
number of event instances kept by the program, events come out in order, each as it was sent.  The
hypotheses say how the program uses the socket: it opens when no event is on its way
(`OpensWhenQuiet`) and closes between two events (`ClosesBetweenEvents`); otherwise the decoder, which
keeps its state over a reconnection, takes the middle of an event for its continuation.

The decoder folds over the words of a piece, and what that computes for a piece of any length needs
induction over data.  The library's induction theorems take an operator; `CommonLemmas` states
induction over the numbers of a set instead, derived from the well-foundedness of finite subsets in
`FiniteSetTheorems`, and the fold is unrolled as a function on 0 .. Len.  `EventIInv` then says that the
undecoded bytes are those of the events sent and not yet seen (`Layout`), and which word of which
event the decoder has reached (`Reading`).

### `RMAPExchange_proofs`

For any configuration files, calls, options, targets and ranges whose numbers have the widths of the
code's types (`ExchangeAssumption`), any packets lost, cut or damaged, and whatever lies beyond the
end of a received packet:

* `NothingElseIsExecuted` (`ExchangeInv`), if `DamageIsNoticed`: the target executes only commands
  that were asked for, with every field as the caller meant it; the packet object that all calls
  share carries nothing over; what a file makes read-only is not written by its name;
* `AnswersAreTrue` (`AnswersTellTheTruth`), if `DamageIsNoticed` and `~ShortAnswers`: what `read()`
  returns is what the memory held, an acknowledged write is in it;
* `TimeoutsAreExplained` (`TimeoutsHaveACause`): without damage, a call times out only when no range
  of the target takes it, or its read is refused.

Half of the module is about bytes. `CommandIsRead` and `ReplyIsRead`: what `ConstructPacket` lays
out, `Interpret` reads as that packet and as nothing else, for every packet whose fields fit
(`CommandFits`, `ReplyFits`). A path ends at the first byte not below 32; the way back is filled up
with zeros to whole words, whose number is in the two lowest bits of the instruction; numbers of two, three and
four bytes and sets of bits come apart again; the CRCs, whatever they compute, are equal on equal
bytes. A way back of up to twelve bytes is read with its zeros, which the target takes off again
(`IsAsAsked` says so).

`ExchangeIInv` is the inductive invariant. Its core is `WireInv` and `BackInv`: the only command
that can be found in a packet on the wire is that of a call that was sent, the only reply in a
packet on its way back is that of something executed (`OnlyCommand`, `OnlyReply`). That holds of a
packet as it is sent by the lemmas above, and of a damaged one by `DamageIsNoticed`. `RequestInv`
says that the shared packet is, field by field, the command of the call in progress (`CommandOf`),
whatever was in it before (`Reusable`); `SentInv` and `DatabaseInv` that nodes and objects are those
of a file, since `ConstructDatabase` and the lookups give nothing else; `TargetInv` that once the
command of the last call was executed nothing else is on the wire, so the memory still holds what it
wrote; `AnswerInv` that a call's answer comes from an execution with its number, which no other call
has as there are no more calls than numbers (`MaxCalls <= 65536`). `PendingInv` is for timeouts: until
something is damaged, an answerable command is the last on the wire or its reply is on the way back.

`DamageIsNoticed` is an action property of the model, about every step that damages a packet: in the
damaged bytes a node finds nothing, or what was sent. No CRC guarantees that for every damage, so it
is a hypothesis; TLC checks it for every damage of the run `packets`, from the bytes and the CRC
tables of the code. `TimeoutsAreExplained` needs it not, since a damaged packet is cause enough: its
invariant is `ExchangeIInv` until the first damage. `~ShortAnswers`: a target may answer a read with
less than was asked for, and `read()` then succeeds with less (`RMAPInitiator.hh` compares the
lengths in the other direction only).

### Model-checked only

* of `SpaceWireR`: that the transmitter ends only as it may (`SendReturnsReceived`, `OutstandingExact`,
  `NeitherEndGivesUp`), and channels that are not plain;
* `DamageIsNoticed` of `RMAPExchange`, which says what CRCs detect and is the hypothesis of two
  theorems there;
* properties of the MC modules that put settings side by side (`NoCrossTalk`); `ReplyMatchesCommand` and `RegistersUnusedID` there are the instances of
  `RepliesMatch` and `RegistrationsReplaceNone`;
* out of the prover's reach: liveness under fairness (`EveryCallReturns`, `SendCompletes`, `CallsEnd`,
  `SentPacketsArrive`, `StopAlwaysReturns`, `EngineGoesOn`,
  `DeviceCallsReturn`), `ENABLED`, and what the CRCs compute.

No module here has a RECURSIVE operator.

## 7. Not modelled

Parts of modelled operations that are left out:

* `send()` on a channel that is not open returns as if all had been sent (`SpaceWireRTransmitTEP.hh:408`,
  508): `Send` is a call on an open channel.
* A second `receive()` thread on one SSDTP module, and a `send()` that times out on a connection that lives
  (`SpaceWireSSDTPModule.hh:481`) and leaves a part of its frame there: a send fails when the connection breaks.
* `RMAPInitiator`'s constructor (`RMAPInitiator.hh:167-181`) leaves the pointer to the node database and one flag
  unset; `RMAPExchange` starts with no database, as if the pointer were NULL.
* A node file without one of the tags gives a NULL node (`RMAPTargetNode.hh:212`) that line 520
  dereferences: the files of `RMAPTargetNodes` have them.
* `open()` of an interface whose engine runs (`SpaceWireIFOverTCP.hh:102-137` checks nothing), and an engine
  that does not start within two seconds (`RMAPHandler.hh:106-113`).
* A packet longer than the 2048 bytes of the SpacePi buffers runs past them (`SpaceWireSpacePiModule.hh:132`,
  175): `SpacePi` goes on, with `Garbage` in the buffer.

Parts left out altogether:

* `ConsumerManager.hh` and `DataRecorder.hh` of the board: included by no program, and they do
  not compile against the rest.  `Constants.hh`, `Debug.hh`: constants.
* `SpaceWireIFMultiplexer*.hh`, `SpaceWireIFMultiplexedIF.hh`: unfinished.
* `RMAPNode.hh`: accessors.  `SpaceWireUtilities.hh`: formatting and parsing of dumps.
* SSDTP registers other than time codes (`setTxDivCount()`, `sendRawData()`): not used by the
  library's own callers.
* Windows of different sizes at the two ends of a channel (`SpaceWireRTEP.hh:272` can set one of
  them), empty messages, and several channels over one link: `SpaceWireR` is one channel,
  `SpaceWireREngine` shares a link out but leaves the end points' windows aside.
* The programs under `src/sources`: read for how they use the library; the target tutorials are
  the targets and the server of sections 3 and 4.
