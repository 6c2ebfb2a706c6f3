# TLA+ models of cm108d

`cm108d` is a user-space driver for CM108/CM119 USB sound chips in radio
interfaces. The daemon owns the device, publishes received audio in a page of
shared memory, takes audio to transmit over a Unix socket, watches and drives
GPIO pins (PTT keys a transmitter), and serves any number of clients. This
directory holds models of its concurrent parts, checked with TLC, and proofs of
their safety, checked with TLAPS. Paths below are relative to
`src/crates/`.

The modelled build is the release build: `panic = "abort"`, `debug_assert!`
compiled out, wrapping arithmetic.

## 1. Inventory

| Component | State | Operations | Interacts with | What is hard |
|---|---|---|---|---|
| Shared audio page: `cm108-server/src/shmem.rs`, `RxShmem` in `cm108-client/src/client.rs` | counter, 192 bytes of samples | `write`; `read_frame` | written by the dispatch thread, read by other processes | a race by design; two memory models; death in the middle of a write |
| GPIO outputs: `cm108-hal/src/hid_gpio.rs`, heartbeat thread of `server.rs` | shadow byte, mutex, the chip's latch | `set_pin`, heartbeat | handlers of all clients, the chip | failing transfers, crash with PTT keyed, unchecked pin number |
| Registry and handlers: `cm108-server/src/ipc.rs` | client map, per client: channel, two threads, socket | register, unregister, three broadcasts, replies, request dispatch | dispatch and GPIO threads, clients | full channels, stalled clients, order at start and at end |
| Receive path: `cm108-hal/src/iso_stream.rs`, `usbfs.rs` | 8 URBs, ring of 64 frames, `rx_xruns` | submit, reap, copy, resubmit | kernel, dispatch thread | buffers shared with the kernel, failing submissions |
| Transmit path: same files, `AudioWrite` in `ipc.rs` | ring, producer mutex, 8 URBs, `tx_xruns` | push, pop/fill, resubmit | handlers, kernel | clients writing at the same time, underruns |
| Client library: `cm108-client/src/client.rs`, `framing.rs` | socket, `last_seq`, page | blocking and polling calls | writer thread | framing on a non-blocking socket, old notifications, end of stream |
| C interface: `cm108-client/src/ffi.rs`, `include/cm108.h` | none of its own | forwards to the library | C programs | what a return value of 0 means |
| GPIO poller: `server.rs` | previous pin state | read a report, compare, up to three broadcasts | chip, registry, programs that poll | a change is several broadcasts; lost and short reports |
| Codec: `cm108-types/src/codec.rs` | none | encode, decode | both ends | length limits, signs, messages cut short |
| Latency histogram: `latency.rs` | 64 buckets, total, min, max | record, to_stats, reset | dispatch thread, GetStats handlers | percentile at the edges, windows |
| Start-up: `device.rs`, `server.rs`, `main.rs`, the systemd unit | handle, drivers and claims of four interfaces, threads, socket file | open, drop, run, restart | kernel drivers, systemd, another daemon, connecting clients | failure and death half way, unplugging, a stale or foreign socket |
| Real-time set-up (`rt.rs`), command line, logging | none | | | |

What makes each part correct: a page read returns one whole frame, not older
than announced; the chip drives what was last requested and PTT never sticks;
messages are delivered once, in order, behind the descriptor, and a client that
stalls holds back no more than its own queue; received frames are in order, once, or counted; transmitted
frames are in order, once and unmixed; library calls keep to message
boundaries and return; a program that polls ends up knowing the pins; what is
decoded is what was encoded; statistics are those of one window; a daemon that
works keeps its socket, and one that died comes back. `PROJECT.json` lists the hazards behind these, line by
line.

## 2. Modules

| Module | Models | Runs |
|---|---|---|
| `AtomicFrame` | abstract: a register of whole frames | through `Seqlock` |
| `Seqlock` | `AudioShmem::write`, `RxShmem::read_frame` | `seqlock_*` |
| `SeqlockProofs` | theorems | |
| `GpioOutput` | `HidGpio`, SetGpio handlers, heartbeat, crash/restart | `gpio_*` |
| `GpioOutputProofs` | theorems | |
| `ClientQueue` | abstract: a bounded queue of messages per client | through `ClientIpc` |
| `ClientIpc` (`MCClientIpc`) | `ClientRegistry`, `handle_client`, writer threads | `ipc` |
| `ClientIpcProofs` | theorems | |
| `IsoRx` | `cm108-rx` thread, URBs, ring | `iso_rx` |
| `IsoRxProofs` | theorems | |
| `IsoTx` | `AudioWrite`, `cm108-tx` thread | `iso_tx` |
| `IsoTxProofs` | theorems | |
| `ClientLib` | library calls, framing, `cm108_poll_event` | `lib_*` |
| `ClientLibProofs` | theorems | |
| `RadioEvents` | GPIO poller, `emit_gpio_events`, subscriptions, the polling program | `radio_events` |
| `RadioEventsProofs` | theorems | |
| `Codec` | `codec.rs`, as operators | through `Wire` |
| `LatencyHistogram` | `latency.rs`, as operators | through `Wire` |
| `Wire` (`MCWire`) | composition: codec, framing, byte stream, dispatch thread's statistics, GetStats | `wire` |
| `Lifecycle` | `Cm108Device::open`, `run` up to the accept loop, `connect`; crashes, unplugging, a second daemon | `lifecycle` |
| `LifecycleProofs` | theorems | |

A definition commented `MUTANT` is a plausible bug. It is used by nothing; put
in the place of the definition that follows it, it must make TLC report the
property that `PROJECT.json` names.

### Seqlock

A frame is its number; `data[w]` is the number of the frame word `w` of the
page belongs to. A store is one action, the moment it becomes visible:
`StoreOdd` (shmem.rs:38), `StoreWord` (the copy, 39-45), `StoreEven` (47); a
load is one action: `LoadSeq1`, `LoadWord`, `LoadSeq2` (client.rs:50, 56, 63).
`Weak` chooses the machine. FALSE is x86-64: everything in program order. TRUE
is aarch64, keeping only what the orderings in the code promise: plain stores
may overtake a Release store that precedes them, and plain loads may be
performed after an Acquire load that follows them. Between two writes the
dispatch thread takes the registry mutex (`notify_audio_ready`), which separates
them on both machines. `Crash` kills the daemon at any point; a client may
still have the page mapped. The counter is unbounded: 2^64 is out of reach in
practice.

### GpioOutput

The threads are one handler per client and the heartbeat, `pc[t]` their place.
`SetPin` is taking the mutex and changing the shadow, `WriteOk`/`WriteFails` the
end of the control transfer, made with the mutex held; a failed one may or may
not have reached the chip. `Bit(pin) = pin % 8` is what `1u8 << pin` does in a
release build. `Crash` loses everything but the chip's latch `hw`; `Restart` is
systemd's `Restart=on-failure` and `HidGpio::new`. `last` and `result` are history
for the properties.

### ClientIpc

One handler and one writer thread per connection, with the program points of
`handle_client`: register (`Accept`), `SendFd`, `SpawnWriter` or `CloneFails`,
the read loop (`HandleMsg`), `HandlerEnds`. Registry operations are atomic: each
holds the registry mutex throughout and, since `try_send` never waits, waits for
nothing inside. The mutex itself is not modelled, so that a broadcaster is not
held up by a stalled client is an assumption on `try_send` and not a result. `try_send` into a
full channel, or one whose writer is gone, drops the message. `hand` is the
message the writer has received and not yet written, `wire` the socket, which
holds one message; `peer` is the client: what it asked, what it has read, and
whether its end is open. A client may stop reading at any time and close at any
time. The flag `AUDIO_OUT` is not modelled: nothing tests it.

`ImplementsQueue` maps this to `ClientQueue`, which has no channels, threads or
sockets: a message is accepted for a set of clients at one instant, a client
receives what was accepted for it, in order, and the connection may end. The
client has read one message fewer than it took from the socket, the first unit
being the descriptor.

### IsoRx, IsoTx

usbfs is external: URBs complete in the order of submission, belong to the
kernel from submit to reap, and `reap_urb` identifies one by its `usercontext`,
as the comment at usbfs.rs:110 says. Whether Linux stores the `usercontext` or
the address of the URB is not decided by this repository (listed as a hazard).
An URB may complete with an error. The receive loop looks at `hdr.status` and at
the length, not at `pkt.status`, and takes a short packet, padded, for a frame
(`Outcomes`); the transmit loop looks at neither status (`BusFails`).
Packets and frames are numbers; silence is 0. The sleep-and-retry
branches of the reap loops change no state and are not actions. `tx_xruns`
saturates at `MaxXruns`, because an idle transmitter counts an underrun every
millisecond.

### ClientLib

`write_msg` and `read_server_msg` handle a message in two system calls, so a
message is two units, prefix and body. The calls: `audio`
(`read_audio_blocking`), `stats` (`get_stats`), `wait`, `poll`, `poll_event`
(`cm108_poll_event`). A read that takes a body for a prefix ends in the state
`misframed`, since what follows depends on bytes the model does not have: an
error, or a blocking call that waits for a body of some hundred bytes.

### RadioEvents

The pins are the set of those that are high. `ReadState`, `ReadShort` and
`ReadFails` are the outcomes of `read_state` when a report is there (a short one
reads as all low, because the length is not looked at, hid_gpio.rs:43);
`Compare` is the match of server.rs:78-82; each element of `todo` is one
`broadcast_radio_event`, under a lock of its own. Channel, writer and socket are
one bounded queue, which `ClientIpc` is proved to implement. `PollEvent` is `cm108_poll_event` with `radio_to_c`; `view` is what
a program knows from the events it got, and `Outlook(c)` what it will know when it
has polled its queue: on each topic, what the last event about it says.
`current[c]` says of which topics `c` was sent the last event. Reports are level reports, so the poller recovers from a
damaged one at the next.

### Codec, LatencyHistogram, Wire

`Codec` encodes and decodes every `ClientMsg` and `ServerMsg` field by field;
a byte is a digit to the base `Base` (256 in the code), which keeps all carries
and sign bits but makes the instance small. `LatencyHistogram` has `record`,
`to_stats` and the percentile with the overflowing shift of the last bucket; the
reference it is compared with (`Percentile`, `Describes` in `Wire`) is defined
over the samples themselves. `Wire` is one direction of a connection, chosen in
`Init`: `Write` appends framed bytes, `Die` a part of a message, the `Read`
actions are `read_msg` and `read_server_msg`. In the server's direction the
dispatch thread records latencies (`Dispatch`) and makes statistics of every
window (`BroadcastStats`, which drops them when there is no room and resets the
histogram all the same), while a handler copies (`CopyLatency`) and answers
(`AnswerGetStats`) at its own pace. `CmSubscribe`, `CmSetGpio` and `CmSetPtt` are
the C functions, whose integers become flags and truth values.

### Lifecycle

`pc[d]` is the next call of the main thread of daemon `d`; `After` lists the calls
in order. `Die` is the end of a process: its claims fall to nobody, its socket
file stays. An error runs `Drop` (which gives interfaces back to the kernel's
drivers) only as long as no thread holds the device (`DeviceShared`). The RX and
TX threads claim their interfaces by themselves, later (`ClaimStream`), and the
daemon runs on if that fails. The service is started again after a failure;
systemd makes `/run/cm108d` before a start and removes it after an end
(`RuntimeDirectory=`). The other daemon is started by hand with the same path, as
CONTEXT.md:323 shows. After an unplugging a handle is "gone" for good. Not
modelled: that the kernel's audio driver takes and gives back the streaming
interfaces together with the control interface.

## 3. Runs

| Run | Shows | Bounds |
|---|---|---|
| `seqlock_tso` | on x86-64: no torn read, no word older than the frame published at the call (on aarch64 the theorem `Freshness` says the same), refinement of `AtomicFrame`, a read ends once writing stops, unless the daemon died in the middle of a write | 2 words, 1 reader, 3 writes |
| `seqlock_aarch64_torn` | **violation**: a torn read on aarch64 | 2 words, 2 writes |
| `gpio_output` | pins are what was last requested; a late report never re-keys; PTT heals after failed writes and crashes | 2 clients, pins 0 and 3 |
| `gpio_pin_alias` | **violation**: pin 8 keys PTT in a release build | pins 0 and 8 |
| `ipc` | descriptor first; accepted messages once, in order and to the end; clean-up; refinement of `ClientQueue`: a stalled client holds back a bounded number of messages | 1 client that may stall or close; channel 2, socket 1; 2 radio events, 2 frames with a Stats broadcast, 2 requests |
| `iso_rx` | packets in order, once, or counted; every one settles | 3 URBs, ring 2, 6 packets |
| `iso_tx` | aired once, in order, unmixed; the loop drops no frame of its own; frames are aired unless their URB failed, in submission or on the bus, or none is left | 2 clients, batches of 1-3 frames, ring 2, 2 URBs |
| `lib_calls` | blocking and polling calls mixed: boundaries are lost only by a poll that gives up after a prefix; no frame older than announced; calls return, unless the boundaries were lost | channel 2, socket 3, 3 frames, 1 event, 1 GetStats |
| `lib_poll_desync` | **violation**: `poll_msg` loses a length prefix | 2 frames |
| `radio_events` | a client is right about a topic whose last event it was sent; edges alternate; the pins become known | 1 client, 4 states of the pins, queue 2, 3 reports of which 1 may be damaged, 1 Stats |
| `wire` | messages survive codec, framing and a dying writer; statistics are those of one window | base 8, frames of 6 samples, lengths up to 31, latencies of 3 bits, percentile 2 of 3, 2 windows of 4 frames |
| `lifecycle` | interfaces are held through live handles only; no takeover of a working daemon but in three named cases; `connect` returns; the service comes back with card and path, unless it lost one of them while it ran | 2 daemons, 1 client, 3 faults |

Why the bounds are enough. A torn read needs two words and two overlapping
writes; readers share nothing they write, so one is as good as several (the
proofs remove these bounds). `MaxWrites` ends the writes, which the daemon does
not: `ReadTerminates` allows for writes that go on for ever and overtake every
try of a reader, and its run decides only that a call ends once they stop.
Likewise `Recovers` is about what follows the last fault. Two handlers and the heartbeat are three threads
at one mutex. Channels, sockets and rings of one or two entries are full in
every possible phase. Clients of `ClientIpc` meet only in the broadcasters, which
wait for none of them, so one connection shows what any of several can do. Three URBs, six
packets and a ring of two let every URB go round twice and the ring overflow.
Batches of three frames overflow a ring of two in the middle of a message. In
`wire` the length limit lies between two and three frames, cuts fall inside the
prefix, at its end and inside a body, and the latencies include zero, the last
bucket and its neighbour. Three faults in `lifecycle` are enough for an
unplugging during start-up, a crash of one daemon and one of the other.

Deadlock checking is off where a bounded run ends because all its messages,
packets or frames have been used up.

### Fairness

* Seqlock: a write that has begun is finished (the thread is at `SCHED_FIFO`
  88) unless the daemon dies, and a client in `read_frame` keeps running. Nobody
  is obliged to begin a write or a call.
* GpioOutput: the heartbeat wakes; a free mutex that is wanted is given to
  *some* thread (`std::sync::Mutex` is not fair, so nothing is assumed of any
  particular one); a transfer ends (timeout 100 ms); and, strongly, a transfer
  tried again and again succeeds at times. Without the last no software could
  unkey the transmitter.
* ClientIpc: the two threads of a connection run; nobody has to broadcast, no
  client has to connect, ask, read or close, and what is said of a reading client
  assumes that it reads.
* IsoRx, IsoTx: the audio threads run; for transmission usbfs completes each
  URB, well or not.
* ClientLib: the writer thread and a client inside a call run; the daemon may die
  at any point and has to produce no message.
* RadioEvents: the GPIO thread runs, and programs go on polling.
* Lifecycle: systemd starts the service again (two seconds after each failure,
  which keeps below its default limit of five starts in ten seconds), a process
  makes its next call
  and accepts, a client in `recvmsg` wakes. Nobody has to start the second
  daemon or to plug the card in; `Recovers` assumes that the card stays in, that
  nobody runs the second daemon and that faults stop.

### Findings

Three runs are expected to be violated; each is a disagreement between the code
and a document, comment, assertion or test of the repository, quoted in
`PROJECT.json`. Two consequences are worth knowing: aarch64 is the platform the
packages are built for, and a poll that hits the gap between the two writes of a
message breaks the connection for good.

Behaviour that modelling brought out and that has no run of its own:

* When an initial URB submission fails, the receive and transmit threads return
  and drop buffers and URBs before the usbfs file whose closing cancels them,
  although submit_urb says "`urb` must remain valid and pinned until reaped"
  (usbfs.rs:102). In `IsoRx` this is the state `thread = "return"` with `queued`
  not empty.
* A daemon whose card is unplugged between its claims and `bind` goes on to
  remove the socket of a daemon that serves a newly plugged card, and binds the
  path itself (server.rs:128); a daemon whose card is unplugged later listens
  for ever without it, and is never restarted, since it does not fail. The same
  holds for a service whose path was taken by a daemon that then ended: nobody can
  connect to it. `Recovers` excepts both (`Stranded`).
* systemd removes `/run/cm108d` whenever the service ends. A daemon started by
  hand with the default path makes the service fail (it holds the card) and so
  loses its own socket file.
* More than 341 frames in one `write_audio` make a message above 65 536 bytes:
  the server closes the connection (ipc.rs:211), and the codec's limit of 65 536
  frames (codec.rs:216) is out of reach. `push_str` casts the length to u16
  (codec.rs:28); no code sends a text that long.
* After a short or lost last report, or when pins are high as the daemon
  starts, nobody learns the state of the pins until one changes.
* After the daemon died `poll_msg` returns `Ok(None)` for ever (framing.rs:16),
  and `read_audio_latest` its last frame: a program that only polls cannot tell.
* The tests of framing.rs use `AudioWrite { frame_count }`, a field `ClientMsg`
  no longer has, and do not compile.
* A client that disconnects leaves PTT as it is (`Disconnect` in `GpioOutput`);
  no document says what should happen.
* A daemon killed inside `AudioShmem::write` leaves every reader of that page
  spinning (client.rs:51); and the retries of `read_frame` have no limit, so that
  nothing but the speed of the reader keeps writes from overtaking it again and
  again. `ReadTerminates` names both.
* The heartbeat blinks with no client connected (server.rs:117-121), where
  CONTEXT.md:47 says that the LED "stays off when no client is connected".
* Replies to Ping and GetStats are dropped when broadcasts have filled the
  channel (ipc.rs:83), where CONTEXT.md:238-239 says to expect a response.
  `get_stats` then waits for the next periodic broadcast.
* A resubmission that fails removes its URB for ever (iso_stream.rs:111, 210),
  where the comment at line 16 says "kept in flight"; `PacketsSettle` and
  `FramesAir` show what still holds.
* The transmit loop never looks at the status of a completed URB or of its packet
  (iso_stream.rs:198-209): a frame that the bus did not take, or that was in an
  URB when the device went, is neither sent again nor counted in `tx_xruns`.
* After a poll that gave up behind a prefix, a blocking call takes body bytes for
  a length; when that is not above 65 536 it blocks in `read_exact` until so many
  bytes have come (framing.rs:24-29), although its answer has arrived.
  `CallReturns` excepts it.
* CONTEXT.md documents other messages than the codec sends. Stats has the
  latencies `p50_us, p99_us, max_us` (CONTEXT.md:246) where codec.rs:103-119 sends
  minimum, maximum and 99th percentile: a program written from the document takes
  the minimum for the median and the maximum for the percentile. AudioWrite is
  "reserved, TX path not wired" with a frame count (line 237), where the count
  is followed by the frames, which are transmitted. RadioEvent has a state byte
  always (line 245), where only GpioChange has one. `Wire` follows the codec.
* GpioChange is sent for every change of the pins (server.rs:177), also one that
  a PTT or carrier event has told already, where cm108.h:31 says "any other GPIO
  state change".
* `read_audio_blocking` returns the frame in the page, which may be newer than
  "the corresponding frame" of its comment; `FrameNotOlder` is what holds.
* `cm108_poll_event` returns 0 for a message of another kind although an event
  may be behind it (ffi.rs:143, cm108.h:115), and for Stats, which the comment at
  ffi.rs:129 lists as an event.

## 4. Proofs

Each `...Proofs` module extends its component and proves, for every value of the
constants that the named `ASSUME`s admit (capacities and numbers of URBs are at
least one; bounds are any natural numbers; request and call kinds are those of
the code), what the run checks on one instance. The pattern is the same
everywhere: one inductive invariant `Inv`, a conjunction of named parts; a lemma
for each action, or for a few actions that touch the same state, that it
preserves `Inv`; the properties follow from `Inv`. Every `Inv` was checked with
TLC, as an invariant of the component's run, before it was proved.

`SeqlockProofs`, for any words, any readers and any number of writes:

* `TypeCorrect`.
* `Freshness`: `Spec => []FreshRead`, on both machines. `FreshRead` says
  nothing of calls in progress, so it is not inductive. `Inv` adds: the counter
  is twice the published frame, plus one during the copy (`CounterInv`); a word
  is of the current frame once its store is visible and of the previous one until
  then (`WordInv`); a reader's copied words are at least as new as the counter it
  saw (`ReaderFresh`).
* `NoTearing`: `Spec => []NoTornRead`, assuming `~Weak`. `TsoInv` adds
  that no word is stored before the odd counter is visible (`OrderInv`), and that
  what a reader has copied is exactly the frame of `s1` as long as the counter has
  not moved, and stays so once the second load confirmed it (`TornFree`).
* `Refinement`: `Spec => ImplementsAtomicFrame`, assuming `~Weak`: the read takes
  effect at its first load of the counter, the write at its even store.

The assumption `~Weak` is needed: `seqlock_aarch64_torn` is the counterexample.

`GpioOutputProofs`, for any clients and any pins in 0..255:

* `TypeCorrect`, `NoLostUpdate` (`LastRequestWins`), `NoLateKeying`
  (`PttRisesOnlyByReport`), from one invariant: the mutex has at most one
  holder and its report equals the shadow *now* (`MutexInv`), the shadow is what
  the requests add up to (`ShadowInv`), and the chip agrees with it after a
  successful report (`SettledInv`).

`ClientIpcProofs`, for any clients, any capacities and any requests:

* `TypeCorrect`, `DescriptorFirst` (`FdFirst`), `Delivery`
  (`ExactlyOnceInOrder`). Neither property is inductive: broadcasts reach the
  channel of a client before its descriptor is sent and before it has a writer.
  `ConnInv` ties the socket to the program points of the two threads: nothing is
  written before `send_fd`, there is no writer until it has returned, a new
  writer has nothing in its hands and exactly the descriptor on the wire.
  `FlowInv` is the equation *accepted = written, in hand, in the channel*; the
  lemma `TrySendInv` says that a broadcast preserves it for every client at once.
* `QueueRefinement`: `Spec => ImplementsQueue`. A `try_send`, to one client or to
  all subscribers, is the `Send` to those whose channels have room; a read of the
  client is a `Receive`, except that of the descriptor; the end of the writer is
  the `End`; the writer's other steps move a message inside the queue. The bound
  on what is on its way, `ChanCap + 1 + SockCap`, needs `RoomInv` (how full each
  of the three places is) and is the smallest that holds: TLC finds a
  counterexample for one less. `ExactlyOnceInOrder` is silent about a writer that
  has ended, while a client may go on reading what is on the socket; `FinalInv`
  carries the agreement of the wire with what was accepted past that point. (The
  run `ipc` checks the refinement on its instance, and TLC confirms the added
  invariants there.)

`IsoTxProofs`, for any clients, URBs, ring and messages:

* `TypeCorrect`, `AiredInOrder` (`AiredOnceInOrder`), `BatchesStayTogether`
  (`BatchesContiguous`), `NoFrameDropped` (`FramesAccounted`), and
  `NoWriteUnderTheKernel`: the thread writes into no buffer that the kernel has.
  `UrbInv`: a URB is in one place at a time, and those queued are in the order
  of their frames, silence anywhere between. `OrderInv`: aired, queued, in
  hand, in the ring is one increasing row, whatever is lost from it by a failed
  submission or completion. `MutexInv`: one handler at most
  pushes, and what was accepted of its message is the end of `accepted`.

`IsoRxProofs`, for any URBs, ring and packets:

* `TypeCorrect`, `ReceivedInOrder` (`FramesInOrder`), `NoFrameUncounted`
  (`NothingUncounted`), and `NoWriteUnderTheThread`: the kernel writes into no
  buffer between its completion and its resubmission. `UrbInv` as above;
  `OrderInv`: popped, in the ring, being copied, completed is one increasing row
  of packets received. `NothingUncounted` counts, so its proof rests on the
  library's facts about the cardinality of finite sets.

`ClientLibProofs`, for any calls, capacities and numbers of frames, events and
requests:

* `TypeCorrect`, `FramingHolds` (`MisframedOnlyAfterCut`),
  `AnnouncedFrameIsThere` (`FrameNotOlder`), and `WholeMessages`: while no call
  was cut off, the body that is read is that of the prefix before it (so
  `ReadBody` may take the message from `cur`). `FramingInv`: as long as `cut` is
  "no", prefixes and bodies alternate on the socket, the first unit is what the
  client reads next and the last one what the writer wrote last, and a body, on
  the socket or still to be written, is of the same message as its prefix.
  `AnnouncedInv`: nothing announces a frame that is not in the page yet,
  wherever the announcement is: in the channel, with the writer, on the socket or
  in the client's hands.

`LifecycleProofs`, for any number of failed calls, crashes and unpluggings:

* `TypeCorrect` (with the claim that only a daemon with a handle to this card
  holds an interface), `CardHasOneOwner`, `PathIsKept` (`NoTakeover`).
  `HandleInv`: who has a handle, and none is to a card that is out. `OwnerInv`: a
  daemon past its claims with a handle to this card is bound to the control and
  the HID interface. Two daemons cannot both be, so the one that reaches
  `remove_file` while another serves has lost its card: the exception that
  `NoTakeover` names.

`RadioEventsProofs`, for any clients, states of the pins, capacities and numbers
of reports, faults and Stats:

* `TypeCorrect`, `ClientsWillBeRight` (`ViewsAgree`), `EdgesStayInStep`
  (`EdgesAlternate`). `ViewsAgree` speaks of the moments when no broadcast is
  outstanding, so it is not inductive. `TodoInv`: what the GPIO thread has still
  to broadcast says what it read, once on each topic. `KnowInv`: a client that was
  sent the last event on a topic will be right about it, unless the next event
  on it is still to be broadcast, and then it is wrong about that pin, which is
  what makes the event an edge. What a client will know after a whole queue is
  written with the last message on the topic (`Ends`) and not as a fold, so that
  a message more or less in the queue is one lemma (`EndsAppend`, `EndsPoll`) and
  needs no induction.

Lemmas on sequences used as queues (`Append`, `Tail`, `\o`, the set of a queue's
elements, and `Ordered(s, R)`, that any two elements of `s` are related by `R` in
the order of their positions) are at the head of the modules that need them.

Only model-checked:

* all liveness properties (`ReadTerminates`, `PttHeals`, `Cleanup`,
  `AcceptedIsRead`, `PacketsSettle`, `FramesAir`,
  `CallReturns`, `PollReturns`, `PinsBecomeKnown`, `ConnectReturns`,
  `Recovers`): fairness is beyond the proof system;
* `Wire`, with `Codec` and `LatencyHistogram`: `Intact` is that decoding undoes
  encoding, and both are folds over the bytes and fields of a message;
  `StatsOfOneWindow` compares the percentile, a sum over the buckets, with a sum
  over the samples. `TypeOK` needs both too: that a flattened encoding consists
  of bytes, and that a bucket reaches the threshold of the percentile, since the
  buckets add up to the total. What a fold computes for every input is an
  induction over data.

## 5. Not modelled, and the plan

Not modelled: system-call details (memfd, mmap, SCM_RIGHTS, ioctl numbers),
thread priorities and affinity (`rt.rs`), logging, argument parsing, time (any
delay is possible), NULL checks of the C functions, `cm108_write_audio` (which
does nothing), `spawn_gpio_poller` and `from_framed` (called by nobody but tests).

What would extend the project: a model of usbfs that settles which pointer
REAPURB stores, with the kernel's source at hand; and the codec's round trip for
every message, with a prover that has induction over sequences.
