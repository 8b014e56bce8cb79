# FCI4Piperx: models, checks and proofs

`florid` is the host SDK of a dual PiperX arm. The controller streams status
frames over USB-serial; the SDK cuts frames out of the byte stream, publishes
the latest packets, queues the statuses for a control loop, measures the link,
keeps a timeline for recordings, and sends commands and acknowledged requests
back. Programs create arms, grippers and active controls that share one
connection. This directory holds TLA+ models of that path, TLC configurations
that check them on small instances, and TLAPS proofs of theorems for every value
of the constants.

Paths below are relative to the repository; `rpl` is
`src/protocol/3rdparty/rpl/include/RPL`, `astrial` is
`src/3rdparty/astrial/src/astrial`.

## The system

```
 device --serial--> Serial (asio thread) --chunk--> ArmImpl::s_feedBytes
                                                     | USBTransport::receive
                                                     |  acks -> AckManager <---- request() threads
                                                     |  Parser -> BipBuffer -> Deserializer pool
                                                     | trigger queue ----> OpenCvRecorder worker
                                                     | AngleTimeline <---- OpenCvRecorder worker
                                                     | LatencyEstimator <---- stateAge, receiveHz, ...
                                                     | status queue + semaphore ----> control loop
 device <--serial-- Serial::write <-- AstrialUSBTransport::send (mutex) <-- control loop, request()

 program --> Arm, Gripper, ActiveControl --share--> ArmImpl (the last to let go destroys it)
```

| component | state | operations | run by |
|---|---|---|---|
| BipBuffer `rpl/Containers/BipBuffer.hpp` | memory, region A, region B | write, zero-copy commit, discard, peek, read | I/O thread |
| Parser `rpl/Parser.hpp` | the buffer, loop locals | push_data, parse loop | I/O thread |
| Deserializer `rpl/Deserializer.hpp` | packet pool, a version per packet | write_segmented / get | I/O thread / any thread |
| SeqlockBuf `src/include/florid/detail/Seqlock.hpp` | value, version | write / read | included by tests only |
| AckManager, USBTransport `rpl/Utils/AckManager.hpp`, `rpl/USBTransport.hpp` | next id, 256 slots | allocate, wait_ack / resolve | any thread / I/O thread |
| ArmImpl `src/src/ArmImpl.cpp`, `src/include/florid/detail/ArmImpl.hpp` | last seen status and trigger, two SPSC queues, semaphore, two flags | s_feedBytes / s_controlLoop / stop, readOnce | I/O, control and user threads |
| AngleTimeline `src/include/florid/recording/Timeline.hpp` | samples under a mutex | push / interpolate | I/O thread / recorder |
| LatencyEstimator `src/src/LatencyEstimator.cpp` | ring of intervals, last arrival, smoothed RTT | markReceived / receiveHz, jitter, ages | I/O thread / any thread |
| OpenCvRecorder `src/src/OpenCvRecorder.cpp` | frame and record queues, pending triggers, two threads | start, stop, readOnce, capture, worker | user, capture and worker threads |
| Serial `astrial/Serial.cpp` | port, reconnect state, write queue and its count | write, on_data, close, handlers | caller / I/O thread |
| Arm, Gripper, ActiveControl `src/src/Arm.cpp` and others | shared ArmImpl, one static Gripper, mode requests | create, gripper, enable, drag, disable, control, read/write once | the program's threads |
| Protocol `src/protocol/include/fci_protocol` | none: packets, numbers, sizes | | session, parser, program |
| examples, bindings `src/examples`, `src/pyflorid4piperx` | a flag of the signal, locals | main / calls | one thread each, SIGINT |

What is hard here: an SPSC pipeline where data and wake-ups travel separately
(queue and semaphore), flags that a stop and a start both write, readers without
locks, a ring buffer with two regions, request ids that are reused while late
answers are under way, a port that goes away between two steps of a write,
recorder threads that pair two streams while a stop joins them, and a connection
that says goodbye in whichever thread lets go last. `PROJECT.json` lists the
hazards one by one, with the line and the properties aimed at each.

What makes each component correct:

* BipBuffer: it is a bounded FIFO; its regions never overlap.
* Parser: the frames delivered are those of the stream, wherever it was cut;
  there is always room for the next chunk; parsing ends.
* Deserializer: a get returns what the slot held at one moment of the call, so no
  mix that the slot did not hold itself and nothing older than the call; calls return.
* AckManager: an answer belongs to the request; the slots of requests come back;
  calls return.
* ArmImpl: no status without a wake-up, and few wake-ups without a status; taken once,
  in order; stop is never lost.
* AngleTimeline: sorted; interpolation is what it says.
* LatencyEstimator: rate and jitter are those of the latest intervals; what is
  reported was measured, and no unsigned difference wraps unless the clocks differ.
* Serial: no queued write is left without a start, the caller gets an answer,
  after a reconnect the port is read again, and close is for good.
* OpenCvRecorder: each record pairs one frame with one trigger, no trigger is
  used twice, what is dropped is counted, stop ends both threads.
* ArmImpl's life: a handle means a living connection; the device hears
  Disconnected last and ends in the mode promised.
* Programs: a signal ends them, with the goodbyes said.

## Modules

| module | models | state and steps |
|---|---|---|
| `BipBuffer` | the container's methods as operators and actions | `buffer`, `region_a_start`, `region_a_size`, `region_b_size` are the members |
| `BipBufferCalls` | any client of one buffer | one action per method; `last` is the call's answer |
| `ByteFifo` | abstract: a byte FIFO with the answers a client may get | implemented by `BipBufferCalls` with `fifo <- Contents` |
| `StreamParser` | `push_data` and `try_parse_packets` over `BipBuffer` | `PushData`, then `Scan` and `Frame` per turn of the loop; `delivered` is what reached the pool, `kept` what was taken of the stream (a history) |
| `SeqlockSlot` | one pool slot: `write_segmented` and `get` | a step per version access and per cell copied; a write copies what the frame declares, shorter or longer than the packet, and a long frame of the packet in front runs over into the slot; `log`, `since` and `spoiled` are history |
| `PacketRegister` | abstract: a register over which frames of any length are laid, and which callers read at one moment of their call | implemented by `SeqlockSlot` with `history <- log`, `packets <- Complete`, `from <- since` |
| `SeqlockBuf` | `SeqlockBuf::write` and `read` | likewise, with the do-while and its `continue` |
| `AckSession` | the constructor's `s_fetchDeviceInfo`, `request` in each client thread, `receive` in the I/O thread | `next_id_++` is a read and a store; waiting, time-out and return are steps; a chunk may end inside any frame |
| `AngleTimeline` | the timeline; each method holds its mutex, so each is a step | `m_samples` |
| `LatencyEstimator` | the estimator: its ring, its smoothing, its unsigned differences | one operator per method over the members |
| `Telemetry` | one status through timeline and estimator, with queries between the steps | `AngleTimeline` and `LatencyEstimator` composed, under a clock |
| `ArmPipeline` | the I/O thread, one control loop, a user thread | a step per access to shared state; instantiates `AngleTimeline` |
| `StatusStream` | abstract: a FIFO of statuses, the wake-ups of the one loop that waits for them, and who may end it | implemented by `ArmPipeline`: queue and semaphore become the statuses waiting and the wake-ups to spare, seven stages of the loop four |
| `Recorder` | user, capture and worker threads of the recorder | a step per critical section, read of the clock, and join |
| `Serial` | the asio thread's handlers, one caller of `write`, the device | `ready` is the context's queue of handlers; pop and count are steps of their own |
| `Protocol` | the packets of the arm session and of the firmware upgrade | tables of number, size and category; what sessions need of them as ASSUMEs |
| `ArmLifecycle` | construction, sharing, requests, commands and destruction of ArmImpl | `life` is how far constructor or destructor got, `owners` who shares it, `wire` what the device has not taken |
| `Programs` | the three examples and a Python client over `ArmLifecycle` | `pc` of the one thread; SIGINT at any time |
| `MCBipBuffer`, `MCStreamParser`, `MCAckSession` | definitions the configurations need | |
| `ReceiveBuffer_proofs` | the theorems about `BipBuffer`, `BipBufferCalls` with `ByteFifo`, and `StreamParser` | |
| `Telemetry_proofs` | the theorems about `AngleTimeline`, `LatencyEstimator` and `Telemetry` | |
| `Programs_proofs` | the theorems about `ArmLifecycle` and `Programs` | |
| other `*_proofs` | the theorems about the module of that name | |

Abstractions, all deliberate:

* Data are what the properties distinguish: a status is its sequence number, a
  packet is cells that remember the write they come from, a frame has a
  one-cell length and command, a request its number.
* Memory is sequentially consistent. What weaker orders could do (the fences of
  the deserializer, the plain fields of `AckManager`, which two threads share) is not
  modelled; the deserializer's is listed under hazards, with no property.
* What a frame writes behind the whole pool is not modelled, only what it writes
  into the slot behind its own.
* `AckSession` cuts a frame at most once: a middle piece would act as another rest of
  it. The arm sends no ack for the request of `s_fetchDeviceInfo`, as the comment
  at `ArmImpl.cpp:150` says.
* `Serial` leaves out `asio::error::interrupted` (`Serial.cpp:184`), after which the
  reader simply reads again, and `ArmPipeline` the greatest count of the semaphore.
* `ArmLifecycle` lets a construction that follows a failed one begin with any
  pool the failed one left, which allows more than the code does.
* Vendored code is external: the moodycamel queue is a sequence, asio a queue of
  handlers run in order, whose pending operations are posted as aborted when the
  port is closed, and at once as failed when started on a closed port.
* `AckSession` sees chunks as frames, and `ArmPipeline` sees a chunk by what it
  leaves in the pool: how bytes become frames is `StreamParser`, how a pool slot
  is read is `SeqlockSlot`. The modules meet in these interfaces: `delivered` in
  one is the pool write in the other. `ArmLifecycle` has a port that delivers
  what is sent, in order, or blocks: `Serial` has the port that fails. A request
  there is the packet it sends: ArmImpl drops the answers, and what `enable`,
  `drag` and `disable` throw at a time-out changes no state.
* Time is a counter. The rate of `LatencyEstimator` is kept as a fraction and its
  jitter as n^2 times the variance; floating point is not modelled.
* `Protocol`'s sizes are those of packed structs. Its assumptions say that no two
  packets of a session share a number, that no upgrade packet is longer than 255
  bytes, and that two of the arm session's longest frames (398 bytes) fit the
  chunk for which the 2048-byte buffer always has room (825 bytes). TLC evaluates
  them in `MCPrograms`.
* One control loop at a time is assumed: the code does not prevent a second
  (`s_gripperLoop` beside `s_controlLoop`), and the queue does not allow two.
* The recorder is started and stopped by one thread. The Python client of
  `Programs` has one thread too.

## Runs

| run | bounds | shows |
|---|---|---|
| `MCBipBuffer` | 4 bytes, 2 values, all lengths | `CallsTypeOK`; `IsFifo`: refinement of `ByteFifo` |
| `MCStreamParser` | 16-byte buffer, frames to 4, chunks to 14, wires with frames, false starts, unknown commands and over-long lengths | `ParserInv`, `RoomForChunk`, `CutsDoNotMatter`, `ParsingEnds` |
| `MCSeqlockSlot` | 2 readers, 2 cells, 2 writes of 1 or 3 cells, 1 cell run over | `NoTornRead`; `SlotIsRegister`: refinement of `PacketRegister`; `GetReturns` |
| `MCSeqlockBuf` | 2 cells, 3 writes | **violated**: `NoTornRead` |
| `MCAckSession` | 2 clients, 5 allocations over 3 ids, chunks of 2 frames, 1 cut, 1 telemetry frame, late and lost answers | `AnswerIsMine`, `HeadAckIsSeen`, `NoSlotLeaks` |
| `MCAckSessionCoalesced` | 1 client, 5 allocations over 3 ids, chunks of 2 frames | **violated**: `ReceivedAckIsSeen` |
| `MCTelemetry` | 5 statuses after time zero, a timeline of 2, a window of 3, times to 3, clock words modulo 6, one foreign echo | `InterpolateCorrect`, `RateAndJitterAreRecent`, `ReportsAreMeasured` |
| `MCArmPipeline` | 2 statuses and triggers, 2 loops, 1 stop, 1 restart, 1 readOnce, a timeline of 1 | `PipelineInv`, `QueuedOnce`, `TimelineFollows`, `TriggersQueued`, `AtMostOneMoreCallback`; `PipelineIsStream`: refinement of `StatusStream`; `StopEndsLoop`, `QueuedIsTaken` |
| `MCArmPipelineTriggersTogether` | 2 triggers in a chunk | **violated**: `TriggersNotCollapsed` |
| `MCRecorder` | queues of 2, 3 triggers, 3 frames, 2 sessions, times 0 and 1 | `RecorderInv`, `TriggersUsedOnce`, `FramesInOrder`, `RecordsAccounted`, `StopReturns` |
| `MCSerial` | 3 writes, 2 unplugs, 1 half-open, 1 close | `NoStrandedWrite`, `RequestStaysQueued`, `ReaderAlive`, `WriteReturns`, `ReconnectsUnlessHalfOpen`, `CloseIsFinal` |
| `MCPrograms` | 2 arms, 4 programs, 2 packets before send blocks, 1 status waiting, 2 polls, 5 calls from Python | `LifecycleInv`, `GoodbyeIsLast`, `ModeAtTheEnd`, `JointCommandsInPc`, `SignalEndsProgram` |

Why the bounds suffice: four bytes are enough for both regions to be non-empty,
touch, fill and empty in every order; 16 bytes is the code's four maximal frames
and lets a frame's header and payload straddle the wrap; with two cells a frame of
one is shorter than the packet, and one of three covers it and runs on behind it;
five allocations over three ids, the first of them the constructor's, come round to
the constructor's slot with the fourth and to a client's own with the fifth, with
the free mark 0xFF among them, and two clients race for them. One status is enough
there: an answer that belongs to another request shows when the device has not
answered this one. The clients run the same code, so `MCAckSession` counts states
that differ by their names once; it checks invariants only;
a window of three intervals is left and refilled by five
statuses, and a word of six wraps within the clock's range; two loops and one
stop put stop before, in and after each; queues of two overflow with three
frames, and two sessions let the second meet what the first left; three writes
let one be queued while one is written and one has been given up; two unplugs let
the second meet what the first left; two arms and five calls let the second arm
get the first one's gripper and outlive it. The deadlock check is off where the
environment may stop (the wire is used up, all requests were issued, the device
is gone, the program is done).

Four properties are in no run of their own. `AngleTimeline`'s `SortedAndBounded` is
proved, and `InterpolateCorrect` and `TimelineFollows` rest on it. `ReadIsFresh` is
proved and rests on what `SlotIsRegister` does; `TakenInOrder` is a part of `PipelineInv`.
`StreamParser`'s `TurnsShorten` is proved, and is why `ParsingEnds` holds.

Each property has a mutant in `PROJECT.json`: a plausible fault of the code
(an operator marked *faulty* next to the right one) under which the same run
reports that property violated.

### What the violated runs show

* **SeqlockBuf tears** (`Seqlock.hpp:53`). `continue` in a do-while jumps to the
  test. A round starts on an even version, copies while a write begins, and loads
  an odd `v2`; the next round loads the same odd version into `v1`, continues,
  finds `v1 == v2` and returns the torn copy. Only tests include the class.
* **A coalesced ack is missed** (`USBTransport.hpp:54`). `receive` compares the
  command at the start of the chunk only. An ack behind a status in one read
  resolves nothing and the request times out. So does an ack that begins its chunk
  but is cut before its status; `HeadAckIsSeen` is for those that hold it.
* **Triggers in one chunk collapse** (`ArmImpl.cpp:109`): the pool keeps the
  last one and one event is queued. `test_recording.cpp:86` expects two.

Met while modelling, without a run of their own:

* `write_segmented` copies as many bytes as the frame declares, and the parser bounds
  that number by its buffer only (`rpl/Parser.hpp:632`). After a known frame shorter
  than its packet the slot holds the front of one packet and the rest of another,
  under an even version, and every reader gets this mix, where `Deserializer.hpp:84`
  says that readers never get inconsistent data. `NoTornRead` and `SlotIsRegister`
  say what remains true: a reader never makes a mix the slot did not hold.
* A frame longer than its packet runs over into the slot behind, whose version does
  not move (`Deserializer.hpp:146-152`): a get under way there can return a mix.
  `spoiled` marks those gets.
* `s_fetchDeviceInfo` allocates an id and neither waits for it nor gives it back
  (`ArmImpl.cpp:152`). After each construction one slot stays pending until the ids
  have come round to it; `NoSlotLeaks` carries this exception.
* The flag that says a read is under way is reset twice when a read fails
  (`Serial.cpp:122` and `:197`). Either alone would do; without both, the guard of
  `start_read_loop` leaves the reopened port unread, as the mutant of `ReaderAlive`
  shows.
* The session's ack is `USBAck` with command 0x0000 (`rpl/Packets/USBAck.hpp`),
  the protocol's is 0x6FF0 (`constants.hpp:22`), and `test_transport_pipeline.cpp:65`
  calls 0x6FF0 USBAck. A device that sends what the protocol documents is never heard.
* `advance_write_index` accepts any length on an empty buffer (`BipBuffer.hpp:147`)
  where its comment promises false (`:124`). No caller in the SDK does that;
  `RegionsSafe` states the assumption.
* A write that passed `is_open` before an unplug was handled is started on the
  closed port. If the port is reopened before its error is handled, the error is
  taken for a second unplug: the new port is closed and `on_disconnect` called
  again, where the comment at `Serial.cpp:110` wants it called once.
* If the port opens but an option cannot be set (the device leaves in between),
  the port stays open; asio refuses to open an open port, so every later try
  fails and the reconnection never succeeds (`Serial.cpp:152`).
  `ReconnectsUnlessHalfOpen` carries this exception.
* A program that waits for statuses looks at the signal's flag only with a status
  in hand, so an arm that falls silent keeps the echo and sine examples running.
  `SignalEndsProgram` carries this exception.
* The Gripper is static (`Arm.cpp:40`): a second arm's `gripper()` is the first one's.
* `test_transport_pipeline.cpp:132` expects a period of 4000 µs; `ArmImpl.hpp:177`
  fixes 10000.

## Fairness

* `StreamParser`: the parse loop runs inside `push_data`; weak fairness of
  `Scan` and `Frame`. Nothing makes the device send.
* `SeqlockSlot`: weak fairness of a write that has begun and of each reader.
  `GetReturns` is for a bounded number of writes: a writer that never pauses can
  starve a reader.
* `AckSession` states no fairness and no liveness: while a client waits in
  `request` its deadline, fixed before the loop, may strike at any step, so that it
  returns is plain from the action `TimeUp`.
* `ArmPipeline`: the I/O, control and stopping threads run; callbacks return.
  Starting, stopping and sending are not fair.
* `Recorder`: the capture and worker threads run, joins return when their thread
  has ended, the camera's read returns. Starting, triggering and reading are not fair.
* `Serial`: the asio thread runs what is posted, the timer expires, the caller
  runs, and the operating system ends every operation it was given. The last is
  an assumption about the device: `write` has no timeout as `send` calls it, and
  a device that stops reading blocks the caller for good. A close that has begun
  goes on. Plugging in, and closing, are not fair.
* `Programs`: the program and the library's constructors and destructors run, a
  device takes what was sent to it and streams statuses until it falls silent,
  which it may at any time. Signals are not fair.

## Proofs

All constants arbitrary within the named assumptions of the modules.

* `ReceiveBuffer_proofs`. `RegionsSafe`: `CallsSpec => []CallsTypeOK`; the inductive
  invariant is `BipTypeOK /\ RegionsOK`: A inside the memory, B before A, B only
  behind a non-empty A, and an empty buffer back at zero. One lemma per method; the
  parser uses them too. `BufferIsFifo`: `CallsSpec => IsFifo`, the refinement of
  `ByteFifo` under `fifo <- Contents`, one step per method: contents are A followed
  by B, so a write behind A with B open, a discard that ends A and makes B the new A,
  and a commit across the wrap each have to come out as an append or a tail. Both
  assume wrong commits no longer than the memory.
  For the parser `ParserInvariant`, then `ResidueIsShort` and `AlwaysRoom`. Room
  alone is not inductive: one must know why B exists. The strengthening is
  `WrappedLate`, that A's end and B together exceed the capacity while B is
  non-empty: B was opened by data that did not fit behind A. With a residue shorter
  than a frame and a buffer of four frames, a chunk of half of the rest fits in front
  of or behind the residue. This holds whatever bytes arrive, also after refused
  chunks. For the arm session (frames to 398 bytes, a 2048-byte buffer) that is 825
  bytes, while one read of the port may bring 4096
  (`src/3rdparty/astrial/CMakeLists.txt:23`).
  `FramesArriveWhole` is `CutsDoNotMatter`: between pushes the frames delivered are
  those `FramesFrom` finds in `kept`, the chunks taken so far joined into one stream.
  Its invariant is `StreamInv`: the buffer holds the end of `kept` from the oldest
  unread cell on; what was delivered is what an uncut reader finds before that cell,
  however the stream goes on (`Ahead`: the continuation is quantified, so a push of
  more changes nothing); and at rest nothing more is to be found behind it. Each turn
  of the loop then has to agree with one case of `FramesFrom`, through the two spans
  of a wrapped buffer. That the recursive function exists at all, at each place of
  every stream, is proved first, over the set of lengths for which it is known.
  `ParsingProgresses` is the safe half of `ParsingEnds`: each turn of the loop but the
  last lowers `Remaining`. It rests on region A never being empty while B holds bytes:
  else the loop would drop nothing, for ever.
* `SeqlockSlot_proofs`: `SlotInvariant`, then `NoTornReads` and `ReadsAreFresh`,
  for any number of readers and cells and frames of any length. `PoolInv` says what
  the slot holds: between writes the newest entry of `log`, within a write the same
  with the frame's first cells laid over it. `ReaderInv` says that what a reader has
  copied is what the slot holds, as long as the version is the one it loaded and even
  and nothing ran over the slot; and that entries of `log` only get newer, cell by cell.
  `SlotImplementsRegister` is the refinement of `PacketRegister`: the end of a write is
  the delivery, a cell run over is one that no packet counts for, the second load of
  the version that agrees is the answer, and all else is a stutter. So a get may be
  thought of as happening at one moment between its call and its return, though writer
  and readers interleave cell by cell.
* `ArmPipeline_proofs`: `PipelineInvariant`, then `NoLostWakeUp`,
  `SemaphoreBounded`, `StatusesInOrder`, `StopIsPrompt`. The invariant counts a
  permit wherever it is (on the semaphore, about to be released, just acquired)
  and bounds the sum from both sides by the queued statuses, the stops and the
  reads; for stop it says what a stopped loop may still do.
  Two further invariants: `StatusInv`, from which `StatusesQueuedOnce` (for a device
  that does not restart its numbers) and `TimelineIsCurrent`; and `TriggerInv`, from
  which `TriggersReachQueue`: the version noticed is never ahead of the pool's, and
  the pool's trigger is the last one queued unless its version is still to be noticed.
  `PipelineImplementsStream` is the refinement of `StatusStream`. The wake-ups to
  spare are the permits, wherever they are, less the statuses queued; so the enqueue is
  the publishing and the release a stutter, and a turn of the loop that finds nothing
  uses one up, which only `stop` and `readOnce` add. `Asked` is what the two flags mean:
  the first store of `stop` may be heard, or wiped out by a loop that is starting
  (`ClearStop`); after the second the loop begins no turn. Without a callback or a
  `stop` that asked, no loop ends.
* `Telemetry_proofs`. `TimelineInvariant`, `TimelineSorted`, and
  `InterpolationIsCorrect`: the search by position equals the definition on the
  set of samples; strict order is what makes the neighbours by position the
  neighbours in time. For the estimator `EstimatorInvariant`, for every window,
  smoothing and word: the last arrival is not after the clock nor, unless overtaken,
  after a query under way (no difference of own stamps wraps); interval k stays at
  place (k - 1) % Window of the ring until Window more have come (`RingInv`); the jitter
  is the spread of the ring (`JitterInv`); and the latency lies between the
  measured extremes. `ReportsHold` follows. `RateAndJitterHold` adds the arithmetic:
  the ring's sums are those of the last intervals, the intervals telescope to the time
  they span, and n times the sum of squares less the square of the sum is the sum of
  the squared differences of all pairs, as the property states the spread. Sums over
  finite sets and their laws (one element more, a renaming of the elements, equal
  summands) are lemmas of the module.
* `AckSession_proofs`: `AckInvariant`, then `SlotsComeBack` and `HeadAcksAreSeen`,
  for any number of clients, ids and requests, also when two clients race in
  `allocate` and when payload is read as an ack. `AckInv` says that a taken and
  unresolved slot has an owner still in `request`, or is the one `s_fetchDeviceInfo`
  took; that a request and its ack carry the id of the client that waits; and that a
  client whose slot nobody else took still holds it, resolved if its ack has come at
  the head of a chunk that held its status. Frames may be cut anywhere. `SlotsComeBack`
  also needs `InfoReturned`: once the ids have come round without a race, the
  constructor's slot has an owner again or is free.
  `ReceivedAckIsSeen`, without "at the head", is what `MCAckSessionCoalesced` refutes.
  `AnswersAreMine` needs three more: `Verdicts`, that a request is answered once and
  an ack on its way is its answer; `RoundInv`, that as long as no two clients raced
  in `allocate` request n carries the id n % IdCount; and `Answers`, that what stands
  in a slot is the answer to some request with the slot's id.
* `Recorder_proofs`: `RecorderInvariant` and `DroppedAreCounted`, for any capacity
  and number of sessions: the threads come and go together, a stop that has
  joined them leaves nothing running, and every record made was read, waits, or
  was counted as dropped. `NoTriggerUsedTwice` strengthens `TriggersUsedOnce` by
  where a trigger waits: those pending with the worker, then those with the arm,
  are in rising order, have arrived and are unused. `FramesStayInOrder` strengthens
  `FramesInOrder` by the whole line a frame passes: the records, the worker's hands,
  the queue and the capture thread's hands, in this order, are of this session and
  rise; taking, dropping and pairing only thin the line out.
* `Serial_proofs`: `SerialInvariant`, then `NoWriteIsStranded`, `RequestsStayQueued`
  and `ReaderStaysAlive`, for any number of writes, unplugs and half-opens. That a
  queued request is taken up is not inductive: it rests on the count, which one side
  changes after the queue and may pass below zero. `SerialInv` adds that a write in
  flight completes once (pending in the port or posted, never both), that the queue
  holds the newest requests without gaps and unanswered but for the one about to be
  popped, that a handler at work on the queue has no write in flight, and that a
  request besides the one the caller is about to count is taken up already. For the
  reader it counts only a read that has failed, not one aborted by an earlier loss;
  and `LoopMarked`, that the mark of a running read loop stands only for a read under
  way or one whose failure is still to be handled, is why the guard of
  `start_read_loop` lets the new read through.
  `ClosedStaysClosed` is the safe half of `CloseIsFinal`: after close no handler runs,
  the port is disconnected, and no request is without its answer.
* `Programs_proofs`, for any number of arms, lengths of wire and queue, and programs:
  `HandlesKeepArmsUp`, `GoodbyesAreLast`, `DevicesAreLeftAsAsked`, `JointsFindPc`.
  `Steps` reduces what the programs do to the steps of one arm; the others rest
  (`OthersRest`). `Core` is the types, the lives (`LifeInv`: the pool's default is
  told from an answer by its id; there is one gripper) and where each program is and
  what it then holds (`ProgramInv`). `TalkInv` says what is on the wire by how far the
  life got and what the device has heard: questions, a greeting before anything else,
  and Disconnected only as the last. `ModesInv` follows modes through the wire:
  `InEffect(w, mode, n, m)` is that the device will be in m when it takes what is at
  n, so the wanted mode is in effect at its end and Pc at each joint command; with
  `MovesInv`, that who may send one asked for Pc last unless the program strayed.

The inductive invariants were checked by TLC on the instances of the runs before
they were proved. Definitions of the models were changed only in form for it:
`Serial`'s `Aborted` and `Telemetry`'s `arrivals` do without `SelectSeq`, of which the
prover knows nothing; the sums of `LatencyEstimator` and `Telemetry` are sums of a
function over a set; `FramesFrom` is a function on the places of the stream; and
`StreamParser` records in `kept` what its pushes took.

Every invariant and every refinement the passing runs check is also proved.
Model-checked only: all liveness (`ParsingEnds`, `GetReturns`,
`StopEndsLoop`, `QueuedIsTaken`, `StopReturns`, `WriteReturns`, `CloseIsFinal`,
`ReconnectsUnlessHalfOpen`, `SignalEndsProgram`), since the prover does not handle
fairness and ENABLED.

## Not modelled

`PROJECT.json` lists every component with the reason. In short:

* pure encodings (Serializer, bit streams, field layouts), pure I/O (port
  listing, clocks), bindings of plain values, vendored and generated code;
* `s_gripperLoop`, which differs from `s_controlLoop` in the packet it sends, and
  what happens when both run at once;
* `Serial::close` under a writer: the context stops before the drain it posts, so
  a write blocked then would stay blocked. The SDK closes in the destructor of the
  transport, when every write has returned;
* `async_write`, `on_disconnect` and `on_reconnect`, which the SDK does not call;
* the order in which ArmImpl's members are destroyed: the port goes away before
  the queues (`ArmImpl.hpp:166`), while its thread may still use them. What the
  build does then is undefined, and the port is the only member in the state;
* methods without a caller in the SDK: `try_ack`, `check_timeouts` and `cancel` of
  AckManager, the zero-copy pair and the monitor of Parser, `manipulate`;
* the boot states of the upgrade protocol, which has no client here.

## Plan

Done, in this order: BipBuffer and ByteFifo; StreamParser; SeqlockSlot and
SeqlockBuf; AckSession; AngleTimeline; ArmPipeline; Serial; Recorder;
LatencyEstimator and Telemetry; Protocol; ArmLifecycle and Programs; proofs of
every invariant the runs check, and of the refinements of `ByteFifo`,
`PacketRegister` and `StatusStream`.

Next, models: `Serial` closed under a writer; `s_gripperLoop` beside `s_controlLoop`;
AckManager's methods without a caller, once they have one.

Next, proofs: the safe halves of the other liveness properties, that the step a
waiting thread needs is not lost; an abstract specification of `request`, a call that
gets its answer or times out, with `AckSession` shown to implement it.
