# VisionArm runtime: a TLA+ verification

This directory models `visionram/`, the runtime of the VisionArm board: capture,
inference, video and logging threads that share zero-copy camera buffers through
bounded queues; the audio and media path with its timeline; the control decision
and the serial link to the gimbal controller; telemetry and the supervisor; the
start and the shutdown of all of them; and the driver of the camera sensor
(`src/imx415SDK/`). TLC checks the models on small instances; TLAPS proves, for
every size, theorems about the capture path, the pipeline, the queues, the logger, the
media path, the serial link, the control decision, telemetry, the supervisor's client, the
accelerators' buffers, the layout of frames, the opening of devices, the order of the
shutdown, the sensor's driver, what is seen and aimed at, and the timeline of the sound.

## 1. Inventory

Paths are relative to `src/visionram/` unless they begin with `src/imx415SDK`.

| Component | State | Operations | Shared with | Hard part |
|---|---|---|---|---|
| `V4L2Camera` (`src/capture/v4l2_camera.cpp`) | per buffer: available / queued / dequeued and the active key; outstanding count, stop flag, wake eventfd | Open, Start, Capture, Requeue, Wake, RequestStop, Stop, Close | capture thread calls it; any thread wakes it | a wakeup or a stop between the test and `poll`; `QBUF` that fails; opening that fails half-way |
| `CaptureBufferBroker` (`src/capture/capture_buffer.cpp`) | a slot per buffer (key, requested and released consumers, leases left), completion ring, counters | Publish, lease Release, TryPopRequeue, WaitPopRequeue, Close | capture thread publishes and pops; every stage releases | who gives the buffer back, exactly once, and only after the last lease |
| `InferencePipeline` (`src/pipeline/inference_pipeline.cpp`) | seven queues, three flags, six threads | Start, the six loops, SignalFailure, SignalVideoFailure, Stop | broker, camera, engines, sinks | shutdown and failure at every point; slot and lease hand-over |
| `BoundedQueue` (`include/pipeline/bounded_queue.h`) | ring, `stopped_`, two condition variables | TryPush, WaitPush, PushLatest, TryPop, WaitPop, Stop | all threads | lost wakeups, wrap round, stop while blocked |
| `AsyncLogger` (`src/observability/logger.cpp`) | two queues, `writing_`, `running_`, counters | Log, Flush, Shutdown, worker | all threads | try-lock, shutdown without the mutex |
| `RuntimeApp` (`src/runtime/runtime_components.cpp`) | the objects of the program and their order | start-up, 100 ms loop, ordered shutdown, verdict, unwinding | everything | the order of the drain; an exception in the middle of the start |
| `UartLink`, `UartProtocol`, `UartTransport` (`src/control/`) | link state, boot ids, reliable transaction, mailbox, timers; parser and sequence tracker; the serial port | Start, Stop, submit, request, the link thread; encode, parse; Open, Close | control sink, supervisor | a lossy line, late answers, reboots, retries, damaged frames, the wrap of sequence numbers |
| `TargetStateMachine`, `UartControlSink` (`src/control/`) | hysteresis counters, last target | Publish, Submit | postprocess thread, link | stale results, a decision that waits in a mailbox |
| `AudioCapture`, `AudioEncode` (`src/audio/`) | sample counter, pending chunks, codec; PCM and encoded queues, workers | Open, Read, Start, Stop, Encode, Flush, worker loops | media clock, muxers | overruns, reframing, drain chain, blocking back-pressure |
| `MediaClock`, `Mp4Recorder`, `NetworkStream` (`src/media/`) | epoch and anchors, pending access unit, send queue | stamp, write, finalize, stop | video and audio workers | timestamps, fragments, failures behind a queue |
| `Telemetry` (`src/observability/telemetry.cpp`), `HostViewer` (`host/telemetry.py`) | mailboxes, worker; counters of the receiver | update, Stop; receive | main loop, network | replacement while sending; what the viewer may conclude |
| `RuntimeSupervisorClient` (`src/runtime/`), `UartHealthProjection` (`include/control/`) | bound session, pending report; health record with a pending issue | loop, flush, shutdown; record, acknowledge | UART thread, supervisor | acknowledgement of a superseded issue |
| `VideoEncoder`, `RknnEngine`, `Preprocessing`, `DmaBuffers` (`src/video/`, `src/perception/`, `src/capture/dmabuf.cpp`) | imported buffers, bound tensors, layouts | Initialize, Process, Run, Encode, Shutdown | stage threads, one at a time | a cache that is wrong after a failed call; three readers of one layout |
| `Postprocessing` (`src/perception/`) | none | letterbox, search for the best cell, the way back | | rounding, ties, boxes in the padding |
| `Imx415Sdk` (`src/imx415SDK/imx415.c`) | mode, controls, runtime power, HDR exposures | probe, remove, power, stream, formats, intervals, controls, ioctls | media pipeline, exposure control | registers that no longer fit the controls after a legal sequence of calls |

How they interact: the capture thread takes a frame from the driver and
publishes it to the broker, which gives one lease per consumer. The inference
lease goes through a latest-frame queue to preprocess, which needs a free NPU
input slot and releases the lease once it has copied the frame; the NPU thread
takes an output slot and gives the input slot back; postprocess publishes the
result, from which the target state machine decides what the serial link sends,
and gives the output slot back. The video lease goes to the encoder, whose
packets go through the encoded queue to the MP4 recorder and the network stream,
where the packets of the audio chain (capture, encode, sink, with a queue between
each) arrive too. The last lease of a frame completes it: the broker queues a
requeue request and wakes the capture thread with an eventfd; the capture thread
gives the buffer to the driver. `RunRuntime` builds all of this, looks at it every
100 ms, sends telemetry, and stops it from producer to consumer. The UART thread
records the health of the link, which the supervisor client reports and the
supervisor acknowledges.

What makes each part correct is the README of `visionram/` (lines 29-38): buffers
are requeued only after every lease; latest-frame queues never block capture;
shutdown drains from producer to consumer; outstanding counts reach zero; and, for
the parts around it, the comments and the checks of the code quoted at each
property.

## 2. Modules

| Module | Models |
|---|---|
| `BufferOwnership` | abstract: each buffer is idle, the driver's or the application's, with readers; it changes hands only when nobody reads it |
| `CaptureBroker` | `V4L2Camera`'s ledger and eventfd, `CaptureBufferBroker`, leases; refines `BufferOwnership` |
| `CaptureBrokerProofs` | theorems about `CaptureBroker` |
| `InferencePipeline` | all pipeline threads, extending `CaptureBroker`; refines `BrokerSpec` |
| `PipelineProofs`, `PipelineFlowProofs`, `PipelineResourceProofs` | theorems about `InferencePipeline`: its use of the broker; waking, stopping, isolation and the order of what it delivers; its leases and slots |
| `LatestQueue` | abstract: a bounded first-in first-out queue where the newest may replace the oldest |
| `BoundedQueue` | the ring, condition variables and callers; refines `LatestQueue` |
| `AsyncLogger` | the logger's producers, worker, Flush and Shutdown |
| `AsyncLoggerProofs` | theorems about `AsyncLogger` |
| `ReliableRequests` | abstract: one request at a time, each ends once, acknowledged only if carried out |
| `UartLink` | the link's I/O thread, its callers, the line and the controller; refines `ReliableRequests` |
| `UartLinkProofs` | theorems about `UartLink` and `UartFraming` |
| `UartFraming` | escaping, the frame parser, the sequence tracker, payload layouts |
| `TargetControl` | hysteresis, control sink, the link's mailbox and age test |
| `AudioTimeline` | sample counter, media clock, AAC frames and timestamps |
| `MediaPath` | the audio workers, the encoded packet thread, both muxers, and how they are stopped |
| `QueueProofs` | theorems about `BoundedQueue`, `MediaPath` and `AudioTimeline` |
| `RuntimeApp` | `RunRuntime`: build, loop, drain, verdict, destruction |
| `SupervisorClient` | the health record and the supervisor client |
| `TelemetryPath` | telemetry mailboxes and worker, the network, the viewer's counters |
| `FrameLayout` | where NV12 planes lie for the driver, RGA, the CPU path and MPP |
| `Perception` | letterbox, best cell, box and aiming error |
| `DeviceBuffers` | imports and bindings of RGA, NPU and MPP |
| `DeviceSetup` | opening, failing to open, closing and reopening of devices, files, sockets |
| `SensorDriver` | the IMX415 driver |
| `HdrFrames` | extends `SensorDriver` by the registers of the HDR frame before, to compare two frames |
| `PartsProofs` | theorems about `SupervisorClient`, `DeviceBuffers`, `TargetControl`, `RuntimeApp`, `TelemetryPath`, `DeviceSetup`, `FrameLayout`, `SensorDriver` and `Perception` |
| `MCQueues` | `BoundedQueue` and `MediaPath`, one of them per behaviour |
| `MCStops` | `InferencePipeline` and `AsyncLogger`, one of them per behaviour |
| `MCParts` | thirteen parts with state of their own, one of them per behaviour |
| other `MC*` | instances for TLC |

### CaptureBroker

State and code: `bufState`, `activeKey`, `outstanding` are
`BufferMapping::state`, `active_key` and `outstanding_buffers_`; `wake` says
whether the eventfd is readable; `slot` and `completions` are the broker's slots
and ring; `notifying` is the set of threads that have left the broker's mutex and
have not called the notifier yet; `live` and `spent` are lease objects. One action
is one critical section. Frame ids start at 1 so that 0 can stand for "no
active key", and the capture session is fixed because the camera is used for one
Start/Stop cycle. The branches that reject a call (a stale or repeated release, a
full ring, an occupied slot, a request that does not match) are in the model;
`defended` records that one was taken. `BrokerNext` adds the clients' contract:
the capture thread has at most one frame or request in hand, and the camera is
stopped when no lease is live. That contract is not an assumption about the
program: the run `split` checks that the pipeline keeps it (property
`BrokerSpec`), and the theorem `PipelineUsesBroker` proves it for every size.

### InferencePipeline

`pc[t]` is the list of steps thread `t` still has to do. `SignalFailure`, which
any stage may call, puts its twelve steps (flags, `Close`, `RequestStop`, `Wake`,
seven queue stops) in front of the list, so that the other threads run between
any two of them. A step ends where other threads can see its effect: `Release`
of a lease and the notifier call after it are two steps, a queue operation is one
(the run `queue` justifies that). Failures of stage calls are choices, each named
in `Faults`: a stage that returns false, one that throws (`...Throws`), a
driver call that fails, a thread that cannot be created.

Simplifications: a join has no step before the threads it waits for have
returned, and joins that follow each other are one; `Start` creates a prefix of
the threads in one step, since a thread that exists and has not run yet cannot be
told from one that does not exist; an encoder call yields one packet; the codec
header is packet 0; an exception in `BuildFrameView` (an index the driver never
returns) is not distinguished from other exceptions of `Capture`.

### BoundedQueue

Each thread is at a place in its call: idle, asleep on one of the two condition
variables, woken and about to test again, or past the unlock and about to notify.
`notify_one` wakes any one sleeper; a sleeper may also wake spuriously. `Resume`
is the part of `Next` that does not depend on anyone making a new call.

### AsyncLogger

`queue_mutex_` is explicit because producers only try it and because the worker
holds it between testing its predicate and sleeping. Records are counted. The
timeout of `Flush` may pass at any time.

### UartLink

The state of the I/O thread and of the mailboxes has the code's names (`tx`,
`wait`, `rel` for `reliable_`, `tracker` for `peer_sequence_`); sequences of
length at most one stand for the optionals. Each handler is one action: opening,
the two parts of `HandleTimeouts`, each way through `Schedule`, the completed
write, one received frame. The code runs them in a fixed order in each turn;
here any order is allowed, which includes the code's because a turn in which no
timer is due and nothing is readable skips them. `Poll` of the reliable
transaction needs no clock: its deadline is set when the frame is put into the
transmit slot, the window's when the frame has been written, so whenever the slot
is free and no window is open the deadline has passed. A call tests `running_` in
one step and queues in another, since the code does that without the mutex. When
`FAILED` comes out of `Poll`, the rest of that turn is the next action.

The controller and the line are external: it answers the frames it gets one at a
time, a run of it that has not accepted a HELLO may ignore the rest, and frames
are lost, answers late, HELLOs refused, ports broken and controllers restarted
`MaxFaults` times in all. A response window expires when no answer can come any
more, or early, which is such a fault. `silent`, set when a window expires and
reset by a valid frame, stands for the watchdog's time: without it the watchdog could fire
on a line that answers every frame. The product's ratio (1000 ms against windows
of 150 ms) only delays it. A restarted controller with an unchanged boot id may be
taken for newer or dropped as older, frame by frame.

Left out here and modelled elsewhere: the age test of a control (`TargetControl`),
the revisions of the health record (`SupervisorClient`), the parser and the
wrap of sequence numbers (`UartFraming`). A partly written frame is one action; a
frame that is reset before its last byte is not received.

### UartFraming

A byte is the flag, the escape or a token of the frame it belongs to, so that an
escaped byte is still seen to be escaped and one that the line damages is seen to
be wrong. `parser` has the fields of `FrameParser`; the CRC and the length test
are taken to accept exactly the undamaged whole frames. The line may drop, change or
add `MaxDamage` bytes. The tracker's numbers wrap at `SeqModulus` (2^32 in the
code), and the sender starts just below the wrap. The layouts are lists of fields
with widths, written once from the encoder and once from the decoder.

### TargetControl

`Observe` takes a result with its class; `Decide` is `Publish` under the lock;
`Submit` is the submission after it; `TransmitControl` is the link's thread. The
clock ticks between any two of them, so that a control may be fresh when it is
decided and stale when it is sent. Only one thread publishes, as in the runtime. The
link clears its mailbox where its thread ends.

### AudioTimeline

One chunk is in flight at a time: what is studied is arithmetic, not
interleaving (which is `MediaPath`'s). Times are nanoseconds and ticks of
the sample rate, with the code's roundings; 48000 samples per second make a sample
`NsNum / NsDen` = 62500 / 3 nanoseconds long. `Recover` is an overrun after which
the observed time differs from the predicted one by one of `Drifts`. `lastDts` and
`refused` are the muxer's `last_audio_dts_ns` and `fatal_error`: `WriteAudio` refuses a DTS
below the last one and takes nothing afterwards, which stops the sink worker and with it
the encoder (`OrMuxerFailed`). The queues between encoder and muxer keep the order of packets
(`LatestQueue`), so `WriteAudio` follows `EmitPacket` at once. Of the codec the model has
the packets: one of priming before the first frame, two held back until the next frame or
the drain. `accepted`, `represented` (what the muxers took), `skews` and the clock's `abuts` (some chunk
behind an overrun was stamped at the very nanosecond where the one before ended) are
history: they measure what the properties bound.

### MediaPath

The fields named `at` are the places of the worker threads in their loops; the two
`BoundedQueue`s and the network's `std::queue` are sequences with a `stopped` flag,
which the refinement of `LatestQueue` justifies. A call of the fan-out writes to
both muxers; its result is the conjunction. `Fail` names the library call that
fails, each at most `MaxMediaFaults` times in all. The codec holds one chunk back.
`runtime` follows `RunRuntime` through `StopPipeline`, the stops of the three
audio workers, `Finalize` and `Stop` of the network stream.

### RuntimeApp

`BuildOrder`, `DrainOrder` and `Declaration` are the three orders of the function, by
object; `Uses` says which objects a running thread still touches. Any
step of the build may throw, components fail at any time while they run, the loop may
throw, and the verdict reads what the snapshots and the loop have seen.

### SupervisorClient

The record of the UART's owner (current sample, pending issue, revision) and the
client's fields (connection, bound session, pending request, last acknowledged
report) with a supervisor that answers late, refuses, or says nothing. Timeouts may pass
at any time. Requests are numbered; a reply counts on the connection it was asked on.

### TelemetryPath

A status is its captured-frames counter, a control its frame number. The worker copies
the mailboxes under the lock and sends without it; the network loses and
reorders.

### FrameLayout and Perception

Both are arithmetic over inputs chosen from small sets. `FrameLayout` takes what the
driver may answer to `S_FMT` and to `DQBUF`, passes it through the checks of the
code, and records for each reader where its chroma begins and where it stops
reading. `Perception` uses exact fractions for floating point: the scores and the four
distances of a box are chosen, the softmax that yields them is not computed. A box with
less than `MinimumArea` (`minimum_box_area_px`, 4 by default) after clamping is no target.

### DeviceBuffers

`live` are the handles that exist in the libraries, `recorded` those that a member of their
owner names, `npu` what the device has bound, `engine` what `RknnEngine` believes.
`Initialize` of the engine and of the encoder make one object after another, and either
may fail at each; a clean-up destroys the recorded handles of the kinds it names. `output` says from which picture each output
tensor was computed. Any library call may fail. The pipeline around the engines is
reduced to its slot queues.

### DeviceSetup

What exists in the kernel and the libraries (`objects`) is apart from what the code can
still reach: `members` are the objects a member refers to, `locals` those that only a local
does. `Chain` lists the calls of each opening in order. A call that succeeds makes an object
and stores it where the code does (`Acquire`); one that fails takes its own branch, which
closes what `BranchCloses` names for it, and returns. The clean-up routines are the
sets of what each one closes (`ReleaseResources`, `PcmClose`, `CloseCodec`, `CloseLocked`,
`CloseFormat`, `CloseSocket`, `CloseLine`). What a clean-up sets to null without having
closed it, a local when its function returns, and a member that is assigned anew are out
of reach, so a `close` or `munmap` that one path forgets leaves an object behind.

Between two calls of an opening the other components run and close; only one opens at a time,
as they share nothing. `ExportSkipped` is the export that need not succeed, `NextAddress` the
telemetry's turn to the next address. The camera's stream-off is part of its closing. `Start`
of the telemetry sink leaves its flags true when its thread cannot be created, and `FlagsTrue`
excepts it. The guard of CPU access takes its descriptors one by one (`SyncStart`).

### SensorDriver

The driver's mode table with what it reads of it, the registers that decide frame length
and exposure, runtime power management and the controls. `s_power`, `s_stream`,
`set_fmt`, `s_frame_interval`, `set_ctrl` and the ioctls are atomic: most hold
`imx415->mutex`. The control framework is external: it calls `set_ctrl` for a
changed value, and for all of them when a stream starts. A `u32` that may become
negative is kept in 30 bits. `RemoveDriver` runs only when nobody has the sensor
open. Only the failures of clock, supplies, and of I2C at probe and at the start of a
stream are modelled; gains, flips, the test pattern, two-lane modes, fast boot and
HDR mode 6 (which no caller reaches) are left out.

`HdrFrames` adds to each step whether it wrote an HDR exposure (`asked`) and the registers of
the frame before it (`before`). The stated restrictions (`imx415.c:1928-1958` and `2181-2201`)
that the code keeps for every request are `ExposuresApart`, those that compare a frame with
the one before `StepsAllowed`; section 4 lists the others.

## 3. Runs

| Run | Instance | Question |
|---|---|---|
| `broker` | 2 buffers, 2 consumers, 2 threads, 3 frames, QBUF may fail | lease safety, exact counters, no buffer forgotten, refinement of `BufferOwnership` |
| `split` | split topology, 2 buffers, 2 frames, one kind of failure of nine (all but QBUF) | wakeups, leases, slots, order of results, return of buffers, refinement of `BrokerSpec` |
| `video` | fused topology with video, 1 buffer, 2 frames, the encoder fails | drain of packets, isolation of the video branch |
| `stop` | the pipeline: split topology, 1 buffer, 1 frame, start, spawn, QBUF or an exception fails; the logger: 2 producers, capacities 1, 4 calls; liveness of both | Stop and a fatal failure end every thread; the logger's queue is emptied, its counters balance, Flush and Shutdown keep their promises |
| `return` | fused topology with video, 1 buffer, 1 frame, the sink fails, liveness | every buffer goes back to the driver; a failed sink leaves inference alone |
| `queue` | the ring: 3 threads, 2 items, capacity 2, 4 pushes; the media path: 3 chunks, 2 access units of 2 and 1 fragments, 2 failures of five kinds | no lost wakeup, first-in first-out, Stop releases; nothing lost in silence, no early trailer, the shutdown ends |
| `logger_shutdown` | 1 producer, 1 call | expected violation, section 5 |
| `uart` | 2 starts, 2 requests, 2 calls, 1 retry, 2 faults, a controller that restarts once, with the same boot id or another | one end for each request, with its own answer; busy flag, session and health agree |
| `uart_live` | 1 start, 1 call (a request, a ping or a control), 2 faults, boot ids change, liveness | transactions end, loss is noticed, the link recovers |
| `parts` | thirteen parts: the bounds are below | one question per part |
| `audio_overrun` | the timeline of `parts` by itself | expected violation, section 5 |
| `runtime_unwind` | every command line of `MCOptionSets`, 1 failure | expected violation, section 5 |

Every property has a mutant in `PROJECT.json`, a plausible slip in the code
that makes the property fail in its run.

Bounds. Two buffers and two consumers let two frames be leased, completed and
requeued in any order, and a third frame reuses a buffer, which is what a stale
lease or key needs. Queue capacities of one make full, empty and replaced occur at
once (the captured queue has capacity one in the product too). `MaxFaults` is one
kind of failure, which may happen repeatedly; every thread that calls
`SignalFailure` does so concurrently with all others. The ring of `BoundedQueue`
with capacity two wraps within four pushes, and three callers are enough for one
to sleep while a second is notified and a third takes its item. Symmetry is used
in the safety runs only.

In `queue`, three chunks fill a PCM and an AAC queue of one place each with one
chunk in the codec and one in a worker's hand, so that every worker can be blocked when
the stop comes; the network queue of two overflows. In `parts`: `controls` has three
controls, a request and a ping on a faultless line; `timeline` four reads of a whole or
half AAC frame with overruns anywhere, and clock differences of nothing, one nanosecond
and three samples each way; `runtime` six command lines and two failures; `supervisor` three
changes of the record and three exchanges, so that an issue is replaced while its report is
in flight; `control` five frames for runs of two hits and two misses; `telemetry` two
results, three updates and three datagrams before Stop; `framing` three frames, two damaged
bytes and numbers modulo 8 from 0 and from 5; `layout` widths, heights
and strides of 2, 4 and 6 with every size they imply and sizes between; `perception` three
image sizes, one of them not drawn exactly, three branches and three scores; `devices` two input, two output slots, two
tensors, three pictures and two failing calls, so that one binding fails after another
succeeded in part; `sensor` four calls besides power and streaming, which reaches a
changed rate, blanking and exposure and a format again, and one failure; `setup` two buffers
of two planes, three openings and two failures, so that a component fails, is opened again and
fails elsewhere.

The thirteenth part, `frames`, is `HdrFrames` with two 12-bit formats and HDR requests of 4,
4000 or 6600 lines for the long exposure, 20 or 4500 for the middle one and 20 or 3000 for the
short one: they fit the frame, lie at its edges, or are refused, and blanking 7000 makes it long
enough for RHS1 to move further than one step allows. Four calls are a change to HDR, a request,
a second that is refused or accepted, and a third.

Deadlock is checked in `broker`, `split` and `video` (where a finished run
stutters in `Terminated`). It is off in the liveness runs of the pipeline, which
use the same next-state relation, in `stop` and `logger_shutdown` for the logger, in `queue`
and in the runs of the link, where callers stop calling when the bound on calls is used up and
may then all sleep, and in `parts`, `runtime_unwind` and `audio_overrun`, whose behaviours end
with their bounds.

Fairness. Each pipeline thread is weakly fair: it is scheduled, and a library
call returns. `poll` has a timeout in the code, so the capture thread never stays
in it. `RunRuntime` polls `running()` every 100 ms, hence fairness of
`StopAfterFailure`; no fairness is given to a stop request from outside. In
`queue` only what follows an already made call is fair for the ring; the media
threads and the main thread are weakly fair, but when the runtime is stopped is
left open, and a device that is read returns (ALSA's wait has a timeout). In
the logger of `stop` the worker and the main thread are strongly fair, because each waits
for a mutex that others take and release repeatedly; producers never wait. In
`uart_live` the handlers of the link's thread are weakly fair, since its loop never waits
longer than its poll timeout, and so are a Stop under way and the answers of the
controller; no call, fault or restart is.

## 4. Properties

The capture path. `LeasedFrameIntact`, `OwnershipKept`: zero-copy safety.
`LedgersAgree`: the three counters behind `graceful_shutdown_completed_` are
exact. `NoBufferForgotten`, `BuffersComeBack`: buffers are never leaked, and come
back while running. `NeverDefends`: the code's defensive branches are dead, in
particular "completion ring full". `WakeNotLost`: a completed frame never waits for
the poll timeout. `ResourcesAccounted` (`LeasesHeldOnce`, `InputSlotsAccounted`,
`OutputSlotsAccounted`): one holder for each lease and slot, through every error path; a
slot is lost only to an exception, which is fatal. `ResultsInOrder`,
`StopLeavesNothing`, `EncodedMediaDrained`: nothing is reordered, at Stop every buffer
is back and every completed frame processed, and no packet is lost in a normal
shutdown. `VideoFailureIsolated`: a failed video branch stops nothing else and leaves a
graceful end possible. `ThreadsReturn`: termination.

Queues, logger. `WaitersAnnounced`, `StopReleases`, `ActsAsLatestQueue`: the ring.
`RecordsAccounted`, `AcceptedIsWritten`, `QueueEmptied`: what
`PublishRuntimeReport` compares before it says PASS (it reads the counters one by one, after
the producers have stopped, so the model reads none of them on the way); `AcceptedIsWritten` covers `Flush`
and `Shutdown`, and also shows that a record accepted by a producer that had passed its
`running_` test at the shutdown may stay in the queue, as many as there were such
producers and no more.

Media. `MediaKept`: `NoSilentLoss` (what was accepted is in the output or somebody
reports a failure) and `TrailerAfterDrain` (a file or stream is closed only after
all that writes to it). `MediaStops`: the shutdown ends. `AudioTimelineKept`:
`RefusedOnlyWithoutGap`, `SamplesRepresented`, `SamplesKeepTheirTime`. A muxer that is given
a DTS below the last one fails for good (`mp4_recorder.cpp:416`, `network_stream.cpp:208`).
After an overrun the two roundings of a chunk's start may take away up to a sample; a gap of
one nanosecond between the two chunks is enough for the DTS not to fall, which is what the
first part says. Without a gap it may, and the recording ends: the finding `audio_overrun`
(`OverrunsAccountedFor`). The second part does not say that the
source frames of the packets add up to what was accepted: where a frame's start is
rounded down it overlaps the one before it by a tick, and that sample is counted in both
packets, once for a whole frame at most.

The link. `RequestSpec`, `TransactionEnds`: a stop request to the gimbal is never
reported as carried out because of an answer to an earlier one, and never stays
undecided while it is on the line. `BusyMeansWork`: no path leaves the link refusing
requests for ever. `SessionToldTruly`: the session and the health the supervisor reads.
`LinkFollowsPeer` (`PeerLossNoticed`, `LinkRecovers`): the watchdog and renegotiation. `ControlsBalance` is
the equation the final report demands (`runtime_components.cpp:1882`) with what is on its
way added; the report takes its snapshot without waiting for the mailbox to empty, and
relies on the time the shutdown takes. `FramingKept`: every frame that the line leaves
whole is received (`FramesRecovered`), gaps are counted across the
wrap (`GapsCounted`), and each message decodes to what was encoded (`PayloadsAgree`).

`LinkRecovers` needs the boot id to change with every restart. With an equal id
TLC shows a link that stays in `NEGOTIATING`: a frame of the old run sets the
tracker, the controller restarts, and its HELLO_ACKs are dropped as older until
their numbers catch up, since neither the watchdog (which looks only at `READY`
and `DEGRADED`) nor a HELLO timeout resets the tracker.

Control and observation. `TargetControlKept`: the decision is the one the whole history
of results calls for, written without the code's counters, and a frame that tells the arm to act is of
a held target, detected in that very frame and young enough when sent. `IssuesKept`: no adverse
observation is lost between the owner and the supervisor. `TelemetryKept`: the
viewer's counters tell the truth, and the last datagram has the last status and control.

The whole program. `RuntimeAppKept`: on every normal path no running thread touches what
was stopped or destroyed, and PASS is never said over a failure. `DrainOrderKept` says
the first of these of the exceptional paths too, and fails (section 5).

Devices and geometry. `FrameLayoutKept`: no reader of a frame leaves its buffer and all find
the chroma in the same place. `PerceptionKept`: the letterbox fills the model's input, a point
goes there and back within half a model pixel, the best cell is found and what is reported
aims to the right side. `DeviceBuffersKept`: results belong to their frame whatever bindings failed
before, and (`NothingLeftBehind`) a component that is down, also one whose `Initialize` failed
half way, has left nothing in the libraries. `SetupKept`: no object is lost whichever call of
an opening fails and however often it is opened again, flags agree with workers, the serial
line gets its settings back, and (`BracketsBalanced`) a descriptor's CPU access is started once
and ended once. `SensorKept`: clock and supplies balance, the configured rate is the one the
sensor streams with, and a linear exposure is as long as the control says. `HdrFramesKept`: within
a frame, HDR exposures keep those of the stated distances that the driver enforces
(`ExposuresApart`), and from one frame to the next a readout moves up no further than the
sensor allows (`StepsAllowed`).

What the last two groups had to leave aside, because the code does otherwise:

* `RKMODULE_SET_HDR_CFG` on a running stream writes the mode's table with its default
  frame length and leaves the VBLANK control and the range of the exposure as they
  were (`imx415.c:2369`); back to one exposure it takes the first linear mode, 30 frames per
  second, and a VBLANK that was long for HDR stays long. The range of the exposure may then
  be that of a longer frame, and an exposure that is in range longer than the frame the
  sensor has: the register wraps below zero. `ExposureMatches` speaks of the frame length
  that the control asks for, and of the register's least value only when the range fits.
* VBLANK alone, while streaming, changes the frame length and leaves the register of
  the exposure, which counts from the frame's end: until the next write of the exposure
  the sensor exposes longer or shorter than the control says.
* A refused HDR exposure leaves the group hold set.
* `HdrFramesKept` is about frames at least as long as the mode's default. The range that S_FMT
  gives to VBLANK allows shorter ones, and for those the driver keeps neither part: with two
  exposures, a frame of 2240 lines and a long exposure of 4000, SHR0 becomes 2306.
* Rules of the driver's comments (`imx415.c:1928-1958`, `2181-2201`) that a request may break,
  and that `HdrFramesKept` therefore does not claim; TLC shows each trace when the rule is made
  an invariant. `FSC` is the frame's length.
  - Three exposures, "SHR0 >= RHS2 + 13" and "RHS2 <= SHR0 - 13" (1934, 1951): a long exposure
    under 12 lines.
  - "RHS1 >= SHR1 + 12", "SHR1 <= RHS1 - 12" (1941, 1943), with two exposures "RHS1 >= SHR1 + 8"
    (2196): a short exposure below its minimum; the driver clamps no exposure to it.
  - "RHS2 >= SHR2 + 12", "SHR2 <= RHS2 - 12" (1952, 1954): RHS2 is cut to the room before the long
    exposure (2013-2014), but SHR2 is reckoned from the time asked for (2040). Of 4000, 20 and
    3000 lines come RHS2 = 2887 and SHR2 = 2^20 - 113, the low bits of a difference that has
    wrapped; of 4000, 4500 and 20 lines SHR2 = RHS1 + 13, which lies behind RHS2.
  - The step of RHS1 (1944) behind a refused request: `rhs1_old` is stored at 2001, before the
    test that refuses the request without a write (2028-2033). With RHS1 4519 written and a
    refused request that stores 4309, the next writes 4099, where at least 4306 is called for.
  - The multiples (1935, 1946, 1957, 2189, 2200): those of SHR0, SHR1 and SHR2 are left to the
    caller, and the cut of RHS2 breaks "6n+2".

  The caller, the exposure algorithm of the camera stack, is not in the repository.
* With padded rows RGA and the CPU path look for the chroma behind `height` rows, MPP
  behind the rows that `sizeimage` implies.
* Postprocessing inverts the letterbox with the scale before rounding. Where the picture was
  shrunk to whole pixels, a box in the first half pixel of the padding is still a target.
* An output memory of the NPU that is rejected when it is allocated is not released;
  `NothingLeftBehind` allows this one.

## 5. Findings

`AsyncLogger::Shutdown` may never return (run `logger_shutdown`). It stores
`running_ = false` and calls `ready_.notify_all()` without `queue_mutex_`
(`logger.cpp:233-240`). If the worker has evaluated the predicate of
`ready_.wait` and is about to sleep, the notification is lost and `join` waits
for a thread nobody wakes. Taking `queue_mutex_` around the store closes the
window. `BoundedQueue::Stop` does take its mutex, and the run `queue` shows that
this is enough.

A failed start destroys the muxers under a running writer (run `runtime_unwind`).
`RunRuntime` declares `av_muxer` and `network_muxer`
(`runtime_components.cpp:552-557`) after the audio workers (546-549). When a later
step throws (769, 787) the locals are destroyed in reverse order: the muxers first,
while the thread of `EncodedAudioSinkWorker` still holds their addresses (706-708).
`README.md:36-37` of `visionram/` promises that encoded media is drained before
finalization. Declaring the muxers before the workers closes the window; the normal path
keeps the order (`RuntimeAppKept`).

An overrun without a gap ends the recording (run `audio_overrun`). `audio_types.h:61-63` asks that
"MediaClock/encoder/mux must account for" the discontinuity. The clock accepts a chunk that begins
at the very nanosecond where the one before ended (`media_clock.cpp:158-159` refuses only what
lies before), and the rounding from nanoseconds to ticks and back then puts the first DTS of the
reopened encoder below the last one, which `WriteAudio` takes for a fatal error
(`mp4_recorder.cpp:416-420`, `network_stream.cpp:208-211`). It needs a coincidence to the
nanosecond; a clock that refuses equality as well, or one that keeps ticks, excludes it.

## 6. Proofs

`CaptureBrokerProofs` proves for any finite sets of buffers and consumers, any
threads and any number of frames (the assumptions named in `CaptureBroker`):

* `BrokerInvariant`: `BrokerInv` is an invariant. The properties are not
  inductive by themselves: that a release finds the slot of its own frame needs
  to know which leases exist (`LeasesConsistent`: a lease is live exactly if its
  slot says so), that the ring has room needs each queued completion to belong to
  a different occupied slot (`CompletionsConsistent`), that `Requeue` accepts the
  request needs the key in the capture thread's hand to be the camera's active
  key (`HandsConsistent`), and that counters are exact needs the slots to agree
  with the camera (`SlotsConsistent`, `CameraConsistent`). There is one lemma per
  action, and the cardinality arguments (`remaining_leases` is the size of a
  difference; the ring is injective into the buffers) are lemmas of their own.
* `TypeCorrect`, `LeasesSafe`, `DefencesUnused`, `CountersExact`, `BuffersKept`
  follow from it.
* `OwnershipRefined`: every step is a step of `BufferOwnership` or a stutter.

`PipelineProofs`, `PipelineFlowProofs` and `PipelineResourceProofs` prove for any buffers,
frames and queue capacities, both topologies, with and without video, and any failures
(the assumptions named in `InferencePipeline`):

* `PipelineInvariant`, `PipelineUsesBroker`: the state of a thread is the list of steps it
  still has to do, so the invariant says which steps a list still contains and which come
  before which, and ties the lists to what the thread holds: `publish` to one frame in
  hand, `push_captured` to one lease in `dispatch`, a loop that has not ended to queues
  that are not drained. With the broker's `BrokerInv` this is inductive, and every step of
  the pipeline is then one of `BrokerNext`. `PipelineKeepsFrames` is what follows from
  the theorems about the capture path: it speaks of the pipeline's own steps.
* `CaptureIsWoken`: a requested stop is followed by `wake` in the list that requested it
  (`WakeFollows`), and a completion by its notifier.
* `NothingLeftBehind`: needs to know where each inferred frame is (`InNpu`, `InQueue`,
  `InPost`) and that a queue is stopped only behind its producer or by a failure.
* `VideoFailureStaysLocal`: until something fails for good no thread's list has a step
  that could stop an inference queue, whatever the video branch does.
* `EncodedMediaReachesSink`: the packets encoded are, in order, those written, the one in
  the sink's hands, those in the queue and the one in the encoder's (`PacketsInOrder`).
* `ResultsComeInOrder`: a frame is on one of ten legs from the capture thread's hand to the
  list of results, and each frame on a leg is older than those on the legs behind it
  (`InOrder`); all that a step does is move frames to a leg ahead or drop them.
* `ResourcesKept` (`ResourcesAccounted`): `LeaseAt` lists the places of the leases (the
  captured and the video queue, what is being dispatched, what each thread is about to
  release), `InputAt` and `OutputAt` those of the slots. Nothing is in two places nor twice
  in one, every live lease is in one, and every slot, unless it is `Excused`: the pipeline
  has not started, the free queue is stopped, or a stage threw. A stage has a slot exactly while
  its list still has a step that passes it on or gives it back, and it has one such step
  at most (`Tidy`); a job that is queued carries the slot the next stage needs (`JobsFed`).

`QueueProofs` (any threads, capacity and items): `NoWakeupLost` from a count, per
condition variable, of the threads that were notified and of those about to notify;
`RingInvariant`: `tail_` is `head_` plus `size_` round the ring; `QueueRefined` from it,
the abstract queue being the `size_` slots read from `head_`.

`AsyncLoggerProofs` (any producers, capacities and calls): `EveryRecordAccounted` from a
balance of the calls made and the calls in flight (`BooksBalance`); `PromisesKept` from
`Promises`, which says what `Flush` has been promised (`mark`), that `writing_` tells that
the worker holds a record, and that after the shutdown only calls that overlap it
still insert.

`UartLinkProofs` (any starts, requests, retries, reboots and faults): type correctness
already needs that there is one transaction at most; `BusyIsWork` and `RequestsRefined` use
the same invariant `UartTypes`. `SessionIsTrue` needs that what is in the transmit slot, on
the line or awaited belongs to the boot in session (`OneBoot`) and that a HELLO is sent
out of session only (`HelloFirst`). `ControlsAccounted` speaks of a first session without
faults, in which the line carries one exchange at a time (`LineQuiet`).
`FramesComeThrough` is about `UartFraming`, for any frames of nonempty bodies that fit the
parser, at most half a turn of sequence numbers of them (`FramingAssumption`), and any faults. What
is unread is what was sent but for a damaged byte at its head (`Unread`); the bytes the parser
holds are in their order and of frames later than those received (`HeldInOrder`); every
unhurt frame is received, under way (`Midway`) or to come (`CameThrough`); and the gap
counter tells what is missing, modulo the width of the sequence number (`Counted`). That
the line is the concatenation of the frames is an induction over the data: it is made with the
library's least-number principle (`LeastNumber`, `CountsUp`, `FlattenLays`), as the
library's induction theorems cannot be used.

`QueueProofs` (any capacities, chunks, fragments and failures): the accepted chunks are, in
order, those in a muxer, the packet in the sink worker's hands and those in the AAC queue,
the encode worker, the codec and the PCM queue (`AudioReachesMp4`, `AudioReachesNet`), unless
a failure was reported. The network's queue mixes two kinds of packets:
`Carries` says which audio or which video it holds, in order. `EndsDrained` and
`StopsInOrder`, that a thread ends with its queue and codec empty and that each stage of the
shutdown waits for one thread, make the places empty at the end: `NothingLostInSilence`.

Also in `QueueProofs`: `AudioStaysWhole` (any frame size, sample rate, reads, anchors and
drifts; `TimelineAssumption`: a sample lasts two nanoseconds at least). A time that is the
anchor's plus two truncated durations rounds to the tick of its sample or to the one before
(`TickOfSample`), whatever the rate. The pending chunks are consecutive samples at the time that
the anchor gives them (`ChunksPlaced`); the two frames in the codec end where the next begins or
a tick off (`HeldAt`), so a packet covers its frame and one sample more at most (`EmitIs`).
`EncoderAt` joins these with the count of the samples, `CountedOnce`, for the anchor the encoder
stands at: the clock's (`InStep`), or, with a chunk behind a gap under way, an older one whose
time has not passed the new anchor (`Offered`). That is why the test in `StampAudio` which
refuses a chunk that reaches back is needed. As long as no chunk abuts on the one before the
overrun, the last DTS lies no later than the next one due (`Rising`, `RisingUnlessAbutting`,
`BehindGap`), also for a reopened encoder, whose priming begins a frame early (`ReopenIs`): so the
muxers refuse nothing. The sums and the loops of
the encoder (`BeforeIs`, `CoveredIs`, `SubmitWholeIs`) are inductions with `CountsTo` over
recursive functions.

`PartsProofs` has an inductive invariant for each of nine parts:

* `NoIssueLost` (any revisions and exchanges). `IssuesKept` is inductive only if an
  acknowledgement names what was told: no request number is used twice, so a frame or an
  answer that bears the number of the pending report is about that report's issue (`FrameTold`,
  `ReplyTold`), and an issue that came up since is a later one (`AskedKept`).
* `DeviceBuffersSafe` (any slots, tensors, pictures and failures): a slot is free or in one job
  (`SlotsApart`), the picture of a prepared job is in its slot, the record of what is bound
  is true, and what exists depends on how far the engine's and the encoder's life got (`LifeKept`);
  a clean-up destroys what is recorded, kind by kind, a wrapper before what it wraps
  (`AllDestroyed`, `CleanUpDestroys`).
* `TargetDecisionFollows` (any thresholds and ages, any history). `TargetControlKept` compares
  the machine with a definition that quantifies over the whole history. The invariant
  `Follows` ties the counters to the history's last run of hits and of other results, and the
  latches to `HeldOf` and `WasHeldOf`; `ControlOrder` orders the frames in the mailbox, under
  decision and sent.
* `RuntimeStopsInOrder` (every command line, any number of failures): when the drain is
  at step `n`, the threads of the steps before are joined, only what they stopped is
  released, and each failed component whose snapshot is taken was seen or failed afterwards
  (`DrainedInOrder`). The exception is the finding `runtime_unwind`.
* `ViewerToldTruly` (any results, updates and bursts): the viewer's counts span the sequence
  numbers it has seen (`SpanKept`), after any loss or reordering; undisturbed, the
  datagrams under way follow each other in number and content up to the last one taken
  (`NothingMissed`, `AirInOrder`), and the one after Stop is the last (`LastIsFinal`).
* `SetupLosesNothing` (any number of buffers, planes, openings and failures; the assumption
  `SetupAssumption` says that there are natural numbers of them): `SetupInv` says that what exists
  is what members and locals name (`ObjectsKept`); that what they name while an opening runs was
  made by its calls so far, that no local outlives the opening and that a closed component names
  nothing (`ComponentsKept`, by `HoldsAs` and `MadeBefore`); what each component's flags claim
  (`FlagsKept`), the serial settings that were saved (`SerialKept`, `LineKept`), and the
  `SYNC_START`s of each descriptor (`GuardKept`). There is a lemma for each way a call ends:
  success, each failing branch, the export that need not succeed, the next address.
* `ReadersStayInside` (any widths, heights, strides, sizes and offsets; `LayoutAssumption`: they
  are natural numbers and one size is the largest): the invariant `LayoutInv` keeps what the
  checks of `Open` and of the encoder have established of the format, from which the
  arithmetic of each reader follows.
* `AimsTrue` (any model's size and strides, any scores, boxes and least area, and any sources of which the
  letterbox has half a pixel at least on each axis, `PerceptionAssumption`). What the scans of
  `FindBranchMaximum` and `FindBest` return is defined by recursion: that there is such a
  function (`StepsExist`) and what each of its values is the best of (`BranchMaximumIs`,
  `FindBestIs`) are inductions over the offsets and the branches, made with `CountsTo`. A
  branch's cells are found in the order of their rows (`CellsAre`), and a later branch is coarser,
  so it wins only with a higher score. The rest is arithmetic of products and quotients of
  unknowns, split until each step has one product (`RoundedIs`, `FactorIs`, `AxisMapped`). The
  proof is why the property has its words on shrunk pictures: a 100x55 picture is drawn in
  4 rows of the 8x8 model instead of 4.4, and a box that begins below them is still a target
  at the picture's lower edge.
* `SensorAsConfigured` (any formats, rates, blankings and exposures, any number of calls and
  failures; `SensorAssumption`: what the controls and exposures are given are natural numbers;
  the table of modes is the driver's): the invariant has three parts. `Powered` counts who
  holds the power. `Rated` ties the rate to the mode and, while streaming, to the table that
  was loaded. `Tuned` says that the frame length the driver reckons with is the
  register's, and the exposure written last the control's. After `SET_HDR_CFG` neither
  is true, and a later S_FMT may then put the blanking control back to the mode's default
  without a write; `Skewed` describes the states this leads to, and that S_FMT keeps the
  distinction needs the table: modes of equal default blanking have equal height.

Only model-checked: liveness and what depends on `ENABLED`, which are out of the prover's
reach, and of the invariants `HdrFramesKept`: quotients, remainders and unsigned words. It is
not true for all numbers: exposures beyond what the caller asks for wrap the 30-bit word.

The bounds named `Max...Failures` or `MaxFaults` and those on calls and reads are constants
of the theorems too: what is proved holds for all of them, hence without them.

## 7. Not modelled, and the plan

Not modelled: option parsing and the text of the report (`RuntimeCliAndReport`; the verdict it
prints is in `RuntimeApp`), and the standalone qualification programs under
`src/tools/test_apps` and the boards' own tools (`StandaloneTools`), which are not part of the
runtime. Modelled in part, with what is left out: the camera's format enumeration; the
logger's levels, reconfiguration and record format; the bytes inside messages, datagrams
and the supervisor's text protocol; the baud table; pixel values and the networks' arithmetic;
codecs, muxers, RGA, MPP and RKNN as libraries, whose calls are choices of outcomes;
latency counters; the sensor driver's gains, flips and read-only queries.

No property covers: two publishers that submit control decisions in the other order (the
runtime has one); a final snapshot that finds a control still in the mailbox and says FAIL of
a clean run; a controller that restarts with its boot id unchanged (`LinkRecovers` is false for
it, section 4); the frame rate across a change of HDR.

Coarser than the code: the first network failure sets its flag and stops the stream in one
step; `DmaHeapBuffer::Allocate`'s three calls are one that succeeds or fails; the viewer's second
increment of its out-of-order counter, on the time of sending (`host/telemetry.py:217`), is left
out, and no property reads it.

What is left to do: an abstract
specification of the media path (one queue per muxer), of which `AudioReachesMp4` and
`AudioReachesNet` are already the refinement's invariant; the two-lane modes and the
remaining ioctls of the sensor.
