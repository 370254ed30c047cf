--------------------------- MODULE InferencePipeline ---------------------------
(***************************************************************************)
(* The threads of InferencePipeline around the capture broker: capture,     *)
(* preprocess, NPU, postprocess (split topology), video encoder, packet     *)
(* sink, and the thread that starts and stops the pipeline.                 *)
(*                                                                          *)
(* pc[t] is what thread t has left to do, the next step first: a call of    *)
(* SignalFailure puts its steps in front, one per store, Close or queue     *)
(* Stop, so other threads run between any two of them.  A thread whose list *)
(* is empty has returned (or was never created): join passes it.  What a    *)
(* thread computes on its own is part of the next step the others can see.  *)
(***************************************************************************)
EXTENDS CaptureBroker

CONSTANTS
    EnableVideo,  \* config_.enable_video
    Split,        \* topology SPLIT (TRUE) or FUSED_NPU_POSTPROCESS
    Capacity,     \* the capacity of each BoundedQueue
    Faults,       \* the failures that may happen, of FaultKinds
    MaxFaults     \* bound: how many kinds of failure happen in one run

Queues == {"captured", "video", "encoded", "prepared", "completed",
           "freeIn", "freeOut"}
Workers == {"capture", "preprocess", "npu", "postprocess", "video", "encoded"}
FaultKinds == {"start", "spawn", "qbuf", "poll", "view", "preprocess",
               "preprocessThrows", "run", "runThrows", "post", "encode", "write"}

ASSUME PipelineThreads == Threads = Workers \cup {"main"}
ASSUME PipelineConsumers == Consumers = {"inference", "video"}
ASSUME CapacityPositive == Capacity \in [Queues -> Nat \ {0}]
ASSUME FaultsKnown == Faults \subseteq FaultKinds /\ MaxFaults \in Nat

VARIABLES
    queue,        \* the seven queues: items, oldest first, and stopped_
    fatal,        \* fatal_error_
    stop,         \* stop_requested_
    videoFailed,  \* video_branch_failed_
    graceful,     \* graceful_shutdown_completed_
    pc,           \* what each thread has left to do
    disposing,    \* the leases a thread is about to release, in order
    job,          \* the frame and slots a stage thread works on
    dispatch,     \* capture: the video lease of the frame being dispatched
    faults,       \* history: the kinds of failure that happened
    inferred,     \* history: the frames Run succeeded for
    finished,     \* history: the frames ProcessCompletedFrame took
    published,    \* history: the frames given to the result sink, in order
    packets,      \* history: the codec header and the frames encoded, in order
    written       \* history: the packets the sink has accepted, in order

flags == <<fatal, stop, videoFailed, graceful>>
work == <<disposing, job, dispatch>>
history == <<inferred, finished, published, packets, written>>
pipelineVars == <<queue, flags, pc, work, faults, history>>
vars == <<brokerVars, pipelineVars>>

NoJob == [frame |-> 0, in |-> 0, out |-> 0]
InSlots == 1..Capacity["freeIn"]
OutSlots == 1..Capacity["freeOut"]

PipelineInit ==
    /\ BrokerInit
    /\ queue = [q \in Queues |-> [items |-> <<>>, stopped |-> FALSE]]
    /\ fatal = FALSE
    /\ stop = FALSE
    /\ videoFailed = FALSE
    /\ graceful = FALSE
    /\ pc = [t \in Threads |-> IF t = "main" THEN <<"start">> ELSE <<>>]
    /\ disposing = [t \in Threads |-> <<>>]
    /\ job = [t \in Threads |-> NoJob]
    /\ dispatch = <<>>
    /\ faults = {}
    /\ inferred = {}
    /\ finished = {}
    /\ published = <<>>
    /\ packets = <<>>
    /\ written = <<>>

--------------------------------------------------------------------------------
(* Control: steps, calls and failures                                       *)

\* Thread t is about to do step s; it is not still inside NotifyExternal.
At(t, s) == t \notin notifying /\ pc[t] # <<>> /\ Head(pc[t]) = s

\* Step done: go on with these steps.  A loop replaces what was left.
Proceed(t, steps) == pc' = [pc EXCEPT ![t] = steps \o Tail(@)]
Loop(t, steps) == pc' = [pc EXCEPT ![t] = steps]

Happens(f) ==
    /\ f \in Faults
    /\ f \in faults \/ Cardinality(faults) < MaxFaults
    /\ faults' = faults \cup {f}

\* The names of the steps that stop a queue.
StopStep == [captured |-> "stop_captured", video |-> "stop_video",
             encoded |-> "stop_encoded", prepared |-> "stop_prepared",
             completed |-> "stop_completed", freeIn |-> "stop_freeIn",
             freeOut |-> "stop_freeOut"]

\* Mutant of SignalFailure: the free input slots are not stopped.
SignalFailureLeavesFreeIn ==
    <<"fatal", "stop", "close", "requestStop", "wake", "stop_captured",
      "stop_video", "stop_encoded", "stop_prepared", "stop_completed", "stop_freeOut">>

SignalFailure ==
    <<"fatal", "stop", "close", "requestStop", "wake", "stop_captured",
      "stop_video", "stop_encoded", "stop_prepared", "stop_completed", "stop_freeIn",
      "stop_freeOut">>

\* Mutant of SignalVideoFailure: it stops the pipeline.
SignalVideoFailureStops == <<"videoFailed", "stop", "stop_video", "stop_encoded">>

SignalVideoFailure == <<"videoFailed", "stop_video", "stop_encoded">>

\* Mutants of StopSteps: the camera is stopped without waiting for the stages;
\* the encoded queue is stopped before the video stage has drained into it.
StopStepsNoJoin ==
    <<"stop", "requestStop", "wake", "stop_encoded", "join_encoded", "stop_camera">>

StopStepsEarly ==
    <<"stop", "requestStop", "wake", "stop_encoded", "join_stages", "join_encoded",
      "stop_camera">>

StopSteps ==
    <<"stop", "requestStop", "wake", "join_stages", "stop_encoded", "join_encoded",
      "stop_camera">>

CaptureExit ==
    <<"stop_captured", "stop_video", "close", "drain", "drain_until_closed">>

\* The bookkeeping steps of these calls, whichever thread makes them.
SetFatal(t) ==
    /\ At(t, "fatal")
    /\ fatal' = TRUE
    /\ Proceed(t, <<>>)
    /\ UNCHANGED <<brokerVars, queue, stop, videoFailed, graceful, work, faults,
                   history>>

SetStop(t) ==
    /\ At(t, "stop")
    /\ stop' = TRUE
    /\ Proceed(t, <<>>)
    /\ UNCHANGED <<brokerVars, queue, fatal, videoFailed, graceful, work, faults,
                   history>>

SetVideoFailed(t) ==
    /\ At(t, "videoFailed")
    /\ videoFailed' = TRUE
    /\ Proceed(t, <<>>)
    /\ UNCHANGED <<brokerVars, queue, fatal, stop, graceful, work, faults, history>>

CloseBroker(t) ==
    /\ At(t, "close")
    /\ Close(t)
    /\ Proceed(t, <<>>)
    /\ UNCHANGED <<queue, flags, work, faults, history>>

RequestCameraStop(t) ==
    /\ \/ At(t, "requestStop") /\ RequestStop
       \/ At(t, "wake") /\ Wake
    /\ Proceed(t, <<>>)
    /\ UNCHANGED <<queue, flags, work, faults, history>>

StopQueue(t, q) ==
    /\ At(t, StopStep[q])
    /\ queue' = [queue EXCEPT ![q].stopped = TRUE]
    /\ Proceed(t, <<>>)
    /\ UNCHANGED <<brokerVars, flags, work, faults, history>>

NotifyCapture(t) ==
    /\ Notify(t)
    /\ UNCHANGED pipelineVars

\* Release of the first of the leases this thread lets go.
Dispose(t) ==
    /\ At(t, "dispose")
    /\ Release(t, Head(disposing[t]), FALSE)
    /\ disposing' = [disposing EXCEPT ![t] = Tail(@)]
    /\ IF Len(disposing[t]) = 1 THEN Proceed(t, <<>>) ELSE UNCHANGED pc
    /\ UNCHANGED <<queue, flags, job, dispatch, faults, history>>

--------------------------------------------------------------------------------
(* BoundedQueue, one critical section at a time                             *)

\* Mutants: a stopped queue counts as drained; pop leaves the item in the queue.
StoppedIsDrained(q) == queue[q].stopped
PopKeeps(q) == queue[q].items # <<>> /\ UNCHANGED queue

\* What its callers see of a BoundedQueue.
Full(q) == Len(queue[q].items) = Capacity[q]
CanPop(q) == queue[q].items # <<>>
Drained(q) == queue[q].stopped /\ queue[q].items = <<>>
Front(q) == Head(queue[q].items)
Pop(q) == queue' = [queue EXCEPT ![q].items = Tail(@)]

\* WaitPush returns: the item is in, or the queue is stopped and it is not.
CanPush(q) == queue[q].stopped \/ ~Full(q)
TryPush(q, item) ==
    queue' = IF queue[q].stopped \/ Full(q) THEN queue
             ELSE [queue EXCEPT ![q].items = Append(@, item)]

\* PushLatest: the oldest item makes room; what the caller must let go of.
PushLatest(q, item) ==
    queue' = IF queue[q].stopped THEN queue
             ELSE [queue EXCEPT ![q].items =
                       Append(IF Full(q) THEN Tail(@) ELSE @, item)]

\* Mutant of Evicted: the item that a stopped queue refused is not handed back.
EvictedUnlessStopped(q, item) ==
    IF Full(q) /\ ~queue[q].stopped THEN <<Front(q)>> ELSE <<>>

Evicted(q, item) ==
    IF queue[q].stopped THEN <<item>>
    ELSE IF Full(q) THEN <<Front(q)>> ELSE <<>>

--------------------------------------------------------------------------------
(* CaptureLoop                                                              *)

Lease(r, c) == [buf |-> r.buf, key |-> r.key, consumer |-> c]

\* Leases to release now, before going on with these steps.
Disposing(t, leases, steps) ==
    /\ disposing' = [disposing EXCEPT ![t] = leases]
    /\ Loop(t, IF leases = <<>> THEN steps ELSE <<"dispose">> \o steps)

CaptureCheck ==
    /\ At("capture", "check")
    /\ Loop("capture", IF stop THEN CaptureExit ELSE <<"drain", "capture">>)
    /\ UNCHANGED <<brokerVars, queue, flags, work, faults, history>>

\* DrainRequeueRequests and DrainRequeueRequestsUntilClosed.
Draining == At("capture", "drain") \/ At("capture", "drain_until_closed")

DrainPop ==
    /\ Draining
    /\ HandsFree
    /\ PopRequeue
    /\ UNCHANGED pipelineVars

DrainRequeued ==
    /\ Draining
    /\ \E r \in toQueue : RequeueDone(r)
    /\ UNCHANGED pipelineVars

\* While running a failed requeue is fatal; during the last drain it is counted.
DrainRequeueFailed ==
    /\ Draining
    /\ \E r \in toQueue : RequeueFails(r)
    /\ Happens("qbuf")
    /\ IF At("capture", "drain") THEN Proceed("capture", SignalFailure)
       ELSE UNCHANGED pc
    /\ UNCHANGED <<queue, flags, work, history>>

DrainEmpty ==
    /\ toQueue = {}
    /\ completions = <<>>
    /\ \/ At("capture", "drain")
       \/ At("capture", "drain_until_closed") /\ closed /\ frameCount = 0
    /\ Proceed("capture", <<>>)
    /\ UNCHANGED <<brokerVars, queue, flags, work, faults, history>>

\* V4L2Camera::Capture: the stop test, then poll and what it finds.
CaptureStopped ==
    /\ At("capture", "capture")
    /\ Loop("capture", IF camStop THEN CaptureExit ELSE <<"poll">>)
    /\ UNCHANGED <<brokerVars, queue, flags, work, faults, history>>

PollWake ==
    /\ At("capture", "poll")
    /\ CaptureWake
    /\ Loop("capture", IF camStop THEN CaptureExit ELSE <<"drain", "check">>)
    /\ UNCHANGED <<queue, flags, work, faults, history>>

PollFrame(b) ==
    /\ At("capture", "poll")
    /\ ~wake
    /\ CaptureFrame(b)
    /\ Loop("capture", <<"publish">>)
    /\ UNCHANGED <<queue, flags, work, faults, history>>

PollDropped(b, ok) ==
    /\ At("capture", "poll")
    /\ ~wake
    /\ CaptureDropped(b, ok)
    /\ IF ok THEN UNCHANGED faults ELSE Happens("qbuf")
    /\ Loop("capture", <<"check">>)
    /\ UNCHANGED <<queue, flags, work, history>>

PollTimeout ==
    /\ At("capture", "poll")
    /\ ~wake
    /\ Loop("capture", <<"check">>)
    /\ UNCHANGED <<brokerVars, queue, flags, work, faults, history>>

PollThrows ==
    /\ At("capture", "poll")
    /\ ~wake
    /\ Happens("poll")
    /\ Loop("capture", SignalFailure \o CaptureExit)
    /\ UNCHANGED <<brokerVars, queue, flags, work, history>>

PublishFrame ==
    /\ At("capture", "publish")
    /\ \E r \in hand :
        /\ PublishAccepted(r, {"inference"} \cup IF EnableVideo THEN {"video"} ELSE {})
        /\ dispatch' = <<r>>
    /\ Loop("capture", <<"push_captured">>)
    /\ UNCHANGED <<queue, flags, disposing, job, faults, history>>

PublishRefused ==
    /\ At("capture", "publish")
    /\ \E r \in hand : PublishRejected(r)
    /\ IF closed THEN UNCHANGED faults ELSE Happens("view")
    /\ Loop("capture", <<"requeue_direct">>)
    /\ UNCHANGED <<queue, flags, work, history>>

\* RequeueDirect only counts a failure; a closed broker then ends the loop.
RequeueDirect ==
    /\ At("capture", "requeue_direct")
    /\ \E r \in toQueue :
        \/ RequeueDone(r) /\ UNCHANGED faults
        \/ RequeueFails(r) /\ Happens("qbuf")
    /\ Loop("capture", <<"after_direct">>)
    /\ UNCHANGED <<queue, flags, work, history>>

AfterDirect ==
    /\ At("capture", "after_direct")
    /\ Loop("capture", IF closed THEN CaptureExit ELSE <<"check">>)
    /\ UNCHANGED <<brokerVars, queue, flags, work, faults, history>>

\* The inference lease goes to the capacity-one latest-frame queue.
PushCaptured ==
    LET r == dispatch[1]
        own == Lease(r, "inference")
        videoLease == IF EnableVideo THEN <<Lease(r, "video")>> ELSE <<>>
    IN  /\ At("capture", "push_captured")
        /\ PushLatest("captured", own)
        /\ IF queue["captured"].stopped
           THEN /\ Disposing("capture", <<own>> \o videoLease, CaptureExit)
                /\ dispatch' = <<>>
           ELSE /\ Disposing("capture", Evicted("captured", own),
                             IF EnableVideo THEN <<"push_video">> ELSE <<"check">>)
                /\ dispatch' = IF EnableVideo THEN dispatch ELSE <<>>
        /\ UNCHANGED <<brokerVars, flags, job, faults, history>>

PushVideo ==
    LET own == Lease(dispatch[1], "video")
    IN  /\ At("capture", "push_video")
        /\ PushLatest("video", own)
        /\ Disposing("capture", Evicted("video", own), <<"check">>)
        /\ dispatch' = <<>>
        /\ UNCHANGED <<brokerVars, flags, job, faults, history>>

CaptureLoop ==
    \/ CaptureCheck \/ DrainPop \/ DrainRequeued \/ DrainRequeueFailed
    \/ DrainEmpty \/ CaptureStopped \/ PollWake \/ PollTimeout \/ PollThrows
    \/ \E b \in Buffers : PollFrame(b)
    \/ \E b \in Buffers, ok \in BOOLEAN : PollDropped(b, ok)
    \/ PublishFrame \/ PublishRefused \/ RequeueDirect \/ AfterDirect
    \/ PushCaptured \/ PushVideo

--------------------------------------------------------------------------------
(* PreprocessLoop                                                           *)

PreprocessExit == <<"drain_captured", "stop_prepared">>

\* An input slot first: while this waits, capture keeps replacing the frame.
TakeInputSlot ==
    /\ At("preprocess", "slot")
    /\ \/ /\ CanPop("freeIn")
          /\ Pop("freeIn")
          /\ job' = [job EXCEPT !["preprocess"] = [NoJob EXCEPT !.in = Front("freeIn")]]
          /\ Loop("preprocess", <<"frame">>)
       \/ /\ Drained("freeIn")
          /\ Loop("preprocess", PreprocessExit)
          /\ UNCHANGED <<queue, job>>
    /\ UNCHANGED <<brokerVars, flags, disposing, dispatch, faults, history>>

TakeFrame ==
    /\ At("preprocess", "frame")
    /\ CanPop("captured")
    /\ Pop("captured")
    /\ job' = [job EXCEPT !["preprocess"].frame = Front("captured").key]
    /\ disposing' = [disposing EXCEPT !["preprocess"] = <<Front("captured")>>]
    /\ Loop("preprocess", IF fatal THEN <<"dispose", "return_input", "slot">>
                          ELSE <<"process">>)
    /\ UNCHANGED <<brokerVars, flags, dispatch, faults, history>>

NoMoreFrames ==
    /\ At("preprocess", "frame")
    /\ Drained("captured")
    /\ Loop("preprocess", <<"return_input">> \o PreprocessExit)
    /\ UNCHANGED <<brokerVars, queue, flags, work, faults, history>>

\* The lease is released whatever Process did.  An exception loses the slot.
Preprocess ==
    /\ At("preprocess", "process")
    /\ Release("preprocess", disposing["preprocess"][1], FALSE)
    /\ disposing' = [disposing EXCEPT !["preprocess"] = <<>>]
    /\ \/ /\ Loop("preprocess", <<"push_prepared">>)
          /\ UNCHANGED <<job, faults>>
       \/ /\ Happens("preprocess")
          /\ Loop("preprocess", <<"return_input", "slot">>)
          /\ UNCHANGED job
       \/ /\ Happens("preprocessThrows")
          /\ Loop("preprocess", SignalFailure \o PreprocessExit)
          /\ job' = [job EXCEPT !["preprocess"] = NoJob]
    /\ UNCHANGED <<queue, flags, dispatch, history>>

PushPrepared ==
    /\ At("preprocess", "push_prepared")
    /\ CanPush("prepared")
    /\ TryPush("prepared", job["preprocess"])
    /\ IF queue["prepared"].stopped
       THEN /\ Loop("preprocess", <<"return_input">> \o PreprocessExit)
            /\ UNCHANGED job
       ELSE /\ Loop("preprocess", <<"slot">>)
            /\ job' = [job EXCEPT !["preprocess"] = NoJob]
    /\ UNCHANGED <<brokerVars, flags, disposing, dispatch, faults, history>>

DrainStep == [captured |-> "drain_captured", video |-> "drain_video"]

\* What is left in a stopped queue of leases is released, and then the thread
\* goes on: the last loops of PreprocessLoop and VideoLoop.
DrainLeases(t, q) ==
    /\ At(t, DrainStep[q])
    /\ IF CanPop(q)
       THEN /\ Pop(q)
            /\ disposing' = [disposing EXCEPT ![t] = <<Front(q)>>]
            /\ pc' = [pc EXCEPT ![t] = <<"dispose">> \o @]
       ELSE /\ Proceed(t, <<>>)
            /\ UNCHANGED <<queue, disposing>>
    /\ UNCHANGED <<brokerVars, flags, job, dispatch, faults, history>>

PreprocessLoop ==
    \/ TakeInputSlot \/ TakeFrame \/ NoMoreFrames \/ Preprocess \/ PushPrepared
    \/ DrainLeases("preprocess", "captured")

--------------------------------------------------------------------------------
(* NpuLoop, NpuPostprocessLoop, PostprocessLoop                             *)

NpuExit == IF Split THEN <<"stop_completed">> ELSE <<>>

\* Mutant of ReturnInput: the slot is given back and still used.
ReturnInputKeeps(t) ==
    /\ At(t, "return_input")
    /\ TryPush("freeIn", job[t].in)
    /\ Proceed(t, <<>>)
    /\ UNCHANGED <<brokerVars, flags, work, faults, history>>

ReturnInput(t) ==
    /\ At(t, "return_input")
    /\ TryPush("freeIn", job[t].in)
    /\ job' = [job EXCEPT ![t].in = 0]
    /\ Proceed(t, <<>>)
    /\ UNCHANGED <<brokerVars, flags, disposing, dispatch, faults, history>>

ReturnOutput(t) ==
    /\ At(t, "return_output")
    /\ TryPush("freeOut", job[t].out)
    /\ job' = [job EXCEPT ![t].out = 0]
    /\ Proceed(t, <<>>)
    /\ UNCHANGED <<brokerVars, flags, disposing, dispatch, faults, history>>

TakePrepared ==
    /\ At("npu", "prepared")
    /\ \/ /\ CanPop("prepared")
          /\ Pop("prepared")
          /\ job' = [job EXCEPT !["npu"] = Front("prepared")]
          /\ Loop("npu", <<"output">>)
       \/ /\ Drained("prepared")
          /\ Loop("npu", NpuExit)
          /\ UNCHANGED <<queue, job>>
    /\ UNCHANGED <<brokerVars, flags, disposing, dispatch, faults, history>>

TakeOutputSlot ==
    /\ At("npu", "output")
    /\ \/ /\ CanPop("freeOut")
          /\ Pop("freeOut")
          /\ job' = [job EXCEPT !["npu"].out = Front("freeOut")]
          /\ Loop("npu", <<"run">>)
       \/ /\ Drained("freeOut")
          /\ Loop("npu", <<"return_input">> \o NpuExit)
          /\ UNCHANGED <<queue, job>>
    /\ UNCHANGED <<brokerVars, flags, disposing, dispatch, faults, history>>

\* engine_->Run: the input slot is free again as soon as it returns.
Run ==
    /\ At("npu", "run")
    /\ \/ /\ Loop("npu", <<IF Split THEN "push_completed" ELSE "post">>)
          /\ inferred' = inferred \cup {job["npu"].frame}
          /\ TryPush("freeIn", job["npu"].in)
          /\ job' = [job EXCEPT !["npu"].in = 0]
          /\ UNCHANGED faults
       \/ /\ Happens("run")
          /\ Loop("npu", <<"return_output", "prepared">>)
          /\ TryPush("freeIn", job["npu"].in)
          /\ job' = [job EXCEPT !["npu"].in = 0]
          /\ UNCHANGED inferred
       \/ /\ Happens("runThrows")
          /\ Loop("npu", SignalFailure \o NpuExit)
          /\ job' = [job EXCEPT !["npu"] = NoJob]
          /\ UNCHANGED <<inferred, queue>>
    /\ UNCHANGED <<brokerVars, flags, disposing, dispatch, finished, published,
                   packets, written>>

PushCompleted ==
    /\ At("npu", "push_completed")
    /\ CanPush("completed")
    /\ TryPush("completed", job["npu"])
    /\ IF queue["completed"].stopped
       THEN /\ Loop("npu", <<"return_output">> \o NpuExit)
            /\ UNCHANGED job
       ELSE /\ Loop("npu", <<"prepared">>)
            /\ job' = [job EXCEPT !["npu"] = NoJob]
    /\ UNCHANGED <<brokerVars, flags, disposing, dispatch, faults, history>>

TakeCompleted ==
    /\ At("postprocess", "completed")
    /\ \/ /\ CanPop("completed")
          /\ Pop("completed")
          /\ job' = [job EXCEPT !["postprocess"] = Front("completed")]
          /\ Loop("postprocess", <<"post">>)
       \/ /\ Drained("completed")
          /\ Loop("postprocess", <<>>)
          /\ UNCHANGED <<queue, job>>
    /\ UNCHANGED <<brokerVars, flags, disposing, dispatch, faults, history>>

\* ProcessCompletedFrame: the output slot is free before the result is published.
NextRound(t) == IF t = "npu" THEN "prepared" ELSE "completed"

Postprocess(t) ==
    /\ At(t, "post")
    /\ finished' = finished \cup {job[t].frame}
    /\ TryPush("freeOut", job[t].out)
    /\ \/ /\ Loop(t, <<"publish_result">>)
          /\ job' = [job EXCEPT ![t].out = 0]
          /\ UNCHANGED faults
       \/ /\ Happens("post")
          /\ Loop(t, <<NextRound(t)>>)
          /\ job' = [job EXCEPT ![t] = NoJob]
    /\ UNCHANGED <<brokerVars, flags, disposing, dispatch, inferred, published,
                   packets, written>>

PublishResult(t) ==
    /\ At(t, "publish_result")
    /\ \/ published' = Append(published, job[t].frame) /\ UNCHANGED faults
       \/ Happens("post") /\ UNCHANGED published
    /\ job' = [job EXCEPT ![t] = NoJob]
    /\ Loop(t, <<NextRound(t)>>)
    /\ UNCHANGED <<brokerVars, queue, flags, disposing, dispatch, inferred,
                   finished, packets, written>>

NpuLoop == TakePrepared \/ TakeOutputSlot \/ Run \/ PushCompleted

PostprocessStep(t) == Postprocess(t) \/ PublishResult(t)

--------------------------------------------------------------------------------
(* VideoLoop, EncodedPacketLoop                                             *)

TakeVideoFrame ==
    /\ At("video", "video")
    /\ \/ /\ CanPop("video")
          /\ Pop("video")
          /\ disposing' = [disposing EXCEPT !["video"] = <<Front("video")>>]
          /\ IF fatal \/ videoFailed
             THEN Loop("video", <<"dispose", "video">>) /\ UNCHANGED job
             ELSE /\ Loop("video", <<"encode">>)
                  /\ job' = [job EXCEPT !["video"].frame = Front("video").key]
       \/ /\ Drained("video")
          /\ Loop("video", <<"drain_video">>)
          /\ UNCHANGED <<queue, job, disposing>>
    /\ UNCHANGED <<brokerVars, flags, dispatch, faults, history>>

\* A failed Encode and an exception release the lease and end the branch alike.
Encode ==
    /\ At("video", "encode")
    /\ Release("video", disposing["video"][1], FALSE)
    /\ disposing' = [disposing EXCEPT !["video"] = <<>>]
    /\ \/ /\ Loop("video", <<"push_encoded">>)
          /\ packets' = Append(packets, job["video"].frame)
          /\ UNCHANGED <<job, faults>>
       \/ /\ Happens("encode")
          /\ Loop("video", SignalVideoFailure \o <<"drain_video">>)
          /\ job' = [job EXCEPT !["video"] = NoJob]
          /\ UNCHANGED packets
    /\ UNCHANGED <<queue, flags, dispatch, inferred, finished, published, written>>

PushEncoded ==
    /\ At("video", "push_encoded")
    /\ CanPush("encoded")
    /\ TryPush("encoded", job["video"].frame)
    /\ Loop("video", <<"video">>)
    /\ job' = [job EXCEPT !["video"] = NoJob]
    /\ UNCHANGED <<brokerVars, flags, disposing, dispatch, faults, history>>

VideoLoop ==
    TakeVideoFrame \/ Encode \/ PushEncoded \/ DrainLeases("video", "video")

TakePacket ==
    /\ At("encoded", "packet")
    /\ \/ /\ CanPop("encoded")
          /\ Pop("encoded")
          /\ job' = [job EXCEPT !["encoded"].frame = Front("encoded")]
          /\ Loop("encoded", <<"write">>)
          /\ UNCHANGED faults
       \/ /\ Drained("encoded")
          /\ \/ Loop("encoded", <<>>) /\ UNCHANGED faults
             \/ Happens("write") /\ Loop("encoded", SignalVideoFailure)  \* Flush throws
          /\ UNCHANGED <<queue, job>>
    /\ UNCHANGED <<brokerVars, flags, disposing, dispatch, history>>

WritePacket ==
    /\ At("encoded", "write")
    /\ job' = [job EXCEPT !["encoded"] = NoJob]
    /\ \/ /\ written' = Append(written, job["encoded"].frame)
          /\ Loop("encoded", <<"packet">>)
          /\ UNCHANGED faults
       \/ /\ Happens("write")
          /\ Loop("encoded", SignalVideoFailure)
          /\ UNCHANGED written
    /\ UNCHANGED <<brokerVars, queue, flags, disposing, dispatch, inferred,
                   finished, published, packets>>

EncodedPacketLoop == TakePacket \/ WritePacket

--------------------------------------------------------------------------------
(* Start and Stop                                                           *)

SlotList(n) == [i \in 1..n |-> i]
FirstStep == [capture |-> "check", preprocess |-> "slot", npu |-> "prepared",
              postprocess |-> "completed", video |-> "video", encoded |-> "packet"]

\* The threads Start creates, in the order it creates them.
SpawnOrder ==
    (IF EnableVideo THEN <<"encoded", "video">> ELSE <<>>)
        \o (IF Split THEN <<"postprocess", "npu">> ELSE <<"npu">>)
        \o <<"preprocess", "capture">>

\* The free slots and the codec header are queued, then the camera starts.
StartQueues ==
    queue' = [queue EXCEPT
        !["freeIn"].items = SlotList(Capacity["freeIn"]),
        !["freeOut"].items = SlotList(Capacity["freeOut"]),
        !["encoded"].items = IF EnableVideo THEN <<0>> ELSE <<>>]

StartCamera ==
    /\ At("main", "start")
    /\ StartQueues
    /\ packets' = IF EnableVideo THEN <<0>> ELSE <<>>
    /\ \/ CameraStart /\ Loop("main", <<"spawn">>) /\ UNCHANGED faults
       \/ /\ \E Queued \in SUBSET Buffers : CameraStartFails(Queued)
          /\ Happens("start")
          /\ Loop("main", SignalFailure)  \* Stop does nothing: started_once_
    /\ UNCHANGED <<flags, work, inferred, finished, published, written>>

\* Thread creation may throw after some of the threads.
Spawn(n) ==
    LET created == {SpawnOrder[i] : i \in 1..n}
    IN  /\ At("main", "spawn")
        /\ IF n = Len(SpawnOrder) THEN UNCHANGED faults ELSE Happens("spawn")
        /\ pc' = [t \in Threads |->
                    IF t \in created THEN <<FirstStep[t]>>
                    ELSE IF t # "main" THEN <<>>
                    ELSE IF n = Len(SpawnOrder) THEN <<"run">>
                    ELSE SignalFailure \o StopSteps]
        /\ UNCHANGED <<brokerVars, queue, flags, work, history>>

\* RunRuntime calls Stop on a signal or at the deadline ...
StopRequested ==
    /\ At("main", "run")
    /\ Loop("main", StopSteps)
    /\ UNCHANGED <<brokerVars, queue, flags, work, faults, history>>

\* ... or because running() turned false.
StopAfterFailure == stop /\ StopRequested

Returned(t) == pc[t] = <<>> /\ t \notin notifying

\* A join only waits, so those that follow one another are one step.
Join ==
    /\ \/ At("main", "join_stages") /\ \A t \in Workers \ {"encoded"} : Returned(t)
       \/ At("main", "join_encoded") /\ Returned("encoded")
    /\ Proceed("main", <<>>)
    /\ UNCHANGED <<brokerVars, queue, flags, work, faults, history>>

StopCamera ==
    /\ At("main", "stop_camera")
    /\ graceful' = (~fatal /\ outstanding = 0 /\ frameCount = 0 /\ leaseCount = 0)
    /\ CameraStop
    /\ Proceed("main", <<>>)
    /\ UNCHANGED <<queue, fatal, stop, videoFailed, work, faults, history>>

Supervise ==
    \/ StartCamera
    \/ \E n \in 0..Len(SpawnOrder) : Spawn(n)
    \/ Join
    \/ StopCamera

--------------------------------------------------------------------------------

\* The steps of calls that any thread may be in.
CallStep(t) ==
    \/ SetFatal(t) \/ SetStop(t) \/ SetVideoFailed(t)
    \/ CloseBroker(t) \/ RequestCameraStop(t)
    \/ \E q \in Queues : StopQueue(t, q)
    \/ NotifyCapture(t) \/ Dispose(t)
    \/ ReturnInput(t) \/ ReturnOutput(t)

ThreadStep(t) ==
    \/ CallStep(t)
    \/ t = "main" /\ Supervise
    \/ t = "capture" /\ CaptureLoop
    \/ t = "preprocess" /\ PreprocessLoop
    \/ t = "npu" /\ (NpuLoop \/ PostprocessStep(t))
    \/ t = "postprocess" /\ (TakeCompleted \/ PostprocessStep(t))
    \/ t = "video" /\ VideoLoop
    \/ t = "encoded" /\ EncodedPacketLoop

AllReturned == \A t \in Threads : Returned(t)

Terminated == AllReturned /\ UNCHANGED vars

PipelineNext ==
    \/ \E t \in Threads : ThreadStep(t)
    \/ StopRequested
    \/ Terminated

\* Every thread runs, poll and the stage calls return, and RunRuntime's loop
\* notices a pipeline that no longer runs; a stop request need never come.
Fairness ==
    /\ \A t \in Threads : WF_vars(ThreadStep(t))
    /\ WF_vars(StopAfterFailure)

PipelineSpec == PipelineInit /\ [][PipelineNext]_vars
FairPipelineSpec == PipelineSpec /\ Fairness

--------------------------------------------------------------------------------
(* Properties                                                               *)

\* A completed frame never waits for the poll timeout: while the capture thread
\* is in poll, a queued completion or a stop request has made the eventfd
\* readable, or the thread that completed the frame or asked for the stop is about
\* to do so.
WakeNotLost ==
    pc["capture"] = <<"poll">> =>
        /\ completions # <<>> => wake \/ notifying # {}
        /\ camStop => wake \/ \E t \in Threads : pc[t] # <<>> /\ Head(pc[t]) = "wake"

\* No lease is dropped on the floor or handed to two: every live lease has one
\* place, in one of the two lease queues, with the frame being dispatched or with
\* one thread that will release it.
Places(s, l) == {i \in DOMAIN s : s[i] = l}

DispatchedLeases ==
    IF dispatch = <<>> THEN <<>>
    ELSE (IF At("capture", "push_captured") THEN <<Lease(dispatch[1], "inference")>>
          ELSE <<>>)
         \o (IF EnableVideo THEN <<Lease(dispatch[1], "video")>> ELSE <<>>)

LeasesHeldOnce ==
    \A l \in live :
        1 = Cardinality(Places(queue["captured"].items, l))
            + Cardinality(Places(queue["video"].items, l))
            + Cardinality(Places(DispatchedLeases, l))
            + Cardinality(UNION {{t} \X Places(disposing[t], l) : t \in Threads})

\* Each NPU slot has one holder: a free queue, an item of a stage queue or the
\* thread that works on it.  Never two (a frame would be overwritten while the
\* NPU reads it), and none only after an exception or on a stopped queue.
Holders(s, free, waiting, slotOf(_)) ==
    Cardinality({i \in DOMAIN queue[free].items : queue[free].items[i] = s})
    + Cardinality({i \in DOMAIN queue[waiting].items :
                       slotOf(queue[waiting].items[i]) = s})
    + Cardinality({t \in Threads : slotOf(job[t]) = s})

OneHolder(n, free) ==
    /\ n <= 1
    /\ n = 0 => \/ pc["main"] = <<"start">>
                \/ queue[free].stopped
                \/ faults \cap {"preprocessThrows", "runThrows"} # {}

InputSlotsAccounted ==
    \A s \in InSlots :
        LET slotOf(j) == j.in
        IN  OneHolder(Holders(s, "freeIn", "prepared", slotOf), "freeIn")

\* The output slots, which the postprocess stage gives back.
OutputSlotsAccounted ==
    \A s \in OutSlots :
        LET slotOf(j) == j.out
        IN  OneHolder(Holders(s, "freeOut", "completed", slotOf), "freeOut")

\* Leases, input slots and output slots together.
ResourcesAccounted == LeasesHeldOnce /\ InputSlotsAccounted /\ OutputSlotsAccounted

\* Results reach the sink in capture order and none of them twice, however
\* frames are replaced, dropped and handed from thread to thread.
ResultsInOrder ==
    \A i, j \in DOMAIN published : i < j => published[i] < published[j]

Stopped == pc["main"] = <<>> /\ camera = "released"

\* README: "broker/camera outstanding counts must reach zero".  When Stop is
\* about to stop the camera every lease is released and every buffer is back
\* with the driver, after any failure but a QBUF that itself failed.  And
\* NpuLoop's comment: postprocess drains every completed frame, the final frame
\* of a normal shutdown included.
StopLeavesNothing ==
    /\ pc["main"] = <<"stop_camera">> =>
        live = {} /\ leaseCount = 0 /\ frameCount = 0 /\ Dequeued = lost
    /\ Stopped /\ ~fatal => inferred = finished

\* README: "Encoded media is drained before mux/network finalization": when
\* Stop returns the sink has had every frame that was encoded, in order.
EncodedMediaDrained == Stopped /\ ~fatal /\ ~videoFailed => written = packets

\* SignalVideoFailure's comment: a failure of the video branch does not stop
\* the camera or inference; only Stop does.  A run whose failures are all
\* tolerated ones ends as a graceful shutdown.
VideoFailureIsolated ==
    /\ faults \subseteq {"encode", "write"} =>
        /\ ~fatal
        /\ \A q \in {"captured", "prepared", "completed", "freeIn", "freeOut"} :
               queue[q].stopped => stop
        /\ stop => pc["main"] # <<"run">>
    /\ Stopped /\ faults \subseteq {"encode", "write", "view", "preprocess", "run", "post"}
        => graceful

\* Once begun, Stop returns, whichever failure is being signalled by whom; and
\* a fatal failure alone makes every thread return.
StopBegun == pc["main"] # <<>> /\ Head(pc["main"]) = "stop"
ThreadsReturn == StopBegun \/ fatal ~> AllReturned

\* Every frame taken from the driver goes back to it while the pipeline runs,
\* with a failed video branch too.
BuffersComeBack ==
    \A b \in Buffers :
        bufState[b] = "DEQUEUED" ~> (bufState[b] # "DEQUEUED" \/ b \in lost)
================================================================================
