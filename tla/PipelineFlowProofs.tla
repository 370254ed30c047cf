-------------------------- MODULE PipelineFlowProofs ---------------------------
(***************************************************************************)
(* Proofs about how InferencePipeline wakes its capture thread, drains and *)
(* stops, that a failure of the video branch stays there, and that it      *)
(* keeps the order of what it delivers: the packets the sink has had are,  *)
(* in order, the packets that were encoded, all of them once Stop has      *)
(* returned unless a failure was announced; and the results come in the    *)
(* order in which their frames were captured.  The invariants are again    *)
(* about the lists of steps and what goes with them; Inv of PipelineProofs *)
(* is known to hold.                                                       *)
(***************************************************************************)
EXTENDS PipelineProofs

--------------------------------------------------------------------------------
(* The capture thread is woken                                              *)

\* A stop request is followed by the write to the eventfd at once.
WakeFollows(s) ==
    \A i \in DOMAIN s : s[i] = "requestStop" => i + 1 \in DOMAIN s /\ s[i + 1] = "wake"

\* A list without its first step is still one in which a stop request is followed by
\* the write to the eventfd.
LEMMA TailFollows ==
    ASSUME NEW s \in Seq(Steps), s # <<>>, WakeFollows(s)
    PROVE  /\ WakeFollows(Tail(s))
           /\ Head(s) = "requestStop" => Tail(s) # <<>> /\ Head(Tail(s)) = "wake"
<1>1. ASSUME NEW i \in 1..(Len(s) - 1), Tail(s)[i] = "requestStop"
      PROVE  i + 1 \in 1..(Len(s) - 1) /\ Tail(s)[i + 1] = "wake"
  <2>1. s[i + 1] = "requestStop" /\ i + 1 \in 1..Len(s)  BY <1>1, TailSteps
  <2>2. (i + 1) + 1 \in DOMAIN s /\ s[(i + 1) + 1] = "wake"
    BY <2>1, TailSteps DEF WakeFollows
  <2>3. i + 1 \in 1..(Len(s) - 1)  BY <2>2, TailSteps
  <2> QED BY <2>2, <2>3, TailSteps
<1>2. ASSUME Head(s) = "requestStop" PROVE Tail(s) # <<>> /\ Head(Tail(s)) = "wake"
  <2>1. 1 \in DOMAIN s /\ s[1] = "requestStop"  BY <1>2, TailSteps
  <2>2. 2 \in DOMAIN s /\ s[2] = "wake"  BY <2>1 DEF WakeFollows
  <2>3. Len(Tail(s)) # 0 /\ Tail(s) \in Seq(Steps) /\ Tail(s)[1] = "wake"
    BY <2>2, TailSteps
  <2> QED BY <2>3, TailSteps
<1> QED BY <1>1, <1>2, TailSteps DEF WakeFollows

\* So are two such lists put together.
LEMMA ConcatFollows ==
    ASSUME NEW a \in Seq(Steps), NEW b \in Seq(Steps), WakeFollows(a), WakeFollows(b)
    PROVE  WakeFollows(a \o b)
<1> SUFFICES ASSUME NEW i \in DOMAIN (a \o b), (a \o b)[i] = "requestStop"
             PROVE  i + 1 \in DOMAIN (a \o b) /\ (a \o b)[i + 1] = "wake"
  BY DEF WakeFollows
<1>1. CASE i \in DOMAIN a
  <2>1. i + 1 \in DOMAIN a /\ a[i + 1] = "wake"  BY <1>1, ConcatSteps DEF WakeFollows
  <2> QED BY <2>1, ConcatSteps
<1>2. CASE i \notin DOMAIN a
  <2> DEFINE j == i - Len(a)
  <2>1. j \in DOMAIN b /\ i = Len(a) + j  BY <1>2, ConcatSteps
  <2>2. b[j] = "requestStop"  BY <2>1, ConcatSteps
  <2>3. j + 1 \in DOMAIN b /\ b[j + 1] = "wake"  BY <2>1, <2>2 DEF WakeFollows
  <2>4. i + 1 = Len(a) + (j + 1)  BY <2>1, ConcatSteps
  <2>5. (a \o b)[Len(a) + (j + 1)] = b[j + 1] /\ i + 1 \in DOMAIN (a \o b)
    BY <2>1, <2>3, ConcatSteps
  <2> QED BY <2>3, <2>4, <2>5
<1> QED BY <1>1, <1>2

\* A list without stop requests.
LEMMA NoRequest == \A s : ~Has(s, {"requestStop"}) => WakeFollows(s)
  BY DEF Has, WakeFollows

\* Every list of the code keeps the two together.
LEMMA FollowLists ==
    /\ \A t \in Threads : \A p \in Programs[t] : WakeFollows(p)
    /\ \A t \in Workers : WakeFollows(<<FirstStep[t]>>)
    /\ WakeFollows(<<>>) /\ WakeFollows(<<"run">>) /\ WakeFollows(SignalFailure)
    /\ WakeFollows(StopSteps) /\ WakeFollows(SignalFailure \o StopSteps)
    /\ WakeFollows(<<"dispose">>)
<1> USE Lists
<1> DEFINE R == {"requestStop"}
<1>1. WakeFollows(SignalFailure) /\ WakeFollows(StopSteps)
  BY DEF WakeFollows, SignalFailure, StopSteps
<1>2. /\ WakeFollows(CaptureExit) /\ WakeFollows(PreprocessExit)
      /\ WakeFollows(SignalVideoFailure) /\ WakeFollows(NpuExit)
  BY DEF WakeFollows, CaptureExit, PreprocessExit, SignalVideoFailure, NpuExit
<1>3. \A x : x # "requestStop" => WakeFollows(<<x>>)  BY DEF WakeFollows
<1>4. \A x, y : x # "requestStop" /\ y # "requestStop" => WakeFollows(<<x, y>>)
  BY DEF WakeFollows
<1>5. \A t \in Workers : FirstStep[t] # "requestStop"  BY DEF Workers, FirstStep
<1>6. WakeFollows(<<>>)  BY DEF WakeFollows
<1>7. /\ <<"dispose">> \in Seq(Steps) /\ <<"check">> \in Seq(Steps)
      /\ <<"push_video">> \in Seq(Steps) /\ <<"return_input">> \in Seq(Steps)
      /\ <<"return_output">> \in Seq(Steps) /\ <<"drain_video">> \in Seq(Steps)
  BY DEF Steps
<1>8. \A p \in Programs["main"] : WakeFollows(p)  BY <1>1, <1>3 DEF Programs
<1>9. \A p \in Programs["capture"] : WakeFollows(p)
  <2>1. /\ WakeFollows(SignalFailure \o CaptureExit)
        /\ WakeFollows(<<"dispose">> \o CaptureExit)
        /\ WakeFollows(<<"dispose">> \o <<"push_video">>)
        /\ WakeFollows(<<"dispose">> \o <<"check">>)
    BY <1>1, <1>2, <1>3, <1>7, ConcatFollows
  <2> QED BY <1>2, <1>3, <1>4, <2>1 DEF Programs
<1>10. \A p \in Programs["preprocess"] : WakeFollows(p)
  <2>1. /\ WakeFollows(SignalFailure \o PreprocessExit)
        /\ WakeFollows(<<"return_input">> \o PreprocessExit)
    BY <1>1, <1>2, <1>3, <1>7, ConcatFollows
  <2>2. WakeFollows(<<"dispose", "return_input", "slot">>)  BY DEF WakeFollows
  <2> QED BY <1>2, <1>3, <1>4, <2>1, <2>2 DEF Programs
<1>11. \A p \in Programs["npu"] : WakeFollows(p)
  <2>1. /\ WakeFollows(SignalFailure \o NpuExit)
        /\ WakeFollows(<<"return_input">> \o NpuExit)
        /\ WakeFollows(<<"return_output">> \o NpuExit)
    BY <1>1, <1>2, <1>3, <1>7, ConcatFollows
  <2> QED BY <1>2, <1>3, <1>4, <2>1 DEF Programs
<1>12. \A p \in Programs["postprocess"] : WakeFollows(p)  BY <1>3, <1>6 DEF Programs
<1>13. \A p \in Programs["video"] : WakeFollows(p)
  <2>1. WakeFollows(SignalVideoFailure \o <<"drain_video">>)
    BY <1>2, <1>3, <1>7, ConcatFollows
  <2> QED BY <1>3, <1>4, <2>1 DEF Programs
<1>14. \A p \in Programs["encoded"] : WakeFollows(p)  BY <1>2, <1>3, <1>6 DEF Programs
<1>15. WakeFollows(SignalFailure \o StopSteps)  BY <1>1, ConcatFollows
<1> QED BY <1>1, <1>3, <1>5, <1>6, <1>8, <1>9, <1>10, <1>11, <1>12, <1>13, <1>14, <1>15,
           PipelineThreads DEF Workers

\* So is what a move makes of a list.
LEMMA FollowsStep ==
    ASSUME PcType, NEW t \in Threads, Moves(t), \A u \in Threads : WakeFollows(pc[u])
    PROVE  \A u \in Threads : WakeFollows(pc'[u])
<1> USE DEF PcType
<1>1. CASE Proceeds(t)  BY <1>1, TailFollows DEF Proceeds
<1>2. CASE Restarts(t)  BY <1>2, FollowLists DEF Restarts
<1>3. CASE t = "capture" /\ DrainFails
  <2>1. pc[t] # <<>> /\ pc' = [pc EXCEPT ![t] = SignalFailure \o Tail(pc[t])]
    BY <1>3 DEF DrainFails, Draining, At
  <2>2. WakeFollows(Tail(pc[t])) /\ Tail(pc[t]) \in Seq(Steps)
    BY <2>1, TailFollows, TailSteps
  <2>3. SignalFailure \in Seq(Steps) /\ WakeFollows(SignalFailure)
    BY Lists, FollowLists
  <2>4. WakeFollows(SignalFailure \o Tail(pc[t]))  BY <2>2, <2>3, ConcatFollows
  <2> QED BY <2>1, <2>4
<1>4. ASSUME NEW q \in {"captured", "video"}, DrainsLease(t, q)
      PROVE  \A u \in Threads : WakeFollows(pc'[u])
  <2>1. <<"dispose">> \in Seq(Steps) /\ WakeFollows(<<"dispose">>)
    BY FollowLists DEF Steps
  <2>2. WakeFollows(<<"dispose">> \o pc[t])  BY <2>1, ConcatFollows
  <2> QED BY <1>4, <2>2 DEF DrainsLease
<1>5. CASE Spawns  BY <1>5, SpawnEffect, MainAndWorkers, FollowLists
<1> QED BY <1>1, <1>2, <1>3, <1>4, <1>5 DEF Moves

\* Somebody has made the eventfd readable, or is about to.
Woken == completions = <<>> \/ wake \/ notifying # {}
StopWakes == wake \/ \E t \in Threads : pc[t] # <<>> /\ Head(pc[t]) = "wake"

\* While the capture thread waits in poll a completion or a stop has woken it; on
\* its way to poll it drains the completions, or a stop keeps it from getting there.
WakeInv ==
    /\ \A t \in Threads : WakeFollows(pc[t])
    /\ First(pc["capture"], {"poll"})
    /\ pc["capture"] = <<"poll">> => Woken /\ (camStop => StopWakes)
    /\ camStop \/ Woken \/ Before(pc["capture"], {"capture"}, {"drain", "requestStop"})

\* A completion that is queued comes with a notification.
LEMMA WokenKept ==
    ASSUME BrokerTypeOK, [BrokerNext]_brokerVars, camera # "released"
    PROVE  /\ completions = <<>> => completions' = <<>> \/ notifying' # {}
           /\ notifying # {} => notifying' # {} \/ wake'
<1> USE DEF brokerVars, cameraVars, coreVars, leaseVars, handVars, ghostVars
<1>1. CASE \E t \in Threads, l \in live, kept \in BOOLEAN : Release(t, l, kept)
  BY <1>1 DEF Release, CoreRelease
<1>2. CASE \E t \in Threads : Notify(t)  BY <1>2 DEF Notify
<1>3. CASE \E t \in Threads : Close(t)  BY <1>3 DEF Close
<1>4. CASE HandsFree /\ PopRequeue  BY <1>4 DEF PopRequeue
<1>5. CASE ~(\/ (\E t \in Threads, l \in live, kept \in BOOLEAN : Release(t, l, kept))
             \/ (\E t \in Threads : Notify(t)) \/ (\E t \in Threads : Close(t))
             \/ (HandsFree /\ PopRequeue))
  BY <1>5 DEF BrokerNext, CameraStart, CameraStartFails, RequestStop, Wake, CaptureWake,
     CaptureFrame, CaptureDropped, PublishAccepted, PublishRejected, ReleaseAgain,
     RequeueFails, RequeueDone, CameraStop
<1> QED BY <1>1, <1>2, <1>3, <1>4, <1>5

\* Who reads the eventfd, and who sets and clears the stop flag.
LEMMA WakeReaders ==
    ASSUME NEW t \in Threads, ThreadStep(t)
    PROVE  \/ UNCHANGED <<wake, camStop>>
           \/ At(t, "requestStop") /\ camStop' = TRUE /\ UNCHANGED wake
           \/ wake' = (wake \/ camera # "released") /\ UNCHANGED camStop
           \/ t = "capture" /\ PollWake
           \/ t = "main" /\ (StartCamera \/ StopCamera)
<1> USE DEF brokerVars, cameraVars, pipelineVars
<1>1. CASE CallStep(t)
  BY <1>1 DEF CallStep, SetFatal, SetStop, SetVideoFailed, CloseBroker, Close,
     RequestStop, Wake, RequestCameraStop, StopQueue, NotifyCapture, Notify, Dispose,
     Release, ReturnInput, ReturnOutput
<1>2. CASE t = "main" /\ Supervise  BY <1>2 DEF Supervise, Spawn, Join
<1>3. CASE t = "capture" /\ CaptureLoop
  BY <1>3 DEF CaptureLoop, CaptureCheck, DrainPop, DrainRequeued, DrainRequeueFailed,
     DrainEmpty, CaptureStopped, PollWake, CaptureWake, PollTimeout, PollThrows,
     PollFrame, PollDropped, PublishFrame, PublishRefused, RequeueDirect, AfterDirect,
     PushCaptured, PushVideo, PopRequeue, RequeueDone, RequeueFails, CaptureFrame,
     CaptureDropped, PublishAccepted, PublishRejected
<1>4. CASE t = "preprocess" /\ PreprocessLoop
  BY <1>4 DEF PreprocessLoop, TakeInputSlot, TakeFrame, NoMoreFrames, Preprocess,
     PushPrepared, DrainLeases, Release
<1>5. CASE (t = "npu" \/ t = "postprocess") /\ PostprocessStep(t)
  BY <1>5 DEF PostprocessStep, Postprocess, PublishResult
<1>6. CASE \/ t = "npu" /\ NpuLoop
           \/ t = "postprocess" /\ TakeCompleted
  BY <1>6 DEF NpuLoop, TakePrepared, TakeOutputSlot, Run, PushCompleted, TakeCompleted
<1>7. CASE t = "video" /\ VideoLoop
  BY <1>7 DEF VideoLoop, TakeVideoFrame, Encode, PushEncoded, DrainLeases, Release
<1>8. CASE t = "encoded" /\ EncodedPacketLoop
  BY <1>8 DEF EncodedPacketLoop, TakePacket, WritePacket
<1> QED BY <1>1, <1>2, <1>3, <1>4, <1>5, <1>6, <1>7, <1>8 DEF ThreadStep

\* Before the threads are created and after they have been joined the capture
\* thread has nothing to do.
LEMMA CaptureIdle ==
    ASSUME Base, StartCamera \/ StopCamera
    PROVE  pc["capture"] = <<>> /\ pc'["capture"] = <<>>
<1> USE MainAndWorkers DEF Base, Control
<1>1. pc["capture"] = <<>>
  <2>1. CASE StartCamera
    <3>1. pc["main"] # <<>> /\ Head(pc["main"]) = "start"  BY <2>1 DEF StartCamera, At
    <3>2. Has(pc["main"], {"start", "spawn"})  BY <3>1, TailSteps DEF PcType, Has
    <3> QED BY <3>2 DEF Fresh
  <2>2. CASE StopCamera  BY <2>2, AllJoined DEF StopCamera, Returned
  <2> QED BY <2>1, <2>2
<1> QED BY <1>1 DEF StartCamera, StopCamera, Loop, Proceed, PcType

\* The stop request and the notification reach poll.
LEMMA PollLists ==
    /\ \A p \in Programs["capture"] : First(p, {"poll"})
    /\ ~Has(CaptureExit, {"poll"}) /\ ~Has(SignalFailure \o CaptureExit, {"poll"})
    /\ ~Has(<<"dispose">> \o CaptureExit, {"poll"})
    /\ ~Has(<<"dispose">> \o <<"push_video">>, {"poll"})
    /\ ~Has(<<"dispose">> \o <<"check">>, {"poll"})
    /\ ~Has(SignalFailure, {"poll"}) /\ ~Has(SignalFailure, {"capture"})
    /\ Has(SignalFailure, {"drain", "requestStop"})
    /\ \A p \in Programs["capture"] :
           Before(p, {"capture"}, {"drain", "requestStop"})
<1> USE Lists
<1>1. /\ ~Has(SignalFailure, {"poll"}) /\ ~Has(SignalFailure, {"capture"})
      /\ ~Has(CaptureExit, {"poll"}) /\ ~Has(CaptureExit, {"capture"})
  BY DEF Has, SignalFailure, CaptureExit
<1>2. Has(SignalFailure, {"drain", "requestStop"})  BY DEF Has, SignalFailure
<1>3. /\ <<"dispose">> \in Seq(Steps) /\ <<"check">> \in Seq(Steps)
      /\ <<"push_video">> \in Seq(Steps)
  BY DEF Steps
<1>4. \A S \in {{"poll"}, {"capture"}} :
          /\ ~Has(<<"dispose">>, S) /\ ~Has(<<"check">>, S) /\ ~Has(<<"push_video">>, S)
  BY ShortLists
<1>5. \A S \in {{"poll"}, {"capture"}} :
          /\ ~Has(SignalFailure \o CaptureExit, S)
          /\ ~Has(<<"dispose">> \o CaptureExit, S)
          /\ ~Has(<<"dispose">> \o <<"push_video">>, S)
          /\ ~Has(<<"dispose">> \o <<"check">>, S)
  <2> SUFFICES ASSUME NEW S \in {{"poll"}, {"capture"}}
               PROVE  /\ ~Has(SignalFailure \o CaptureExit, S)
                      /\ ~Has(<<"dispose">> \o CaptureExit, S)
                      /\ ~Has(<<"dispose">> \o <<"push_video">>, S)
                      /\ ~Has(<<"dispose">> \o <<"check">>, S)
    OBVIOUS
  <2>1. ~Has(SignalFailure, S) /\ ~Has(CaptureExit, S)  BY <1>1
  <2> QED BY <1>3, <1>4, <2>1, ConcatHas
<1>6. \A S, T, p : ~Has(p, S) => First(p, S) /\ Before(p, S, T)
  BY DEF Has, First, Before
<1>7. \A p \in Programs["capture"] : First(p, {"poll"})
  BY <1>1, <1>5, <1>6, ShortLists DEF Programs
<1>8. Before(<<"drain", "capture">>, {"capture"}, {"drain", "requestStop"})
  BY DEF Before
<1>9. \A p \in Programs["capture"] : Before(p, {"capture"}, {"drain", "requestStop"})
  <2>1. \A p \in Programs["capture"] \ {<<"drain", "capture">>} : ~Has(p, {"capture"})
    <3>1. \A p \in {<<"drain", "check">>, <<"poll">>, <<"publish">>, <<"check">>,
                     <<"requeue_direct">>, <<"after_direct">>, <<"push_captured">>,
                     <<"push_video">>} : ~Has(p, {"capture"})
      BY ShortLists
    <3>2. /\ ~Has(SignalFailure \o CaptureExit, {"capture"})
          /\ ~Has(<<"dispose">> \o CaptureExit, {"capture"})
          /\ ~Has(<<"dispose">> \o <<"push_video">>, {"capture"})
          /\ ~Has(<<"dispose">> \o <<"check">>, {"capture"})
      BY <1>5
    <3> QED BY <1>1, <3>1, <3>2 DEF Programs
  <2> QED BY <1>6, <1>8, <2>1
<1> QED BY <1>1, <1>2, <1>5, <1>7, <1>9

\* Nothing is put in front of poll; only its own test of the stop flag gets there.
LEMMA PollFirst ==
    ASSUME PcType, First(pc["capture"], {"poll"}), NEW t \in Threads, ThreadStep(t)
    PROVE  /\ First(pc'["capture"], {"poll"})
           /\ pc'["capture"] = <<"poll">> =>
                  \/ pc'["capture"] = pc["capture"]
                  \/ t = "capture" /\ CaptureStopped /\ ~camStop
<1> USE MainAndWorkers DEF PcType
<1> DEFINE s == pc["capture"]
<1>0. s \in Seq(Steps) /\ Has(<<"poll">>, {"poll"})  BY DEF Has
<1>1. CASE s' = s  BY <1>1
<1>2. CASE t = "main" /\ Spawns
  <2>1. s' = <<>> \/ s' = <<"check">>  BY <1>2, SpawnEffect DEF FirstStep
  <2>2. ~Has(s', {"poll"}) /\ First(s', {"poll"})  BY <2>1, ShortLists
  <2> QED BY <1>0, <2>2
<1>3. CASE t = "capture" /\ Proceeds(t)
  <2>1. s # <<>> /\ s' = Tail(s)  BY <1>3 DEF Proceeds
  <2>2. ~Has(s', {"poll"})  BY <1>0, <2>1, TailFirst
  <2>3. First(s', {"poll"})  BY <2>2 DEF Has, First
  <2> QED BY <1>0, <2>2, <2>3
<1>4. CASE t = "capture" /\ DrainFails
  <2>1. s # <<>> /\ s' = SignalFailure \o Tail(s)  BY <1>4 DEF DrainFails, Draining, At
  <2>2. ~Has(Tail(s), {"poll"}) /\ Tail(s) \in Seq(Steps)
    BY <1>0, <2>1, TailFirst, TailSteps
  <2>3. SignalFailure \in Seq(Steps) /\ ~Has(SignalFailure, {"poll"})
    BY Lists, PollLists
  <2>4. ~Has(SignalFailure \o Tail(s), {"poll"})  BY <2>2, <2>3, ConcatHas
  <2>5. First(s', {"poll"})  BY <2>1, <2>4 DEF Has, First
  <2> QED BY <1>0, <2>1, <2>4, <2>5
<1>5. CASE t = "capture" /\ Restarts(t)
  <2>1. First(s', {"poll"})  BY <1>5, PollLists DEF Restarts
  <2>2. ASSUME s' = <<"poll">>, s' # s PROVE CaptureStopped /\ ~camStop
    <3>1. ~CallStep(t)
      <4> SUFFICES ASSUME CallStep(t) PROVE FALSE  OBVIOUS
      <4>1. s' = Tail(s) /\ s # <<>>  BY <1>5, <2>2, CallMoves DEF Proceeds
      <4> QED BY <1>0, <2>2, <4>1, TailFirst
    <3>2. CaptureLoop  BY <1>5, <3>1 DEF ThreadStep
    <3>3. /\ CaptureExit # <<"poll">> /\ SignalFailure \o CaptureExit # <<"poll">>
          /\ <<"dispose">> \o CaptureExit # <<"poll">>
          /\ <<"dispose">> \o <<"push_video">> # <<"poll">>
          /\ <<"dispose">> \o <<"check">> # <<"poll">>
      BY <1>0, PollLists
    <3>4. /\ <<"drain", "capture">> # <<"poll">> /\ <<"drain", "check">> # <<"poll">>
          /\ <<"publish">> # <<"poll">> /\ <<"check">> # <<"poll">>
          /\ <<"requeue_direct">> # <<"poll">> /\ <<"after_direct">> # <<"poll">>
          /\ <<"push_captured">> # <<"poll">> /\ <<"push_video">> # <<"poll">>
      BY <1>0, ShortLists
    <3>5. s # <<>> /\ Tail(s) # <<"poll">>
      <4>1. s # <<>>  BY <1>5 DEF Restarts
      <4>2. ~Has(Tail(s), {"poll"})  BY <1>0, <4>1, TailFirst
      <4> QED BY <1>0, <4>1, <4>2
    <3>6. ~PushCaptured /\ ~PushVideo
      <4>1. \A leases, steps : Disposing("capture", leases, steps) =>
                s' = steps \/ s' = <<"dispose">> \o steps
        BY DEF Disposing, Loop
      <4>2. ~PushCaptured
        <5> SUFFICES ASSUME PushCaptured PROVE FALSE  OBVIOUS
        <5>1. \E leases : \/ Disposing("capture", leases, CaptureExit)
                          \/ Disposing("capture", leases, <<"push_video">>)
                          \/ Disposing("capture", leases, <<"check">>)
          BY DEF PushCaptured
        <5> QED BY <2>2, <3>3, <3>4, <4>1, <5>1
      <4>3. ~PushVideo
        <5> SUFFICES ASSUME PushVideo PROVE FALSE  OBVIOUS
        <5>1. \E leases : Disposing("capture", leases, <<"check">>)  BY DEF PushVideo
        <5> QED BY <2>2, <3>3, <3>4, <4>1, <5>1
      <4> QED BY <4>2, <4>3
    <3>7. ~DrainEmpty /\ ~DrainRequeueFailed /\ ~DrainPop /\ ~DrainRequeued
      <4>1. ~DrainEmpty
        <5>1. DrainEmpty => s' = <<>> \o Tail(s)  BY DEF DrainEmpty, Proceed
        <5>2. <<>> \o Tail(s) = Tail(s)  BY <1>0, <3>5, TailSteps, EmptyFirst
        <5> QED BY <2>2, <3>5, <5>1, <5>2
      <4>2. ~DrainPop /\ ~DrainRequeued
        BY <2>2 DEF DrainPop, DrainRequeued, pipelineVars
      <4>3. ~DrainRequeueFailed
        <5>1. DrainRequeueFailed => s' = SignalFailure \o Tail(s) \/ s' = s
          BY DEF DrainRequeueFailed, Proceed
        <5>2. ~Has(Tail(s), {"poll"}) /\ Tail(s) \in Seq(Steps)
          BY <1>0, <3>5, TailFirst, TailSteps
        <5>3. SignalFailure \in Seq(Steps) /\ ~Has(SignalFailure, {"poll"})
          BY Lists, PollLists
        <5>4. ~Has(SignalFailure \o Tail(s), {"poll"})  BY <5>2, <5>3, ConcatHas
        <5> QED BY <1>0, <2>2, <5>1, <5>4
      <4> QED BY <4>1, <4>2, <4>3
    <3>8. /\ ~CaptureCheck /\ ~PollWake /\ ~PollTimeout /\ ~PollThrows
          /\ ~(\E b \in Buffers : PollFrame(b))
          /\ ~(\E b \in Buffers, ok \in BOOLEAN : PollDropped(b, ok))
          /\ ~PublishFrame /\ ~PublishRefused /\ ~RequeueDirect /\ ~AfterDirect
      BY <2>2, <3>3, <3>4 DEF CaptureCheck, PollWake, PollTimeout, PollThrows, PollFrame,
         PollDropped, PublishFrame, PublishRefused, RequeueDirect, AfterDirect, Loop
    <3>9. CaptureStopped  BY <3>2, <3>6, <3>7, <3>8 DEF CaptureLoop
    <3>10. camStop => s' = CaptureExit  BY <3>9 DEF CaptureStopped, Loop
    <3> QED BY <2>2, <3>3, <3>9, <3>10
  <2> QED BY <1>5, <2>1, <2>2
<1>6. t = "capture" => s' = s \/ Proceeds(t) \/ DrainFails \/ Restarts(t)
  BY ThreadMoves DEF Moves
<1> QED BY <1>1, <1>2, <1>3, <1>4, <1>5, <1>6, OthersWait

\* A failure signalled first: its steps come before the rest of the list.
LEMMA SignalFirst ==
    ASSUME NEW s \in Seq(Steps), NEW S, NEW T, Before(SignalFailure, S, T),
           Has(SignalFailure, T)
    PROVE  Before(SignalFailure \o s, S, T)
<1>1. SignalFailure \in Seq(Steps)  BY Lists
<1>2. Before(s, S, T) \/ Has(SignalFailure, T)  OBVIOUS
<1> QED BY <1>1, <1>2, ConcatBefore

\* After a step of the capture thread the capture step is preceded by a drain or a
\* stop request again, unless a drain or a stop request has just been done.
LEMMA CaptureBefore ==
    ASSUME PcType, NEW t \in Threads, ThreadStep(t),
           Before(pc["capture"], {"capture"}, {"drain", "requestStop"})
    PROVE  \/ Before(pc'["capture"], {"capture"}, {"drain", "requestStop"})
           \/ t = "capture" /\ DrainEmpty
           \/ t = "capture" /\ RequestCameraStop(t) /\ camStop'
<1> USE MainAndWorkers DEF PcType
<1> DEFINE s == pc["capture"]
           S == {"capture"}
           T == {"drain", "requestStop"}
<1>0. s \in Seq(Steps)  OBVIOUS
<1>1. CASE s' = s  BY <1>1
<1>2. CASE t = "main" /\ Spawns
  <2>1. s' = <<>> \/ s' = <<"check">>  BY <1>2, SpawnEffect DEF FirstStep
  <2>2. ~Has(s', S)  BY <2>1, ShortLists
  <2> QED BY <2>2 DEF Has, Before
<1>3. CASE t = "capture" /\ Proceeds(t)
  <2>1. s # <<>> /\ s' = Tail(s) /\ t \notin notifying  BY <1>3 DEF Proceeds
  <2>2. CASE Head(s) \notin T  BY <1>0, <2>1, <2>2, TailBefore
  <2>3. CASE Head(s) = "drain"
    <3>1. ~CallStep(t)  BY <1>3, <2>1, <2>3, CallHeads DEF CallSteps
    <3>2. CaptureLoop  BY <1>3, <3>1 DEF ThreadStep
    <3>3. CASE Restarts("capture")  BY <3>3, PollLists DEF Restarts
    <3>4. CASE DrainRequeueFailed /\ (DrainFails \/ (Draining /\ pc' = pc))
      <4>1. CASE pc' = pc  BY <4>1
      <4>2. CASE DrainFails
        <5>1. s' = SignalFailure \o Tail(s)  BY <4>2 DEF DrainFails
        <5>2. Before(SignalFailure, S, T) /\ Has(SignalFailure, T)
          BY PollLists DEF Has, Before
        <5>3. SignalFailure \in Seq(Steps) /\ Tail(s) \in Seq(Steps)
          BY <1>0, <2>1, TailSteps, Lists
        <5> QED BY <5>1, <5>2, <5>3, SignalFirst
      <4> QED BY <3>4, <4>1, <4>2
    <3>5. CASE Draining /\ (DrainPop \/ DrainRequeued) /\ pc' = pc  BY <3>5
    <3> QED BY <1>3, <3>2, <3>3, <3>4, <3>5, CaptureDrains
  <2>4. CASE Head(s) = "requestStop"
    <3>1. ~CaptureLoop
      BY <1>3, <2>1, <2>4 DEF CaptureLoop, CaptureCheck, DrainPop, DrainRequeued,
         DrainRequeueFailed, Draining, DrainEmpty, CaptureStopped, PollWake, PollTimeout,
         PollThrows, PollFrame, PollDropped, PublishFrame, PublishRefused, RequeueDirect,
         AfterDirect, PushCaptured, PushVideo, At
    <3>2. CallStep(t)  BY <1>3, <3>1 DEF ThreadStep
    <3>3. ~(\E q \in Queues : StopQueue(t, q))
      BY <1>3, <2>4 DEF StopQueue, StopStep, At, Queues
    <3>4. ~NotifyCapture(t)  BY <2>1 DEF NotifyCapture, Notify
    <3>5. RequestCameraStop(t)
      BY <1>3, <2>4, <3>2, <3>3, <3>4 DEF CallStep, SetFatal, SetStop, SetVideoFailed,
         CloseBroker, Dispose, ReturnInput, ReturnOutput, At
    <3>6. camStop'  BY <1>3, <2>4, <3>5 DEF RequestCameraStop, At, RequestStop
    <3> QED BY <1>3, <3>5, <3>6
  <2> QED BY <2>2, <2>3, <2>4
<1>4. CASE t = "capture" /\ DrainFails
  <2>1. s # <<>> /\ s' = SignalFailure \o Tail(s)  BY <1>4 DEF DrainFails, Draining, At
  <2>2. Before(SignalFailure, S, T) /\ Has(SignalFailure, T)
    BY PollLists DEF Has, Before
  <2>3. SignalFailure \in Seq(Steps) /\ Tail(s) \in Seq(Steps)
    BY <1>0, <2>1, TailSteps, Lists
  <2> QED BY <2>1, <2>2, <2>3, SignalFirst
<1>5. CASE t = "capture" /\ Restarts(t)  BY <1>5, PollLists DEF Restarts
<1>6. t = "capture" => s' = s \/ Proceeds(t) \/ DrainFails \/ Restarts(t)
  BY ThreadMoves DEF Moves
<1> QED BY <1>1, <1>2, <1>3, <1>4, <1>5, <1>6, OthersWait

\* The two steps of a stop request are taken from the list as they stand there.
LEMMA RequestTaken ==
    ASSUME PcType, NEW t \in Threads, ThreadStep(t), pc[t] # <<>>,
           Head(pc[t]) \in {"requestStop", "wake"}
    PROVE  \/ NotifyCapture(t) /\ pc' = pc
           \/ RequestCameraStop(t) /\ pc'[t] = Tail(pc[t])
<1> USE DEF PcType
<1>1. CallStep(t)
  BY DEF ThreadStep, Supervise, StartCamera, Spawn, Join, StopCamera,
     CaptureLoop, CaptureCheck, DrainPop, DrainRequeued, DrainRequeueFailed, Draining,
     DrainEmpty, CaptureStopped, PollWake, PollTimeout, PollThrows, PollFrame, PollDropped,
     PublishFrame, PublishRefused, RequeueDirect, AfterDirect, PushCaptured, PushVideo,
     PreprocessLoop, TakeInputSlot, TakeFrame, NoMoreFrames, Preprocess, PushPrepared,
     DrainLeases, DrainStep, NpuLoop, TakePrepared, TakeOutputSlot, Run, PushCompleted,
     PostprocessStep, Postprocess, PublishResult, TakeCompleted, VideoLoop, TakeVideoFrame,
     Encode, PushEncoded, EncodedPacketLoop, TakePacket, WritePacket, At
<1>2. CASE NotifyCapture(t)  BY <1>2 DEF NotifyCapture, pipelineVars
<1>3. CASE ~NotifyCapture(t)
  <2>1. ~(\E q \in Queues : StopQueue(t, q))  BY DEF StopQueue, StopStep, At, Queues
  <2>2. RequestCameraStop(t)
    BY <1>1, <1>3, <2>1 DEF CallStep, SetFatal, SetStop, SetVideoFailed, CloseBroker,
       Dispose, ReturnInput, ReturnOutput, At
  <2>3. pc'[t] = <<>> \o Tail(pc[t])  BY <2>2 DEF RequestCameraStop, Proceed
  <2>4. <<>> \o Tail(pc[t]) = Tail(pc[t])  BY TailSteps, EmptyFirst
  <2> QED BY <2>2, <2>3, <2>4
<1> QED BY <1>2, <1>3

\* The list with which the capture thread leaves poll when it was woken.
LEMMA PollWakeLeaves ==
    ASSUME PcType, PollWake
    PROVE  /\ Before(pc'["capture"], {"capture"}, {"drain", "requestStop"})
           /\ pc'["capture"] # <<"poll">>
<1>1. pc'["capture"] = CaptureExit \/ pc'["capture"] = <<"drain", "check">>
  BY MainAndWorkers DEF PollWake, Loop, PcType
<1>2. CaptureExit \in Programs["capture"] /\ <<"drain", "check">> \in Programs["capture"]
  BY DEF Programs
<1>3. ~Has(pc'["capture"], {"poll"}) /\ Has(<<"poll">>, {"poll"})
  <2>1. ~Has(<<"drain", "check">>, {"poll"}) /\ Has(<<"poll">>, {"poll"})
    BY ShortLists DEF Has
  <2> QED BY <1>1, <2>1, PollLists
<1> QED BY <1>1, <1>2, <1>3, PollLists

\* What woke the capture thread stays until the capture thread has read it.
LEMMA WokenStep ==
    ASSUME Inv, NEW t \in Threads, ThreadStep(t), Woken
    PROVE  \/ Woken'
           \/ t = "capture" /\ PollWake
           \/ t = "main" /\ (StartCamera \/ StopCamera)
<1>1. camera # "released"
  BY Active DEF Inv, Base, Control, Ended, AllReturned, Returned
<1>2. BrokerTypeOK /\ [BrokerNext]_brokerVars
  BY ThreadIsBroker DEF Inv, Base, BrokerInv
<1>3. CASE (t = "capture" /\ PollWake) \/ (t = "main" /\ (StartCamera \/ StopCamera))
  BY <1>3
<1>4. CASE ~((t = "capture" /\ PollWake) \/ (t = "main" /\ (StartCamera \/ StopCamera)))
  <2>1. wake = TRUE => wake' = TRUE
    <3>1. \/ wake' = wake
          \/ wake' = (wake \/ camera # "released")
      BY <1>4, WakeReaders
    <3>2. (wake \/ camera # "released") = TRUE  BY <1>1
    <3> QED BY <3>1, <3>2
  <2>2. /\ completions = <<>> => completions' = <<>> \/ notifying' # {}
        /\ notifying # {} => notifying' # {} \/ wake'
    BY <1>1, <1>2, WokenKept
  <2>3. wake \in BOOLEAN  BY <1>2 DEF BrokerTypeOK
  <2> QED BY <2>1, <2>2, <2>3 DEF Woken
<1> QED BY <1>3, <1>4

\* A stop that is set is announced, or about to be.
LEMMA StopWakesStep ==
    ASSUME Inv, \A u \in Threads : WakeFollows(pc[u]), NEW t \in Threads, ThreadStep(t),
           ~PollWake, ~StartCamera, ~StopCamera, camStop => StopWakes, camStop'
    PROVE  StopWakes'
<1> USE DEF Inv, Base, Control
<1>1. camera # "released"  BY Active DEF Ended, AllReturned, Returned
<1>2. PcType /\ wake \in BOOLEAN /\ camStop \in BOOLEAN  BY DEF BrokerInv, BrokerTypeOK
<1>3. CASE At(t, "requestStop")
  <2>1. pc[t] # <<>> /\ Head(pc[t]) = "requestStop" /\ pc[t] \in Seq(Steps)
    BY <1>2, <1>3 DEF At, PcType
  <2>2. pc'[t] = Tail(pc[t])
    BY <1>2, <1>3, <2>1, RequestTaken DEF At, NotifyCapture, Notify
  <2>3. pc'[t] # <<>> /\ Head(pc'[t]) = "wake"  BY <2>1, <2>2, TailFollows
  <2> QED BY <2>3 DEF StopWakes
<1>4. CASE UNCHANGED <<wake, camStop>> /\ ~wake
  <2>1. PICK u \in Threads : pc[u] # <<>> /\ Head(pc[u]) = "wake"  BY <1>4 DEF StopWakes
  <2>2. ~(t = "main" /\ Spawns)  BY <1>2, <1>4, SpawnFresh
  <2>3. CASE u # t  BY <1>2, <2>1, <2>2, <2>3, OthersWait DEF StopWakes
  <2>4. CASE u = t
    <3>1. CASE pc' = pc  BY <2>1, <3>1 DEF StopWakes
    <3>2. CASE RequestCameraStop(t)
      <4>1. ~At(t, "requestStop")  BY <2>1, <2>4 DEF At
      <4>2. wake'  BY <1>1, <3>2, <4>1 DEF RequestCameraStop, Wake
      <4> QED BY <4>2 DEF StopWakes
    <3> QED BY <1>2, <2>1, <2>4, <3>1, <3>2, RequestTaken
  <2> QED BY <2>3, <2>4
<1>5. CASE UNCHANGED <<wake, camStop>> /\ wake  BY <1>5 DEF StopWakes
<1>6. CASE wake' = (wake \/ camera # "released")  BY <1>1, <1>6 DEF StopWakes
<1> QED BY <1>2, <1>3, <1>4, <1>5, <1>6, WakeReaders

\* Every step keeps the invariant of the wake-up.
LEMMA WakeInvStep ==
    ASSUME Inv, WakeInv, [PipelineNext]_vars
    PROVE  WakeInv'
<1> USE MainAndWorkers
<1>0. /\ PcType /\ wake \in BOOLEAN /\ camStop \in BOOLEAN
      /\ pc["capture"] \in Seq(Steps)
  BY DEF Inv, Base, Control, BrokerInv, BrokerTypeOK, PcType
<1>1. CASE UNCHANGED vars
  BY <1>1 DEF vars, brokerVars, cameraVars, coreVars, leaseVars, handVars, ghostVars,
     pipelineVars, WakeInv, Woken, StopWakes
<1>2. CASE StopRequested
  <2>1. UNCHANGED <<completions, wake, notifying, camStop>>
    BY <1>2 DEF StopRequested, brokerVars, cameraVars, coreVars, leaseVars, handVars,
       ghostVars
  <2>2. pc' = [pc EXCEPT !["main"] = StopSteps] /\ pc["main"] # <<>>
        /\ Head(pc["main"]) = "run"
    BY <1>2 DEF StopRequested, Loop, At
  <2>3. \A u \in Threads : u # "main" => pc'[u] = pc[u]  BY <1>0, <2>2 DEF PcType
  <2>4. \A u \in Threads : WakeFollows(pc'[u])
    BY <1>0, <2>2, <2>3, FollowLists DEF PcType, WakeInv
  <2>5. StopWakes => StopWakes'  BY <2>1, <2>2, <2>3 DEF StopWakes
  <2>6. pc'["capture"] = pc["capture"] /\ (Woken => Woken')  BY <2>1, <2>3 DEF Woken
  <2> QED BY <2>1, <2>4, <2>5, <2>6 DEF WakeInv
<1>3. ASSUME NEW t \in Threads, ThreadStep(t) PROVE WakeInv'
  <2>1. \A u \in Threads : WakeFollows(pc'[u])
    BY <1>0, <1>3, ThreadMoves, FollowsStep DEF WakeInv
  <2>2. /\ First(pc'["capture"], {"poll"})
        /\ pc'["capture"] = <<"poll">> =>
               \/ pc'["capture"] = pc["capture"]
               \/ t = "capture" /\ CaptureStopped /\ ~camStop
    BY <1>0, <1>3, PollFirst DEF WakeInv
  <2>3. StartCamera \/ StopCamera => pc["capture"] = <<>> /\ pc'["capture"] = <<>>
    BY CaptureIdle DEF Inv
  <2>4. ASSUME pc'["capture"] = <<"poll">>
        PROVE  Woken' /\ (camStop' => StopWakes')
    <3>0. ~PollWake /\ ~StartCamera /\ ~StopCamera
      <4>1. <<"poll">> # <<>>  OBVIOUS
      <4> QED BY <1>0, <2>3, <2>4, <4>1, PollWakeLeaves
    <3>1. CASE pc'["capture"] = pc["capture"]
      <4>1. Woken /\ (camStop => StopWakes)  BY <2>4, <3>1 DEF WakeInv
      <4>2. Woken'  BY <1>3, <3>0, <4>1, WokenStep
      <4>3. camStop' => StopWakes'  BY <1>3, <3>0, <4>1, StopWakesStep DEF WakeInv
      <4> QED BY <4>2, <4>3
    <3>2. CASE t = "capture" /\ CaptureStopped /\ ~camStop
      <4>1. UNCHANGED <<completions, wake, notifying, camStop>>
        BY <3>2 DEF CaptureStopped, brokerVars, cameraVars, coreVars, leaseVars, handVars,
           ghostVars
      <4>2. pc["capture"] # <<>> /\ Head(pc["capture"]) = "capture"
        BY <3>2 DEF CaptureStopped, At
      <4>3. ~Before(pc["capture"], {"capture"}, {"drain", "requestStop"})
        BY <1>0, <4>2, TailBefore
      <4>4. Woken  BY <3>2, <4>3 DEF WakeInv
      <4> QED BY <3>2, <4>1, <4>4 DEF Woken
    <3> QED BY <2>2, <2>4, <3>1, <3>2
  <2>5. camStop' \/ Woken' \/ Before(pc'["capture"], {"capture"}, {"drain", "requestStop"})
    <3>1. CASE PollWake  BY <1>0, <3>1, PollWakeLeaves
    <3>2. CASE StartCamera \/ StopCamera
      <4>1. pc'["capture"] = <<>>  BY <2>3, <3>2
      <4>2. ~Has(pc'["capture"], {"capture"})  BY <4>1, ShortLists
      <4> QED BY <4>2 DEF Has, Before
    <3>3. CASE ~PollWake /\ ~StartCamera /\ ~StopCamera
      <4>1. CASE camStop
        <5>1. camStop = TRUE  BY <1>0, <4>1
        <5>2. camStop' = TRUE  BY <1>3, <3>3, <5>1, WakeReaders
        <5> QED BY <5>2
      <4>2. CASE Woken  BY <1>3, <3>3, <4>2, WokenStep
      <4>3. CASE Before(pc["capture"], {"capture"}, {"drain", "requestStop"})
        <5>1. CASE DrainEmpty  BY <5>1 DEF DrainEmpty, brokerVars, coreVars, Woken
        <5> QED BY <1>0, <1>3, <4>3, <5>1, CaptureBefore
      <4> QED BY <4>1, <4>2, <4>3 DEF WakeInv
    <3> QED BY <3>1, <3>2, <3>3
  <2> QED BY <2>1, <2>2, <2>4, <2>5 DEF WakeInv
<1> QED BY <1>1, <1>2, <1>3 DEF PipelineNext, Terminated

\* While the capture thread is in poll, completed frames and stop requests have
\* reached it or are about to: no poll timeout is needed to notice them.
THEOREM CaptureIsWoken == PipelineSpec => []WakeNotLost
<1>1. PipelineInit => WakeInv
  <2> SUFFICES ASSUME PipelineInit PROVE WakeInv  OBVIOUS
  <2>1. \A t \in Threads : pc[t] = <<>> \/ pc[t] = <<"start">>  BY DEF PipelineInit
  <2>2. pc["capture"] = <<>>  BY MainAndWorkers DEF PipelineInit
  <2>3. \A t \in Threads : WakeFollows(pc[t])
    <3>1. ~Has(<<>>, {"requestStop"}) /\ ~Has(<<"start">>, {"requestStop"})
      BY ShortLists
    <3> QED BY <2>1, <3>1, NoRequest
  <2>4. /\ First(<<>>, {"poll"}) /\ ~Has(<<>>, {"capture"}) /\ <<>> # <<"poll">>
    BY ShortLists
  <2>5. Before(<<>>, {"capture"}, {"drain", "requestStop"})  BY <2>4 DEF Has, Before
  <2> QED BY <2>2, <2>3, <2>4, <2>5 DEF WakeInv
<1>2. Inv /\ WakeInv /\ [PipelineNext]_vars => WakeInv'  BY WakeInvStep
<1>3. WakeInv => WakeNotLost  BY DEF WakeInv, WakeNotLost, Woken, StopWakes
<1> QED BY <1>1, <1>2, <1>3, PipelineInvariant, PTL DEF PipelineSpec

--------------------------------------------------------------------------------
(* What Stop finds                                                          *)

\* A buffer whose QBUF failed stays with the application, out of use.
LostKept ==
    \A b \in lost : /\ bufState[b] = "DEQUEUED" /\ ~slot[b].occupied
                    /\ \A r \in hand \cup toQueue : r.buf # b

\* No step of the capture path brings a lost buffer back.
LEMMA LostStep ==
    ASSUME BrokerInv, LostKept, [BrokerNext]_brokerVars
    PROVE  LostKept'
<1> USE DEF brokerVars, cameraVars, coreVars, leaseVars, handVars, ghostVars
<1>0. /\ lost \subseteq Buffers /\ hand \subseteq Requests /\ toQueue \subseteq Requests
      /\ bufState \in [Buffers -> {"AVAILABLE", "QUEUED", "DEQUEUED"}]
      /\ slot \in [Buffers -> Slots]
      /\ \A r \in Requests : r.buf \in Buffers
  BY DEF BrokerInv, BrokerTypeOK, Requests
<1>1. CASE UNCHANGED brokerVars  BY <1>1 DEF LostKept
<1>2. ASSUME CameraStart \/ \E Queued \in SUBSET Buffers : CameraStartFails(Queued)
      PROVE  LostKept'
  <2>1. lost' = lost /\ camera = "open"  BY <1>2 DEF CameraStart, CameraStartFails
  <2>2. lost = {}  BY <1>0, <2>1 DEF LostKept, BrokerInv, CameraConsistent, Dequeued
  <2> QED BY <2>1, <2>2 DEF LostKept
<1>3. CASE RequestStop \/ Wake \/ CaptureWake
  BY <1>3 DEF RequestStop, Wake, CaptureWake, LostKept
<1>4. ASSUME HandsFree, NEW b \in Buffers, CaptureFrame(b) PROVE LostKept'
  BY <1>0, <1>4 DEF CaptureFrame, LostKept
<1>5. ASSUME HandsFree, NEW b \in Buffers, NEW ok \in BOOLEAN, CaptureDropped(b, ok)
      PROVE  LostKept'
  <2>1. ~slot[b].occupied
    BY <1>5 DEF CaptureDropped, BrokerInv, SlotsConsistent, SlotAgrees
  <2>2. CASE ok  BY <1>5, <2>2 DEF CaptureDropped, LostKept
  <2>3. CASE ~ok  BY <1>0, <1>5, <2>1, <2>3 DEF CaptureDropped, LostKept, HandsFree
  <2> QED BY <2>2, <2>3
<1>6. ASSUME NEW r \in hand, NEW C \in (SUBSET Consumers) \ {{}}, PublishAccepted(r, C)
      PROVE  LostKept'
  <2>1. hand' = {} /\ toQueue' = toQueue /\ lost' = lost /\ bufState' = bufState
    BY <1>6 DEF PublishAccepted
  <2>2. \A b \in lost : slot'[b] = slot[b]  BY <1>0, <1>6 DEF PublishAccepted, LostKept
  <2> QED BY <2>1, <2>2 DEF LostKept
<1>7. ASSUME NEW r \in hand, PublishRejected(r) PROVE LostKept'
  BY <1>7 DEF PublishRejected, LostKept
<1>8. ASSUME NEW t \in Threads, NEW l \in live, NEW kept \in BOOLEAN, Release(t, l, kept)
      PROVE  LostKept'
  <2>1. l.buf \in Buffers /\ slot[l.buf].occupied  BY <1>8, LiveLease
  <2>2. /\ lost' = lost /\ bufState' = bufState /\ hand' = hand /\ toQueue' = toQueue
        /\ \A b \in Buffers : b # l.buf => slot'[b] = slot[b]
    <3>1. UNCHANGED <<lost, bufState, hand, toQueue>>  BY <1>8 DEF Release
    <3>2. \A b \in Buffers : b # l.buf => slot'[b] = slot[b]
      BY <1>0, <1>8 DEF Release, CoreRelease
    <3> QED BY <3>1, <3>2
  <2>3. l.buf \notin lost  BY <2>1 DEF LostKept
  <2>4. \A b \in lost : slot'[b] = slot[b]  BY <1>0, <2>2, <2>3
  <2> QED BY <2>2, <2>4 DEF LostKept
<1>9. CASE \/ \E t \in Threads, l \in spent : ReleaseAgain(t, l)
           \/ \E t \in Threads : Notify(t) \/ Close(t)
  BY <1>9 DEF ReleaseAgain, Notify, Close, LostKept
<1>10. CASE HandsFree /\ PopRequeue
  <2> DEFINE r == Head(completions)
  <2>1. r \in Requests /\ slot[r.buf].queued
    <3>1. completions \in Seq(Requests) /\ completions # <<>>
      BY <1>10 DEF PopRequeue, BrokerInv, BrokerTypeOK
    <3>2. 1 \in DOMAIN completions /\ r = completions[1] /\ r \in Requests  BY <3>1
    <3> QED BY <3>2 DEF BrokerInv, CompletionsConsistent
  <2>2. slot[r.buf].occupied
    <3>1. ~slot[r.buf].occupied => slot[r.buf] = EmptySlot
      BY <1>0, <2>1 DEF BrokerInv, SlotsConsistent, SlotAgrees
    <3> QED BY <2>1, <3>1 DEF EmptySlot
  <2>3. r.buf \notin lost  BY <2>2 DEF LostKept
  <2>4. /\ toQueue' = {r} /\ hand' = {} /\ lost' = lost /\ bufState' = bufState
        /\ slot' = slot \/ slot' = [slot EXCEPT ![r.buf] = EmptySlot]
    BY <1>10 DEF PopRequeue, HandsFree
  <2>5. \A b \in lost : slot'[b] = slot[b]  BY <1>0, <2>3, <2>4
  <2> QED BY <2>3, <2>4, <2>5 DEF LostKept
<1>11. ASSUME NEW r \in toQueue, RequeueFails(r) PROVE LostKept'
  <2>1. hand = {} /\ bufState[r.buf] = "DEQUEUED" /\ ~slot[r.buf].occupied
    BY <1>11 DEF BrokerInv, HandsConsistent
  <2>2. /\ lost' \subseteq lost \cup {r.buf} /\ toQueue' = {} /\ hand' = {}
        /\ bufState' = bufState /\ slot' = slot
    BY <1>11, <2>1 DEF RequeueFails
  <2> QED BY <2>1, <2>2 DEF LostKept
<1>12. ASSUME NEW r \in toQueue, RequeueDone(r) PROVE LostKept'
  <2>1. /\ lost' = lost /\ toQueue' = {} /\ hand' = hand /\ slot' = slot
        /\ bufState' = [bufState EXCEPT ![r.buf] = "QUEUED"]
    BY <1>12 DEF RequeueDone
  <2>2. r.buf \notin lost  BY DEF LostKept
  <2> QED BY <1>0, <2>1, <2>2 DEF LostKept
<1>13. CASE Quiet /\ CameraStop  BY <1>13 DEF CameraStop, LostKept
<1> QED BY <1>1, <1>2, <1>3, <1>4, <1>5, <1>6, <1>7, <1>8, <1>9, <1>10, <1>11, <1>12,
           <1>13 DEF BrokerNext

\* So when Stop is about to stop the camera only the lost buffers are missing.
LEMMA StopFinds ==
    ASSUME Inv, LostKept, pc["main"] = <<"stop_camera">>
    PROVE  live = {} /\ leaseCount = 0 /\ frameCount = 0 /\ Dequeued = lost
<1>1. live = {} /\ completions = <<>> /\ HandsFree /\ frameCount = 0
  BY NothingLeftAtStop DEF Inv, Base
<1>2. leaseCount = 0  BY <1>1, FS_EmptySet DEF Inv, BrokerInv, LedgersAgree
<1>3. Dequeued \subseteq lost  BY <1>1 DEF Inv, BrokerInv, NoBufferForgotten, HandsFree
<1>4. lost \subseteq Dequeued  BY DEF LostKept, Dequeued, Inv, BrokerInv, BrokerTypeOK
<1> QED BY <1>1, <1>2, <1>3, <1>4

--------------------------------------------------------------------------------
(* Flags, stopped queues and lists, whichever thread steps                  *)

\* The flags are set by the steps of that name and never cleared.
LEMMA FlagsStep ==
    ASSUME NEW t \in Threads, ThreadStep(t)
    PROVE  \/ UNCHANGED <<fatal, stop, videoFailed>>
           \/ SetFatal(t) \/ SetStop(t) \/ SetVideoFailed(t)
<1> USE DEF flags, pipelineVars
<1>1. CASE CallStep(t)
  BY <1>1 DEF CallStep, CloseBroker, RequestCameraStop, StopQueue, NotifyCapture,
     Dispose, ReturnInput, ReturnOutput
<1>2. CASE t = "main" /\ Supervise
  BY <1>2 DEF Supervise, StartCamera, Spawn, Join, StopCamera
<1>3. CASE t = "capture" /\ CaptureLoop
  BY <1>3 DEF CaptureLoop, CaptureCheck, DrainPop, DrainRequeued, DrainRequeueFailed,
     DrainEmpty, CaptureStopped, PollWake, PollTimeout, PollThrows, PollFrame,
     PollDropped, PublishFrame, PublishRefused, RequeueDirect, AfterDirect,
     PushCaptured, PushVideo
<1>4. CASE t = "preprocess" /\ PreprocessLoop
  BY <1>4 DEF PreprocessLoop, TakeInputSlot, TakeFrame, NoMoreFrames, Preprocess,
     PushPrepared, DrainLeases
<1>5. CASE (t = "npu" \/ t = "postprocess") /\ PostprocessStep(t)
  BY <1>5 DEF PostprocessStep, Postprocess, PublishResult
<1>6. CASE \/ t = "npu" /\ NpuLoop
           \/ t = "postprocess" /\ TakeCompleted
  BY <1>6 DEF NpuLoop, TakePrepared, TakeOutputSlot, Run, PushCompleted, TakeCompleted
<1>7. CASE t = "video" /\ VideoLoop
  BY <1>7 DEF VideoLoop, TakeVideoFrame, Encode, PushEncoded, DrainLeases
<1>8. CASE t = "encoded" /\ EncodedPacketLoop
  BY <1>8 DEF EncodedPacketLoop, TakePacket, WritePacket
<1> QED BY <1>1, <1>2, <1>3, <1>4, <1>5, <1>6, <1>7, <1>8 DEF ThreadStep

\* Start fills the three queues that are filled before the threads run.
LEMMA StartEffect ==
    ASSUME QueueType, StartQueues
    PROVE  /\ \A q \in Queues : queue'[q].stopped = queue[q].stopped
           /\ \A q \in Queues \ {"freeIn", "freeOut", "encoded"} : queue'[q] = queue[q]
           /\ queue'["freeIn"].items = SlotList(Capacity["freeIn"])
           /\ queue'["freeOut"].items = SlotList(Capacity["freeOut"])
           /\ queue'["encoded"].items = IF EnableVideo THEN <<0>> ELSE <<>>
<1> DEFINE free(q) == SlotList(Capacity[q])
           header == IF EnableVideo THEN <<0>> ELSE <<>>
<1>1. queue' = [queue EXCEPT !["freeIn"].items = free("freeIn"),
                             !["freeOut"].items = free("freeOut"),
                             !["encoded"].items = header]
  BY DEF StartQueues
<1>2. /\ queue \in [Queues -> [items : Seq(AllItems), stopped : BOOLEAN]]
      /\ {"freeIn", "freeOut", "encoded"} \subseteq Queues
  BY DEF QueueType, Queues
<1> HIDE DEF free, header
<1>3. \A q \in Queues : queue'[q].stopped = queue[q].stopped  BY <1>1, <1>2
<1>4. \A q \in Queues \ {"freeIn", "freeOut", "encoded"} : queue'[q] = queue[q]
  BY <1>1, <1>2
<1>5. /\ queue'["freeIn"].items = free("freeIn")
      /\ queue'["freeOut"].items = free("freeOut")
      /\ queue'["encoded"].items = header
  BY <1>1, <1>2
<1> QED BY <1>3, <1>4, <1>5 DEF free, header

\* A queue is stopped by its own step and never started again.
LEMMA StopsStep ==
    ASSUME QueueType, NEW t \in Threads, ThreadStep(t), NEW q \in Queues
    PROVE  queue'[q].stopped = queue[q].stopped \/ StopQueue(t, q)
<1> USE DEF pipelineVars
<1> DEFINE same == queue'[q].stopped = queue[q].stopped
<1>0. /\ \A r \in Queues : \A s : queue' = [queue EXCEPT ![r].items = s] => same
      /\ queue' = queue => same
      /\ \A r \in Queues \ {q} : queue' = [queue EXCEPT ![r].stopped = TRUE] => same
  BY DEF QueueType
<1>1. /\ \A r \in Queues : Pop(r) => same
      /\ \A r \in Queues : \A item : TryPush(r, item) \/ PushLatest(r, item) => same
  BY <1>0 DEF Pop, TryPush, PushLatest
<1>2. {"captured", "video", "encoded", "prepared", "completed", "freeIn", "freeOut"} = Queues
  BY DEF Queues
<1>3. StartQueues => same  BY StartEffect
<1> HIDE DEF same
<1> SUFFICES same \/ StopQueue(t, q)  BY DEF same
<1>4. CASE CallStep(t)
  <2>1. ASSUME NEW r \in Queues, StopQueue(t, r) PROVE same \/ StopQueue(t, q)
    BY <1>0, <2>1 DEF StopQueue
  <2> QED BY <1>0, <1>1, <1>2, <1>4, <2>1 DEF CallStep, SetFatal, SetStop, SetVideoFailed,
          CloseBroker, RequestCameraStop, NotifyCapture, Dispose, ReturnInput,
          ReturnOutput
<1>5. CASE t = "main" /\ Supervise
  BY <1>0, <1>3, <1>5 DEF Supervise, StartCamera, Spawn, Join, StopCamera
<1>6. CASE t = "capture" /\ CaptureLoop
  BY <1>0, <1>1, <1>2, <1>6 DEF CaptureLoop, CaptureCheck, DrainPop, DrainRequeued,
     DrainRequeueFailed, DrainEmpty, CaptureStopped, PollWake, PollTimeout, PollThrows,
     PollFrame, PollDropped, PublishFrame, PublishRefused, RequeueDirect, AfterDirect,
     PushCaptured, PushVideo
<1>7. CASE t = "preprocess" /\ PreprocessLoop
  BY <1>0, <1>1, <1>2, <1>7 DEF PreprocessLoop, TakeInputSlot, TakeFrame, NoMoreFrames,
     Preprocess, PushPrepared, DrainLeases
<1>8. CASE (t = "npu" \/ t = "postprocess") /\ PostprocessStep(t)
  BY <1>0, <1>1, <1>2, <1>8 DEF PostprocessStep, Postprocess, PublishResult
<1>9. CASE \/ t = "npu" /\ NpuLoop
           \/ t = "postprocess" /\ TakeCompleted
  BY <1>0, <1>1, <1>2, <1>9 DEF NpuLoop, TakePrepared, TakeOutputSlot, Run, PushCompleted,
     TakeCompleted
<1>10. CASE t = "video" /\ VideoLoop
  BY <1>0, <1>1, <1>2, <1>10 DEF VideoLoop, TakeVideoFrame, Encode, PushEncoded, DrainLeases
<1>11. CASE t = "encoded" /\ EncodedPacketLoop
  BY <1>0, <1>1, <1>2, <1>11 DEF EncodedPacketLoop, TakePacket, WritePacket
<1> QED BY <1>4, <1>5, <1>6, <1>7, <1>8, <1>9, <1>10, <1>11 DEF ThreadStep

\* A thread whose next step is one of a call takes it as such.
LEMMA CallTaken ==
    ASSUME NEW t \in Threads, ThreadStep(t), pc[t] # <<>>, Head(pc[t]) \in CallSteps
    PROVE  CallStep(t)
  BY DEF ThreadStep, Supervise, StartCamera, Spawn, Join, StopCamera,
     CaptureLoop, CaptureCheck, DrainPop, DrainRequeued, DrainRequeueFailed, Draining,
     DrainEmpty, CaptureStopped, PollWake, PollTimeout, PollThrows, PollFrame, PollDropped,
     PublishFrame, PublishRefused, RequeueDirect, AfterDirect, PushCaptured, PushVideo,
     PreprocessLoop, TakeInputSlot, TakeFrame, NoMoreFrames, Preprocess, PushPrepared,
     DrainLeases, DrainStep, NpuLoop, TakePrepared, TakeOutputSlot, Run, PushCompleted,
     PostprocessStep, Postprocess, PublishResult, TakeCompleted, VideoLoop, TakeVideoFrame,
     Encode, PushEncoded, EncodedPacketLoop, TakePacket, WritePacket, At, CallSteps

\* The three stores of a flag, by the name of the step.
LEMMA FlagTaken ==
    ASSUME PcType, NEW t \in Threads, ThreadStep(t), Proceeds(t)
    PROVE  /\ Head(pc[t]) = "fatal" => SetFatal(t)
           /\ Head(pc[t]) = "stop" => SetStop(t)
           /\ Head(pc[t]) = "videoFailed" => SetVideoFailed(t)
<1> SUFFICES ASSUME Head(pc[t]) \in {"fatal", "stop", "videoFailed"}
             PROVE  /\ Head(pc[t]) = "fatal" => SetFatal(t)
                    /\ Head(pc[t]) = "stop" => SetStop(t)
                    /\ Head(pc[t]) = "videoFailed" => SetVideoFailed(t)
  OBVIOUS
<1>1. CallStep(t)  BY CallTaken DEF CallSteps, Proceeds
<1>2. ~(\E q \in Queues : StopQueue(t, q))  BY DEF StopQueue, StopStep, At, Queues
<1>3. ~NotifyCapture(t)  BY DEF NotifyCapture, Notify, Proceeds
<1> QED BY <1>1, <1>2, <1>3 DEF CallStep, SetFatal, SetStop, SetVideoFailed, CloseBroker,
           RequestCameraStop, Dispose, ReturnInput, ReturnOutput, At

\* What comes before a step stays before it, until it has been done itself.
LEMMA BeforeMoves ==
    ASSUME PcType, NEW t \in Threads, Moves(t), NEW S, NEW T,
           Before(pc[t], S, T), \A p \in Programs[t] : Before(p, S, T),
           Before(SignalFailure, S, T), Before(<<"run">>, S, T),
           Before(SignalFailure \o StopSteps, S, T), "dispose" \notin S, "drain" \notin T
    PROVE  Before(pc'[t], S, T) \/ (Proceeds(t) /\ Head(pc[t]) \in T)
<1> USE DEF PcType
<1>1. CASE Proceeds(t)
  <2>1. pc[t] # <<>> /\ pc'[t] = Tail(pc[t]) /\ pc[t] \in Seq(Steps)
    BY <1>1 DEF Proceeds
  <2> QED BY <1>1, <2>1, TailBefore
<1>2. CASE Restarts(t)  BY <1>2 DEF Restarts
<1>3. CASE t = "capture" /\ DrainFails
  <2>1. /\ pc[t] # <<>> /\ pc[t] \in Seq(Steps) /\ Head(pc[t]) = "drain"
        /\ pc'[t] = SignalFailure \o Tail(pc[t])
    BY <1>3 DEF DrainFails, Draining, At
  <2>2. Before(Tail(pc[t]), S, T) /\ Tail(pc[t]) \in Seq(Steps)
    BY <2>1, TailBefore, TailSteps
  <2>3. Before(SignalFailure \o Tail(pc[t]), S, T)  BY <2>2, Lists, ConcatBefore
  <2> QED BY <2>1, <2>3
<1>4. ASSUME NEW q \in {"captured", "video"}, DrainsLease(t, q)
      PROVE  Before(pc'[t], S, T)
  <2>1. pc'[t] = <<"dispose">> \o pc[t] /\ pc[t] \in Seq(Steps)  BY <1>4 DEF DrainsLease
  <2>2. <<"dispose">> \in Seq(Steps)  BY DEF Steps
  <2>3. ~Has(<<"dispose">>, S)  BY ShortLists
  <2>4. Before(<<"dispose">>, S, T)  BY <2>3 DEF Has, Before
  <2>5. Before(<<"dispose">> \o pc[t], S, T)  BY <2>1, <2>2, <2>4, ConcatBefore
  <2> QED BY <2>1, <2>5
<1>5. CASE t = "main" /\ Spawns  BY <1>5, SpawnEffect
<1> QED BY <1>1, <1>2, <1>3, <1>4, <1>5 DEF Moves

\* What the created threads start with, and in which order they are created.
LEMMA SpawnLists ==
    ASSUME PcType, Spawns
    PROVE  /\ \A u \in Workers : pc'[u] = <<>> \/ pc'[u] = <<FirstStep[u]>>
           /\ Split /\ pc'["npu"] # <<>> => pc'["postprocess"] = <<"completed">>
           /\ EnableVideo /\ pc'["video"] # <<>> => pc'["encoded"] = <<"packet">>
           /\ ~EnableVideo => pc'["video"] = <<>>
           /\ EnableVideo /\ pc'["main"] = <<"run">> => pc'["encoded"] = <<"packet">>
<1>1. PICK n \in 0..Len(SpawnOrder) : Spawn(n)  BY DEF Spawns
<1> DEFINE made == {SpawnOrder[i] : i \in 1..n}
<1>2. /\ \A u \in Workers : pc'[u] = IF u \in made THEN <<FirstStep[u]>> ELSE <<>>
  BY <1>1, MainAndWorkers DEF Spawn
<1>3. ASSUME Split, "npu" \in made PROVE "postprocess" \in made
  <2>1. \A i \in 1..Len(SpawnOrder) :
            SpawnOrder[i] = "npu" => i - 1 \in 1..Len(SpawnOrder)
                                     /\ SpawnOrder[i - 1] = "postprocess"
    BY <1>3 DEF SpawnOrder
  <2>2. n <= Len(SpawnOrder) /\ n \in Nat /\ Len(SpawnOrder) \in Nat  BY DEF SpawnOrder
  <2>3. PICK i \in 1..n : SpawnOrder[i] = "npu"  BY <1>3
  <2>4. i - 1 \in 1..n /\ SpawnOrder[i - 1] = "postprocess"  BY <2>1, <2>2, <2>3
  <2> QED BY <2>4
<1>4. ASSUME EnableVideo, "video" \in made PROVE "encoded" \in made
  <2>1. 1 \in 1..Len(SpawnOrder) /\ SpawnOrder[1] = "encoded"  BY <1>4 DEF SpawnOrder
  <2>2. n <= Len(SpawnOrder) /\ n \in Nat /\ Len(SpawnOrder) \in Nat  BY DEF SpawnOrder
  <2>3. PICK i \in 1..n : SpawnOrder[i] = "video"  BY <1>4
  <2>4. 1 \in 1..n  BY <2>2, <2>3
  <2> QED BY <2>1, <2>4
<1>5. ASSUME ~EnableVideo PROVE "video" \notin made
  <2>1. /\ \A i \in 1..Len(SpawnOrder) : SpawnOrder[i] # "video"
        /\ n <= Len(SpawnOrder) /\ n \in Nat /\ Len(SpawnOrder) \in Nat
    BY <1>5 DEF SpawnOrder
  <2> QED BY <2>1
<1>6. ASSUME EnableVideo, pc'["main"] = <<"run">> PROVE "encoded" \in made
  <2>1. /\ 1 \in 1..Len(SpawnOrder) /\ SpawnOrder[1] = "encoded"
        /\ \A i \in 1..Len(SpawnOrder) : SpawnOrder[i] \in Workers
    BY <1>6 DEF SpawnOrder, Workers
  <2>2. n <= Len(SpawnOrder) /\ n \in Nat /\ Len(SpawnOrder) \in Nat  BY DEF SpawnOrder
  <2>3. "main" \notin made  BY <2>1, <2>2, MainAndWorkers
  <2>4. SignalFailure \o StopSteps # <<"run">>
    <3>1. Len(SignalFailure \o StopSteps) # 1 /\ Len(<<"run">>) = 1
      BY Lists, ConcatSteps DEF SignalFailure, StopSteps
    <3> QED BY <3>1
  <2>5. n = Len(SpawnOrder)  BY <1>1, <1>6, <2>3, <2>4, MainAndWorkers DEF Spawn
  <2>6. 1 \in 1..n  BY <2>1, <2>2, <2>5
  <2> QED BY <2>1, <2>6
<1> QED BY <1>2, <1>3, <1>4, <1>5, <1>6 DEF FirstStep, Workers

--------------------------------------------------------------------------------
(* Every frame the NPU has inferred is postprocessed, unless a failure is fatal *)

NpuLive == {"prepared", "output", "run", "push_completed", "post", "publish_result"}
CarryLists == {<<"push_completed">>, <<"post">>}

\* The frames of a list of jobs, and the inferred frames on their way to the end of
\* ProcessCompletedFrame.
FramesOf(s) == {s[i].frame : i \in DOMAIN s}
InNpu == IF pc["npu"] \in CarryLists THEN {job["npu"].frame} ELSE {}
InQueue == FramesOf(queue["completed"].items)
InPost == IF pc["postprocess"] = <<"post">> THEN {job["postprocess"].frame} ELSE {}
Carried == InNpu \cup InQueue \cup InPost

\* Thread t stops the completed queue only after a fatal failure, or it is the NPU
\* thread, which has no frame left.
StopsCompleted(t) ==
    \/ fatal
    \/ Before(pc[t], {"stop_completed"}, {"fatal"})
    \/ t = "npu" /\ ~Has(pc["npu"], NpuLive)

NpuAt ==
    /\ Has(pc["npu"], {"push_completed"}) => Split /\ pc["npu"] = <<"push_completed">>
    /\ Has(pc["npu"], {"post"}) => pc["npu"] = <<"post">>
PostAt == pc["postprocess"] \in {<<>>, <<"completed">>, <<"post">>, <<"publish_result">>}
CompletedEnds == queue["completed"].stopped => fatal \/ ~Has(pc["npu"], NpuLive)
PostprocessStays ==
    \/ queue["completed"].items # <<>>
    \/ ~queue["completed"].stopped /\ Split /\ Has(pc["npu"], NpuLive)
    => pc["postprocess"] # <<>>
NothingDropped ==
    /\ finished \cup Carried \subseteq inferred
    /\ fatal \/ inferred \subseteq finished \cup Carried

ResultInv ==
    /\ NpuAt /\ PostAt
    /\ \A t \in Threads : StopsCompleted(t)
    /\ CompletedEnds /\ PostprocessStays /\ NothingDropped

\* What joins and leaves a list of jobs.
LEMMA FramesMove ==
    ASSUME NEW s \in Seq(Jobs)
    PROVE  /\ \A j \in Jobs : FramesOf(Append(s, j)) = FramesOf(s) \cup {j.frame}
           /\ s # <<>> => FramesOf(s) = FramesOf(Tail(s)) \cup {Head(s).frame}
           /\ FramesOf(<<>>) = {}
<1>1. ASSUME NEW j \in Jobs PROVE FramesOf(Append(s, j)) = FramesOf(s) \cup {j.frame}
  <2>1. /\ DOMAIN Append(s, j) = 1..(Len(s) + 1) /\ DOMAIN s = 1..Len(s) /\ Len(s) \in Nat
        /\ \A i \in 1..Len(s) : Append(s, j)[i] = s[i]
        /\ Append(s, j)[Len(s) + 1] = j
    OBVIOUS
  <2> QED BY <2>1 DEF FramesOf
<1>2. ASSUME s # <<>> PROVE FramesOf(s) = FramesOf(Tail(s)) \cup {Head(s).frame}
  <2>1. /\ DOMAIN Tail(s) = 1..(Len(s) - 1) /\ DOMAIN s = 1..Len(s) /\ Len(s) \in Nat \ {0}
        /\ \A i \in 1..(Len(s) - 1) : Tail(s)[i] = s[i + 1]
        /\ Head(s) = s[1]
    BY <1>2
  <2>2. \A i \in 1..Len(s) : i = 1 \/ i - 1 \in 1..(Len(s) - 1)  BY <2>1
  <2>3. ASSUME NEW x \in FramesOf(s) PROVE x \in FramesOf(Tail(s)) \cup {Head(s).frame}
    <3>1. PICK i \in 1..Len(s) : x = s[i].frame  BY <2>1, <2>3 DEF FramesOf
    <3>2. CASE i = 1  BY <2>1, <3>1, <3>2
    <3>3. CASE i # 1
      <4>1. i - 1 \in 1..(Len(s) - 1) /\ Tail(s)[i - 1] = s[i]
        BY <2>1, <2>2, <3>1, <3>3
      <4> QED BY <2>1, <3>1, <4>1 DEF FramesOf
    <3> QED BY <3>2, <3>3
  <2>4. FramesOf(Tail(s)) \subseteq FramesOf(s) /\ Head(s).frame \in FramesOf(s)
    <3>1. \A i \in 1..(Len(s) - 1) : i + 1 \in 1..Len(s)  BY <2>1
    <3> QED BY <2>1, <3>1 DEF FramesOf
  <2> QED BY <2>3, <2>4
<1>3. FramesOf(<<>>) = {}  BY DEF FramesOf
<1> QED BY <1>1, <1>2, <1>3

\* The lists the NPU thread gets after its live steps.
LEMMA NpuLists ==
    /\ ~Has(<<>>, NpuLive) /\ ~Has(NpuExit, NpuLive) /\ ~Has(SignalFailure \o NpuExit, NpuLive)
    /\ ~Has(<<"return_input">> \o NpuExit, NpuLive)
    /\ ~Has(<<"return_output">> \o NpuExit, NpuLive)
<1>1. /\ ~Has(<<>>, NpuLive) /\ ~Has(<<"return_input">>, NpuLive)
      /\ ~Has(<<"return_output">>, NpuLive)
  BY ShortLists DEF NpuLive
<1>2. ~Has(SignalFailure, NpuLive)  BY DEF Has, SignalFailure, NpuLive
<1>3. ~Has(NpuExit, NpuLive)  BY ShortLists DEF NpuExit, NpuLive
<1>4. <<"return_input">> \in Seq(Steps) /\ <<"return_output">> \in Seq(Steps)
  BY DEF Steps
<1> QED BY <1>1, <1>2, <1>3, <1>4, Lists, ConcatHas

\* Where the loop of the NPU thread goes on.
LEMMA NpuNext ==
    ASSUME PcType, NpuLoop \/ PostprocessStep("npu")
    PROVE  /\ Has(pc["npu"], NpuLive)
           /\ \/ pc'["npu"] \in {<<"output">>, <<"run">>, <<"prepared">>, <<"publish_result">>}
              \/ Run /\ Split /\ pc'["npu"] = <<"push_completed">>
              \/ Run /\ pc'["npu"] = <<"post">>
              \/ pc'["npu"] = <<"return_output", "prepared">>
              \/ ~Has(pc'["npu"], NpuLive)
<1> USE NpuLists, MainAndWorkers DEF PcType
<1>0. "npu" \in Threads  OBVIOUS
<1>1. pc["npu"] # <<>> /\ Head(pc["npu"]) \in NpuLive
  BY DEF NpuLoop, TakePrepared, TakeOutputSlot, Run, PushCompleted, PostprocessStep,
     Postprocess, PublishResult, At, NpuLive
<1>2. Has(pc["npu"], NpuLive)  BY <1>0, <1>1, TailSteps DEF Has
<1>3. CASE TakePrepared \/ TakeOutputSlot \/ PushCompleted
  BY <1>0, <1>2, <1>3 DEF TakePrepared, TakeOutputSlot, PushCompleted, Loop
<1>4. CASE Run  BY <1>0, <1>2, <1>4 DEF Run, Loop
<1>5. CASE PostprocessStep("npu")
  BY <1>0, <1>2, <1>5 DEF PostprocessStep, Postprocess, PublishResult, NextRound, Loop
<1> QED BY <1>3, <1>4, <1>5 DEF NpuLoop

\* The carrying lists are the ones with the two carrying steps.
LEMMA CarrySteps ==
    ASSUME NpuAt, pc["npu"] \in Seq(Steps)
    PROVE  /\ pc["npu"] \in CarryLists <=> Has(pc["npu"], {"push_completed", "post"})
           /\ pc["npu"] \in CarryLists =>
                  pc["npu"] # <<>> /\ Head(pc["npu"]) \in {"push_completed", "post"}
<1>1. \A s : Has(s, {"push_completed", "post"}) <=>
                 Has(s, {"push_completed"}) \/ Has(s, {"post"})
  BY DEF Has
<1>2. Has(<<"push_completed">>, {"push_completed"}) /\ Has(<<"post">>, {"post"})
  BY DEF Has
<1> QED BY <1>1, <1>2 DEF NpuAt, CarryLists

\* The inference thread that carries a result has nothing else left to do with it.
LEMMA NpuAtStep ==
    ASSUME PcType, NpuAt, NEW t \in Threads, ThreadStep(t)
    PROVE  NpuAt'
<1> USE MainAndWorkers DEF PcType
<1>0. pc["npu"] \in Seq(Steps)  OBVIOUS
<1>1. CASE pc'["npu"] = pc["npu"]  BY <1>1 DEF NpuAt
<1>2. CASE t = "main" /\ Spawns
  <2>1. pc'["npu"] = <<>> \/ pc'["npu"] = <<"prepared">>
    BY <1>2, SpawnEffect DEF FirstStep
  <2>2. /\ ~Has(<<>>, {"push_completed"}) /\ ~Has(<<"prepared">>, {"push_completed"})
        /\ ~Has(<<>>, {"post"}) /\ ~Has(<<"prepared">>, {"post"})
    BY ShortLists
  <2> QED BY <2>1, <2>2 DEF NpuAt
<1>3. CASE t = "npu" /\ Proceeds(t)
  <2>1. pc["npu"] # <<>> /\ pc'["npu"] = Tail(pc["npu"])  BY <1>3 DEF Proceeds
  <2>2. ASSUME NEW x, Has(Tail(pc["npu"]), {x}), pc["npu"] = <<x>> PROVE FALSE
    BY <2>2 DEF Has
  <2>3. \A x : Has(Tail(pc["npu"]), {x}) => Has(pc["npu"], {x})  BY <1>0, <2>1, TailHas
  <2> QED BY <2>1, <2>2, <2>3 DEF NpuAt
<1>4. CASE t = "npu" /\ (NpuLoop \/ PostprocessStep("npu"))
  <2>1. \A p \in {<<"output">>, <<"run">>, <<"prepared">>, <<"publish_result">>} :
            ~Has(p, {"push_completed"}) /\ ~Has(p, {"post"})
    BY ShortLists
  <2>2. /\ ~Has(<<"return_output", "prepared">>, {"push_completed"})
        /\ ~Has(<<"return_output", "prepared">>, {"post"})
        /\ ~Has(<<"post">>, {"push_completed"}) /\ ~Has(<<"push_completed">>, {"post"})
    BY ShortLists
  <2>3. \A p : ~Has(p, NpuLive) => ~Has(p, {"push_completed"}) /\ ~Has(p, {"post"})
    BY DEF Has, NpuLive
  <2> QED BY <1>4, <2>1, <2>2, <2>3, NpuNext DEF NpuAt
<1>5. t = "npu" => \/ pc' = pc \/ Proceeds(t) \/ NpuLoop \/ PostprocessStep("npu")
  BY CallMoves DEF ThreadStep
<1> QED BY <1>1, <1>2, <1>3, <1>4, <1>5, OthersWait

\* Neither has the postprocess thread.
LEMMA PostAtStep ==
    ASSUME PcType, PostAt, NEW t \in Threads, ThreadStep(t)
    PROVE  PostAt'
<1> USE MainAndWorkers DEF PcType
<1>1. CASE pc'["postprocess"] = pc["postprocess"]  BY <1>1 DEF PostAt
<1>2. CASE t = "main" /\ Spawns  BY <1>2, SpawnEffect DEF FirstStep, PostAt
<1>3. CASE t = "postprocess" /\ Proceeds(t)  BY <1>3 DEF Proceeds, PostAt
<1>4. CASE t = "postprocess" /\ Restarts(t)  BY <1>4 DEF Restarts, Programs, PostAt
<1> QED BY <1>1, <1>2, <1>3, <1>4, OthersWait, ThreadMoves DEF Moves

\* Who stops the completed queue, in every list of the code.
LEMMA StopCompletedLists ==
    /\ \A t \in Threads \ {"npu"} : \A p \in Programs[t] :
           Before(p, {"stop_completed"}, {"fatal"})
    /\ \A p \in Programs["npu"] :
           Before(p, {"stop_completed"}, {"fatal"}) \/ ~Has(p, NpuLive)
    /\ \A t \in Workers : Before(<<FirstStep[t]>>, {"stop_completed"}, {"fatal"})
    /\ Before(SignalFailure, {"stop_completed"}, {"fatal"})
    /\ Before(<<"run">>, {"stop_completed"}, {"fatal"})
    /\ Before(SignalFailure \o StopSteps, {"stop_completed"}, {"fatal"})
<1> DEFINE S == {"stop_completed"}
           T == {"fatal"}
<1>0. \A s : ~Has(s, S) => Before(s, S, T)  BY DEF Has, Before
<1>1. Before(SignalFailure, S, T) /\ Has(SignalFailure, T)
  BY DEF Before, Has, SignalFailure
<1>2. /\ ~Has(StopSteps, S) /\ ~Has(CaptureExit, S) /\ ~Has(PreprocessExit, S)
      /\ ~Has(SignalVideoFailure, S)
  BY DEF Has, StopSteps, CaptureExit, PreprocessExit, SignalVideoFailure
<1>3. /\ <<"dispose">> \in Seq(Steps) /\ <<"check">> \in Seq(Steps)
      /\ <<"push_video">> \in Seq(Steps) /\ <<"return_input">> \in Seq(Steps)
      /\ <<"drain_video">> \in Seq(Steps)
  BY DEF Steps
<1>4. /\ ~Has(<<"dispose">>, S) /\ ~Has(<<"check">>, S) /\ ~Has(<<"push_video">>, S)
      /\ ~Has(<<"return_input">>, S) /\ ~Has(<<"drain_video">>, S)
  BY ShortLists
<1>5. /\ Before(SignalFailure \o StopSteps, S, T) /\ Before(SignalFailure \o CaptureExit, S, T)
      /\ Before(SignalFailure \o PreprocessExit, S, T)
      /\ Before(SignalFailure \o NpuExit, S, T)
  BY <1>1, Lists, SignalFirst
<1> HIDE DEF S, T
<1>6. /\ ~Has(<<"dispose">> \o CaptureExit, S) /\ ~Has(<<"dispose">> \o <<"push_video">>, S)
      /\ ~Has(<<"dispose">> \o <<"check">>, S) /\ ~Has(<<"return_input">> \o PreprocessExit, S)
      /\ ~Has(SignalVideoFailure \o <<"drain_video">>, S)
  BY <1>2, <1>3, <1>4, Lists, ConcatHas
<1>7. /\ \A x : x # "stop_completed" => ~Has(<<x>>, S)
      /\ \A x, y : x # "stop_completed" /\ y # "stop_completed" => ~Has(<<x, y>>, S)
      /\ \A x, y, z : x # "stop_completed" /\ y # "stop_completed" /\ z # "stop_completed"
             => ~Has(<<x, y, z>>, S)
      /\ ~Has(<<>>, S)
  BY ShortLists DEF S
<1>8. \A t \in Workers : Before(<<FirstStep[t]>>, S, T)
  <2>1. \A t \in Workers : FirstStep[t] # "stop_completed"  BY DEF Workers, FirstStep
  <2> QED BY <1>0, <1>7, <2>1
<1>9. \A p \in Programs["main"] : Before(p, S, T)
  BY <1>0, <1>1, <1>2, <1>7 DEF Programs
<1>10. \A p \in Programs["capture"] : Before(p, S, T)
  BY <1>0, <1>2, <1>5, <1>6, <1>7 DEF Programs
<1>11. \A p \in Programs["preprocess"] : Before(p, S, T)
  BY <1>0, <1>2, <1>5, <1>6, <1>7 DEF Programs
<1>12. \A p \in Programs["npu"] : Before(p, S, T) \/ ~Has(p, NpuLive)
  BY <1>0, <1>5, <1>7, NpuLists DEF Programs
<1>13. \A p \in Programs["postprocess"] : Before(p, S, T)  BY <1>0, <1>7 DEF Programs
<1>14. \A p \in Programs["video"] : Before(p, S, T)  BY <1>0, <1>6, <1>7 DEF Programs
<1>15. \A p \in Programs["encoded"] : Before(p, S, T)  BY <1>0, <1>2, <1>7 DEF Programs
<1>16. Before(<<"run">>, S, T)  BY <1>0, <1>7
<1> QED BY <1>1, <1>5, <1>8, <1>9, <1>10, <1>11, <1>12, <1>13, <1>14, <1>15, <1>16,
           PipelineThreads DEF Workers, S, T

\* The NPU thread has no live step once it has none, until the threads are created.
LEMMA NpuOver ==
    ASSUME PcType, NEW t \in Threads, ThreadStep(t), ~Has(pc["npu"], NpuLive)
    PROVE  ~Has(pc'["npu"], NpuLive) \/ (t = "main" /\ Spawns)
<1> USE MainAndWorkers DEF PcType
<1>1. CASE t = "npu"
  <2>1. CallStep(t)  BY <1>1, NpuNext DEF ThreadStep
  <2>2. pc' = pc \/ Proceeds(t)  BY <2>1, CallMoves
  <2>3. CASE Proceeds(t)
    <3>1. pc["npu"] \in Seq(Steps) /\ pc["npu"] # <<>> /\ pc'["npu"] = Tail(pc["npu"])
      BY <1>1, <2>3 DEF Proceeds
    <3> QED BY <3>1, TailHas
  <2> QED BY <2>2, <2>3
<1>2. CASE t # "npu"  BY <1>2, OthersWait
<1> QED BY <1>1, <1>2

\* The queue of completed jobs is stopped behind a fatal error, or by the inference
\* thread when it has no frame left.
LEMMA StopsCompletedStep ==
    ASSUME PcType, NEW t \in Threads, ThreadStep(t), \A u \in Threads : StopsCompleted(u)
    PROVE  \A u \in Threads : StopsCompleted(u)'
<1> USE MainAndWorkers DEF PcType
<1> SUFFICES ASSUME NEW u \in Threads PROVE StopsCompleted(u)'  OBVIOUS
<1>0. pc[u] \in Seq(Steps)  OBVIOUS
<1>1. CASE fatal
  <2>1. fatal' = fatal \/ fatal' = TRUE
    BY FlagsStep DEF SetFatal, SetStop, SetVideoFailed
  <2> QED BY <1>1, <2>1 DEF StopsCompleted
<1>2. CASE u = "npu" /\ ~Has(pc["npu"], NpuLive)
  <2>1. CASE t = "main" /\ Spawns
    <3>1. pc'[u] = <<>> \/ pc'[u] = <<FirstStep[u]>>  BY <1>2, <2>1, SpawnEffect
    <3>2. ~Has(<<>>, {"stop_completed"})  BY ShortLists
    <3> QED BY <1>2, <3>1, <3>2, StopCompletedLists DEF StopsCompleted, Has, Before
  <2> QED BY <1>2, <2>1, NpuOver DEF StopsCompleted
<1>3. CASE Before(pc[u], {"stop_completed"}, {"fatal"})
  <2>1. CASE t # u
    <3>1. CASE pc'[u] = pc[u]  BY <1>3, <3>1 DEF StopsCompleted
    <3>2. CASE t = "main" /\ Spawns
      <4>1. pc'[u] = <<>> \/ pc'[u] = <<FirstStep[u]>>  BY <2>1, <3>2, SpawnEffect
      <4>2. ~Has(<<>>, {"stop_completed"})  BY ShortLists
      <4>3. u \in Workers  BY <2>1, <3>2
      <4> QED BY <4>1, <4>2, <4>3, StopCompletedLists DEF StopsCompleted, Has, Before
    <3> QED BY <2>1, <3>1, <3>2, OthersWait
  <2>2. CASE t = u /\ t # "npu"
    <3>1. Moves(t)  BY ThreadMoves
    <3>2. Before(pc'[t], {"stop_completed"}, {"fatal"})
          \/ (Proceeds(t) /\ Head(pc[t]) \in {"fatal"})
      <4>1. \A p \in Programs[t] : Before(p, {"stop_completed"}, {"fatal"})
        BY <2>2, StopCompletedLists
      <4> QED BY <1>3, <2>2, <3>1, <4>1, StopCompletedLists, BeforeMoves
    <3>3. CASE Proceeds(t) /\ Head(pc[t]) \in {"fatal"}
      <4>1. SetFatal(t)  BY <3>3, FlagTaken
      <4>2. fatal' = TRUE  BY <4>1 DEF SetFatal
      <4> QED BY <4>2 DEF StopsCompleted
    <3> QED BY <2>2, <3>2, <3>3 DEF StopsCompleted
  <2>3. CASE t = u /\ t = "npu"
    <3>1. CASE pc' = pc  BY <1>3, <3>1 DEF StopsCompleted
    <3>2. CASE Proceeds(t) /\ Head(pc[t]) = "fatal"
      <4>1. SetFatal(t)  BY <3>2, FlagTaken
      <4>2. fatal' = TRUE  BY <4>1 DEF SetFatal
      <4> QED BY <4>2 DEF StopsCompleted
    <3>3. CASE Proceeds(t) /\ Head(pc[t]) # "fatal"
      <4>1. pc[t] # <<>> /\ pc'[t] = Tail(pc[t])  BY <3>3 DEF Proceeds
      <4>2. Before(Tail(pc[t]), {"stop_completed"}, {"fatal"})
        BY <1>0, <1>3, <2>3, <3>3, <4>1, TailBefore
      <4> QED BY <2>3, <4>1, <4>2 DEF StopsCompleted
    <3>4. CASE Restarts(t)
      <4>1. pc'[t] \in Programs["npu"]  BY <2>3, <3>4 DEF Restarts
      <4> QED BY <2>3, <4>1, StopCompletedLists DEF StopsCompleted
    <3> QED BY <2>3, <3>1, <3>2, <3>3, <3>4, ThreadMoves DEF Moves
  <2> QED BY <2>1, <2>2, <2>3
<1> QED BY <1>1, <1>2, <1>3 DEF StopsCompleted

\* Hence it is never stopped while the inference thread could still push into it.
LEMMA CompletedEndsStep ==
    ASSUME PcType, QueueType, Fresh, NEW t \in Threads, ThreadStep(t),
           StopsCompleted(t), CompletedEnds
    PROVE  CompletedEnds'
<1> USE MainAndWorkers
<1>0. "completed" \in Queues /\ pc[t] \in Seq(Steps)  BY DEF Queues, PcType
<1>1. fatal => fatal'
  <2>1. fatal' = fatal \/ fatal' = TRUE
    BY FlagsStep DEF SetFatal, SetStop, SetVideoFailed
  <2> QED BY <2>1
<1>2. CASE t = "main" /\ Spawns
  <2>1. ~queue["completed"].stopped /\ queue' = queue
    BY <1>0, <1>2, SpawnFresh, SpawnEffect
  <2> QED BY <2>1 DEF CompletedEnds
<1>3. CASE ~(t = "main" /\ Spawns) /\ queue["completed"].stopped
  BY <1>1, <1>3, NpuOver DEF CompletedEnds
<1>4. CASE StopQueue(t, "completed")
  <2>1. pc[t] # <<>> /\ Head(pc[t]) = "stop_completed"
    BY <1>4 DEF StopQueue, At, StopStep
  <2>2. ~Before(pc[t], {"stop_completed"}, {"fatal"})  BY <1>0, <2>1, TailBefore
  <2>3. CASE ~(t = "main" /\ Spawns)
    BY <1>1, <2>2, <2>3, NpuOver DEF StopsCompleted, CompletedEnds
  <2> QED BY <1>2, <2>3
<1>5. queue'["completed"].stopped = queue["completed"].stopped \/ StopQueue(t, "completed")
  BY <1>0, StopsStep
<1> QED BY <1>2, <1>3, <1>4, <1>5 DEF CompletedEnds

\* What the calls leave alone of the frames on their way.
LEMMA CallCarries ==
    ASSUME QueueType, WorkType, NEW t \in Threads, CallStep(t)
    PROVE  /\ UNCHANGED <<inferred, finished>>
           /\ queue'["completed"].items = queue["completed"].items
           /\ \A u \in Threads : job'[u].frame = job[u].frame
<1> USE DEF history, work, pipelineVars
<1>1. UNCHANGED <<inferred, finished>>
  BY DEF CallStep, SetFatal, SetStop, SetVideoFailed, CloseBroker, RequestCameraStop,
     StopQueue, NotifyCapture, Dispose, ReturnInput, ReturnOutput
<1>2. \A u \in Threads : job'[u].frame = job[u].frame
  BY DEF CallStep, SetFatal, SetStop, SetVideoFailed, CloseBroker, RequestCameraStop,
     StopQueue, NotifyCapture, Dispose, ReturnInput, ReturnOutput, WorkType, Jobs
<1>3. queue'["completed"].items = queue["completed"].items
  <2>1. /\ \A r \in Queues \ {"completed"} : \A item :
               TryPush(r, item) => queue'["completed"] = queue["completed"]
        /\ \A r \in Queues : queue' = [queue EXCEPT ![r].stopped = TRUE] =>
               queue'["completed"].items = queue["completed"].items
        /\ "freeIn" \in Queues \ {"completed"} /\ "freeOut" \in Queues \ {"completed"}
        /\ queue' = queue => queue'["completed"].items = queue["completed"].items
    <3>1. ASSUME NEW r \in Queues \ {"completed"}, NEW item, TryPush(r, item)
          PROVE  queue'["completed"] = queue["completed"]
      BY <3>1 DEF TryPush, QueueType, Queues
    <3>2. ASSUME NEW r \in Queues, queue' = [queue EXCEPT ![r].stopped = TRUE]
          PROVE  queue'["completed"].items = queue["completed"].items
      BY <3>2 DEF QueueType, Queues
    <3> QED BY <3>1, <3>2 DEF Queues
  <2> QED BY <2>1 DEF CallStep, SetFatal, SetStop, SetVideoFailed, CloseBroker,
          RequestCameraStop, StopQueue, NotifyCapture, Dispose, ReturnInput, ReturnOutput
<1> QED BY <1>1, <1>2, <1>3

\* What the other threads leave alone of them.
LEMMA OthersCarry ==
    ASSUME QueueType, WorkType, NEW t \in Threads, ThreadStep(t),
           t \notin {"npu", "postprocess"}
    PROVE  /\ UNCHANGED <<inferred, finished>>
           /\ queue'["completed"].items = queue["completed"].items
           /\ job'["npu"].frame = job["npu"].frame
           /\ job'["postprocess"].frame = job["postprocess"].frame
<1> USE DEF history, work, pipelineVars
<1> USE MainAndWorkers
<1> DEFINE same == queue'["completed"].items = queue["completed"].items
           kept == /\ job'["npu"].frame = job["npu"].frame
                   /\ job'["postprocess"].frame = job["postprocess"].frame
<1>0. /\ \A r \in Queues \ {"completed"} : Pop(r) => same
      /\ \A r \in Queues \ {"completed"} : \A item :
             TryPush(r, item) \/ PushLatest(r, item) => same
      /\ queue' = queue => same
      /\ {"freeIn", "freeOut", "captured", "prepared", "video", "encoded"} \subseteq
             Queues \ {"completed"}
  BY DEF Pop, TryPush, PushLatest, QueueType, Queues
<1>1. /\ job' = job => kept
      /\ \A u \in Threads \ {"npu", "postprocess"} : \A j :
             job' = [job EXCEPT ![u] = j] => kept
      /\ \A u \in Threads \ {"npu", "postprocess"} : \A n :
             \/ job' = [job EXCEPT ![u].in = n]
             \/ job' = [job EXCEPT ![u].frame = n]
             => kept
      /\ {"capture", "preprocess", "video", "encoded", "main"} \subseteq
             Threads \ {"npu", "postprocess"}
  BY DEF WorkType
<1>2. StartQueues => same  BY <1>0, StartEffect DEF Queues
<1> HIDE DEF same, kept
<1> SUFFICES UNCHANGED <<inferred, finished>> /\ same /\ kept  BY DEF same, kept
<1>3. CASE CallStep(t)  BY <1>3, CallCarries DEF same, kept
<1>4. CASE t = "main" /\ Supervise
  BY <1>0, <1>1, <1>2, <1>4 DEF Supervise, StartCamera, Spawn, Join, StopCamera
<1>5. CASE t = "capture" /\ CaptureLoop
  BY <1>0, <1>1, <1>5 DEF CaptureLoop, CaptureCheck, DrainPop, DrainRequeued,
     DrainRequeueFailed, DrainEmpty, CaptureStopped, PollWake, PollTimeout, PollThrows,
     PollFrame, PollDropped, PublishFrame, PublishRefused, RequeueDirect, AfterDirect,
     PushCaptured, PushVideo
<1>6. CASE t = "preprocess" /\ PreprocessLoop
  BY <1>0, <1>1, <1>6 DEF PreprocessLoop, TakeInputSlot, TakeFrame, NoMoreFrames,
     Preprocess, PushPrepared, DrainLeases
<1>7. CASE t = "video" /\ VideoLoop
  BY <1>0, <1>1, <1>7 DEF VideoLoop, TakeVideoFrame, Encode, PushEncoded, DrainLeases
<1>8. CASE t = "encoded" /\ EncodedPacketLoop
  BY <1>0, <1>1, <1>8 DEF EncodedPacketLoop, TakePacket, WritePacket
<1> QED BY <1>3, <1>4, <1>5, <1>6, <1>7, <1>8 DEF ThreadStep

\* A queue that was pushed into is not empty.
LEMMA AppendNotEmpty ==
    ASSUME NEW S, NEW s \in Seq(S), NEW x \in S
    PROVE  Append(s, x) # <<>>
<1>1. Len(Append(s, x)) = Len(s) + 1 /\ Len(s) \in Nat /\ Len(<<>>) = 0  OBVIOUS
<1> QED BY <1>1

\* The items of the completed queue, pushed and taken.
LEMMA CompletedMoves ==
    ASSUME QueueType, WorkType
    PROVE  /\ PushCompleted => IF queue["completed"].stopped
                  THEN InQueue' = InQueue
                  ELSE /\ InQueue' = InQueue \cup {job["npu"].frame}
                       /\ queue'["completed"].items # <<>>
           /\ CanPop("completed") /\ Pop("completed") =>
                  InQueue = InQueue' \cup {Front("completed").frame}
           /\ queue'["completed"].items = queue["completed"].items => InQueue' = InQueue
<1> DEFINE items == queue["completed"].items
<1>0. /\ "completed" \in Queues /\ items \in Seq(Jobs) /\ job["npu"] \in Jobs
      /\ ItemsOf["completed"] = Jobs
  BY MainAndWorkers, QueueItems DEF QueueType, WorkType
<1>1. ASSUME PushCompleted
      PROVE  IF queue["completed"].stopped
                  THEN InQueue' = InQueue
                  ELSE /\ InQueue' = InQueue \cup {job["npu"].frame}
                       /\ queue'["completed"].items # <<>>
  <2>1. queue'["completed"].items = IF queue["completed"].stopped \/ Full("completed")
                                    THEN items ELSE Append(items, job["npu"])
    BY <1>0, <1>1, TryPushEffect DEF PushCompleted
  <2>2. queue["completed"].stopped \/ ~Full("completed")
    BY <1>1 DEF PushCompleted, CanPush
  <2>3. Append(items, job["npu"]) # <<>>  BY <1>0, AppendNotEmpty
  <2>4. FramesOf(Append(items, job["npu"])) = FramesOf(items) \cup {job["npu"].frame}
    BY <1>0, FramesMove
  <2> QED BY <2>1, <2>2, <2>3, <2>4 DEF InQueue
<1>2. ASSUME CanPop("completed"), Pop("completed")
      PROVE  InQueue = InQueue' \cup {Front("completed").frame}
  <2>1. queue'["completed"].items = Tail(items) /\ items # <<>>
    BY <1>0, <1>2, PopEffect DEF CanPop
  <2>2. FramesOf(items) = FramesOf(Tail(items)) \cup {Head(items).frame}
    BY <1>0, <2>1, FramesMove
  <2> QED BY <2>1, <2>2 DEF InQueue, Front
<1>3. queue'["completed"].items = queue["completed"].items => InQueue' = InQueue
  BY DEF InQueue
<1> QED BY <1>1, <1>2, <1>3

\* The postprocess thread does not return while a result is or may come into its queue.
LEMMA PostprocessStaysStep ==
    ASSUME PcType, QueueType, WorkType, Fresh, NpuAt, PostAt, NEW t \in Threads,
           ThreadStep(t), PostprocessStays
    PROVE  PostprocessStays'
<1> USE MainAndWorkers DEF PcType
<1> DEFINE items == queue["completed"].items
           stopped == queue["completed"].stopped
           alive == Has(pc["npu"], NpuLive)
<1>0. "completed" \in Queues /\ pc["npu"] \in Seq(Steps)  BY DEF Queues
<1>1. CASE t = "main" /\ Spawns
  <2>1. /\ pc["postprocess"] = <<>> /\ queue' = queue
        /\ Split /\ pc'["npu"] # <<>> => pc'["postprocess"] = <<"completed">>
    BY <1>1, SpawnFresh, SpawnEffect, SpawnLists
  <2>2. ~Has(<<>>, NpuLive) /\ <<"completed">> # <<>>  BY NpuLists
  <2> QED BY <2>1, <2>2 DEF PostprocessStays
<1>2. CASE t # "npu" /\ t # "postprocess" /\ ~(t = "main" /\ Spawns)
  <2>1. items' = items  BY <1>2, OthersCarry
  <2>2. ~stopped' => ~stopped
    <3>1. stopped' = stopped \/ StopQueue(t, "completed")  BY <1>0, StopsStep
    <3>2. StopQueue(t, "completed") => stopped' = TRUE  BY <1>0 DEF StopQueue, QueueType
    <3> QED BY <3>1, <3>2
  <2>3. pc'["npu"] = pc["npu"] /\ pc'["postprocess"] = pc["postprocess"]
    BY <1>2, OthersWait
  <2> QED BY <2>1, <2>2, <2>3 DEF PostprocessStays
<1>3. CASE t = "npu"
  <2>1. pc'["postprocess"] = pc["postprocess"]  BY <1>3, OthersWait
  <2>2. ~stopped' => ~stopped
    <3>1. stopped' = stopped \/ StopQueue(t, "completed")  BY <1>0, StopsStep
    <3>2. StopQueue(t, "completed") => stopped' = TRUE  BY <1>0 DEF StopQueue, QueueType
    <3> QED BY <3>1, <3>2
  <2>3. Has(pc'["npu"], NpuLive) => alive  BY <1>3, NpuOver
  <2>4. CASE items' = items  BY <2>1, <2>2, <2>3, <2>4 DEF PostprocessStays
  <2>5. CASE items' # items
    <3>1. ~CallStep(t)  BY <2>5, CallCarries
    <3>2. NpuLoop \/ PostprocessStep("npu")  BY <1>3, <3>1 DEF ThreadStep
    <3>3. PushCompleted
      <4>1. /\ \A r \in Queues \ {"completed"} : Pop(r) => items' = items
            /\ \A r \in Queues \ {"completed"} : \A item : TryPush(r, item) => items' = items
            /\ {"freeIn", "freeOut", "prepared"} \subseteq Queues \ {"completed"}
        BY DEF Pop, TryPush, QueueType, Queues
      <4> QED BY <2>5, <3>2, <4>1 DEF NpuLoop, TakePrepared, TakeOutputSlot, Run,
              PostprocessStep, Postprocess, PublishResult
    <3>4. ~stopped
      <4>1. stopped => queue' = queue  BY <3>3 DEF PushCompleted, TryPush
      <4> QED BY <2>5, <4>1
    <3>5. Has(pc["npu"], {"push_completed"}) /\ alive
      <4>1. pc["npu"] # <<>> /\ Head(pc["npu"]) = "push_completed"
        BY <3>3 DEF PushCompleted, At
      <4> QED BY <1>0, <4>1, TailSteps DEF Has, NpuLive
    <3> QED BY <2>1, <3>4, <3>5 DEF PostprocessStays, NpuAt
  <2> QED BY <2>4, <2>5
<1>4. CASE t = "postprocess"
  <2>1. pc'["npu"] = pc["npu"]  BY <1>4, OthersWait
  <2>2. CASE pc' = pc /\ CallStep(t)
    <3>1. items' = items  BY <2>2, CallCarries
    <3>2. stopped' = stopped
      <4>1. ~StopQueue(t, "completed")  BY <1>4 DEF StopQueue, At, StopStep, PostAt
      <4> QED BY <1>0, <4>1, StopsStep
    <3> QED BY <2>1, <2>2, <3>1, <3>2 DEF PostprocessStays
  <2>3. ~CallStep(t) \/ pc' = pc
    <3>1. pc[t] # <<>> => Head(pc[t]) \notin CallSteps  BY <1>4 DEF PostAt, CallSteps
    <3> QED BY <3>1, CallHeads
  <2>4. CASE PostprocessStep(t)
    <3>1. pc'["postprocess"] = <<"publish_result">> \/ pc'["postprocess"] = <<"completed">>
      BY <1>4, <2>4 DEF PostprocessStep, Postprocess, PublishResult, Loop, NextRound
    <3>2. <<"publish_result">> # <<>> /\ <<"completed">> # <<>>  OBVIOUS
    <3> QED BY <3>1, <3>2 DEF PostprocessStays
  <2>5. CASE TakeCompleted
    <3>1. CASE pc'["postprocess"] = <<"post">>  BY <3>1 DEF PostprocessStays
    <3>2. CASE Drained("completed") /\ queue' = queue
      BY <2>1, <3>2 DEF Drained, PostprocessStays
    <3> QED BY <2>5, <3>1, <3>2 DEF TakeCompleted, Loop
  <2> QED BY <1>4, <2>2, <2>3, <2>4, <2>5 DEF ThreadStep
<1> QED BY <1>1, <1>2, <1>3, <1>4

\* A step of the NPU or postprocess thread, by what it does to the frames that are
\* on their way.
LEMMA NpuCarries ==
    ASSUME PcType, QueueType, WorkType, NpuAt, CompletedEnds, ThreadStep("npu")
    PROVE  /\ InPost' = InPost
           /\ \/ UNCHANGED <<inferred, finished>> /\ InNpu' = InNpu /\ InQueue' = InQueue
              \/ /\ InNpu = {} /\ InQueue' = InQueue /\ UNCHANGED finished
                 /\ inferred' = inferred \cup {job["npu"].frame}
                 /\ InNpu' = {job["npu"].frame}
              \/ /\ InNpu = {job["npu"].frame} /\ InNpu' = {}
                 /\ UNCHANGED <<inferred, finished>>
                 /\ fatal \/ InQueue' = InQueue \cup InNpu
                 /\ InQueue' \subseteq InQueue \cup InNpu
              \/ /\ InNpu = {job["npu"].frame} /\ InNpu' = {} /\ InQueue' = InQueue
                 /\ UNCHANGED inferred /\ finished' = finished \cup InNpu
<1> USE MainAndWorkers DEF PcType, history
<1>0. /\ pc["npu"] \in Seq(Steps) /\ "npu" \in Threads /\ "postprocess" \in Threads
      /\ pc'["npu"] \in Seq(Steps) /\ NpuAt'
  BY ThreadMoves, PcStep, NpuAtStep
<1>1. pc'["postprocess"] = pc["postprocess"]  BY OthersWait, <1>0
<1>2. /\ \A r \in Queues \ {"completed"} : Pop(r) => InQueue' = InQueue
      /\ \A r \in Queues \ {"completed"} : \A item : TryPush(r, item) => InQueue' = InQueue
      /\ {"freeIn", "freeOut", "prepared"} \subseteq Queues \ {"completed"}
      /\ queue' = queue => InQueue' = InQueue
  BY DEF Pop, TryPush, QueueType, Queues, InQueue
<1>3. /\ \A j : job' = [job EXCEPT !["npu"] = j] =>
                    job'["postprocess"] = job["postprocess"]
      /\ \A n : \/ job' = [job EXCEPT !["npu"].in = n]
                \/ job' = [job EXCEPT !["npu"].out = n]
                => /\ job'["postprocess"] = job["postprocess"]
                   /\ job'["npu"].frame = job["npu"].frame
      /\ job' = job => job'["postprocess"] = job["postprocess"]
  <2>1. job \in [Threads -> Jobs]  BY DEF WorkType
  <2>2. ASSUME NEW j, job' = [job EXCEPT !["npu"] = j]
        PROVE  job'["postprocess"] = job["postprocess"]
    BY <1>0, <2>1, <2>2
  <2>3. ASSUME NEW n, job' = [job EXCEPT !["npu"].in = n]
        PROVE  /\ job'["postprocess"] = job["postprocess"]
               /\ job'["npu"].frame = job["npu"].frame
    BY <1>0, <2>1, <2>3 DEF Jobs
  <2>4. ASSUME NEW n, job' = [job EXCEPT !["npu"].out = n]
        PROVE  /\ job'["postprocess"] = job["postprocess"]
               /\ job'["npu"].frame = job["npu"].frame
    BY <1>0, <2>1, <2>4 DEF Jobs
  <2> QED BY <2>2, <2>3, <2>4
<1>4. \A p : ~Has(p, NpuLive) => p \notin CarryLists  BY DEF Has, NpuLive, CarryLists
<1>5. /\ <<"output">> \notin CarryLists /\ <<"run">> \notin CarryLists
      /\ <<"prepared">> \notin CarryLists /\ <<"publish_result">> \notin CarryLists
      /\ <<"return_output", "prepared">> \notin CarryLists
  BY DEF CarryLists
<1>6. CASE CallStep("npu")
  <2>1. /\ UNCHANGED <<inferred, finished>> /\ InQueue' = InQueue
        /\ job'["npu"].frame = job["npu"].frame
        /\ job'["postprocess"].frame = job["postprocess"].frame
    BY <1>0, <1>6, CallCarries DEF InQueue
  <2>2. pc'["npu"] \in CarryLists <=> pc["npu"] \in CarryLists
    <3>1. CASE pc' = pc  BY <3>1
    <3>2. CASE Proceeds("npu") /\ pc["npu"] # <<>> /\ Head(pc["npu"]) \in CallSteps
      <4>1. pc["npu"] \notin CarryLists  BY <3>2 DEF CarryLists, CallSteps
      <4>2. ~Has(pc["npu"], {"push_completed", "post"})  BY <1>0, <4>1, CarrySteps
      <4>3. pc'["npu"] = Tail(pc["npu"])  BY <1>0, <3>2 DEF Proceeds
      <4>4. ~Has(pc'["npu"], {"push_completed", "post"})
        BY <1>0, <3>2, <4>2, <4>3, TailHas
      <4>5. pc'["npu"] \notin CarryLists
        <5>1. /\ Has(<<"push_completed">>, {"push_completed", "post"})
              /\ Has(<<"post">>, {"push_completed", "post"})
          BY DEF Has
        <5> QED BY <4>4, <5>1 DEF CarryLists
      <4> QED BY <4>1, <4>5
    <3> QED BY <1>0, <1>6, <3>1, <3>2, CallMoves, CallHeads
  <2>3. InNpu' = InNpu  BY <2>1, <2>2 DEF InNpu
  <2>4. InPost' = InPost  BY <1>1, <2>1 DEF InPost
  <2> QED BY <2>1, <2>3, <2>4
<1>7. CASE TakePrepared
  <2>1. pc["npu"] \notin CarryLists  BY <1>7 DEF TakePrepared, At, CarryLists
  <2>2. pc'["npu"] \notin CarryLists
    BY <1>0, <1>4, <1>5, <1>7, NpuLists DEF TakePrepared, Loop
  <2>3. job'["postprocess"] = job["postprocess"] /\ InQueue' = InQueue
    BY <1>2, <1>3, <1>7 DEF TakePrepared
  <2> QED BY <1>1, <1>7, <2>1, <2>2, <2>3 DEF TakePrepared, InNpu, InPost
<1>8. CASE TakeOutputSlot
  <2>1. pc["npu"] \notin CarryLists  BY <1>8 DEF TakeOutputSlot, At, CarryLists
  <2>2. pc'["npu"] \notin CarryLists
    BY <1>0, <1>4, <1>5, <1>8, NpuLists DEF TakeOutputSlot, Loop
  <2>3. job'["postprocess"] = job["postprocess"] /\ InQueue' = InQueue
    BY <1>2, <1>3, <1>8 DEF TakeOutputSlot
  <2> QED BY <1>1, <1>8, <2>1, <2>2, <2>3 DEF TakeOutputSlot, InNpu, InPost
<1>9. CASE Run
  <2>1. pc["npu"] \notin CarryLists  BY <1>9 DEF Run, At, CarryLists
  <2>2. job'["postprocess"] = job["postprocess"] /\ InQueue' = InQueue
    BY <1>2, <1>3, <1>9 DEF Run
  <2>3. CASE UNCHANGED inferred
    <3>1. CASE pc'["npu"] \notin CarryLists
      BY <1>1, <1>9, <2>1, <2>2, <2>3, <3>1 DEF Run, InNpu, InPost
    <3>2. CASE pc'["npu"] \in CarryLists
      <4>1. /\ inferred' = inferred \cup {job["npu"].frame}
            /\ job'["npu"].frame = job["npu"].frame
        BY <1>0, <1>3, <1>4, <1>5, <1>9, <3>2, NpuLists DEF Run, Loop
      <4> QED BY <1>1, <1>9, <2>1, <2>2, <3>2, <4>1 DEF Run, InNpu, InPost
    <3> QED BY <3>1, <3>2
  <2>4. CASE ~UNCHANGED inferred
    <3>1. /\ inferred' = inferred \cup {job["npu"].frame}
          /\ job'["npu"].frame = job["npu"].frame
          /\ pc'["npu"] = <<IF Split THEN "push_completed" ELSE "post">>
      BY <1>0, <1>3, <1>9, <2>4 DEF Run, Loop
    <3>2. pc'["npu"] \in CarryLists  BY <3>1 DEF CarryLists
    <3> QED BY <1>1, <1>9, <2>1, <2>2, <3>1, <3>2 DEF Run, InNpu, InPost
  <2> QED BY <2>3, <2>4
<1>10. CASE PushCompleted
  <2>1. pc["npu"] # <<>> /\ Head(pc["npu"]) = "push_completed"
    BY <1>10 DEF PushCompleted, At
  <2>2. Has(pc["npu"], {"push_completed"}) /\ Has(pc["npu"], NpuLive)
    BY <1>0, <2>1, TailSteps DEF Has, NpuLive
  <2>3. pc["npu"] \in CarryLists  BY <2>2 DEF NpuAt, CarryLists
  <2>4. pc'["npu"] \notin CarryLists
    BY <1>0, <1>4, <1>5, <1>10, NpuLists DEF PushCompleted, Loop
  <2>5. job'["postprocess"] = job["postprocess"]  BY <1>3, <1>10 DEF PushCompleted
  <2>6. UNCHANGED <<inferred, finished>>  BY <1>10 DEF PushCompleted
  <2>7. IF queue["completed"].stopped THEN InQueue' = InQueue
        ELSE InQueue' = InQueue \cup {job["npu"].frame}
    BY <1>10, CompletedMoves
  <2>8. queue["completed"].stopped => fatal  BY <2>2 DEF CompletedEnds
  <2>9. InNpu = {job["npu"].frame} /\ InNpu' = {} /\ InPost' = InPost
    BY <1>1, <2>3, <2>4, <2>5 DEF InNpu, InPost
  <2> QED BY <2>6, <2>7, <2>8, <2>9
<1>11. CASE Postprocess("npu")
  <2>1. pc["npu"] # <<>> /\ Head(pc["npu"]) = "post"  BY <1>11 DEF Postprocess, At
  <2>2. Has(pc["npu"], {"post"})  BY <1>0, <2>1, TailSteps DEF Has
  <2>3. pc["npu"] \in CarryLists  BY <2>2 DEF NpuAt, CarryLists
  <2>4. pc'["npu"] \notin CarryLists
    BY <1>0, <1>5, <1>11 DEF Postprocess, Loop, NextRound
  <2>5. job'["postprocess"] = job["postprocess"] /\ InQueue' = InQueue
    BY <1>2, <1>3, <1>11 DEF Postprocess
  <2>6. UNCHANGED inferred /\ finished' = finished \cup {job["npu"].frame}
    BY <1>11 DEF Postprocess
  <2> QED BY <1>1, <2>3, <2>4, <2>5, <2>6 DEF InNpu, InPost
<1>12. CASE PublishResult("npu")
  <2>1. pc["npu"] \notin CarryLists  BY <1>12 DEF PublishResult, At, CarryLists
  <2>2. pc'["npu"] \notin CarryLists
    BY <1>0, <1>5, <1>12 DEF PublishResult, Loop, NextRound
  <2>3. job'["postprocess"] = job["postprocess"] /\ InQueue' = InQueue
    BY <1>2, <1>3, <1>12 DEF PublishResult
  <2> QED BY <1>1, <1>12, <2>1, <2>2, <2>3 DEF PublishResult, InNpu, InPost
<1> QED BY <1>6, <1>7, <1>8, <1>9, <1>10, <1>11, <1>12 DEF ThreadStep, NpuLoop, PostprocessStep

\* A step of the postprocess thread takes a result from the queue, hands one on, or
\* touches none.
LEMMA PostCarries ==
    ASSUME PcType, QueueType, WorkType, PostAt, ThreadStep("postprocess")
    PROVE  /\ InNpu' = InNpu /\ UNCHANGED inferred
           /\ \/ UNCHANGED finished /\ InPost' = InPost /\ InQueue' = InQueue
              \/ /\ UNCHANGED finished /\ InPost = {}
                 /\ InQueue = InQueue' \cup InPost'
              \/ /\ finished' = finished \cup InPost /\ InPost' = {} /\ InQueue' = InQueue
<1> USE MainAndWorkers DEF PcType, history
<1>0. "npu" \in Threads /\ "postprocess" \in Threads  OBVIOUS
<1>1. pc'["npu"] = pc["npu"]  BY OthersWait, <1>0
<1>2. /\ \A item : TryPush("freeOut", item) => InQueue' = InQueue
      /\ queue' = queue => InQueue' = InQueue
  BY DEF TryPush, QueueType, Queues, InQueue
<1>3. /\ \A j : job' = [job EXCEPT !["postprocess"] = j] =>
                    job'["npu"] = job["npu"] /\ job'["postprocess"] = j
      /\ \A n : job' = [job EXCEPT !["postprocess"].out = n] =>
                    job'["npu"] = job["npu"]
      /\ job' = job => job'["npu"] = job["npu"]
  BY <1>0 DEF WorkType, Jobs
<1>4. CASE CallStep("postprocess")
  <2>1. pc' = pc
    <3>1. pc["postprocess"] # <<>> => Head(pc["postprocess"]) \notin CallSteps
      BY DEF PostAt, CallSteps
    <3> QED BY <1>0, <1>4, <3>1, CallHeads
  <2>2. /\ UNCHANGED <<inferred, finished>> /\ InQueue' = InQueue
        /\ job'["npu"].frame = job["npu"].frame
        /\ job'["postprocess"].frame = job["postprocess"].frame
    BY <1>0, <1>4, CallCarries DEF InQueue
  <2> QED BY <2>1, <2>2 DEF InNpu, InPost
<1>5. CASE TakeCompleted
  <2>1. pc["postprocess"] # <<"post">>  BY <1>5 DEF TakeCompleted, At
  <2>2. InNpu' = InNpu /\ UNCHANGED <<inferred, finished>>
    BY <1>1, <1>3, <1>5 DEF TakeCompleted, InNpu
  <2>3. CASE /\ CanPop("completed") /\ Pop("completed")
             /\ job' = [job EXCEPT !["postprocess"] = Front("completed")]
             /\ Loop("postprocess", <<"post">>)
    <3>1. InQueue = InQueue' \cup {Front("completed").frame}  BY <2>3, CompletedMoves
    <3>2. InPost' = {Front("completed").frame}  BY <1>0, <1>3, <2>3 DEF InPost, Loop
    <3> QED BY <2>1, <2>2, <3>1, <3>2 DEF InPost
  <2>4. CASE Loop("postprocess", <<>>) /\ UNCHANGED <<queue, job>>
    <3>1. InQueue' = InQueue  BY <1>2, <2>4
    <3>2. InPost' = {} /\ InPost = {}  BY <1>0, <2>1, <2>4 DEF InPost, Loop
    <3> QED BY <2>2, <3>1, <3>2
  <2> QED BY <1>5, <2>3, <2>4 DEF TakeCompleted
<1>6. CASE Postprocess("postprocess")
  <2>1. pc["postprocess"] = <<"post">>  BY <1>6 DEF Postprocess, At, PostAt
  <2>2. pc'["postprocess"] # <<"post">>  BY <1>0, <1>6 DEF Postprocess, Loop, NextRound
  <2>3. job'["npu"] = job["npu"] /\ InQueue' = InQueue
    BY <1>2, <1>3, <1>6 DEF Postprocess
  <2>4. UNCHANGED inferred /\ finished' = finished \cup {job["postprocess"].frame}
    BY <1>6 DEF Postprocess
  <2> QED BY <1>1, <2>1, <2>2, <2>3, <2>4 DEF InNpu, InPost
<1>7. CASE PublishResult("postprocess")
  <2>1. pc["postprocess"] # <<"post">>  BY <1>7 DEF PublishResult, At
  <2>2. pc'["postprocess"] # <<"post">>
    BY <1>0, <1>7 DEF PublishResult, Loop, NextRound
  <2>3. job'["npu"] = job["npu"] /\ InQueue' = InQueue
    BY <1>2, <1>3, <1>7 DEF PublishResult
  <2> QED BY <1>1, <1>7, <2>1, <2>2, <2>3 DEF PublishResult, InNpu, InPost
<1> QED BY <1>4, <1>5, <1>6, <1>7 DEF ThreadStep, PostprocessStep

\* Between inference and postprocessing no result is lost, unless a fatal error says so.
LEMMA NothingDroppedStep ==
    ASSUME PcType, QueueType, WorkType, Fresh, NpuAt, PostAt, CompletedEnds, NothingDropped,
           NEW t \in Threads, ThreadStep(t)
    PROVE  NothingDropped'
<1> USE MainAndWorkers DEF Carried
<1>1. fatal => fatal'
  <2>1. fatal' = fatal \/ fatal' = TRUE
    BY FlagsStep DEF SetFatal, SetStop, SetVideoFailed
  <2> QED BY <2>1
<1>2. CASE t = "npu"  BY <1>1, <1>2, NpuCarries DEF NothingDropped
<1>3. CASE t = "postprocess"  BY <1>1, <1>3, PostCarries DEF NothingDropped
<1>4. CASE t # "npu" /\ t # "postprocess"
  <2>1. /\ UNCHANGED <<inferred, finished>> /\ InQueue' = InQueue
        /\ job'["npu"].frame = job["npu"].frame
        /\ job'["postprocess"].frame = job["postprocess"].frame
    BY <1>4, OthersCarry DEF InQueue
  <2>2. CASE t = "main" /\ Spawns
    <3>1. pc["npu"] = <<>> /\ pc["postprocess"] = <<>>  BY <2>2, SpawnFresh
    <3>2. /\ pc'["npu"] = <<>> \/ pc'["npu"] = <<"prepared">>
          /\ pc'["postprocess"] = <<>> \/ pc'["postprocess"] = <<"completed">>
      BY <2>2, SpawnEffect DEF FirstStep
    <3>3. InNpu = {} /\ InNpu' = {} /\ InPost = {} /\ InPost' = {}
      <4>1. /\ <<>> \notin CarryLists /\ <<"prepared">> \notin CarryLists
            /\ <<>> # <<"post">> /\ <<"completed">> # <<"post">>
        BY DEF CarryLists
      <4> QED BY <3>1, <3>2, <4>1 DEF InNpu, InPost
    <3> QED BY <1>1, <2>1, <3>3 DEF NothingDropped
  <2>3. CASE ~(t = "main" /\ Spawns)
    <3>1. pc'["npu"] = pc["npu"] /\ pc'["postprocess"] = pc["postprocess"]
      BY <1>4, <2>3, OthersWait
    <3>2. InNpu' = InNpu /\ InPost' = InPost  BY <2>1, <3>1 DEF InNpu, InPost
    <3> QED BY <1>1, <2>1, <3>2 DEF NothingDropped
  <2> QED BY <2>2, <2>3
<1> QED BY <1>2, <1>3, <1>4

\* Every step keeps the invariant of the drain.
LEMMA ResultInvStep ==
    ASSUME Inv, ResultInv, [PipelineNext]_vars
    PROVE  ResultInv'
<1> USE MainAndWorkers
<1>0. PcType /\ QueueType /\ WorkType /\ Fresh  BY DEF Inv, Base, Control, Types
<1>1. CASE UNCHANGED vars
  <2>1. UNCHANGED <<pc, queue, job, fatal, inferred, finished>>
    BY <1>1 DEF vars, pipelineVars, flags, work, history
  <2> QED BY <2>1 DEF ResultInv, NpuAt, PostAt, StopsCompleted, CompletedEnds,
          PostprocessStays, NothingDropped, Carried, InNpu, InQueue, InPost
<1>2. CASE StopRequested
  <2>1. UNCHANGED <<queue, job, fatal, inferred, finished>>
    BY <1>2 DEF StopRequested, flags, work, history
  <2>2. \A u \in Threads : u # "main" => pc'[u] = pc[u]
    BY <1>0, <1>2 DEF StopRequested, Loop, PcType
  <2>3. pc'["main"] = StopSteps  BY <1>0, <1>2 DEF StopRequested, Loop, PcType
  <2>4. Before(StopSteps, {"stop_completed"}, {"fatal"})
    <3>1. StopSteps \in Programs["main"]  BY DEF Programs
    <3> QED BY <3>1, StopCompletedLists
  <2>5. \A u \in Threads : StopsCompleted(u)'
    BY <2>1, <2>2, <2>3, <2>4 DEF ResultInv, StopsCompleted
  <2> QED BY <2>1, <2>2, <2>5 DEF ResultInv, NpuAt, PostAt, CompletedEnds, PostprocessStays,
          NothingDropped, Carried, InNpu, InQueue, InPost
<1>3. ASSUME NEW t \in Threads, ThreadStep(t) PROVE ResultInv'
  <2>1. NpuAt' /\ PostAt'  BY <1>0, <1>3, NpuAtStep, PostAtStep DEF ResultInv
  <2>2. (\A u \in Threads : StopsCompleted(u))' /\ CompletedEnds'
    BY <1>0, <1>3, StopsCompletedStep, CompletedEndsStep DEF ResultInv
  <2>3. PostprocessStays'  BY <1>0, <1>3, PostprocessStaysStep DEF ResultInv
  <2>4. NothingDropped'  BY <1>0, <1>3, NothingDroppedStep DEF ResultInv
  <2> QED BY <2>1, <2>2, <2>3, <2>4 DEF ResultInv
<1> QED BY <1>1, <1>2, <1>3 DEF PipelineNext, Terminated

\* It holds before StartCamera.
LEMMA ResultInit == PipelineInit => ResultInv
<1> SUFFICES ASSUME PipelineInit PROVE ResultInv  OBVIOUS
<1> USE MainAndWorkers
<1>1. /\ \A t \in Threads : pc[t] = <<>> \/ pc[t] = <<"start">>
      /\ pc["npu"] = <<>> /\ pc["postprocess"] = <<>>
      /\ queue["completed"].items = <<>> /\ ~queue["completed"].stopped
      /\ inferred = {} /\ finished = {}
  BY DEF PipelineInit, Queues
<1>2. /\ ~Has(<<>>, {"push_completed"}) /\ ~Has(<<>>, {"post"}) /\ ~Has(<<>>, NpuLive)
      /\ ~Has(<<>>, {"stop_completed"}) /\ ~Has(<<"start">>, {"stop_completed"})
  BY ShortLists
<1>3. NpuAt /\ PostAt  BY <1>1, <1>2 DEF NpuAt, PostAt
<1>4. \A t \in Threads : StopsCompleted(t)
  BY <1>1, <1>2 DEF StopsCompleted, Has, Before
<1>5. CompletedEnds /\ PostprocessStays
  BY <1>1, <1>2 DEF CompletedEnds, PostprocessStays
<1>6. NothingDropped
  <2>1. <<>> \notin CarryLists /\ <<>> # <<"post">> /\ <<>> \in Seq(Jobs)
    BY DEF CarryLists
  <2>2. InNpu = {} /\ InPost = {} /\ InQueue = {}
    BY <1>1, <2>1, FramesMove DEF InNpu, InPost, InQueue
  <2> QED BY <1>1, <2>2 DEF NothingDropped, Carried
<1> QED BY <1>3, <1>4, <1>5, <1>6 DEF ResultInv

\* When Stop stops the camera every lease and buffer is back, but for the buffers
\* whose QBUF failed, and a stop without a fatal failure has postprocessed every
\* frame that was inferred.
THEOREM NothingLeftBehind == PipelineSpec => []StopLeavesNothing
<1>1. PipelineInit => LostKept  BY DEF PipelineInit, BrokerInit, LostKept
<1>2. Inv /\ LostKept /\ [PipelineNext]_vars => LostKept'
  BY StepIsBroker, LostStep DEF Inv, Base
<1>3. PipelineInit => ResultInv  BY ResultInit
<1>4. Inv /\ ResultInv /\ [PipelineNext]_vars => ResultInv'  BY ResultInvStep
<1>5. Inv /\ LostKept /\ ResultInv => StopLeavesNothing
  <2> SUFFICES ASSUME Inv, LostKept, ResultInv, Stopped, ~fatal PROVE inferred = finished
    BY StopFinds DEF StopLeavesNothing
  <2>1. pc["npu"] = <<>> /\ pc["postprocess"] = <<>>
    BY MainAndWorkers DEF Stopped, Inv, Base, Control, Ended, AllReturned, Returned
  <2>2. <<>> \notin CarryLists /\ <<>> # <<"post">> /\ <<>> \in Seq(Jobs)
    BY DEF CarryLists
  <2>3. InNpu = {} /\ InPost = {}  BY <2>1, <2>2 DEF InNpu, InPost
  <2>4. InQueue = {}  BY <2>1, <2>2, FramesMove DEF ResultInv, PostprocessStays, InQueue
  <2> QED BY <2>3, <2>4 DEF ResultInv, NothingDropped, Carried
<1> QED BY <1>1, <1>2, <1>3, <1>4, <1>5, PipelineInvariant, PTL DEF PipelineSpec

--------------------------------------------------------------------------------
(* A failure of the video branch stays there                                *)

\* The failures that do not end the pipeline, the queues of capture and inference,
\* the steps that stop them or the capture, and the signs that make a thread exit.
Tolerated == {"encode", "write", "view", "preprocess", "run", "post"}
Critical == {"captured", "prepared", "completed", "freeIn", "freeOut"}
Alarm == {"fatal", "stop"}
Effects == {"stop_captured", "stop_prepared", "stop_completed", "stop_freeIn",
            "stop_freeOut", "close", "requestStop", "stop_camera"}
Signs == closed \/ camStop \/ \E q \in Critical : queue[q].stopped

\* Before Stop is called nothing has stopped and nothing is about to: what only
\* tolerated failures have happened to runs on.
RunsOn ==
    /\ ~fatal /\ \A t \in Threads : ~Has(pc[t], {"fatal"})
    /\ \A t \in Workers : ~Has(pc[t], {"stop"})
    /\ stop \/ (~Signs /\ \A t \in Threads : Before(pc[t], Effects, {"stop"}))
    /\ stop => pc["main"] # <<"run">>
    /\ camera = "released" => graceful

IsolationInv ==
    /\ lost # {} => "qbuf" \in faults
    /\ First(pc["main"], {"run"})
    /\ faults \subseteq Tolerated => RunsOn

\* The failures that have happened stay on record, and only a QBUF that fails
\* loses a buffer.
LEMMA FaultsStep ==
    ASSUME NEW t \in Threads, ThreadStep(t)
    PROVE  /\ faults \subseteq faults'
           /\ lost' = lost \/ lost' = {} \/ "qbuf" \in faults'
<1> USE DEF brokerVars, ghostVars, pipelineVars, Happens
<1>1. CASE CallStep(t)
  BY <1>1 DEF CallStep, SetFatal, SetStop, SetVideoFailed, CloseBroker, Close,
     RequestStop, Wake, RequestCameraStop, StopQueue, NotifyCapture, Notify, Dispose,
     Release, ReturnInput, ReturnOutput
<1>2. CASE t = "main" /\ Supervise
  BY <1>2 DEF Supervise, StartCamera, CameraStart, CameraStartFails, Spawn, Join,
     StopCamera, CameraStop
<1>3. CASE t = "capture" /\ CaptureLoop
  BY <1>3 DEF CaptureLoop, CaptureCheck, DrainPop, DrainRequeued, DrainRequeueFailed,
     DrainEmpty, CaptureStopped, PollWake, PollTimeout, PollThrows, PollFrame,
     PollDropped, PublishFrame, PublishRefused, RequeueDirect, AfterDirect,
     PushCaptured, PushVideo, PopRequeue, RequeueDone, RequeueFails, CaptureWake,
     CaptureFrame, CaptureDropped, PublishAccepted, PublishRejected
<1>4. CASE t = "preprocess" /\ PreprocessLoop
  BY <1>4 DEF PreprocessLoop, TakeInputSlot, TakeFrame, NoMoreFrames, Preprocess,
     PushPrepared, DrainLeases, Release
<1>5. CASE (t = "npu" \/ t = "postprocess") /\ PostprocessStep(t)
  BY <1>5 DEF PostprocessStep, Postprocess, PublishResult
<1>6. CASE \/ t = "npu" /\ NpuLoop
           \/ t = "postprocess" /\ TakeCompleted
  BY <1>6 DEF NpuLoop, TakePrepared, TakeOutputSlot, Run, PushCompleted, TakeCompleted
<1>7. CASE t = "video" /\ VideoLoop
  BY <1>7 DEF VideoLoop, TakeVideoFrame, Encode, PushEncoded, DrainLeases, Release
<1>8. CASE t = "encoded" /\ EncodedPacketLoop
  BY <1>8 DEF EncodedPacketLoop, TakePacket, WritePacket
<1> QED BY <1>1, <1>2, <1>3, <1>4, <1>5, <1>6, <1>7, <1>8 DEF ThreadStep

\* A list raises no alarm; it has no effect on the other threads either.
Silent(p) == ~Has(p, Alarm)
Harmless(p) == Silent(p) /\ ~Has(p, Effects)

\* The steps of the loops themselves.
LoopSteps == {"check", "drain", "capture", "poll", "publish", "requeue_direct",
              "after_direct", "push_captured", "push_video", "slot", "frame", "process",
              "dispose", "return_input", "return_output", "push_prepared", "prepared",
              "output", "run", "push_completed", "post", "publish_result", "completed",
              "video", "encode", "push_encoded", "drain_video", "packet", "write"}

\* Lists of up to three loop steps are harmless.
LEMMA HarmlessShort ==
    /\ Harmless(<<>>)
    /\ \A x \in LoopSteps : Harmless(<<x>>)
    /\ \A x, y \in LoopSteps : Harmless(<<x, y>>)
    /\ \A x, y, z \in LoopSteps : Harmless(<<x, y, z>>)
<1>1. LoopSteps \cap Alarm = {} /\ LoopSteps \cap Effects = {}
  BY DEF LoopSteps, Alarm, Effects
<1>2. \A S \in {Alarm, Effects} : \A x \in LoopSteps : x \notin S  BY <1>1
<1> QED BY <1>2, ShortLists DEF Harmless, Silent

\* The lists a thread gets when nothing has failed fatally: none raises the alarm,
\* and only the exits have an effect on the others.
LEMMA QuietLists ==
    /\ Silent(CaptureExit) /\ Silent(<<"dispose">> \o CaptureExit)
    /\ Silent(PreprocessExit) /\ Silent(<<"return_input">> \o PreprocessExit)
    /\ Silent(NpuExit) /\ Silent(<<"return_input">> \o NpuExit)
    /\ Silent(<<"return_output">> \o NpuExit)
    /\ Harmless(<<"dispose">> \o <<"push_video">>) /\ Harmless(<<"dispose">> \o <<"check">>)
    /\ Harmless(SignalVideoFailure) /\ Harmless(SignalVideoFailure \o <<"drain_video">>)
<1>1. Silent(CaptureExit) /\ Silent(PreprocessExit)
  BY DEF Silent, Has, CaptureExit, PreprocessExit, Alarm
<1>2. Silent(NpuExit)  BY ShortLists DEF Silent, NpuExit, Alarm
<1>3. /\ <<"dispose">> \in Seq(Steps) /\ <<"check">> \in Seq(Steps)
      /\ <<"push_video">> \in Seq(Steps) /\ <<"return_input">> \in Seq(Steps)
      /\ <<"return_output">> \in Seq(Steps) /\ <<"drain_video">> \in Seq(Steps)
  BY DEF Steps
<1>4. /\ Harmless(<<"dispose">>) /\ Harmless(<<"check">>) /\ Harmless(<<"push_video">>)
      /\ Harmless(<<"return_input">>) /\ Harmless(<<"return_output">>)
      /\ Harmless(<<"drain_video">>)
  <2>1. {"dispose", "check", "push_video", "return_input", "return_output", "drain_video"}
            \subseteq LoopSteps
    BY DEF LoopSteps
  <2> QED BY <2>1, HarmlessShort
<1>5. Harmless(SignalVideoFailure)
  BY DEF Harmless, Silent, Has, SignalVideoFailure, Alarm, Effects
<1>6. \A a, b \in Seq(Steps) : /\ Silent(a) /\ Silent(b) => Silent(a \o b)
                               /\ Harmless(a) /\ Harmless(b) => Harmless(a \o b)
  BY ConcatHas DEF Harmless, Silent
<1>7. \A a : Harmless(a) => Silent(a)  BY DEF Harmless
<1> QED BY <1>1, <1>2, <1>3, <1>4, <1>5, <1>6, <1>7, Lists

\* Where the stop flag is set: SignalFailure sets it before it has any effect.
LEMMA StopFirstLists ==
    /\ Before(SignalFailure, Effects, {"stop"}) /\ Has(SignalFailure, {"stop"})
    /\ Before(StopSteps, Effects, {"stop"}) /\ ~Has(StopSteps, {"fatal"})
    /\ Before(SignalFailure \o StopSteps, Effects, {"stop"})
<1>1. ~Has(StopSteps, {"fatal"})  BY DEF Has, StopSteps
<1>2. /\ Before(SignalFailure, Effects, {"stop"}) /\ Has(SignalFailure, {"stop"})
      /\ Before(StopSteps, Effects, {"stop"})
  BY DEF Before, Has, SignalFailure, StopSteps, Effects
<1>3. Before(SignalFailure \o StopSteps, Effects, {"stop"})  BY <1>2, Lists, SignalFirst
<1> QED BY <1>1, <1>2, <1>3

\* A worker goes on without an alarm, and exits only when a sign says so.
QuietMove(t) ==
    \/ pc'[t] = pc[t] \/ Proceeds(t) \/ pc'[t] = <<"dispose">> \o pc[t]
    \/ Silent(pc'[t]) /\ (stop \/ Signs \/ Harmless(pc'[t]))

\* What the steps of a loop leave: a harmless list, or the exit at a sign.
LEMMA GoesOn ==
    ASSUME NEW t, Harmless(pc'[t]) \/ (Silent(pc'[t]) /\ (stop \/ Signs))
    PROVE  QuietMove(t)
  BY DEF QuietMove, Harmless

\* With tolerated failures only, the capture loop raises no alarm.
LEMMA CaptureQuiet ==
    ASSUME PcType, CaptureLoop, faults' \subseteq Tolerated
    PROVE  QuietMove("capture")
<1> USE MainAndWorkers DEF PcType
<1>0. pc["capture"] \in Seq(Steps) /\ "capture" \in Threads  OBVIOUS
<1>1. \A s \in {"drain", "capture", "check", "poll", "publish", "requeue_direct",
                "after_direct", "push_captured", "push_video"} : s \in LoopSteps
  BY DEF LoopSteps
<1>2. CASE DrainPop \/ DrainRequeued
  BY <1>2 DEF DrainPop, DrainRequeued, pipelineVars, QuietMove
<1>3. CASE DrainEmpty
  BY <1>0, <1>3, EmptyFirst, TailSteps DEF DrainEmpty, Draining, Proceed, Proceeds, At,
     QuietMove
<1>4. CASE DrainRequeueFailed \/ PollThrows
  BY <1>4 DEF DrainRequeueFailed, PollThrows, Happens, Tolerated
<1>5. CASE CaptureCheck \/ CaptureStopped \/ PollWake \/ AfterDirect
  <2>1. \/ pc'["capture"] = CaptureExit /\ (stop \/ camStop \/ closed)
        \/ pc'["capture"] = <<"drain", "capture">> \/ pc'["capture"] = <<"poll">>
        \/ pc'["capture"] = <<"drain", "check">> \/ pc'["capture"] = <<"check">>
    BY <1>0, <1>5 DEF CaptureCheck, CaptureStopped, PollWake, AfterDirect, Loop
  <2>2. camStop \/ closed => Signs  BY DEF Signs
  <2> QED BY <1>1, <2>1, <2>2, HarmlessShort, QuietLists, GoesOn
<1>6. CASE \/ PollTimeout \/ (\E b \in Buffers : PollFrame(b))
           \/ (\E b \in Buffers, ok \in BOOLEAN : PollDropped(b, ok))
           \/ PublishFrame \/ PublishRefused \/ RequeueDirect
  <2>1. \/ pc'["capture"] = <<"check">> \/ pc'["capture"] = <<"publish">>
        \/ pc'["capture"] = <<"push_captured">> \/ pc'["capture"] = <<"requeue_direct">>
        \/ pc'["capture"] = <<"after_direct">>
    BY <1>0, <1>6 DEF PollTimeout, PollFrame, PollDropped, PublishFrame, PublishRefused,
       RequeueDirect, Loop
  <2> QED BY <1>1, <2>1, HarmlessShort, GoesOn
<1>7. CASE PushCaptured \/ PushVideo
  <2>1. \A leases, steps : Disposing("capture", leases, steps) =>
            pc'["capture"] = steps \/ pc'["capture"] = <<"dispose">> \o steps
    BY <1>0 DEF Disposing, Loop
  <2>2. \/ (\E leases : Disposing("capture", leases, CaptureExit))
                 /\ queue["captured"].stopped
        \/ \E leases : Disposing("capture", leases, <<"push_video">>)
        \/ \E leases : Disposing("capture", leases, <<"check">>)
    BY <1>7 DEF PushCaptured, PushVideo
  <2>3. queue["captured"].stopped => Signs  BY DEF Signs, Critical
  <2>4. \/ pc'["capture"] \in {CaptureExit, <<"dispose">> \o CaptureExit} /\ Signs
        \/ pc'["capture"] \in {<<"push_video">>, <<"dispose">> \o <<"push_video">>}
        \/ pc'["capture"] \in {<<"check">>, <<"dispose">> \o <<"check">>}
    BY <2>1, <2>2, <2>3
  <2> QED BY <1>1, <2>4, HarmlessShort, QuietLists, GoesOn
<1> QED BY <1>2, <1>3, <1>4, <1>5, <1>6, <1>7 DEF CaptureLoop

\* Neither do the inference stages.
LEMMA StagesQuiet ==
    ASSUME PcType, NEW t \in Threads, faults' \subseteq Tolerated,
           \/ t = "preprocess" /\ PreprocessLoop
           \/ t = "npu" /\ (NpuLoop \/ PostprocessStep(t))
           \/ t = "postprocess" /\ (TakeCompleted \/ PostprocessStep(t))
    PROVE  QuietMove(t)
<1> USE MainAndWorkers DEF PcType
<1>0. pc[t] \in Seq(Steps)  OBVIOUS
<1>1. \A s \in {"frame", "process", "dispose", "return_input", "return_output", "slot",
                "push_prepared", "output", "run", "push_completed", "post", "prepared",
                "completed", "publish_result"} : s \in LoopSteps
  BY DEF LoopSteps
<1>2. /\ \A q \in Critical : queue[q].stopped => Signs
      /\ \A q : Drained(q) => queue[q].stopped
      /\ {"captured", "prepared", "completed", "freeIn", "freeOut"} \subseteq Critical
  BY DEF Signs, Drained, Critical
<1>3. CASE t = "preprocess" /\ PreprocessLoop
  <2>1. CASE TakeInputSlot \/ TakeFrame \/ NoMoreFrames
    <3>1. \/ pc'[t] = <<"frame">> \/ pc'[t] = <<"dispose", "return_input", "slot">>
          \/ pc'[t] = <<"process">>
          \/ pc'[t] = PreprocessExit /\ Drained("freeIn")
          \/ pc'[t] = <<"return_input">> \o PreprocessExit /\ Drained("captured")
      BY <1>0, <1>3, <2>1 DEF TakeInputSlot, TakeFrame, NoMoreFrames, Loop
    <3> QED BY <1>1, <1>2, <3>1, HarmlessShort, QuietLists, GoesOn
  <2>2. CASE Preprocess
    <3>1. pc'[t] = <<"push_prepared">> \/ pc'[t] = <<"return_input", "slot">>
      BY <1>0, <1>3, <2>2 DEF Preprocess, Loop, Happens, Tolerated
    <3> QED BY <1>1, <3>1, HarmlessShort, GoesOn
  <2>3. CASE PushPrepared
    <3>1. \/ pc'[t] = <<"slot">>
          \/ pc'[t] = <<"return_input">> \o PreprocessExit /\ queue["prepared"].stopped
      BY <1>0, <1>3, <2>3 DEF PushPrepared, Loop
    <3> QED BY <1>1, <1>2, <3>1, HarmlessShort, QuietLists, GoesOn
  <2>4. CASE DrainLeases("preprocess", "captured")
    BY <1>0, <1>3, <2>4, EmptyFirst, TailSteps DEF DrainLeases, Proceed, Proceeds, At,
       QuietMove
  <2> QED BY <1>3, <2>1, <2>2, <2>3, <2>4 DEF PreprocessLoop
<1>4. CASE t = "npu" /\ NpuLoop
  <2>1. CASE TakePrepared \/ TakeOutputSlot
    <3>1. \/ pc'[t] = <<"output">> \/ pc'[t] = <<"run">>
          \/ pc'[t] = NpuExit /\ Drained("prepared")
          \/ pc'[t] = <<"return_input">> \o NpuExit /\ Drained("freeOut")
      BY <1>0, <1>4, <2>1 DEF TakePrepared, TakeOutputSlot, Loop
    <3> QED BY <1>1, <1>2, <3>1, HarmlessShort, QuietLists, GoesOn
  <2>2. CASE Run
    <3>1. ~Happens("runThrows")  BY DEF Happens, Tolerated
    <3>2. \/ Loop(t, <<IF Split THEN "push_completed" ELSE "post">>)
          \/ Loop(t, <<"return_output", "prepared">>)
      BY <1>4, <2>2, <3>1 DEF Run
    <3>3. \/ pc'[t] = <<"push_completed">> \/ pc'[t] = <<"post">>
          \/ pc'[t] = <<"return_output", "prepared">>
      BY <1>0, <3>2 DEF Loop
    <3> QED BY <1>1, <3>3, HarmlessShort, GoesOn
  <2>3. CASE PushCompleted
    <3>1. \/ pc'[t] = <<"prepared">>
          \/ pc'[t] = <<"return_output">> \o NpuExit /\ queue["completed"].stopped
      BY <1>0, <1>4, <2>3 DEF PushCompleted, Loop
    <3> QED BY <1>1, <1>2, <3>1, HarmlessShort, QuietLists, GoesOn
  <2> QED BY <1>4, <2>1, <2>2, <2>3 DEF NpuLoop
<1>5. CASE t = "postprocess" /\ TakeCompleted
  <2>1. pc'[t] = <<"post">> \/ pc'[t] = <<>>  BY <1>0, <1>5 DEF TakeCompleted, Loop
  <2> QED BY <1>1, <2>1, HarmlessShort, GoesOn
<1>6. CASE PostprocessStep(t)
  <2>1. \/ pc'[t] = <<"publish_result">> \/ pc'[t] = <<"prepared">>
        \/ pc'[t] = <<"completed">>
    BY <1>0, <1>6 DEF PostprocessStep, Postprocess, PublishResult, NextRound, Loop
  <2> QED BY <1>1, <2>1, HarmlessShort, GoesOn
<1> QED BY <1>3, <1>4, <1>5, <1>6

\* The video branch raises none whatever fails in it.
LEMMA BranchQuiet ==
    ASSUME PcType, NEW t \in Threads,
           (t = "video" /\ VideoLoop) \/ (t = "encoded" /\ EncodedPacketLoop)
    PROVE  QuietMove(t)
<1> USE MainAndWorkers DEF PcType
<1>0. pc[t] \in Seq(Steps)  OBVIOUS
<1>1. \A s \in {"dispose", "video", "encode", "drain_video", "push_encoded", "write",
                "packet"} : s \in LoopSteps
  BY DEF LoopSteps
<1>2. CASE t = "video" /\ (TakeVideoFrame \/ PushEncoded \/ Encode)
  <2>1. \/ pc'[t] = <<"dispose", "video">> \/ pc'[t] = <<"encode">>
        \/ pc'[t] = <<"drain_video">> \/ pc'[t] = <<"video">>
        \/ pc'[t] = <<"push_encoded">>
        \/ pc'[t] = SignalVideoFailure \o <<"drain_video">>
    BY <1>0, <1>2 DEF TakeVideoFrame, PushEncoded, Encode, Loop
  <2> QED BY <1>1, <2>1, HarmlessShort, QuietLists, GoesOn
<1>3. CASE t = "video" /\ DrainLeases("video", "video")
  BY <1>0, <1>3, EmptyFirst, TailSteps DEF DrainLeases, Proceed, Proceeds, At, QuietMove
<1>4. CASE t = "encoded" /\ EncodedPacketLoop
  <2>1. \/ pc'[t] = <<"write">> \/ pc'[t] = <<>> \/ pc'[t] = <<"packet">>
        \/ pc'[t] = SignalVideoFailure
    BY <1>0, <1>4 DEF EncodedPacketLoop, TakePacket, WritePacket, Loop
  <2> QED BY <1>1, <2>1, HarmlessShort, QuietLists, GoesOn
<1> QED BY <1>2, <1>3, <1>4 DEF VideoLoop

\* A worker's list keeps the alarm off, and keeps its effects behind the stop flag
\* until a sign shows.
LEMMA QuietKept ==
    ASSUME PcType, NEW t \in Threads, ThreadStep(t), QuietMove(t), t # "main",
           ~Has(pc[t], {"fatal"}), ~Has(pc[t], {"stop"}),
           stop \/ Signs \/ Before(pc[t], Effects, {"stop"})
    PROVE  /\ ~Has(pc'[t], {"fatal"}) /\ ~Has(pc'[t], {"stop"})
           /\ stop \/ Signs \/ Before(pc'[t], Effects, {"stop"})
<1>0. pc[t] \in Seq(Steps) /\ pc'[t] \in Seq(Steps)  BY ThreadMoves, PcStep DEF PcType
<1>1. CASE pc'[t] = pc[t]  BY <1>1
<1>2. CASE Proceeds(t)
  <2>1. pc[t] # <<>> /\ pc'[t] = Tail(pc[t])  BY <1>2 DEF Proceeds, PcType
  <2>2. ~Has(pc'[t], {"fatal"}) /\ ~Has(pc'[t], {"stop"})  BY <1>0, <2>1, TailHas
  <2>3. ASSUME Before(pc[t], Effects, {"stop"})
        PROVE  Before(pc'[t], Effects, {"stop"})
    <3>1. 1 \in DOMAIN pc[t] /\ pc[t][1] = Head(pc[t])  BY <1>0, <2>1, TailSteps
    <3>2. Head(pc[t]) \notin {"stop"}  BY <3>1 DEF Has
    <3> QED BY <1>0, <2>1, <2>3, <3>2, TailBefore
  <2> QED BY <2>2, <2>3
<1>3. CASE pc'[t] = <<"dispose">> \o pc[t]
  <2>1. <<"dispose">> \in Seq(Steps)  BY DEF Steps
  <2>2. /\ ~Has(<<"dispose">>, {"fatal"}) /\ ~Has(<<"dispose">>, {"stop"})
        /\ ~Has(<<"dispose">>, Effects)
    BY ShortLists DEF Effects
  <2>3. Before(<<"dispose">>, Effects, {"stop"})  BY <2>1, <2>2, NothingBefore
  <2>4. ~Has(pc'[t], {"fatal"}) /\ ~Has(pc'[t], {"stop"})
    <3>1. \A S : Has(<<"dispose">> \o pc[t], S) <=> Has(<<"dispose">>, S) \/ Has(pc[t], S)
      BY <1>0, <2>1, ConcatHas
    <3> QED BY <1>3, <2>2, <3>1
  <2>5. Before(pc[t], Effects, {"stop"}) => Before(pc'[t], Effects, {"stop"})
    BY <1>0, <1>3, <2>1, <2>3, ConcatBefore
  <2> QED BY <2>4, <2>5
<1>4. CASE Silent(pc'[t]) /\ (stop \/ Signs \/ Harmless(pc'[t]))
  <2>1. ~Has(pc'[t], {"fatal"}) /\ ~Has(pc'[t], {"stop"})
    BY <1>4 DEF Silent, Has, Alarm
  <2>2. Harmless(pc'[t]) => Before(pc'[t], Effects, {"stop"})
    BY <1>0, NothingBefore DEF Harmless
  <2> QED BY <1>4, <2>1, <2>2
<1> QED BY <1>1, <1>2, <1>3, <1>4 DEF QuietMove

\* Every step of a worker that is not a call is a quiet one while the failures are
\* tolerated ones.
LEMMA WorkerQuiet ==
    ASSUME PcType, NEW t \in Threads, ThreadStep(t), t # "main", faults' \subseteq Tolerated
    PROVE  QuietMove(t)
<1>1. CASE CallStep(t)  BY <1>1, CallMoves DEF QuietMove
<1>2. CASE t = "capture" /\ CaptureLoop  BY <1>2, CaptureQuiet
<1>3. CASE \/ t = "preprocess" /\ PreprocessLoop
           \/ t = "npu" /\ (NpuLoop \/ PostprocessStep(t))
           \/ t = "postprocess" /\ (TakeCompleted \/ PostprocessStep(t))
  BY <1>3, StagesQuiet
<1>4. CASE (t = "video" /\ VideoLoop) \/ (t = "encoded" /\ EncodedPacketLoop)
  BY <1>4, BranchQuiet
<1> QED BY <1>1, <1>2, <1>3, <1>4 DEF ThreadStep

\* What the main thread is left with while the failures are tolerated ones: no
\* alarm, and the effects of Stop behind the stop flag.
LEMMA MainQuiet ==
    ASSUME PcType, ThreadStep("main"), faults' \subseteq Tolerated,
           ~Has(pc["main"], {"fatal"}), First(pc["main"], {"run"}),
           stop \/ Before(pc["main"], Effects, {"stop"})
    PROVE  /\ ~Has(pc'["main"], {"fatal"})
           /\ First(pc'["main"], {"run"})
           /\ stop \/ stop' \/ Before(pc'["main"], Effects, {"stop"})
           /\ pc'["main"] = <<"run">> => pc["main"] = <<"run">> \/ Spawns
           /\ stop' # stop => ~Has(pc'["main"], {"run"})
<1>0. pc["main"] \in Seq(Steps) /\ pc'["main"] \in Seq(Steps) /\ "main" \in Threads
  BY ThreadMoves, PcStep, MainAndWorkers DEF PcType
<1>1. CASE CallStep("main") \/ Join \/ StopCamera
  <2>1. pc' = pc \/ Proceeds("main")
    BY <1>0, <1>1, CallMoves, EmptyFirst, TailSteps DEF Join, StopCamera, Proceed, Proceeds, At, PcType
  <2>2. CASE pc' = pc
    <3>1. stop' = stop
      <4>1. SetStop("main") => pc' # pc
        BY <1>0, TailSteps, EmptyFirst DEF SetStop, Proceed, At, PcType
      <4> QED BY <1>0, <2>2, <4>1, FlagsStep DEF SetFatal, SetVideoFailed
    <3> QED BY <2>2, <3>1
  <2>3. CASE Proceeds("main")
    <3>1. pc["main"] # <<>> /\ pc'["main"] = Tail(pc["main"])
      BY <1>0, <2>3 DEF Proceeds, PcType
    <3>2. ~Has(pc'["main"], {"fatal"})  BY <1>0, <3>1, TailHas
    <3>3. ~Has(pc'["main"], {"run"}) /\ First(pc'["main"], {"run"})
      BY <1>0, <3>1, TailFirst DEF First, Has
    <3>4. pc'["main"] # <<"run">>  BY <3>3 DEF Has
    <3>5. stop \/ stop' \/ Before(pc'["main"], Effects, {"stop"})
      <4>1. Head(pc["main"]) = "stop" => stop'  BY <1>0, <2>3, FlagTaken DEF SetStop
      <4> QED BY <1>0, <3>1, <4>1, TailBefore
    <3> QED BY <3>2, <3>3, <3>4, <3>5
  <2> QED BY <2>1, <2>2, <2>3
<1>2. CASE StartCamera
  <2>1. pc'["main"] = <<"spawn">> /\ stop' = stop
    BY <1>0, <1>2 DEF StartCamera, Loop, Happens, Tolerated, PcType, flags
  <2>2. ~Has(<<"spawn">>, {"fatal"}) /\ ~Has(<<"spawn">>, Effects) /\ First(<<"spawn">>, {"run"})
    BY ShortLists DEF Effects
  <2>3. <<"spawn">> # <<"run">>  OBVIOUS
  <2>4. Before(<<"spawn">>, Effects, {"stop"})  BY <1>0, <2>1, <2>2, NothingBefore
  <2> QED BY <2>1, <2>2, <2>3, <2>4
<1>3. CASE Spawns
  <2>1. pc'["main"] = <<"run">> /\ stop' = stop
    BY <1>3, SpawnEffect DEF Happens, Tolerated, flags
  <2>2. ~Has(<<"run">>, {"fatal"}) /\ ~Has(<<"run">>, Effects) /\ First(<<"run">>, {"run"})
    BY ShortLists DEF Effects
  <2>3. Before(<<"run">>, Effects, {"stop"})  BY <1>0, <2>1, <2>2, NothingBefore
  <2> QED BY <1>3, <2>1, <2>2, <2>3
<1> QED BY <1>1, <1>2, <1>3 DEF ThreadStep, Supervise, Spawns

\* Only the step that closes the broker closes it, and only StopCamera decides
\* whether the shutdown was a graceful one.
LEMMA ClosedGraceful ==
    ASSUME NEW t \in Threads, ThreadStep(t)
    PROVE  /\ closed' = closed \/ At(t, "close")
           /\ graceful' = graceful \/ (t = "main" /\ StopCamera)
<1> USE DEF brokerVars, cameraVars, coreVars, pipelineVars, flags
<1>1. CASE CallStep(t)
  BY <1>1 DEF CallStep, SetFatal, SetStop, SetVideoFailed, CloseBroker, Close,
     RequestStop, Wake, RequestCameraStop, StopQueue, NotifyCapture, Notify, Dispose,
     Release, CoreRelease, ReturnInput, ReturnOutput
<1>2. CASE t = "main" /\ Supervise
  BY <1>2 DEF Supervise, StartCamera, CameraStart, CameraStartFails, Spawn, Join,
     StopCamera, CameraStop
<1>3. CASE t = "capture" /\ CaptureLoop
  BY <1>3 DEF CaptureLoop, CaptureCheck, DrainPop, DrainRequeued, DrainRequeueFailed,
     DrainEmpty, CaptureStopped, PollWake, PollTimeout, PollThrows, PollFrame,
     PollDropped, PublishFrame, PublishRefused, RequeueDirect, AfterDirect,
     PushCaptured, PushVideo, PopRequeue, RequeueDone, RequeueFails, CaptureWake,
     CaptureFrame, CaptureDropped, PublishAccepted, PublishRejected
<1>4. CASE t = "preprocess" /\ PreprocessLoop
  BY <1>4 DEF PreprocessLoop, TakeInputSlot, TakeFrame, NoMoreFrames, Preprocess,
     PushPrepared, DrainLeases, Release, CoreRelease
<1>5. CASE (t = "npu" \/ t = "postprocess") /\ PostprocessStep(t)
  BY <1>5 DEF PostprocessStep, Postprocess, PublishResult
<1>6. CASE \/ t = "npu" /\ NpuLoop
           \/ t = "postprocess" /\ TakeCompleted
  BY <1>6 DEF NpuLoop, TakePrepared, TakeOutputSlot, Run, PushCompleted, TakeCompleted
<1>7. CASE t = "video" /\ VideoLoop
  BY <1>7 DEF VideoLoop, TakeVideoFrame, Encode, PushEncoded, DrainLeases, Release,
     CoreRelease
<1>8. CASE t = "encoded" /\ EncodedPacketLoop
  BY <1>8 DEF EncodedPacketLoop, TakePacket, WritePacket
<1> QED BY <1>1, <1>2, <1>3, <1>4, <1>5, <1>6, <1>7, <1>8 DEF ThreadStep

\* The signs: what stops a queue of capture or inference, closes the broker or
\* stops the capture is a step with an effect, at the head of a list.
LEMMA SignsStep ==
    ASSUME PcType, QueueType, NEW t \in Threads, ThreadStep(t), ~Signs,
           Before(pc[t], Effects, {"stop"})
    PROVE  ~Signs'
<1>0. ~closed /\ ~camStop /\ \A q \in Critical : ~queue[q].stopped  BY DEF Signs
<1>1. pc[t] # <<>> => Head(pc[t]) \notin Effects  BY TailBefore DEF PcType
<1>2. \A s \in Effects : ~At(t, s)  BY <1>1 DEF At
<1>3. ~closed'  BY <1>0, <1>2, ClosedGraceful DEF Effects
<1>4. ~camStop'
  <2>1. ~(t = "main" /\ StopCamera)  BY <1>2 DEF StopCamera, Effects
  <2>2. StartCamera => ~camStop'  BY DEF StartCamera, CameraStart, CameraStartFails
  <2>3. PollWake => camStop' = camStop  BY DEF PollWake, CaptureWake, cameraVars
  <2>4. ~At(t, "requestStop")  BY <1>2 DEF Effects
  <2> QED BY <1>0, <2>1, <2>2, <2>3, <2>4, WakeReaders
<1>5. ASSUME NEW q \in Critical
      PROVE  ~queue'[q].stopped
  <2>1. q \in Queues /\ StopStep[q] \in Effects
    BY DEF Critical, Queues, StopStep, Effects
  <2>2. ~StopQueue(t, q)  BY <1>2, <2>1 DEF StopQueue
  <2> QED BY <1>0, <2>1, <2>2, StopsStep
<1> QED BY <1>3, <1>4, <1>5 DEF Signs

\* When Stop stops the camera and the failures were tolerated ones, it finds
\* nothing outstanding.
LEMMA StopsGracefully ==
    ASSUME Inv, LostKept, StopCamera, ~fatal, lost = {}
    PROVE  graceful'
<1>1. pc["main"] = <<"stop_camera">>  BY AllJoined DEF Inv, Base, Control, StopCamera
<1>2. leaseCount = 0 /\ frameCount = 0 /\ Dequeued = {}  BY <1>1, StopFinds
<1>3. outstanding = 0  BY <1>2, FS_EmptySet DEF Inv, BrokerInv, LedgersAgree
<1> QED BY <1>2, <1>3 DEF StopCamera

\* The start of the threads: nothing has stopped, and their lists are harmless.
LEMMA SpawnRunsOn ==
    ASSUME PcType, Fresh, Spawns, faults' \subseteq Tolerated, RunsOn
    PROVE  RunsOn'
<1>1. ~fatal' /\ ~stop' /\ ~Signs' /\ (camera' = "released" => graceful')
  BY SpawnEffect, SpawnFresh DEF RunsOn, Signs, brokerVars, cameraVars, coreVars, flags,
     Critical, Queues
<1>2. \A u \in Workers : Harmless(pc'[u])
  <2>1. \A u \in Workers : FirstStep[u] \in LoopSteps
    BY DEF Workers, FirstStep, LoopSteps
  <2> QED BY <2>1, SpawnEffect, HarmlessShort
<1>3. Harmless(pc'["main"])
  <2>1. pc'["main"] = <<"run">>  BY SpawnEffect DEF Happens, Tolerated
  <2>2. "run" \in LoopSteps  BY DEF LoopSteps
  <2> QED BY <2>1, <2>2, HarmlessShort
<1>4. \A u \in Threads : Harmless(pc'[u])  BY <1>2, <1>3, MainAndWorkers
<1>5. \A u \in Threads : pc'[u] \in Seq(Steps)  BY SpawnEffect
<1>6. ASSUME NEW u \in Threads
      PROVE  ~Has(pc'[u], {"fatal"}) /\ ~Has(pc'[u], {"stop"})
  BY <1>4 DEF Harmless, Silent, Has, Alarm
<1>7. \A u \in Threads : Before(pc'[u], Effects, {"stop"})
  BY <1>4, <1>5, NothingBefore DEF Harmless
<1>8. \A u \in Workers : ~Has(pc'[u], {"stop"})  BY <1>6, MainAndWorkers
<1> QED BY <1>1, <1>6, <1>7, <1>8 DEF RunsOn

\* The wait for Stop is the first step left, or is over.
LEMMA RunFirst ==
    ASSUME PcType, NEW t \in Threads, ThreadStep(t), First(pc["main"], {"run"})
    PROVE  First(pc'["main"], {"run"})
<1>0. pc["main"] \in Seq(Steps) /\ "main" \in Threads  BY MainAndWorkers DEF PcType
<1>1. /\ \A p \in {<<"spawn">>, SignalFailure, StopSteps} : First(p, {"run"})
      /\ First(<<"run">>, {"run"})
  BY DEF First, SignalFailure, StopSteps
<1>2. First(SignalFailure \o StopSteps, {"run"})
  <2>1. ~Has(SignalFailure, {"run"}) /\ ~Has(StopSteps, {"run"})
    BY DEF Has, SignalFailure, StopSteps
  <2>2. ~Has(SignalFailure \o StopSteps, {"run"})  BY <2>1, Lists, ConcatHas
  <2> QED BY <2>2 DEF First, Has
<1>3. CASE t # "main" /\ pc'["main"] = pc["main"]  BY <1>3
<1>4. CASE t = "main" /\ Spawns  BY <1>1, <1>2, <1>4, SpawnEffect
<1>5. CASE t = "main" /\ ~Spawns
  <2>1. pc' = pc \/ Proceeds("main") \/ Restarts("main")  BY <1>5, ThreadMoves DEF Moves
  <2>2. CASE Proceeds("main")
    <3>1. pc["main"] # <<>> /\ pc'["main"] = Tail(pc["main"])
      BY <1>0, <2>2 DEF Proceeds, PcType
    <3> QED BY <1>0, <3>1, TailFirst DEF First, Has
  <2>3. CASE Restarts("main")
    <3>1. pc'["main"] \in {<<"spawn">>, SignalFailure, StopSteps}
      BY <1>0, <2>3 DEF Restarts, Programs, PcType
    <3> QED BY <1>1, <3>1
  <2> QED BY <2>1, <2>2, <2>3
<1> QED BY <1>0, <1>3, <1>4, <1>5, OthersWait

\* A step of a thread keeps the pipeline running on.
LEMMA IsolationStep ==
    ASSUME Inv, LostKept, IsolationInv, NEW t \in Threads, ThreadStep(t)
    PROVE  IsolationInv'
<1>1. PcType /\ QueueType /\ Fresh /\ Control  BY DEF Inv, Base, Control, Types
<1>2. /\ faults \subseteq faults'
      /\ lost' = lost \/ lost' = {} \/ "qbuf" \in faults'
  BY FaultsStep
<1>3. lost' # {} => "qbuf" \in faults'  BY <1>2 DEF IsolationInv
<1>4. First(pc'["main"], {"run"})  BY <1>1, RunFirst DEF IsolationInv
<1>5. ASSUME faults' \subseteq Tolerated
      PROVE  RunsOn'
  <2>1. RunsOn  BY <1>2, <1>5 DEF IsolationInv
  <2>2. CASE t = "main" /\ Spawns  BY <1>1, <1>5, <2>1, <2>2, SpawnRunsOn
  <2>3. CASE ~(t = "main" /\ Spawns)
    <3>1. \A u \in Threads \ {t} : pc'[u] = pc[u]  BY <1>1, <2>3, OthersWait
    <3>2. ~fatal'
      <4>1. ~SetFatal(t)
        <5>1. pc[t] # <<>> => pc[t][1] = Head(pc[t]) /\ 1 \in DOMAIN pc[t]
          BY <1>1, TailSteps DEF PcType
        <5> QED BY <2>1, <5>1 DEF RunsOn, SetFatal, At, Has
      <4> QED BY <2>1, <4>1, FlagsStep DEF RunsOn, SetStop, SetVideoFailed
    <3>3. stop => stop'  BY FlagsStep DEF SetFatal, SetStop, SetVideoFailed
    <3>4. ~stop => ~Signs'  BY <1>1, <2>1, SignsStep DEF RunsOn
    <3>5. t # "main" => QuietMove(t)  BY <1>1, <1>5, WorkerQuiet
    <3>6. t # "main" => /\ ~Has(pc'[t], {"fatal"}) /\ ~Has(pc'[t], {"stop"})
                        /\ stop \/ Before(pc'[t], Effects, {"stop"})
      <4>1. t # "main" => t \in Workers  BY MainAndWorkers
      <4> QED BY <1>1, <2>1, <3>5, <4>1, QuietKept DEF RunsOn
    <3>7. t = "main" =>
             /\ ~Has(pc'["main"], {"fatal"})
             /\ stop \/ stop' \/ Before(pc'["main"], Effects, {"stop"})
             /\ pc'["main"] = <<"run">> => pc["main"] = <<"run">>
             /\ stop' # stop => ~Has(pc'["main"], {"run"})
      BY <1>1, <1>5, <2>1, <2>3, MainQuiet DEF RunsOn, IsolationInv
    <3>8. \A u \in Threads : ~Has(pc'[u], {"fatal"})
      BY <2>1, <3>1, <3>6, <3>7 DEF RunsOn
    <3>9. \A u \in Workers : ~Has(pc'[u], {"stop"})
      BY <2>1, <3>1, <3>6, MainAndWorkers DEF RunsOn
    <3>10. stop' \/ (~Signs' /\ \A u \in Threads : Before(pc'[u], Effects, {"stop"}))
      BY <2>1, <3>1, <3>3, <3>4, <3>6, <3>7 DEF RunsOn
    <3>11. stop' => pc'["main"] # <<"run">>
      <4>1. CASE t = "main"
        <5>1. Has(<<"run">>, {"run"})  BY DEF Has
        <5> QED BY <2>1, <3>7, <4>1, <5>1 DEF RunsOn
      <4>2. CASE t # "main"
        <5>1. ~SetStop(t)
          <6>1. pc[t] # <<>> => pc[t][1] = Head(pc[t]) /\ 1 \in DOMAIN pc[t]
            BY <1>1, TailSteps DEF PcType
          <6> QED BY <2>1, <4>2, <6>1, MainAndWorkers DEF RunsOn, SetStop, At, Has
        <5>2. stop' = stop  BY <5>1, FlagsStep DEF SetFatal, SetVideoFailed
        <5> QED BY <2>1, <3>1, <4>2, <5>2, MainAndWorkers DEF RunsOn
      <4> QED BY <4>1, <4>2
    <3>12. camera' = "released" => graceful'
      <4>1. StopCamera => graceful'
        <5>1. lost = {}  BY <1>2, <1>5 DEF IsolationInv, Tolerated
        <5> QED BY <2>1, <5>1, StopsGracefully DEF RunsOn
      <4> QED BY <2>1, <4>1, CameraKept, ClosedGraceful DEF RunsOn
    <3> QED BY <3>2, <3>8, <3>9, <3>10, <3>11, <3>12 DEF RunsOn
  <2> QED BY <2>2, <2>3
<1> QED BY <1>3, <1>4, <1>5 DEF IsolationInv

\* Every step keeps it.
LEMMA IsolationInvStep ==
    ASSUME Inv, LostKept, IsolationInv, [PipelineNext]_vars
    PROVE  IsolationInv'
<1>0. PcType /\ "main" \in Threads  BY MainAndWorkers DEF Inv, Base, Control
<1>1. CASE StopRequested
  <2>1. /\ pc'["main"] = StopSteps /\ \A u \in Threads \ {"main"} : pc'[u] = pc[u]
        /\ UNCHANGED <<brokerVars, queue, flags, faults>>
    BY <1>0, <1>1 DEF StopRequested, Loop, PcType
  <2>2. First(StopSteps, {"run"}) /\ StopSteps # <<"run">>  BY DEF First, StopSteps
  <2>3. RunsOn => RunsOn'
    <3>1. Signs' = Signs  BY <2>1 DEF Signs, brokerVars, cameraVars, coreVars
    <3>2. \A u \in Workers : pc'[u] = pc[u]  BY <2>1, MainAndWorkers
    <3> QED BY <2>1, <2>2, <3>1, <3>2, StopFirstLists DEF RunsOn, brokerVars, cameraVars, flags
  <2> QED BY <2>1, <2>2, <2>3 DEF IsolationInv, brokerVars, ghostVars
<1>2. CASE UNCHANGED vars
  BY <1>2 DEF vars, pipelineVars, brokerVars, cameraVars, coreVars, ghostVars, flags,
     IsolationInv, RunsOn, Signs
<1>3. CASE \E t \in Threads : ThreadStep(t)  BY <1>3, IsolationStep
<1> QED BY <1>1, <1>2, <1>3 DEF PipelineNext, Terminated

\* It holds before StartCamera.
LEMMA IsolationInit == PipelineInit => IsolationInv
<1> SUFFICES ASSUME PipelineInit PROVE IsolationInv  OBVIOUS
<1>1. /\ lost = {} /\ camera = "open" /\ ~closed /\ ~camStop /\ ~fatal /\ ~stop
      /\ \A q \in Queues : ~queue[q].stopped
      /\ \A t \in Threads : pc[t] = <<"start">> \/ pc[t] = <<>>
      /\ \A t \in Workers : pc[t] = <<>>
  BY MainAndWorkers DEF PipelineInit, BrokerInit
<1>2. ~Signs  BY <1>1 DEF Signs, Critical, Queues
<1>3. /\ \A S \in {{"fatal"}, {"stop"}, {"run"}, Effects} :
            ~Has(<<"start">>, S) /\ ~Has(<<>>, S)
      /\ First(<<"start">>, {"run"}) /\ First(<<>>, {"run"}) /\ <<"start">> # <<"run">>
  BY ShortLists DEF Effects
<1>4. \A t \in Threads : Before(pc[t], Effects, {"stop"})  BY <1>1, <1>3 DEF Before, Has
<1> QED BY <1>1, <1>2, <1>3, <1>4, MainAndWorkers DEF IsolationInv, RunsOn

\* A failure of the video branch, or of one frame of the others, stops neither the
\* camera nor inference, and the run still ends as a graceful shutdown.
THEOREM VideoFailureStaysLocal == PipelineSpec => []VideoFailureIsolated
<1>1. IsolationInv => VideoFailureIsolated
  <2> SUFFICES ASSUME IsolationInv PROVE VideoFailureIsolated  OBVIOUS
  <2>1. {"encode", "write"} \subseteq Tolerated  BY DEF Tolerated
  <2>2. faults \subseteq {"encode", "write"} => RunsOn  BY <2>1 DEF IsolationInv
  <2>3. RunsOn /\ ~stop => \A q \in Critical : ~queue[q].stopped  BY DEF RunsOn, Signs
  <2> QED BY <2>2, <2>3 DEF IsolationInv, RunsOn, VideoFailureIsolated, Critical, Tolerated,
       Stopped
<1>2. Inv /\ LostKept /\ IsolationInv /\ [PipelineNext]_vars => (LostKept /\ IsolationInv)'
  BY IsolationInvStep, StepIsBroker, LostStep DEF Inv, Base
<1>3. PipelineInit => LostKept /\ IsolationInv
  BY IsolationInit DEF PipelineInit, BrokerInit, LostKept
<1> QED BY <1>1, <1>2, <1>3, PipelineInvariant, PTL DEF PipelineSpec

--------------------------------------------------------------------------------
(* Every encoded packet reaches the sink                                    *)

\* The failures that excuse a packet, on the way and announced.
MediaAlarm == {"fatal", "videoFailed"}
Broken == fatal \/ videoFailed \/ \E t \in Threads : Has(pc[t], MediaAlarm)

\* The live steps of the video thread, and the frame each thread of the branch has.
VideoLive == {"video", "encode", "push_encoded"}
Waiting == queue["encoded"].items
InEncoder == IF pc["video"] = <<"push_encoded">> THEN <<job["video"].frame>> ELSE <<>>
InSink == IF pc["encoded"] = <<"write">> THEN <<job["encoded"].frame>> ELSE <<>>

\* The steps that excuse a stop of the encoded queue: a failure, or a join that has
\* waited for the video thread.
Excuse(t) == MediaAlarm \cup (IF t = "main" THEN {"join_stages"} ELSE {})
StopsEncoded(t) ==
    \/ Broken
    \/ Before(pc[t], {"stop_encoded"}, Excuse(t))
    \/ t = "main" /\ ~Has(pc["video"], VideoLive)

AlarmFirst == \A t \in Threads : First(pc[t], MediaAlarm)
MediaAt ==
    /\ Has(pc["video"], {"push_encoded"}) => pc["video"] = <<"push_encoded">>
    /\ Has(pc["encoded"], {"write"}) => pc["encoded"] = <<"write">>
EncodedAt == Broken \/ pc["encoded"] \in {<<>>, <<"packet">>, <<"write">>}
EncodedEnds == queue["encoded"].stopped => Broken \/ ~Has(pc["video"], VideoLive)
SinkStays ==
    \/ Broken
    \/ Has(pc["main"], {"start", "spawn"})
    \/ pc["encoded"] # <<>>
    \/ Waiting = <<>> /\ ~Has(pc["video"], VideoLive)
NoVideo == EnableVideo \/ (Waiting = <<>> /\ ~Has(pc["video"], VideoLive))
PacketsInOrder == Broken \/ packets = written \o InSink \o Waiting \o InEncoder

MediaInv ==
    /\ AlarmFirst /\ MediaAt
    /\ \A t \in Threads : StopsEncoded(t)
    /\ EncodedAt /\ EncodedEnds /\ SinkStays /\ NoVideo /\ PacketsInOrder

\* A list whose first part alone has the steps, and has them first.
LEMMA ConcatFirst ==
    ASSUME NEW a \in Seq(Steps), NEW b \in Seq(Steps), NEW S, First(a, S), ~Has(b, S)
    PROVE  First(a \o b, S)
<1> SUFFICES ASSUME NEW i \in DOMAIN (a \o b), (a \o b)[i] \in S PROVE i = 1
  BY DEF First
<1>1. CASE i \in DOMAIN a  BY <1>1, ConcatSteps DEF First
<1>2. CASE i \notin DOMAIN a
  <2>1. i - Len(a) \in DOMAIN b /\ i = Len(a) + (i - Len(a))  BY <1>2, ConcatSteps
  <2>2. b[i - Len(a)] \in S  BY <2>1, ConcatSteps
  <2> QED BY <2>1, <2>2 DEF Has
<1> QED BY <1>1, <1>2

\* A failure is signalled first, in every list of the code.
LEMMA AlarmLists ==
    /\ \A t \in Threads : \A p \in Programs[t] : First(p, MediaAlarm)
    /\ \A t \in Workers : First(<<FirstStep[t]>>, MediaAlarm)
    /\ First(<<>>, MediaAlarm) /\ First(<<"run">>, MediaAlarm)
    /\ First(SignalFailure, MediaAlarm) /\ First(SignalFailure \o StopSteps, MediaAlarm)
    /\ ~Has(<<"dispose">>, MediaAlarm) /\ First(StopSteps, MediaAlarm)
<1> DEFINE None(p) == ~Has(p, MediaAlarm)
           Ok(p) == First(p, MediaAlarm)
<1>1. /\ None(CaptureExit) /\ None(PreprocessExit) /\ None(StopSteps)
      /\ Ok(SignalFailure) /\ Ok(SignalVideoFailure)
  BY DEF Has, First, CaptureExit, PreprocessExit, StopSteps, SignalFailure,
     SignalVideoFailure, MediaAlarm
<1>2. \A x \in LoopSteps \cup {"stop_completed", "spawn"} : x \notin MediaAlarm
  BY DEF LoopSteps, MediaAlarm
<1>3. None(NpuExit)  BY <1>2, ShortLists DEF NpuExit
<1>4. \A p : None(p) => Ok(p)  BY DEF Has, First
<1>5. \A a, b \in Seq(Steps) : /\ None(a) /\ None(b) => None(a \o b)
                               /\ Ok(a) /\ None(b) => Ok(a \o b)
  BY ConcatHas, ConcatFirst
<1>6. /\ <<"return_input">> \in Seq(Steps) /\ <<"return_output">> \in Seq(Steps)
      /\ <<"drain_video">> \in Seq(Steps) /\ <<"dispose">> \in Seq(Steps)
      /\ <<"check">> \in Seq(Steps) /\ <<"push_video">> \in Seq(Steps)
  BY DEF Steps
<1>7. {"check", "drain", "capture", "poll", "publish", "requeue_direct", "after_direct",
       "push_captured", "push_video", "slot", "frame", "process", "dispose",
       "return_input", "return_output", "push_prepared", "prepared", "output", "run",
       "push_completed", "post", "publish_result", "completed", "video", "encode",
       "push_encoded", "drain_video", "packet", "write"}
          \subseteq LoopSteps
  BY DEF LoopSteps
<1>8. /\ None(<<>>)
      /\ \A x \in LoopSteps \cup {"stop_completed", "spawn"} : None(<<x>>)
      /\ \A x, y \in LoopSteps : None(<<x, y>>)
      /\ \A x, y, z \in LoopSteps : None(<<x, y, z>>)
  BY <1>2, ShortLists
<1> HIDE DEF None, Ok
<1>9. /\ None(<<"return_input">>) /\ None(<<"return_output">>) /\ None(<<"drain_video">>)
      /\ None(<<"dispose">>) /\ None(<<"check">>) /\ None(<<"push_video">>)
      /\ None(<<"spawn">>)
  BY <1>7, <1>8
<1>10. \A p \in Programs["main"] : Ok(p)  BY <1>1, <1>4, <1>9 DEF Programs
<1>11. \A p \in Programs["capture"] : Ok(p)
  <2>1. Ok(CaptureExit) /\ Ok(SignalFailure \o CaptureExit) /\ Ok(<<"dispose">> \o CaptureExit)
    BY <1>1, <1>4, <1>5, <1>6, <1>9, Lists
  <2>2. Ok(<<"dispose">> \o <<"push_video">>) /\ Ok(<<"dispose">> \o <<"check">>)
    BY <1>4, <1>5, <1>6, <1>9
  <2>3. None(<<"drain", "capture">>) /\ None(<<"drain", "check">>)  BY <1>7, <1>8
  <2>4. /\ None(<<"poll">>) /\ None(<<"publish">>) /\ None(<<"requeue_direct">>)
        /\ None(<<"after_direct">>) /\ None(<<"push_captured">>)
    BY <1>7, <1>8
  <2> QED BY <1>4, <1>9, <2>1, <2>2, <2>3, <2>4 DEF Programs
<1>12. \A p \in Programs["preprocess"] : Ok(p)
  <2>1. /\ Ok(PreprocessExit) /\ Ok(SignalFailure \o PreprocessExit)
        /\ Ok(<<"return_input">> \o PreprocessExit)
    BY <1>1, <1>4, <1>5, <1>6, <1>9, Lists
  <2>2. None(<<"dispose", "return_input", "slot">>) /\ None(<<"return_input", "slot">>)
    BY <1>7, <1>8
  <2>3. /\ None(<<"slot">>) /\ None(<<"frame">>) /\ None(<<"process">>)
        /\ None(<<"push_prepared">>)
    BY <1>7, <1>8
  <2> QED BY <1>4, <2>1, <2>2, <2>3 DEF Programs
<1>13. \A p \in Programs["npu"] : Ok(p)
  <2>1. /\ Ok(NpuExit) /\ Ok(SignalFailure \o NpuExit) /\ Ok(<<"return_input">> \o NpuExit)
        /\ Ok(<<"return_output">> \o NpuExit)
    BY <1>1, <1>3, <1>4, <1>5, <1>6, <1>9, Lists
  <2>2. None(<<"return_output", "prepared">>)  BY <1>7, <1>8
  <2>3. /\ None(<<"prepared">>) /\ None(<<"output">>) /\ None(<<"run">>)
        /\ None(<<"push_completed">>) /\ None(<<"post">>) /\ None(<<"publish_result">>)
    BY <1>7, <1>8
  <2> QED BY <1>4, <2>1, <2>2, <2>3 DEF Programs
<1>14. \A p \in Programs["postprocess"] : Ok(p)
  <2>1. None(<<"completed">>) /\ None(<<"post">>) /\ None(<<"publish_result">>)
    BY <1>7, <1>8
  <2> QED BY <1>4, <1>8, <2>1 DEF Programs
<1>15. \A p \in Programs["video"] : Ok(p)
  <2>1. Ok(SignalVideoFailure \o <<"drain_video">>)  BY <1>1, <1>5, <1>6, <1>9, Lists
  <2>2. None(<<"dispose", "video">>)  BY <1>7, <1>8
  <2>3. None(<<"video">>) /\ None(<<"encode">>) /\ None(<<"push_encoded">>)
    BY <1>7, <1>8
  <2> QED BY <1>4, <1>9, <2>1, <2>2, <2>3 DEF Programs
<1>16. \A p \in Programs["encoded"] : Ok(p)
  <2>1. None(<<"packet">>) /\ None(<<"write">>)  BY <1>7, <1>8
  <2> QED BY <1>1, <1>4, <1>8, <2>1 DEF Programs
<1>17. \A t \in Workers : Ok(<<FirstStep[t]>>)
  <2>1. \A t \in Workers : FirstStep[t] \in LoopSteps
    BY DEF Workers, FirstStep, LoopSteps
  <2> QED BY <1>4, <1>8, <2>1
<1>18. /\ Ok(<<>>) /\ Ok(<<"run">>) /\ Ok(SignalFailure) /\ Ok(SignalFailure \o StopSteps)
       /\ None(<<"dispose">>) /\ Ok(StopSteps)
  BY <1>1, <1>4, <1>5, <1>7, <1>8, <1>9, Lists
<1> QED BY <1>10, <1>11, <1>12, <1>13, <1>14, <1>15, <1>16, <1>17, <1>18, PipelineThreads
        DEF Workers, None, Ok

\* Whatever a thread does, a signal it still has to give stays the first of its steps.
LEMMA AlarmFirstStep ==
    ASSUME PcType, AlarmFirst, NEW t \in Threads, Moves(t)
    PROVE  AlarmFirst'
<1> USE DEF PcType
<1> SUFFICES ASSUME NEW u \in Threads PROVE First(pc'[u], MediaAlarm)  BY DEF AlarmFirst
<1>0. pc[t] \in Seq(Steps) /\ First(pc[t], MediaAlarm) /\ First(pc[u], MediaAlarm)
  BY DEF AlarmFirst
<1>1. CASE pc' = pc  BY <1>0, <1>1
<1>2. CASE Proceeds(t)
  <2>1. ~Has(Tail(pc[t]), MediaAlarm)  BY <1>0, <1>2, TailFirst DEF Proceeds
  <2>2. First(Tail(pc[t]), MediaAlarm)  BY <2>1 DEF Has, First
  <2> QED BY <1>0, <1>2, <2>2 DEF Proceeds
<1>3. CASE Restarts(t)  BY <1>0, <1>3, AlarmLists DEF Restarts
<1>4. CASE t = "capture" /\ DrainFails
  <2>1. pc[t] # <<>> /\ pc' = [pc EXCEPT ![t] = SignalFailure \o Tail(pc[t])]
    BY <1>4 DEF DrainFails, Draining, At
  <2>2. ~Has(Tail(pc[t]), MediaAlarm) /\ Tail(pc[t]) \in Seq(Steps)
    BY <1>0, <2>1, TailFirst, TailSteps
  <2>3. First(SignalFailure \o Tail(pc[t]), MediaAlarm)
    BY <2>2, Lists, AlarmLists, ConcatFirst
  <2> QED BY <1>0, <2>1, <2>3
<1>5. ASSUME NEW q \in {"captured", "video"}, DrainsLease(t, q)
      PROVE  First(pc'[u], MediaAlarm)
  <2>1. /\ pc[t] # <<>> /\ Head(pc[t]) \notin MediaAlarm
        /\ pc' = [pc EXCEPT ![t] = <<"dispose">> \o pc[t]]
    BY <1>5 DEF DrainsLease, At, DrainStep, MediaAlarm
  <2>2. ~Has(Tail(pc[t]), MediaAlarm)  BY <1>0, <2>1, TailFirst
  <2>3. ~Has(pc[t], MediaAlarm) /\ "dispose" \in Steps
    BY <1>0, <2>1, <2>2, TailHas DEF Steps
  <2>4. First(<<"dispose">> \o pc[t], MediaAlarm)  BY <1>0, <2>3, PutFirst
  <2> QED BY <1>0, <2>1, <2>4
<1>6. CASE Spawns  BY <1>6, SpawnEffect, MainAndWorkers, AlarmLists
<1> QED BY <1>1, <1>2, <1>3, <1>4, <1>5, <1>6 DEF Moves

\* Once something is broken it stays so: a failure that is announced is signalled.
LEMMA BrokenStays ==
    ASSUME PcType, Fresh, AlarmFirst, Broken, NEW t \in Threads, ThreadStep(t)
    PROVE  Broken'
<1> USE DEF PcType
<1>1. (fatal => fatal') /\ (videoFailed => videoFailed')
  BY FlagsStep DEF SetFatal, SetStop, SetVideoFailed
<1>2. CASE fatal \/ videoFailed  BY <1>1, <1>2 DEF Broken
<1>3. ASSUME NEW u \in Threads, Has(pc[u], MediaAlarm) PROVE Broken'
  <2>0. pc[u] \in Seq(Steps) /\ First(pc[u], MediaAlarm)  BY DEF AlarmFirst
  <2>1. pc[u] # <<>> /\ Head(pc[u]) \in MediaAlarm
    <3>1. PICK i \in DOMAIN pc[u] : pc[u][i] \in MediaAlarm  BY <1>3 DEF Has
    <3>2. i = 1  BY <2>0, <3>1 DEF First
    <3> QED BY <2>0, <3>1, <3>2, TailSteps
  <2>2. CASE pc'[u] = pc[u]  BY <1>3, <2>2 DEF Broken
  <2>3. CASE t = "main" /\ Spawns
    <3>1. pc["main"] = <<"spawn">> /\ \A v \in Workers : pc[v] = <<>>
      BY <2>3, SpawnFresh
    <3> QED BY <2>1, <3>1, MainAndWorkers DEF MediaAlarm
  <2>4. CASE t = u /\ pc'[u] # pc[u]
    <3>1. CallStep(t)  BY <2>1, <2>4, CallTaken DEF MediaAlarm, CallSteps
    <3>2. Proceeds(t)  BY <2>4, <3>1, CallMoves
    <3>3. SetFatal(t) \/ SetVideoFailed(t)
      BY <2>1, <2>4, <3>2, FlagTaken DEF MediaAlarm
    <3> QED BY <3>3 DEF Broken, SetFatal, SetVideoFailed
  <2> QED BY <2>2, <2>3, <2>4, OthersWait
<1> QED BY <1>2, <1>3 DEF Broken

\* Three lists one after the other.
LEMMA ConcatThree ==
    ASSUME NEW p \in Seq(Nat), NEW q \in Seq(Nat), NEW r \in Seq(Nat)
    PROVE  (p \o q) \o r = p \o (q \o r)
  BY ConcatAssociative

\* A packet is appended: the video thread has it.
LEMMA PieceEncoded ==
    ASSUME NEW a \in Seq(Nat), NEW b \in Seq(Nat), NEW c \in Seq(Nat), NEW x \in Nat
    PROVE  Append(a \o b \o c \o <<>>, x) = a \o b \o c \o <<x>>
<1>1. a \o b \o c \in Seq(Nat)  OBVIOUS
<1>2. \A s \in Seq(Nat) : Append(s, x) = s \o <<x>> /\ s \o <<>> = s
  BY AppendProperties, ConcatEmptySeq
<1> QED BY <1>1, <1>2

\* From the encoder to the queue.
LEMMA PieceQueued ==
    ASSUME NEW a \in Seq(Nat), NEW b \in Seq(Nat), NEW c \in Seq(Nat), NEW x \in Nat
    PROVE  a \o b \o c \o <<x>> = a \o b \o Append(c, x) \o <<>>
<1>1. /\ <<x>> \in Seq(Nat) /\ Append(c, x) \in Seq(Nat)
      /\ a \o b \o Append(c, x) \in Seq(Nat)
  OBVIOUS
<1>2. Append(c, x) = c \o <<x>>  BY AppendProperties
<1>3. \A s \in Seq(Nat) : s \o <<>> = s  BY ConcatEmptySeq
<1>4. \A w \in Seq(Nat) : (a \o b \o c) \o w = (a \o b) \o (c \o w)
  <2> SUFFICES ASSUME NEW w \in Seq(Nat), NEW p \in Seq(Nat), p = a \o b
               PROVE  (p \o c) \o w = p \o (c \o w)
    OBVIOUS
  <2> QED BY ConcatThree
<1> QED BY <1>1, <1>2, <1>3, <1>4

\* From the queue to the sink.
LEMMA PieceTaken ==
    ASSUME NEW a \in Seq(Nat), NEW c \in Seq(Nat), NEW d \in Seq(Nat), c # <<>>
    PROVE  a \o <<>> \o c \o d = a \o <<Head(c)>> \o Tail(c) \o d
<1>1. /\ <<Head(c)>> \in Seq(Nat) /\ Tail(c) \in Seq(Nat)
      /\ c = <<Head(c)>> \o Tail(c)
  OBVIOUS
<1>2. (a \o <<Head(c)>>) \o Tail(c) = a \o (<<Head(c)>> \o Tail(c))
  BY <1>1, ConcatThree
<1>3. a \o <<>> = a  BY ConcatEmptySeq
<1> QED BY <1>1, <1>2, <1>3

\* And out of the sink.
LEMMA PieceWritten ==
    ASSUME NEW a \in Seq(Nat), NEW c \in Seq(Nat), NEW d \in Seq(Nat), NEW x \in Nat
    PROVE  a \o <<x>> \o c \o d = Append(a, x) \o <<>> \o c \o d
<1>1. Append(a, x) \in Seq(Nat) /\ Append(a, x) = a \o <<x>>  BY AppendProperties
<1>2. Append(a, x) \o <<>> = Append(a, x)  BY <1>1, ConcatEmptySeq
<1> QED BY <1>1, <1>2

\* The video thread has no live step once it has none, until the threads are created.
LEMMA VideoOver ==
    ASSUME PcType, NEW t \in Threads, ThreadStep(t), ~Has(pc["video"], VideoLive)
    PROVE  ~Has(pc'["video"], VideoLive) \/ (t = "main" /\ Spawns)
<1> USE MainAndWorkers DEF PcType
<1>0. pc["video"] \in Seq(Steps)  OBVIOUS
<1>1. CASE t = "video"
  <2>1. ~(TakeVideoFrame \/ Encode \/ PushEncoded)
    <3>1. SUFFICES ASSUME TakeVideoFrame \/ Encode \/ PushEncoded PROVE FALSE  OBVIOUS
    <3>2. pc["video"] # <<>> /\ Head(pc["video"]) \in VideoLive
      BY <3>1 DEF TakeVideoFrame, Encode, PushEncoded, At, VideoLive
    <3> QED BY <1>0, <3>2, TailSteps DEF Has
  <2>2. CASE CallStep(t)
    <3>1. pc' = pc \/ Proceeds(t)  BY <2>2, CallMoves
    <3>2. CASE Proceeds(t)
      <4>1. pc["video"] # <<>> /\ pc'["video"] = Tail(pc["video"])
        BY <1>1, <3>2 DEF Proceeds
      <4> QED BY <1>0, <4>1, TailHas
    <3> QED BY <3>1, <3>2
  <2>3. CASE DrainLeases("video", "video")
    <3>1. CASE pc' = [pc EXCEPT !["video"] = <<"dispose">> \o @]
      <4>1. pc'["video"] = <<"dispose">> \o pc["video"] /\ <<"dispose">> \in Seq(Steps)
        BY <1>1, <3>1 DEF Steps
      <4>2. ~Has(<<"dispose">>, VideoLive)  BY ShortLists DEF VideoLive
      <4>3. \A S : Has(<<"dispose">> \o pc["video"], S) <=>
                       Has(<<"dispose">>, S) \/ Has(pc["video"], S)
        BY <1>0, <4>1, ConcatHas
      <4> QED BY <4>1, <4>2, <4>3
    <3>2. CASE Proceed("video", <<>>)
      <4>1. pc["video"] # <<>>  BY <2>3 DEF DrainLeases, At
      <4>2. pc'["video"] = Tail(pc["video"])
        BY <1>0, <1>1, <3>2, <4>1, EmptyFirst, TailSteps DEF Proceed
      <4> QED BY <1>0, <4>1, <4>2, TailHas
    <3> QED BY <2>3, <3>1, <3>2 DEF DrainLeases
  <2> QED BY <1>1, <2>1, <2>2, <2>3 DEF ThreadStep, VideoLoop
<1>2. CASE t # "video"  BY <1>2, OthersWait
<1> QED BY <1>1, <1>2

\* Where the loops of the video branch go on, and who carries a frame there.
LEMMA BranchNext ==
    ASSUME PcType, NEW t \in Threads,
           (t = "video" /\ VideoLoop) \/ (t = "encoded" /\ EncodedPacketLoop)
    PROVE  \/ Encode /\ pc'[t] = <<"push_encoded">>
           \/ TakePacket /\ pc'[t] = <<"write">>
           \/ /\ DrainLeases("video", "video") /\ t = "video"
              /\ Proceeds(t) \/ pc'[t] = <<"dispose">> \o pc[t]
           \/ ~Has(pc'[t], {"push_encoded"}) /\ ~Has(pc'[t], {"write"})
<1> USE MainAndWorkers DEF PcType
<1>0. pc[t] \in Seq(Steps)  OBVIOUS
<1>1. /\ \A x \in {"packet", "video", "encode", "drain_video"} :
             ~Has(<<x>>, {"push_encoded"}) /\ ~Has(<<x>>, {"write"})
      /\ ~Has(<<>>, {"push_encoded"}) /\ ~Has(<<>>, {"write"})
      /\ ~Has(<<"dispose", "video">>, {"push_encoded"})
      /\ ~Has(<<"dispose", "video">>, {"write"})
  BY ShortLists
<1>2. /\ ~Has(SignalVideoFailure, {"push_encoded"}) /\ ~Has(SignalVideoFailure, {"write"})
  BY DEF Has, SignalVideoFailure
<1>3. /\ ~Has(SignalVideoFailure \o <<"drain_video">>, {"push_encoded"})
      /\ ~Has(SignalVideoFailure \o <<"drain_video">>, {"write"})
  <2>1. <<"drain_video">> \in Seq(Steps)  BY DEF Steps
  <2> QED BY <1>1, <1>2, <2>1, Lists, ConcatHas
<1>4. CASE t = "video" /\ (TakeVideoFrame \/ PushEncoded \/ Encode)
  <2>1. \/ pc'[t] = <<"dispose", "video">> \/ pc'[t] = <<"encode">>
        \/ pc'[t] = <<"drain_video">> \/ pc'[t] = <<"video">>
        \/ Encode /\ pc'[t] = <<"push_encoded">>
        \/ pc'[t] = SignalVideoFailure \o <<"drain_video">>
    BY <1>0, <1>4 DEF TakeVideoFrame, PushEncoded, Encode, Loop
  <2> QED BY <1>1, <1>3, <2>1
<1>5. CASE t = "video" /\ DrainLeases("video", "video")
  BY <1>0, <1>5, EmptyFirst, TailSteps DEF DrainLeases, Proceed, Proceeds, At
<1>6. CASE t = "encoded" /\ EncodedPacketLoop
  <2>1. \/ TakePacket /\ pc'[t] = <<"write">>
        \/ pc'[t] = <<>>
        \/ pc'[t] = <<"packet">>
        \/ pc'[t] = SignalVideoFailure
    BY <1>0, <1>6 DEF EncodedPacketLoop, TakePacket, WritePacket, Loop
  <2> QED BY <1>1, <1>2, <2>1
<1> QED BY <1>4, <1>5, <1>6 DEF VideoLoop

\* The list that is exactly one carrying step, when its tail or more is looked at.
LEMMA CarrierAlone ==
    ASSUME NEW s \in Seq(Steps), s # <<>>, NEW x, Has(s, {x}) => s = <<x>>
    PROVE  /\ ~Has(Tail(s), {x}) /\ Tail(s) # <<x>>
           /\ Head(s) # x => s # <<x>> /\ ~Has(s, {x})
<1>1. Has(Tail(s), {x}) => Has(s, {x})  BY TailHas
<1>2. s = <<x>> => ~Has(Tail(s), {x})  BY DEF Has
<1>3. Has(<<x>>, {x})  BY DEF Has
<1>4. Head(s) # x => s # <<x>>  OBVIOUS
<1>5. ~Has(Tail(s), {x})  BY <1>1, <1>2
<1>6. Tail(s) # <<x>>  BY <1>3, <1>5
<1> QED BY <1>4, <1>5, <1>6

\* A thread of the video branch that carries a packet has nothing else left to do with it.
LEMMA MediaAtStep ==
    ASSUME PcType, MediaAt, NEW t \in Threads, ThreadStep(t)
    PROVE  MediaAt'
<1> USE MainAndWorkers DEF PcType
<1>0. /\ pc["video"] \in Seq(Steps) /\ pc["encoded"] \in Seq(Steps)
      /\ "video" \in Threads /\ "encoded" \in Threads
  OBVIOUS
<1>1. ASSUME NEW u \in {"video", "encoded"}, NEW x, x \in {"push_encoded", "write"},
             Has(pc[u], {x}) => pc[u] = <<x>>
      PROVE  Has(pc'[u], {x}) => pc'[u] = <<x>>
  <2>0. pc[u] \in Seq(Steps) /\ u \in Threads  BY <1>0
  <2>00. x # "video" /\ x # "packet" /\ x # "dispose" /\ x # "drain_video"  BY <1>1
  <2>1. CASE pc'[u] = pc[u]  BY <1>1, <2>1
  <2>2. CASE t = "main" /\ Spawns
    <3>1. pc'[u] = <<>> \/ pc'[u] = <<"video">> \/ pc'[u] = <<"packet">>
      BY <2>2, SpawnEffect DEF FirstStep
    <3>2. ~Has(<<>>, {x}) /\ ~Has(<<"video">>, {x}) /\ ~Has(<<"packet">>, {x})
      BY <2>00, ShortLists
    <3> QED BY <3>1, <3>2
  <2>3. CASE u = t /\ Proceeds(t)
    <3>1. pc[u] # <<>> /\ pc'[u] = Tail(pc[u])  BY <2>0, <2>3 DEF Proceeds
    <3> QED BY <1>1, <2>0, <3>1, CarrierAlone
  <2>4. CASE u = t /\ CallStep(t)  BY <1>1, <2>3, <2>4, CallMoves
  <2>5. CASE u = t /\ ~CallStep(t)
    <3>1. (t = "video" /\ VideoLoop) \/ (t = "encoded" /\ EncodedPacketLoop)
      BY <2>5 DEF ThreadStep
    <3>2. CASE pc'[t] = <<"dispose">> \o pc[t] /\ DrainLeases("video", "video") /\ t = "video"
      <4>1. pc[t] # <<>> /\ Head(pc[t]) # x
        BY <2>00, <3>2 DEF DrainLeases, At, DrainStep
      <4>2. ~Has(pc[t], {x})  BY <1>1, <2>0, <2>5, <4>1, CarrierAlone
      <4>3. ~Has(<<"dispose">>, {x}) /\ <<"dispose">> \in Seq(Steps)
        BY <2>00, ShortLists DEF Steps
      <4>4. Has(<<"dispose">> \o pc[t], {x}) <=> Has(<<"dispose">>, {x}) \/ Has(pc[t], {x})
        BY <2>0, <2>5, <4>3, ConcatHas
      <4> QED BY <2>5, <3>2, <4>2, <4>3, <4>4
    <3>3. CASE pc'[t] = <<"push_encoded">> \/ pc'[t] = <<"write">>
      <4>1. ~Has(<<"push_encoded">>, {"write"}) /\ ~Has(<<"write">>, {"push_encoded"})
        BY ShortLists
      <4>2. x = "push_encoded" \/ x = "write"  BY <1>1
      <4> QED BY <2>5, <3>3, <4>1, <4>2
    <3>4. CASE ~Has(pc'[t], {"push_encoded"}) /\ ~Has(pc'[t], {"write"})
      <4>1. x = "push_encoded" \/ x = "write"  BY <1>1
      <4> QED BY <2>5, <3>4, <4>1
    <3>5. CASE Proceeds(t)  BY <2>3, <2>5, <3>5
    <3> QED BY <3>1, <3>2, <3>3, <3>4, <3>5, BranchNext
  <2> QED BY <2>0, <2>1, <2>2, <2>4, <2>5, OthersWait
<1>2. Has(pc'["video"], {"push_encoded"}) => pc'["video"] = <<"push_encoded">>
  BY <1>1 DEF MediaAt
<1>3. Has(pc'["encoded"], {"write"}) => pc'["encoded"] = <<"write">>
  BY <1>1 DEF MediaAt
<1> QED BY <1>2, <1>3 DEF MediaAt

\* Who stops the encoded queue, in every list of the code.
LEMMA StopEncodedLists ==
    /\ \A t \in Threads : \A p \in Programs[t] : Before(p, {"stop_encoded"}, Excuse(t))
    /\ \A t \in Workers : Before(<<FirstStep[t]>>, {"stop_encoded"}, Excuse(t))
    /\ \A t \in Threads : /\ Before(SignalFailure, {"stop_encoded"}, Excuse(t))
                          /\ Before(<<"run">>, {"stop_encoded"}, Excuse(t))
                          /\ Before(<<>>, {"stop_encoded"}, Excuse(t))
                          /\ Before(SignalFailure \o StopSteps, {"stop_encoded"}, Excuse(t))
    /\ Before(StopSteps, {"stop_encoded"}, Excuse("main"))
<1>1. ASSUME NEW T \in {MediaAlarm, MediaAlarm \cup {"join_stages"}}
      PROVE  /\ \A t \in Threads \ {"main"} : \A p \in Programs[t] :
                    Before(p, {"stop_encoded"}, T)
             /\ \A t \in Workers : Before(<<FirstStep[t]>>, {"stop_encoded"}, T)
             /\ Before(SignalFailure, {"stop_encoded"}, T)
             /\ Before(<<"run">>, {"stop_encoded"}, T)
             /\ Before(<<>>, {"stop_encoded"}, T)
             /\ Before(SignalFailure \o StopSteps, {"stop_encoded"}, T)
             /\ Before(<<"spawn">>, {"stop_encoded"}, T)
             /\ "join_stages" \in T => Before(StopSteps, {"stop_encoded"}, T)
  <2> DEFINE S == {"stop_encoded"}
  <2>0. \A s : ~Has(s, S) => Before(s, S, T)  BY DEF Has, Before
  <2>1. /\ Before(SignalFailure, S, T) /\ Has(SignalFailure, T)
        /\ Before(SignalVideoFailure, S, T) /\ Has(SignalVideoFailure, T)
    BY DEF Before, Has, SignalFailure, SignalVideoFailure, MediaAlarm
  <2>2. ~Has(CaptureExit, S) /\ ~Has(PreprocessExit, S)
    BY DEF Has, CaptureExit, PreprocessExit
  <2>3. "join_stages" \in T => Before(StopSteps, S, T)  BY DEF Before, StopSteps
  <2>4. ~Has(NpuExit, S)  BY ShortLists DEF NpuExit
  <2>5. /\ <<"dispose">> \in Seq(Steps) /\ <<"check">> \in Seq(Steps)
        /\ <<"push_video">> \in Seq(Steps) /\ <<"return_input">> \in Seq(Steps)
        /\ <<"drain_video">> \in Seq(Steps) /\ <<"return_output">> \in Seq(Steps)
    BY DEF Steps
  <2>6. /\ \A x : x # "stop_encoded" => ~Has(<<x>>, S)
        /\ \A x, y : x # "stop_encoded" /\ y # "stop_encoded" => ~Has(<<x, y>>, S)
        /\ \A x, y, z : x # "stop_encoded" /\ y # "stop_encoded" /\ z # "stop_encoded"
               => ~Has(<<x, y, z>>, S)
        /\ ~Has(<<>>, S)
    BY ShortLists
  <2>7. /\ Before(SignalFailure \o StopSteps, S, T) /\ Before(SignalFailure \o CaptureExit, S, T)
        /\ Before(SignalFailure \o PreprocessExit, S, T)
        /\ Before(SignalFailure \o NpuExit, S, T)
    BY <2>1, Lists, SignalFirst
  <2>8. Before(SignalVideoFailure \o <<"drain_video">>, S, T)
    BY <2>1, <2>5, Lists, ConcatBefore
  <2>9. \A a, b \in Seq(Steps) : ~Has(a, S) /\ ~Has(b, S) => ~Has(a \o b, S)
    BY ConcatHas
  <2> HIDE DEF S
  <2>10. /\ ~Has(<<"dispose">> \o CaptureExit, S) /\ ~Has(<<"dispose">> \o <<"push_video">>, S)
         /\ ~Has(<<"dispose">> \o <<"check">>, S)
         /\ ~Has(<<"return_input">> \o PreprocessExit, S)
         /\ ~Has(<<"return_input">> \o NpuExit, S) /\ ~Has(<<"return_output">> \o NpuExit, S)
    BY <2>2, <2>4, <2>5, <2>6, <2>9, Lists
  <2>11. \A t \in Workers : Before(<<FirstStep[t]>>, S, T)
    <3>1. \A t \in Workers : FirstStep[t] # "stop_encoded"  BY DEF Workers, FirstStep
    <3> QED BY <2>0, <2>6, <3>1
  <2>12. \A p \in Programs["capture"] : Before(p, S, T)
    BY <2>0, <2>2, <2>6, <2>7, <2>10 DEF Programs
  <2>13. \A p \in Programs["preprocess"] : Before(p, S, T)
    BY <2>0, <2>2, <2>6, <2>7, <2>10 DEF Programs
  <2>14. \A p \in Programs["npu"] : Before(p, S, T)
    BY <2>0, <2>4, <2>6, <2>7, <2>10 DEF Programs
  <2>15. \A p \in Programs["postprocess"] : Before(p, S, T)  BY <2>0, <2>6 DEF Programs
  <2>16. \A p \in Programs["video"] : Before(p, S, T)  BY <2>0, <2>6, <2>8 DEF Programs
  <2>17. \A p \in Programs["encoded"] : Before(p, S, T)
    BY <2>0, <2>1, <2>6 DEF Programs
  <2>18. Before(<<"run">>, S, T) /\ Before(<<>>, S, T) /\ Before(<<"spawn">>, S, T)
    BY <2>0, <2>6
  <2>19. \A t \in Threads \ {"main"} : \A p \in Programs[t] : Before(p, S, T)
    BY <2>12, <2>13, <2>14, <2>15, <2>16, <2>17, PipelineThreads DEF Workers
  <2> QED BY <2>1, <2>3, <2>7, <2>11, <2>18, <2>19 DEF S
<1>2. /\ Excuse("main") = MediaAlarm \cup {"join_stages"}
      /\ \A t \in Workers : Excuse(t) = MediaAlarm
  BY MainAndWorkers DEF Excuse
<1>3. ASSUME NEW t \in Threads PROVE Excuse(t) \in {MediaAlarm, MediaAlarm \cup {"join_stages"}}
  BY DEF Excuse
<1>4. Before(StopSteps, {"stop_encoded"}, Excuse("main"))  BY <1>1, <1>2
<1>5. \A p \in Programs["main"] : Before(p, {"stop_encoded"}, Excuse("main"))
  <2>1. /\ Before(<<"spawn">>, {"stop_encoded"}, Excuse("main"))
        /\ Before(SignalFailure, {"stop_encoded"}, Excuse("main"))
    BY <1>1, <1>2
  <2> QED BY <1>4, <2>1 DEF Programs
<1>6. \A t \in Workers : \A p \in Programs[t] : Before(p, {"stop_encoded"}, Excuse(t))
  BY <1>1, <1>2, MainAndWorkers
<1>7. \A t \in Workers : Before(<<FirstStep[t]>>, {"stop_encoded"}, Excuse(t))
  BY <1>1, <1>2
<1>8. \A t \in Threads : /\ Before(SignalFailure, {"stop_encoded"}, Excuse(t))
                          /\ Before(<<"run">>, {"stop_encoded"}, Excuse(t))
                          /\ Before(<<>>, {"stop_encoded"}, Excuse(t))
                          /\ Before(SignalFailure \o StopSteps, {"stop_encoded"}, Excuse(t))
  BY <1>1, <1>3
<1> QED BY <1>4, <1>5, <1>6, <1>7, <1>8, MainAndWorkers

\* The queue of packets is stopped behind an announced failure, behind the join of the
\* stages, or when the video thread has returned.
LEMMA StopsEncodedStep ==
    ASSUME PcType, Fresh, AlarmFirst, NEW t \in Threads, ThreadStep(t),
           \A u \in Threads : StopsEncoded(u)
    PROVE  \A u \in Threads : StopsEncoded(u)'
<1> USE MainAndWorkers DEF PcType
<1> SUFFICES ASSUME NEW u \in Threads PROVE StopsEncoded(u)'  OBVIOUS
<1>0. pc[u] \in Seq(Steps)  OBVIOUS
<1>1. CASE Broken  BY <1>1, BrokenStays DEF StopsEncoded
<1>2. CASE t = "main" /\ Spawns
  <2>1. CASE u = "main"
    <3>1. pc'[u] = <<"run">> \/ pc'[u] = SignalFailure \o StopSteps
      BY <1>2, <2>1, SpawnEffect
    <3> QED BY <2>1, <3>1, StopEncodedLists DEF StopsEncoded
  <2>2. CASE u # "main"
    <3>1. pc'[u] = <<>> \/ pc'[u] = <<FirstStep[u]>>  BY <1>2, <2>2, SpawnEffect
    <3> QED BY <2>2, <3>1, StopEncodedLists DEF StopsEncoded
  <2> QED BY <2>1, <2>2
<1>3. CASE u = "main" /\ ~Has(pc["video"], VideoLive) /\ ~(t = "main" /\ Spawns)
  BY <1>3, VideoOver DEF StopsEncoded
<1>4. CASE Before(pc[u], {"stop_encoded"}, Excuse(u)) /\ ~(t = "main" /\ Spawns)
  <2>1. CASE t # u
    <3>1. pc'[u] = pc[u]  BY <1>4, <2>1, OthersWait
    <3> QED BY <1>4, <3>1 DEF StopsEncoded
  <2>2. CASE t = u
    <3>1. Moves(t)  BY ThreadMoves
    <3>2. Before(pc'[t], {"stop_encoded"}, Excuse(t))
          \/ (Proceeds(t) /\ Head(pc[t]) \in Excuse(t))
      <4>1. /\ \A p \in Programs[t] : Before(p, {"stop_encoded"}, Excuse(t))
            /\ Before(SignalFailure, {"stop_encoded"}, Excuse(t))
            /\ Before(<<"run">>, {"stop_encoded"}, Excuse(t))
            /\ Before(SignalFailure \o StopSteps, {"stop_encoded"}, Excuse(t))
        BY StopEncodedLists
      <4>2. "dispose" \notin {"stop_encoded"} /\ "drain" \notin Excuse(t)
        BY DEF Excuse, MediaAlarm
      <4> QED BY <1>4, <2>2, <3>1, <4>1, <4>2, BeforeMoves
    <3>3. CASE Proceeds(t) /\ Head(pc[t]) \in MediaAlarm
      <4>1. SetFatal(t) \/ SetVideoFailed(t)  BY <3>3, FlagTaken DEF MediaAlarm
      <4>2. fatal' \/ videoFailed'  BY <4>1 DEF SetFatal, SetVideoFailed
      <4> QED BY <4>2 DEF StopsEncoded, Broken
    <3>4. CASE Proceeds(t) /\ t = "main" /\ Head(pc[t]) = "join_stages"
      <4>1. pc["video"] = <<>>  BY <3>4, JoinGuard DEF Returned, Stages, Workers
      <4>2. ~Has(pc["video"], VideoLive)  BY <4>1, ShortLists
      <4>3. ~Has(pc'["video"], VideoLive)  BY <1>4, <4>2, VideoOver
      <4> QED BY <2>2, <3>4, <4>3 DEF StopsEncoded
    <3> QED BY <2>2, <3>2, <3>3, <3>4 DEF StopsEncoded, Excuse
  <2> QED BY <2>1, <2>2
<1> QED BY <1>1, <1>2, <1>3, <1>4 DEF StopsEncoded

\* Hence it is never stopped while the video thread could still push into it.
LEMMA EncodedEndsStep ==
    ASSUME PcType, QueueType, Fresh, AlarmFirst, NEW t \in Threads, ThreadStep(t),
           StopsEncoded(t), EncodedEnds
    PROVE  EncodedEnds'
<1> USE MainAndWorkers
<1>0. "encoded" \in Queues /\ pc[t] \in Seq(Steps)  BY DEF Queues, PcType
<1>1. Broken => Broken'  BY BrokenStays
<1>2. CASE t = "main" /\ Spawns
  <2>1. ~queue["encoded"].stopped /\ queue' = queue
    BY <1>0, <1>2, SpawnFresh, SpawnEffect
  <2> QED BY <2>1 DEF EncodedEnds
<1>3. CASE ~(t = "main" /\ Spawns) /\ queue["encoded"].stopped
  BY <1>1, <1>3, VideoOver DEF EncodedEnds
<1>4. CASE StopQueue(t, "encoded")
  <2>1. pc[t] # <<>> /\ Head(pc[t]) = "stop_encoded"
    BY <1>4 DEF StopQueue, At, StopStep
  <2>2. ~Before(pc[t], {"stop_encoded"}, Excuse(t))  BY <1>0, <2>1, TailBefore
  <2>3. CASE ~(t = "main" /\ Spawns)
    BY <1>1, <2>2, <2>3, VideoOver DEF StopsEncoded, EncodedEnds
  <2> QED BY <1>2, <2>3
<1>5. queue'["encoded"].stopped = queue["encoded"].stopped \/ StopQueue(t, "encoded")
  BY <1>0, StopsStep
<1> QED BY <1>2, <1>3, <1>4, <1>5 DEF EncodedEnds

\* What the calls leave alone of the packets on their way.
LEMMA MediaCalls ==
    ASSUME QueueType, WorkType, NEW t \in Threads, CallStep(t)
    PROVE  /\ UNCHANGED <<packets, written>> /\ Waiting' = Waiting
           /\ \A u \in Threads : job'[u].frame = job[u].frame
<1> USE DEF history, work, pipelineVars
<1>1. UNCHANGED <<packets, written>>
  BY DEF CallStep, SetFatal, SetStop, SetVideoFailed, CloseBroker, RequestCameraStop,
     StopQueue, NotifyCapture, Dispose, ReturnInput, ReturnOutput
<1>2. \A u \in Threads : job'[u].frame = job[u].frame  BY CallCarries
<1>3. Waiting' = Waiting
  <2>1. /\ \A r \in Queues \ {"encoded"} : \A item :
               TryPush(r, item) => queue'["encoded"] = queue["encoded"]
        /\ \A r \in Queues : queue' = [queue EXCEPT ![r].stopped = TRUE] =>
               queue'["encoded"].items = queue["encoded"].items
        /\ "freeIn" \in Queues \ {"encoded"} /\ "freeOut" \in Queues \ {"encoded"}
        /\ queue' = queue => queue'["encoded"].items = queue["encoded"].items
    <3>1. ASSUME NEW r \in Queues \ {"encoded"}, NEW item, TryPush(r, item)
          PROVE  queue'["encoded"] = queue["encoded"]
      BY <3>1 DEF TryPush, QueueType, Queues
    <3>2. ASSUME NEW r \in Queues, queue' = [queue EXCEPT ![r].stopped = TRUE]
          PROVE  queue'["encoded"].items = queue["encoded"].items
      BY <3>2 DEF QueueType, Queues
    <3> QED BY <3>1, <3>2 DEF Queues
  <2> QED BY <2>1 DEF CallStep, SetFatal, SetStop, SetVideoFailed, CloseBroker,
          RequestCameraStop, StopQueue, NotifyCapture, Dispose, ReturnInput, ReturnOutput,
          Waiting
<1> QED BY <1>1, <1>2, <1>3

\* What the threads outside the video branch leave alone of them.
LEMMA MediaOthers ==
    ASSUME QueueType, WorkType, NEW t \in Threads, ThreadStep(t),
           t \notin {"video", "encoded"}, ~(t = "main" /\ StartCamera)
    PROVE  /\ UNCHANGED <<packets, written>> /\ Waiting' = Waiting
           /\ job'["video"].frame = job["video"].frame
           /\ job'["encoded"].frame = job["encoded"].frame
<1> USE DEF history, work, pipelineVars
<1> USE MainAndWorkers
<1> DEFINE same == Waiting' = Waiting
           kept == /\ job'["video"].frame = job["video"].frame
                   /\ job'["encoded"].frame = job["encoded"].frame
<1>0. /\ \A r \in Queues \ {"encoded"} : Pop(r) => same
      /\ \A r \in Queues \ {"encoded"} : \A item :
             TryPush(r, item) \/ PushLatest(r, item) => same
      /\ queue' = queue => same
      /\ {"freeIn", "freeOut", "captured", "prepared", "video", "completed"} \subseteq
             Queues \ {"encoded"}
  BY DEF Pop, TryPush, PushLatest, QueueType, Queues, Waiting
<1>1. /\ job' = job => kept
      /\ \A u \in Threads \ {"video", "encoded"} : \A j :
             job' = [job EXCEPT ![u] = j] => kept
      /\ \A u \in Threads \ {"video", "encoded"} : \A n :
             \/ job' = [job EXCEPT ![u].in = n]
             \/ job' = [job EXCEPT ![u].out = n]
             \/ job' = [job EXCEPT ![u].frame = n]
             => kept
      /\ {"capture", "preprocess", "npu", "postprocess", "main"} \subseteq
             Threads \ {"video", "encoded"}
  BY DEF WorkType
<1> HIDE DEF same, kept
<1> SUFFICES UNCHANGED <<packets, written>> /\ same /\ kept  BY DEF same, kept
<1>3. CASE CallStep(t)  BY <1>3, MediaCalls DEF same, kept
<1>4. CASE t = "main" /\ Supervise
  BY <1>0, <1>1, <1>4 DEF Supervise, Spawn, Join, StopCamera
<1>5. CASE t = "capture" /\ CaptureLoop
  BY <1>0, <1>1, <1>5 DEF CaptureLoop, CaptureCheck, DrainPop, DrainRequeued,
     DrainRequeueFailed, DrainEmpty, CaptureStopped, PollWake, PollTimeout, PollThrows,
     PollFrame, PollDropped, PublishFrame, PublishRefused, RequeueDirect, AfterDirect,
     PushCaptured, PushVideo
<1>6. CASE t = "preprocess" /\ PreprocessLoop
  BY <1>0, <1>1, <1>6 DEF PreprocessLoop, TakeInputSlot, TakeFrame, NoMoreFrames,
     Preprocess, PushPrepared, DrainLeases
<1>7. CASE t = "npu" /\ NpuLoop
  BY <1>0, <1>1, <1>7 DEF NpuLoop, TakePrepared, TakeOutputSlot, Run, PushCompleted
<1>8. CASE t = "postprocess" /\ TakeCompleted  BY <1>0, <1>1, <1>8 DEF TakeCompleted
<1>9. CASE t \in {"npu", "postprocess"} /\ PostprocessStep(t)
  BY <1>0, <1>1, <1>9 DEF PostprocessStep, Postprocess, PublishResult
<1> QED BY <1>3, <1>4, <1>5, <1>6, <1>7, <1>8, <1>9 DEF ThreadStep

\* Unless something is broken the sink thread is in its loop or has returned.
LEMMA EncodedAtStep ==
    ASSUME PcType, Fresh, AlarmFirst, EncodedAt, NEW t \in Threads, ThreadStep(t)
    PROVE  EncodedAt'
<1> USE MainAndWorkers DEF PcType
<1>1. CASE Broken  BY <1>1, BrokenStays DEF EncodedAt
<1>2. CASE pc'["encoded"] = pc["encoded"]  BY <1>1, <1>2 DEF EncodedAt
<1>3. CASE t = "main" /\ Spawns  BY <1>3, SpawnEffect DEF EncodedAt, FirstStep
<1>4. CASE t = "encoded" /\ ~Broken
  <2>1. ~CallStep(t) \/ pc' = pc
    <3>1. pc[t] # <<>> => Head(pc[t]) \notin CallSteps  BY <1>4 DEF EncodedAt, CallSteps
    <3> QED BY <3>1, CallHeads
  <2>2. CASE EncodedPacketLoop
    <3>1. \/ pc'[t] = <<"write">> \/ pc'[t] = <<>> \/ pc'[t] = <<"packet">>
          \/ pc'[t] = SignalVideoFailure
      BY <1>4, <2>2 DEF EncodedPacketLoop, TakePacket, WritePacket, Loop
    <3>2. Has(SignalVideoFailure, MediaAlarm)
      BY DEF Has, SignalVideoFailure, MediaAlarm
    <3> QED BY <1>4, <3>1, <3>2 DEF EncodedAt, Broken
  <2> QED BY <1>2, <1>4, <2>1, <2>2 DEF ThreadStep
<1> QED BY <1>1, <1>2, <1>3, <1>4, OthersWait

\* Nothing is put into the encoded queue without a live video thread.
LEMMA WaitingEmpty ==
    ASSUME PcType, QueueType, WorkType, NEW t \in Threads, ThreadStep(t),
           ~(t = "main" /\ (StartCamera \/ Spawns)),
           Waiting = <<>>, ~Has(pc["video"], VideoLive)
    PROVE  Waiting' = <<>> /\ ~Has(pc'["video"], VideoLive)
<1> USE MainAndWorkers DEF PcType
<1>1. ~Has(pc'["video"], VideoLive)  BY VideoOver
<1>2. CASE CallStep(t)  BY <1>1, <1>2, MediaCalls
<1>3. CASE t \notin {"video", "encoded"}  BY <1>1, <1>3, MediaOthers
<1>4. CASE t = "encoded" /\ EncodedPacketLoop
  <2>1. queue' = queue
    BY <1>4 DEF EncodedPacketLoop, TakePacket, WritePacket, CanPop, Waiting
  <2> QED BY <1>1, <2>1 DEF Waiting
<1>5. CASE t = "video" /\ VideoLoop
  <2>1. ~(TakeVideoFrame \/ Encode \/ PushEncoded)
    <3>1. SUFFICES ASSUME TakeVideoFrame \/ Encode \/ PushEncoded PROVE FALSE  OBVIOUS
    <3>2. pc["video"] # <<>> /\ Head(pc["video"]) \in VideoLive
      BY <3>1 DEF TakeVideoFrame, Encode, PushEncoded, At, VideoLive
    <3> QED BY <3>2, TailSteps DEF Has
  <2>2. DrainLeases("video", "video")  BY <1>5, <2>1 DEF VideoLoop
  <2>3. Waiting' = Waiting  BY <2>2 DEF DrainLeases, Pop, Waiting, QueueType, Queues
  <2> QED BY <1>1, <2>3
<1> QED BY <1>2, <1>3, <1>4, <1>5 DEF ThreadStep

\* Without video there is no packet on its way.
LEMMA NoVideoStep ==
    ASSUME PcType, QueueType, WorkType, Fresh, NoVideo, NEW t \in Threads, ThreadStep(t)
    PROVE  NoVideo'
<1> USE MainAndWorkers DEF PcType
<1> SUFFICES ASSUME ~EnableVideo PROVE Waiting' = <<>> /\ ~Has(pc'["video"], VideoLive)
  BY DEF NoVideo
<1>1. CASE t = "main" /\ StartCamera
  <2>1. Waiting' = <<>>  BY <1>1, StartEffect DEF StartCamera, Waiting
  <2>2. pc'["video"] = pc["video"]  BY <1>1 DEF StartCamera, Loop
  <2> QED BY <2>1, <2>2 DEF NoVideo
<1>2. CASE t = "main" /\ Spawns
  <2>1. pc'["video"] = <<>> /\ queue' = queue  BY <1>2, SpawnLists, SpawnEffect
  <2> QED BY <2>1, ShortLists DEF Waiting, NoVideo
<1> QED BY <1>1, <1>2, WaitingEmpty DEF NoVideo

\* The sink thread stays until the encoded queue is drained behind the video thread.
LEMMA SinkStaysStep ==
    ASSUME PcType, QueueType, WorkType, Fresh, AlarmFirst, EncodedAt, EncodedEnds, NoVideo,
           SinkStays, NEW t \in Threads, ThreadStep(t)
    PROVE  SinkStays'
<1> USE MainAndWorkers DEF PcType
<1>1. CASE Broken  BY <1>1, BrokenStays DEF SinkStays
<1>2. CASE Has(pc["main"], {"start", "spawn"})
  <2>1. t = "main" /\ (StartCamera \/ Spawns)  BY <1>2, MainStarts
  <2>2. Has(SignalFailure, MediaAlarm) /\ Has(SignalFailure \o StopSteps, MediaAlarm)
    <3>1. Has(SignalFailure, MediaAlarm)  BY DEF Has, SignalFailure, MediaAlarm
    <3> QED BY <3>1, Lists, ConcatHas
  <2>3. CASE StartCamera
    <3>1. pc'["main"] = <<"spawn">> \/ pc'["main"] = SignalFailure
      BY <2>3 DEF StartCamera, Loop
    <3>2. Has(<<"spawn">>, {"start", "spawn"})  BY DEF Has
    <3> QED BY <2>2, <3>1, <3>2 DEF SinkStays, Broken
  <2>4. CASE Spawns
    <3>1. CASE pc'["main"] = SignalFailure \o StopSteps
      BY <2>2, <3>1 DEF SinkStays, Broken
    <3>2. CASE pc'["main"] = <<"run">> /\ EnableVideo
      <4>1. pc'["encoded"] = <<"packet">>  BY <2>4, <3>2, SpawnLists
      <4>2. <<"packet">> # <<>>  OBVIOUS
      <4> QED BY <4>1, <4>2 DEF SinkStays
    <3>3. CASE ~EnableVideo  BY <3>3, NoVideoStep DEF SinkStays, NoVideo
    <3> QED BY <2>4, <3>1, <3>2, <3>3, SpawnEffect
  <2> QED BY <2>1, <2>3, <2>4
<1>3. CASE pc["encoded"] # <<>> /\ ~Broken /\ ~Has(pc["main"], {"start", "spawn"})
  <2>1. CASE pc'["encoded"] = pc["encoded"]  BY <1>3, <2>1 DEF SinkStays
  <2>2. CASE t = "main" /\ Spawns
    <3>1. pc["main"] # <<>> /\ Head(pc["main"]) = "spawn"  BY <2>2, SpawnEffect DEF At
    <3>2. Has(pc["main"], {"start", "spawn"})  BY <3>1, TailSteps DEF Has
    <3> QED BY <1>3, <3>2
  <2>3. CASE t = "encoded"
    <3>1. ~CallStep(t) \/ pc' = pc
      <4>1. Head(pc[t]) \notin CallSteps  BY <1>3, <2>3 DEF EncodedAt, CallSteps
      <4> QED BY <4>1, CallHeads
    <3>2. CASE EncodedPacketLoop /\ pc'[t] = <<>>
      <4>1. SignalVideoFailure # <<>> /\ <<"packet">> # <<>> /\ <<"write">> # <<>>
        BY DEF SignalVideoFailure
      <4>2. TakePacket /\ Drained("encoded") /\ queue' = queue
        BY <2>3, <3>2, <4>1 DEF EncodedPacketLoop, TakePacket, WritePacket, Loop
      <4>3. Waiting' = <<>>  BY <4>2 DEF Drained, Waiting
      <4>4. pc'["video"] = pc["video"]  BY <2>3, OthersWait
      <4> QED BY <1>3, <4>2, <4>3, <4>4 DEF SinkStays, EncodedEnds, Drained
    <3> QED BY <2>1, <2>3, <3>1, <3>2 DEF ThreadStep, SinkStays
  <2> QED BY <2>1, <2>2, <2>3, OthersWait
<1>4. CASE Waiting = <<>> /\ ~Has(pc["video"], VideoLive)
           /\ ~Has(pc["main"], {"start", "spawn"})
  <2>1. ~(t = "main" /\ (StartCamera \/ Spawns))
    <3>1. SUFFICES ASSUME t = "main", StartCamera \/ Spawns PROVE FALSE  OBVIOUS
    <3>2. pc["main"] # <<>> /\ Head(pc["main"]) \in {"start", "spawn"}
      BY <3>1, SpawnEffect DEF StartCamera, At
    <3> QED BY <1>4, <3>2, TailSteps DEF Has
  <2> QED BY <1>4, <2>1, WaitingEmpty DEF SinkStays
<1> QED BY <1>1, <1>2, <1>3, <1>4 DEF SinkStays

\* A list that has none of the steps is not one of them.
LEMMA NotOne == \A s, x : ~Has(s, {x}) => s # <<x>>
<1> SUFFICES ASSUME NEW s, NEW x, s = <<x>> PROVE Has(s, {x})  OBVIOUS
<1> QED BY DEF Has

\* What a step of the video thread does to the packets on their way.
LEMMA VideoMoves ==
    ASSUME PcType, QueueType, WorkType, MediaAt, EncodedEnds, ~Broken, ThreadStep("video")
    PROVE  /\ UNCHANGED written /\ InSink' = InSink
           /\ \/ UNCHANGED packets /\ InEncoder' = InEncoder /\ Waiting' = Waiting
              \/ /\ InEncoder = <<>> /\ InEncoder' = <<job["video"].frame>>
                 /\ packets' = Append(packets, job["video"].frame) /\ Waiting' = Waiting
              \/ /\ InEncoder = <<job["video"].frame>> /\ InEncoder' = <<>>
                 /\ Waiting' = Append(Waiting, job["video"].frame) /\ UNCHANGED packets
<1> USE MainAndWorkers DEF PcType
<1>0. /\ pc["video"] \in Seq(Steps) /\ "video" \in Threads /\ "encoded" \in Threads
      /\ pc'["video"] \in Seq(Steps) /\ MediaAt'
  BY ThreadMoves, PcStep, MediaAtStep
<1>1. pc'["encoded"] = pc["encoded"]  BY OthersWait, <1>0
<1>2. CASE CallStep("video")
  <2>1. /\ UNCHANGED <<packets, written>> /\ Waiting' = Waiting
        /\ job'["video"].frame = job["video"].frame
        /\ job'["encoded"].frame = job["encoded"].frame
    BY <1>0, <1>2, MediaCalls
  <2>2. pc'["video"] = <<"push_encoded">> <=> pc["video"] = <<"push_encoded">>
    <3>1. CASE pc' = pc  BY <3>1
    <3>2. CASE Proceeds("video") /\ pc["video"] # <<>> /\ Head(pc["video"]) \in CallSteps
      <4>1. pc["video"] # <<"push_encoded">>  BY <3>2 DEF CallSteps
      <4>2. pc'["video"] = Tail(pc["video"])  BY <1>0, <3>2 DEF Proceeds
      <4>3. pc'["video"] # <<"push_encoded">>
        BY <1>0, <3>2, <4>2, CarrierAlone DEF MediaAt
      <4> QED BY <4>1, <4>3
    <3> QED BY <1>0, <1>2, <3>1, <3>2, CallMoves, CallHeads
  <2> QED BY <1>1, <2>1, <2>2 DEF InEncoder, InSink
<1>3. CASE TakeVideoFrame
  <2>1. pc["video"] # <<"push_encoded">>  BY <1>3 DEF TakeVideoFrame, At
  <2>2. pc'["video"] # <<"push_encoded">>
    <3>1. \/ pc'["video"] = <<"dispose", "video">> \/ pc'["video"] = <<"encode">>
          \/ pc'["video"] = <<"drain_video">>
      BY <1>0, <1>3 DEF TakeVideoFrame, Loop
    <3> QED BY <3>1
  <2>3. job'["encoded"] = job["encoded"] /\ UNCHANGED <<packets, written>>
    BY <1>0, <1>3 DEF TakeVideoFrame, WorkType, history
  <2>4. Waiting' = Waiting  BY <1>3 DEF TakeVideoFrame, Pop, Waiting, QueueType, Queues
  <2> QED BY <1>1, <2>1, <2>2, <2>3, <2>4 DEF InEncoder, InSink
<1>4. CASE Encode
  <2>1. pc["video"] # <<"push_encoded">>  BY <1>4 DEF Encode, At
  <2>2. job'["encoded"] = job["encoded"] /\ UNCHANGED written /\ Waiting' = Waiting
    BY <1>0, <1>4 DEF Encode, WorkType, Waiting
  <2>3. CASE /\ pc'["video"] = <<"push_encoded">> /\ job' = job
             /\ packets' = Append(packets, job["video"].frame)
    BY <1>1, <2>1, <2>2, <2>3 DEF InEncoder, InSink
  <2>4. CASE pc'["video"] = SignalVideoFailure \o <<"drain_video">> /\ packets' = packets
    <3>1. ~Has(<<"drain_video">>, {"push_encoded"}) /\ ~Has(SignalVideoFailure, {"push_encoded"})
      <4>1. ~Has(SignalVideoFailure, {"push_encoded"})  BY DEF Has, SignalVideoFailure
      <4> QED BY <4>1, ShortLists
    <3>2. <<"drain_video">> \in Seq(Steps)  BY DEF Steps
    <3>3. ~Has(SignalVideoFailure \o <<"drain_video">>, {"push_encoded"})
      BY <3>1, <3>2, Lists, ConcatHas
    <3>4. pc'["video"] # <<"push_encoded">>  BY <2>4, <3>3, NotOne
    <3> QED BY <1>1, <2>1, <2>2, <2>4, <3>4 DEF InEncoder, InSink
  <2> QED BY <1>0, <1>4, <2>3, <2>4 DEF Encode, Loop
<1>5. CASE PushEncoded
  <2>1. pc["video"] # <<>> /\ Head(pc["video"]) = "push_encoded"
    BY <1>5 DEF PushEncoded, At
  <2>2. Has(pc["video"], {"push_encoded"}) /\ Has(pc["video"], VideoLive)
    BY <1>0, <2>1, TailSteps DEF Has, VideoLive
  <2>3. pc["video"] = <<"push_encoded">> /\ ~queue["encoded"].stopped
    BY <2>2 DEF MediaAt, EncodedEnds
  <2>4. pc'["video"] = <<"video">> /\ UNCHANGED <<packets, written>>
    BY <1>0, <1>5 DEF PushEncoded, Loop, history
  <2>5. job'["encoded"] = job["encoded"]  BY <1>0, <1>5 DEF PushEncoded, WorkType
  <2>6. Waiting' = Append(Waiting, job["video"].frame)
    <3>1. "encoded" \in Queues /\ job["video"].frame \in ItemsOf["encoded"]
      BY <1>0, QueueItems DEF WorkType, Jobs
    <3>2. TryPush("encoded", job["video"].frame) /\ ~Full("encoded")
      BY <1>5, <2>3 DEF PushEncoded, CanPush
    <3> QED BY <2>3, <3>1, <3>2, TryPushEffect DEF Waiting
  <2>7. <<"video">> # <<"push_encoded">>  OBVIOUS
  <2> QED BY <1>1, <2>3, <2>4, <2>5, <2>6, <2>7 DEF InEncoder, InSink
<1>6. CASE DrainLeases("video", "video")
  <2>1. pc["video"] # <<>> /\ Head(pc["video"]) # "push_encoded"
    BY <1>6 DEF DrainLeases, At, DrainStep
  <2>2. pc["video"] # <<"push_encoded">> /\ ~Has(pc["video"], {"push_encoded"})
        /\ ~Has(Tail(pc["video"]), {"push_encoded"})
    BY <1>0, <2>1, CarrierAlone DEF MediaAt
  <2>3. pc'["video"] # <<"push_encoded">>
    <3>1. CASE pc'["video"] = <<"dispose">> \o pc["video"]
      <4>1. <<"dispose">> \in Seq(Steps) /\ ~Has(<<"dispose">>, {"push_encoded"})
        BY ShortLists DEF Steps
      <4>2. Has(<<"dispose">> \o pc["video"], {"push_encoded"}) <=>
                Has(<<"dispose">>, {"push_encoded"}) \/ Has(pc["video"], {"push_encoded"})
        BY <1>0, <4>1, ConcatHas
      <4> QED BY <2>2, <3>1, <4>1, <4>2, NotOne
    <3>2. CASE pc'["video"] = Tail(pc["video"])  BY <2>2, <3>2, NotOne
    <3> QED BY <1>0, <1>6, <2>1, <3>1, <3>2, EmptyFirst, TailSteps DEF DrainLeases, Proceed
  <2>4. job' = job /\ UNCHANGED <<packets, written>>  BY <1>6 DEF DrainLeases, history
  <2>5. Waiting' = Waiting  BY <1>6 DEF DrainLeases, Pop, Waiting, QueueType, Queues
  <2> QED BY <1>1, <2>2, <2>3, <2>4, <2>5 DEF InEncoder, InSink
<1> QED BY <1>2, <1>3, <1>4, <1>5, <1>6 DEF ThreadStep, VideoLoop

\* What a step of the sink thread does to them, unless it announces a failure.
LEMMA EncodedMoves ==
    ASSUME PcType, QueueType, WorkType, EncodedAt, ~Broken, ~Broken', ThreadStep("encoded")
    PROVE  /\ UNCHANGED packets /\ InEncoder' = InEncoder
           /\ \/ UNCHANGED written /\ InSink' = InSink /\ Waiting' = Waiting
              \/ /\ InSink = <<>> /\ Waiting # <<>> /\ InSink' = <<Head(Waiting)>>
                 /\ Waiting' = Tail(Waiting) /\ UNCHANGED written
              \/ /\ InSink = <<job["encoded"].frame>> /\ InSink' = <<>>
                 /\ written' = Append(written, job["encoded"].frame) /\ Waiting' = Waiting
<1> USE MainAndWorkers DEF PcType
<1>0. /\ pc["encoded"] \in {<<>>, <<"packet">>, <<"write">>}
      /\ "video" \in Threads /\ "encoded" \in Threads
  BY DEF EncodedAt
<1>1. pc'["video"] = pc["video"]  BY OthersWait, <1>0
<1>2. CASE CallStep("encoded")
  <2>1. /\ UNCHANGED <<packets, written>> /\ Waiting' = Waiting
        /\ job'["video"].frame = job["video"].frame
        /\ job'["encoded"].frame = job["encoded"].frame
    BY <1>0, <1>2, MediaCalls
  <2>2. pc' = pc
    <3>1. pc["encoded"] # <<>> => Head(pc["encoded"]) \notin CallSteps
      BY <1>0 DEF CallSteps
    <3> QED BY <1>0, <1>2, <3>1, CallHeads
  <2> QED BY <2>1, <2>2 DEF InEncoder, InSink
<1>3. pc'["encoded"] # SignalVideoFailure
  <2>1. Has(SignalVideoFailure, MediaAlarm)  BY DEF Has, SignalVideoFailure, MediaAlarm
  <2> QED BY <2>1 DEF Broken
<1>4. CASE TakePacket
  <2>1. pc["encoded"] = <<"packet">> /\ <<"packet">> # <<"write">> /\ <<>> # <<"write">>
    BY <1>0, <1>4 DEF TakePacket, At
  <2>2. job'["video"] = job["video"] /\ UNCHANGED <<packets, written>>
    BY <1>0, <1>4 DEF TakePacket, WorkType, history
  <2>3. CASE /\ CanPop("encoded") /\ Pop("encoded") /\ pc'["encoded"] = <<"write">>
             /\ job' = [job EXCEPT !["encoded"].frame = Front("encoded")]
    <3>1. Waiting' = Tail(Waiting) /\ Waiting # <<>>
      BY <2>3, PopEffect, QueueItems DEF Waiting, CanPop
    <3>2. job'["encoded"].frame = Head(Waiting)
      BY <1>0, <2>3 DEF WorkType, Jobs, Front, Waiting
    <3> QED BY <1>1, <2>1, <2>2, <2>3, <3>1, <3>2 DEF InEncoder, InSink
  <2>4. CASE pc'["encoded"] = <<>> /\ UNCHANGED <<queue, job>>
    BY <1>1, <2>1, <2>2, <2>4 DEF InEncoder, InSink, Waiting
  <2> QED BY <1>0, <1>3, <1>4, <2>3, <2>4 DEF TakePacket, Loop
<1>5. CASE WritePacket
  <2>1. pc["encoded"] = <<"write">> /\ <<"packet">> # <<"write">>
    BY <1>0, <1>5 DEF WritePacket, At
  <2>2. job'["video"] = job["video"] /\ UNCHANGED packets /\ Waiting' = Waiting
    BY <1>0, <1>5 DEF WritePacket, WorkType, Waiting
  <2>3. pc'["encoded"] = <<"packet">> /\ written' = Append(written, job["encoded"].frame)
    BY <1>0, <1>3, <1>5 DEF WritePacket, Loop
  <2> QED BY <1>1, <2>1, <2>2, <2>3 DEF InEncoder, InSink
<1> QED BY <1>2, <1>4, <1>5 DEF ThreadStep, EncodedPacketLoop

\* The packets of a state, on every leg of the way, are lists of frame numbers.
LEMMA MediaTypes ==
    ASSUME Types
    PROVE  /\ packets \in Seq(Nat) /\ written \in Seq(Nat) /\ Waiting \in Seq(Nat)
           /\ InSink \in Seq(Nat) /\ InEncoder \in Seq(Nat)
           /\ job["video"].frame \in Nat /\ job["encoded"].frame \in Nat
<1>1. job["video"].frame \in Nat /\ job["encoded"].frame \in Nat
  BY MainAndWorkers DEF Types, WorkType, Jobs
<1>2. Waiting \in Seq(Nat)  BY QueueItems DEF Types, QueueType, Waiting
<1> QED BY <1>1, <1>2 DEF Types, HistoryType, InSink, InEncoder


\* The same three facts of the packets of a state.
LEMMA MediaPieces ==
    ASSUME Types, NEW x \in Nat
    PROVE  /\ Append(written \o InSink \o Waiting \o <<>>, x) = written \o InSink \o Waiting \o <<x>>
           /\ written \o InSink \o Waiting \o <<x>> =
                  written \o InSink \o Append(Waiting, x) \o <<>>
           /\ written \o <<x>> \o Waiting \o InEncoder =
                  Append(written, x) \o <<>> \o Waiting \o InEncoder
<1>1. written \in Seq(Nat) /\ InSink \in Seq(Nat) /\ Waiting \in Seq(Nat) /\ InEncoder \in Seq(Nat)
  BY MediaTypes
<1>2. Append(written \o InSink \o Waiting \o <<>>, x) = written \o InSink \o Waiting \o <<x>>
  BY <1>1, PieceEncoded
<1>3. written \o InSink \o Waiting \o <<x>> =
          written \o InSink \o Append(Waiting, x) \o <<>>
  BY <1>1, PieceQueued
<1>4. written \o <<x>> \o Waiting \o InEncoder =
          Append(written, x) \o <<>> \o Waiting \o InEncoder
  BY <1>1, PieceWritten
<1> QED BY <1>2, <1>3, <1>4

\* The packets are where they belong: written, with the sink thread, in the queue and
\* with the video thread, in that order.
LEMMA PacketsInOrderStep ==
    ASSUME PcType, Types, Fresh, AlarmFirst, MediaAt, EncodedAt, EncodedEnds,
           PacketsInOrder, NEW t \in Threads, ThreadStep(t)
    PROVE  PacketsInOrder'
<1> USE MainAndWorkers
<1>0. QueueType /\ WorkType /\ PcType  BY DEF Types
<1> SUFFICES ASSUME ~Broken' PROVE packets' = written' \o InSink' \o Waiting' \o InEncoder'
  BY DEF PacketsInOrder
<1>1. ~Broken /\ packets = written \o InSink \o Waiting \o InEncoder
  BY BrokenStays DEF PacketsInOrder
<1>2. /\ packets \in Seq(Nat) /\ written \in Seq(Nat) /\ Waiting \in Seq(Nat)
      /\ InSink \in Seq(Nat) /\ InEncoder \in Seq(Nat)
      /\ job["video"].frame \in Nat /\ job["encoded"].frame \in Nat
  BY MediaTypes
<1>3. CASE t = "video"
  <2>1. PICK x \in Nat :
        /\ UNCHANGED written /\ InSink' = InSink
        /\ \/ UNCHANGED packets /\ InEncoder' = InEncoder /\ Waiting' = Waiting
           \/ /\ InEncoder = <<>> /\ InEncoder' = <<x>>
              /\ packets' = Append(packets, x) /\ Waiting' = Waiting
           \/ /\ InEncoder = <<x>> /\ InEncoder' = <<>>
              /\ Waiting' = Append(Waiting, x) /\ UNCHANGED packets
    BY <1>0, <1>1, <1>2, <1>3, VideoMoves
  <2>2. Append(written \o InSink \o Waiting \o <<>>, x) = written \o InSink \o Waiting \o <<x>>
    BY MediaPieces
  <2>3. written \o InSink \o Waiting \o <<x>> =
            written \o InSink \o Append(Waiting, x) \o <<>>
    BY MediaPieces
  <2> QED BY <1>1, <2>1, <2>2, <2>3
<1>4. CASE t = "encoded"
  <2>1. PICK x \in Nat :
        /\ UNCHANGED packets /\ InEncoder' = InEncoder
        /\ \/ UNCHANGED written /\ InSink' = InSink /\ Waiting' = Waiting
           \/ /\ InSink = <<>> /\ Waiting # <<>> /\ InSink' = <<Head(Waiting)>>
              /\ Waiting' = Tail(Waiting) /\ UNCHANGED written
           \/ /\ InSink = <<x>> /\ InSink' = <<>>
              /\ written' = Append(written, x) /\ Waiting' = Waiting
    BY <1>0, <1>1, <1>2, <1>4, EncodedMoves
  <2>2. ASSUME Waiting # <<>>
        PROVE  written \o <<>> \o Waiting \o InEncoder =
                   written \o <<Head(Waiting)>> \o Tail(Waiting) \o InEncoder
    BY <1>2, <2>2, PieceTaken
  <2>3. written \o <<x>> \o Waiting \o InEncoder =
            Append(written, x) \o <<>> \o Waiting \o InEncoder
    BY MediaPieces
  <2> QED BY <1>1, <2>1, <2>2, <2>3
<1>5. CASE t = "main" /\ StartCamera
  <2>1. pc["main"] # <<>> /\ Head(pc["main"]) = "start"  BY <1>5 DEF StartCamera, At
  <2>2. Has(pc["main"], {"start", "spawn"})  BY <1>0, <2>1, TailSteps DEF Has, PcType
  <2>3. written = <<>> /\ pc["video"] = <<>> /\ pc["encoded"] = <<>>  BY <2>2 DEF Fresh
  <2>4. pc'["video"] = <<>> /\ pc'["encoded"] = <<>> /\ written' = <<>>
    BY <1>0, <1>5, <2>3 DEF StartCamera, Loop, PcType
  <2>5. InSink' = <<>> /\ InEncoder' = <<>>  BY <2>4 DEF InSink, InEncoder
  <2>6. packets' = Waiting' /\ packets' \in Seq(Nat)
    BY <1>0, <1>5, StartEffect DEF StartCamera, Waiting
  <2>7. <<>> \o <<>> \o packets' \o <<>> = packets'  BY <2>6, ConcatEmptySeq
  <2> QED BY <2>4, <2>5, <2>6, <2>7
<1>6. CASE t = "main" /\ Spawns
  <2>1. pc["video"] = <<>> /\ pc["encoded"] = <<>>  BY <1>0, <1>6, SpawnFresh
  <2>2. /\ pc'["video"] = <<>> \/ pc'["video"] = <<"video">>
        /\ pc'["encoded"] = <<>> \/ pc'["encoded"] = <<"packet">>
        /\ UNCHANGED <<queue, packets, written>>
    BY <1>6, SpawnEffect DEF FirstStep, history
  <2>3. <<"video">> # <<"push_encoded">> /\ <<"packet">> # <<"write">>
        /\ <<>> # <<"push_encoded">> /\ <<>> # <<"write">>
    OBVIOUS
  <2>4. InSink = <<>> /\ InEncoder = <<>> /\ InSink' = <<>> /\ InEncoder' = <<>>
    BY <2>1, <2>2, <2>3 DEF InSink, InEncoder
  <2> QED BY <1>1, <2>2, <2>4 DEF Waiting
<1>7. CASE t \notin {"video", "encoded"} /\ ~(t = "main" /\ (StartCamera \/ Spawns))
  <2>1. /\ UNCHANGED <<packets, written>> /\ Waiting' = Waiting
        /\ job'["video"].frame = job["video"].frame
        /\ job'["encoded"].frame = job["encoded"].frame
    BY <1>0, <1>7, MediaOthers
  <2>2. pc'["video"] = pc["video"] /\ pc'["encoded"] = pc["encoded"]
    BY <1>0, <1>7, OthersWait
  <2> QED BY <1>1, <2>1, <2>2 DEF InSink, InEncoder
<1> QED BY <1>3, <1>4, <1>5, <1>6, <1>7

\* Every step keeps the invariant of the media.
LEMMA MediaInvStep ==
    ASSUME Inv, MediaInv, [PipelineNext]_vars
    PROVE  MediaInv'
<1> USE MainAndWorkers
<1>0. PcType /\ Types /\ QueueType /\ WorkType /\ Fresh
  BY DEF Inv, Base, Control, Types
<1>1. CASE UNCHANGED vars
  <2>1. UNCHANGED <<pc, queue, job, fatal, videoFailed, packets, written>>
    BY <1>1 DEF vars, pipelineVars, flags, work, history
  <2> QED BY <2>1 DEF MediaInv, AlarmFirst, MediaAt, StopsEncoded, EncodedAt, EncodedEnds,
          SinkStays, NoVideo, PacketsInOrder, Broken, InSink, InEncoder, Waiting
<1>2. CASE StopRequested
  <2>1. UNCHANGED <<queue, job, fatal, videoFailed, packets, written>>
    BY <1>2 DEF StopRequested, flags, work, history
  <2>2. /\ \A u \in Threads : u # "main" => pc'[u] = pc[u]
        /\ pc'["main"] = StopSteps
    BY <1>0, <1>2 DEF StopRequested, Loop, PcType
  <2>3. pc["main"] # <<>> /\ Head(pc["main"]) = "run"  BY <1>2 DEF StopRequested, At
  <2>4. First(StopSteps, MediaAlarm) /\ Before(StopSteps, {"stop_encoded"}, Excuse("main"))
    BY AlarmLists, StopEncodedLists
  <2>5. Broken => Broken'
    <3>1. ASSUME Has(pc["main"], MediaAlarm) PROVE FALSE
      <4>1. pc["main"] \in Seq(Steps) /\ First(pc["main"], MediaAlarm)
        BY <1>0 DEF PcType, MediaInv, AlarmFirst
      <4>2. PICK i \in DOMAIN pc["main"] : pc["main"][i] \in MediaAlarm  BY <3>1 DEF Has
      <4>3. i = 1  BY <4>1, <4>2 DEF First
      <4> QED BY <2>3, <4>1, <4>2, <4>3, TailSteps DEF MediaAlarm
    <3> QED BY <2>1, <2>2, <3>1 DEF Broken
  <2>6. AlarmFirst' /\ MediaAt'  BY <2>2, <2>4 DEF MediaInv, AlarmFirst, MediaAt
  <2>7. \A u \in Threads : StopsEncoded(u)'
    BY <2>2, <2>4, <2>5 DEF MediaInv, StopsEncoded
  <2>8. EncodedAt' /\ EncodedEnds' /\ NoVideo'
    BY <2>1, <2>2, <2>5 DEF MediaInv, EncodedAt, EncodedEnds, NoVideo, Waiting
  <2>9. ~Has(pc["main"], {"start", "spawn"})
    <3>1. ASSUME pc["main"] = <<"start">> \/ pc["main"] = <<"spawn">> PROVE FALSE
      BY <2>3, <3>1
    <3> QED BY <1>0, <3>1 DEF Fresh
  <2>10. SinkStays'  BY <2>1, <2>2, <2>5, <2>9 DEF MediaInv, SinkStays, Waiting
  <2>11. PacketsInOrder'
    BY <2>1, <2>2, <2>5 DEF MediaInv, PacketsInOrder, InSink, InEncoder, Waiting
  <2> QED BY <2>6, <2>7, <2>8, <2>10, <2>11 DEF MediaInv
<1>3. ASSUME NEW t \in Threads, ThreadStep(t) PROVE MediaInv'
  <2> USE DEF MediaInv
  <2>1. AlarmFirst'  BY <1>0, <1>3, ThreadMoves, AlarmFirstStep
  <2>2. MediaAt'  BY <1>0, <1>3, MediaAtStep
  <2>3. (\A u \in Threads : StopsEncoded(u))'  BY <1>0, <1>3, StopsEncodedStep
  <2>4. EncodedAt'  BY <1>0, <1>3, EncodedAtStep
  <2>5. EncodedEnds'  BY <1>0, <1>3, EncodedEndsStep
  <2>6. SinkStays'  BY <1>0, <1>3, SinkStaysStep
  <2>7. NoVideo'  BY <1>0, <1>3, NoVideoStep
  <2>8. PacketsInOrder'  BY <1>0, <1>3, PacketsInOrderStep
  <2> QED BY <2>1, <2>2, <2>3, <2>4, <2>5, <2>6, <2>7, <2>8
<1> QED BY <1>1, <1>2, <1>3 DEF PipelineNext, Terminated

\* It holds before StartCamera.
LEMMA MediaInit == PipelineInit => MediaInv
<1> SUFFICES ASSUME PipelineInit PROVE MediaInv  OBVIOUS
<1> USE MainAndWorkers
<1>1. /\ pc["main"] = <<"start">> /\ \A t \in Workers : pc[t] = <<>>
      /\ queue["encoded"].items = <<>> /\ ~queue["encoded"].stopped
      /\ packets = <<>> /\ written = <<>>
  BY DEF PipelineInit, Queues
<1>2. /\ ~Has(<<"start">>, MediaAlarm) /\ ~Has(<<>>, MediaAlarm)
      /\ ~Has(<<>>, {"push_encoded"}) /\ ~Has(<<>>, {"write"}) /\ ~Has(<<>>, VideoLive)
      /\ ~Has(<<>>, {"stop_encoded"}) /\ ~Has(<<"start">>, {"stop_encoded"})
  BY ShortLists DEF MediaAlarm
<1>3. Has(<<"start">>, {"start", "spawn"})  BY DEF Has
<1>4. AlarmFirst
  <2>1. \A s : ~Has(s, MediaAlarm) => First(s, MediaAlarm)  BY DEF Has, First
  <2> QED BY <1>1, <1>2, <2>1 DEF AlarmFirst
<1>5. MediaAt /\ EncodedAt  BY <1>1, <1>2 DEF MediaAt, EncodedAt
<1>6. \A t \in Threads : StopsEncoded(t)
  <2>1. \A s, T : ~Has(s, {"stop_encoded"}) => Before(s, {"stop_encoded"}, T)
    BY DEF Has, Before
  <2> QED BY <1>1, <1>2, <2>1 DEF StopsEncoded
<1>7. EncodedEnds /\ SinkStays /\ NoVideo
  BY <1>1, <1>2, <1>3 DEF EncodedEnds, SinkStays, NoVideo, Waiting
<1>8. PacketsInOrder
  <2>1. InSink = <<>> /\ InEncoder = <<>> /\ Waiting = <<>>
    BY <1>1 DEF InSink, InEncoder, Waiting
  <2>2. <<>> \o <<>> \o <<>> \o <<>> = <<>>  OBVIOUS
  <2> QED BY <1>1, <2>1, <2>2 DEF PacketsInOrder
<1> QED BY <1>4, <1>5, <1>6, <1>7, <1>8 DEF MediaInv

\* When Stop has returned and no failure was announced, the sink has had every encoded
\* packet, the codec header first, in the order in which they were encoded.
THEOREM EncodedMediaReachesSink == PipelineSpec => []EncodedMediaDrained
<1>1. Inv /\ MediaInv => EncodedMediaDrained
  <2> SUFFICES ASSUME Inv, MediaInv, Stopped, ~fatal, ~videoFailed PROVE written = packets
    BY DEF EncodedMediaDrained
  <2>1. \A t \in Threads : pc[t] = <<>>
    BY DEF Stopped, Inv, Base, Control, Ended, AllReturned, Returned
  <2>2. ~Has(<<>>, MediaAlarm) /\ ~Has(<<>>, {"start", "spawn"})  BY ShortLists
  <2>3. ~Broken  BY <2>1, <2>2 DEF Broken
  <2>4. pc["main"] = <<>> /\ pc["video"] = <<>> /\ pc["encoded"] = <<>>
    BY <2>1, MainAndWorkers
  <2>5. Waiting = <<>> /\ InSink = <<>> /\ InEncoder = <<>>
    BY <2>2, <2>3, <2>4 DEF MediaInv, SinkStays, InSink, InEncoder
  <2>6. packets = written \o <<>> \o <<>> \o <<>>
    BY <2>3, <2>5 DEF MediaInv, PacketsInOrder
  <2>7. written \in Seq(Nat)  BY MediaTypes DEF Inv, Base
  <2> QED BY <2>6, <2>7, ConcatEmptySeq
<1>2. PipelineInit => MediaInv  BY MediaInit
<1>3. Inv /\ MediaInv /\ [PipelineNext]_vars => MediaInv'  BY MediaInvStep
<1> QED BY <1>1, <1>2, <1>3, PipelineInvariant, PTL DEF PipelineSpec

--------------------------------------------------------------------------------
(* Results in the order of their frames                                     *)

\* The legs of the way of a frame, the last first: published, with the postprocess
\* thread, in the queue before it, with the inference thread, in its queue, with the
\* preprocess thread, captured, being dispatched, in hand, and the next frame to come.
\* A job that was given up keeps its frame until the thread takes another.
Some(f) == {f} \ {0}
KeysOf(s) == {s[i].key : i \in DOMAIN s}

PublishedLeg == {published[i] : i \in DOMAIN published}
PostLeg == Some(job["postprocess"].frame)
CompletedLeg == FramesOf(queue["completed"].items)
NpuLeg == Some(job["npu"].frame)
PreparedLeg == FramesOf(queue["prepared"].items)
PreprocessLeg == Some(job["preprocess"].frame)
CapturedLeg == KeysOf(queue["captured"].items)
DispatchLeg == IF Has(pc["capture"], {"push_captured"}) THEN {dispatch[1].key} ELSE {}
HandLeg == {r.key : r \in hand}

Legs == 1..10
OnLeg == << PublishedLeg, PostLeg, CompletedLeg, NpuLeg, PreparedLeg, PreprocessLeg,
            CapturedLeg, DispatchLeg, HandLeg, {nextFrame} >>

\* What is on an earlier leg is a later frame; on a leg the later frame comes later.
InOrder(leg) ==
    /\ \A a \in Legs : 0 \notin leg[a]
    /\ \A a, b \in Legs : a < b => \A x \in leg[a], y \in leg[b] : x < y

RisingFrames(s) == \A i, j \in DOMAIN s : i < j => s[i].frame < s[j].frame
RisingKeys(s) == \A i, j \in DOMAIN s : i < j => s[i].key < s[j].key

Lined ==
    /\ InOrder(OnLeg)
    /\ RisingFrames(queue["completed"].items) /\ RisingFrames(queue["prepared"].items)
    /\ RisingKeys(queue["captured"].items) /\ ResultsInOrder

\* A stage that works has a frame.
PreprocessBusy == {"process", "push_prepared"}
PublishSteps == {"post", "publish_result"}
NpuBusy == {"output", "run", "push_completed", "post", "publish_result"}

StagesBusy ==
    /\ Has(pc["preprocess"], PreprocessBusy) => job["preprocess"].frame # 0
    /\ Has(pc["npu"], NpuBusy) => job["npu"].frame # 0
    /\ Has(pc["postprocess"], PublishSteps) => job["postprocess"].frame # 0

\* The inference thread publishes in the fused topology only, where there is nothing
\* behind it.
FusedAlone ==
    IF Split THEN ~Has(pc["npu"], PublishSteps)
    ELSE queue["completed"].items = <<>> /\ job["postprocess"].frame = 0

\* Until the camera starts no frame has come.
FirstFrame == Has(pc["main"], {"start"}) => nextFrame = 1

OrderInv == Lined /\ StagesBusy /\ FusedAlone /\ FirstFrame

\* The frames M go from leg b to leg a, before what leg b keeps; the legs in between are
\* empty, and at most frames are dropped from the others.
HandedOn(leg, next, a, b, M) ==
    /\ a \in Legs /\ b \in Legs /\ a < b
    /\ M \subseteq leg[b] /\ next[a] \subseteq leg[a] \cup M
    /\ \A c \in Legs \ {a} : next[c] \subseteq leg[c]
    /\ \A c \in Legs : a < c /\ c < b => next[c] = {}
    /\ \A x \in M, y \in next[b] : x < y

\* Frames that are handed on stay in order.
LEMMA LegsMove ==
    ASSUME NEW leg, NEW next, NEW a, NEW b, NEW M, InOrder(leg),
           HandedOn(leg, next, a, b, M)
    PROVE  InOrder(next)
<1> USE DEF HandedOn
<1>1. \A c \in Legs : 0 \notin next[c]  BY DEF InOrder
<1>2. ASSUME NEW c \in Legs, NEW d \in Legs, c < d, NEW x \in next[c], NEW y \in next[d]
      PROVE  x < y
  <2>0. c \in Int /\ d \in Int /\ a \in Int /\ b \in Int  BY DEF Legs
  <2>1. CASE x \in leg[c] /\ y \in leg[d]  BY <1>2, <2>1 DEF InOrder
  <2>2. CASE c = a /\ x \in M
    <3>1. d # a /\ y \in leg[d]  BY <2>0, <1>2, <2>2
    <3>2. d = b \/ b < d  BY <2>0, <1>2, <2>2
    <3> QED BY <1>2, <2>2, <3>1, <3>2 DEF InOrder
  <2>3. CASE d = a /\ y \in M
    <3>1. c # a /\ x \in leg[c] /\ y \in leg[b] /\ c < b  BY <2>0, <1>2, <2>3
    <3> QED BY <1>2, <3>1 DEF InOrder
  <2> QED BY <1>2, <2>0, <2>1, <2>2, <2>3
<1> QED BY <1>1, <1>2 DEF InOrder

\* Frames are dropped.
LEMMA LegsShrink ==
    ASSUME NEW leg, NEW next, InOrder(leg), \A c \in Legs : next[c] \subseteq leg[c]
    PROVE  InOrder(next)
  BY DEF InOrder

\* A frame is captured.
LEMMA LegsGrow ==
    ASSUME NEW leg, NEW next, InOrder(leg), NEW n \in Nat, n # 0, leg[10] = {n},
           next[10] = {n + 1}, next[9] = {n},
           \A c \in Legs : c < 9 => next[c] \subseteq leg[c] /\ leg[c] \subseteq Nat
    PROVE  InOrder(next)
<1>0. \A c \in Legs : c \in Int /\ (c < 9 \/ c = 9 \/ c = 10)  BY DEF Legs
<1>1. \A c \in Legs : 0 \notin next[c]  BY <1>0 DEF InOrder
<1>2. ASSUME NEW c \in Legs, NEW d \in Legs, c < d, NEW x \in next[c], NEW y \in next[d]
      PROVE  x < y
  <2>1. CASE c = 9
    <3>1. d = 10  BY <1>0, <1>2, <2>1
    <3> QED BY <2>1, <3>1
  <2>2. CASE c < 9
    <3>1. x \in leg[c] /\ x \in Nat /\ 10 \in Legs /\ c < 10  BY <1>0, <2>2 DEF Legs
    <3>2. x < n  BY <3>1 DEF InOrder
    <3>3. CASE d < 9  BY <1>2, <2>2, <3>3 DEF InOrder
    <3>4. CASE d = 9 \/ d = 10  BY <3>1, <3>2, <3>4
    <3> QED BY <1>0, <3>3, <3>4
  <2>3. c # 10  BY <1>0, <1>2
  <2> QED BY <1>0, <2>1, <2>2, <2>3
<1> QED BY <1>1, <1>2 DEF InOrder

\* The jobs of a queue when the first is taken or another one comes.
LEMMA JobsMove ==
    ASSUME NEW s \in Seq(Jobs), RisingFrames(s)
    PROVE  /\ s # <<>> => /\ RisingFrames(Tail(s)) /\ FramesOf(Tail(s)) \subseteq FramesOf(s)
                          /\ Head(s).frame \in FramesOf(s)
                          /\ \A y \in FramesOf(Tail(s)) : Head(s).frame < y
           /\ \A j \in Jobs : (\A x \in FramesOf(s) : x < j.frame) => RisingFrames(Append(s, j))
<1>1. ASSUME s # <<>>
      PROVE  /\ RisingFrames(Tail(s)) /\ FramesOf(Tail(s)) \subseteq FramesOf(s)
             /\ Head(s).frame \in FramesOf(s)
             /\ \A y \in FramesOf(Tail(s)) : Head(s).frame < y
  <2>1. /\ DOMAIN s = 1..Len(s) /\ DOMAIN Tail(s) = 1..(Len(s) - 1) /\ Head(s) = s[1]
        /\ \A i \in 1..(Len(s) - 1) : Tail(s)[i] = s[i + 1]
        /\ Len(s) \in Nat /\ Len(s) > 0
    BY <1>1
  <2>2. RisingFrames(Tail(s))  BY <2>1 DEF RisingFrames
  <2>3. ASSUME NEW y \in FramesOf(Tail(s)) PROVE y \in FramesOf(s) /\ Head(s).frame < y
    <3>1. PICK i \in 1..(Len(s) - 1) : y = s[i + 1].frame  BY <2>1, <2>3 DEF FramesOf
    <3>2. i + 1 \in 1..Len(s) /\ 1 \in 1..Len(s) /\ 1 < i + 1  BY <2>1
    <3> QED BY <2>1, <3>1, <3>2 DEF FramesOf, RisingFrames
  <2>4. Head(s).frame \in FramesOf(s)  BY <2>1 DEF FramesOf
  <2> QED BY <2>2, <2>3, <2>4
<1>2. ASSUME NEW j \in Jobs, \A x \in FramesOf(s) : x < j.frame
      PROVE  RisingFrames(Append(s, j))
  <2>1. /\ DOMAIN s = 1..Len(s) /\ DOMAIN Append(s, j) = 1..(Len(s) + 1) /\ Len(s) \in Nat
        /\ \A i \in 1..Len(s) : Append(s, j)[i] = s[i]
        /\ Append(s, j)[Len(s) + 1] = j
    OBVIOUS
  <2>2. \A i \in 1..Len(s) : s[i].frame < j.frame  BY <1>2, <2>1 DEF FramesOf
  <2> QED BY <2>1, <2>2 DEF RisingFrames
<1> QED BY <1>1, <1>2

\* The leases of the captured queue likewise.
LEMMA LeasesMove ==
    ASSUME NEW s \in Seq(Leases), RisingKeys(s)
    PROVE  /\ s # <<>> => /\ RisingKeys(Tail(s)) /\ KeysOf(Tail(s)) \subseteq KeysOf(s)
                          /\ Head(s).key \in KeysOf(s)
                          /\ \A y \in KeysOf(Tail(s)) : Head(s).key < y
           /\ \A l \in Leases : /\ KeysOf(Append(s, l)) = KeysOf(s) \cup {l.key}
                                /\ (\A x \in KeysOf(s) : x < l.key) => RisingKeys(Append(s, l))
<1>1. ASSUME s # <<>>
      PROVE  /\ RisingKeys(Tail(s)) /\ KeysOf(Tail(s)) \subseteq KeysOf(s)
             /\ Head(s).key \in KeysOf(s)
             /\ \A y \in KeysOf(Tail(s)) : Head(s).key < y
  <2>1. /\ DOMAIN s = 1..Len(s) /\ DOMAIN Tail(s) = 1..(Len(s) - 1) /\ Head(s) = s[1]
        /\ \A i \in 1..(Len(s) - 1) : Tail(s)[i] = s[i + 1]
        /\ Len(s) \in Nat /\ Len(s) > 0
    BY <1>1
  <2>2. RisingKeys(Tail(s))  BY <2>1 DEF RisingKeys
  <2>3. ASSUME NEW y \in KeysOf(Tail(s)) PROVE y \in KeysOf(s) /\ Head(s).key < y
    <3>1. PICK i \in 1..(Len(s) - 1) : y = s[i + 1].key  BY <2>1, <2>3 DEF KeysOf
    <3>2. i + 1 \in 1..Len(s) /\ 1 \in 1..Len(s) /\ 1 < i + 1  BY <2>1
    <3> QED BY <2>1, <3>1, <3>2 DEF KeysOf, RisingKeys
  <2>4. Head(s).key \in KeysOf(s)  BY <2>1 DEF KeysOf
  <2> QED BY <2>2, <2>3, <2>4
<1>2. ASSUME NEW l \in Leases
      PROVE  /\ KeysOf(Append(s, l)) = KeysOf(s) \cup {l.key}
             /\ (\A x \in KeysOf(s) : x < l.key) => RisingKeys(Append(s, l))
  <2>1. /\ DOMAIN s = 1..Len(s) /\ DOMAIN Append(s, l) = 1..(Len(s) + 1) /\ Len(s) \in Nat
        /\ \A i \in 1..Len(s) : Append(s, l)[i] = s[i]
        /\ Append(s, l)[Len(s) + 1] = l
    OBVIOUS
  <2>2. KeysOf(Append(s, l)) = KeysOf(s) \cup {l.key}  BY <2>1 DEF KeysOf
  <2>3. (\A x \in KeysOf(s) : x < l.key) => \A i \in 1..Len(s) : s[i].key < l.key
    BY <2>1 DEF KeysOf
  <2> QED BY <2>1, <2>2, <2>3 DEF RisingKeys
<1> QED BY <1>1, <1>2

\* A result is published after all that are before it.
LEMMA PublishedMove ==
    ASSUME published \in Seq(Nat), ResultsInOrder, NEW f \in Nat, published' = Append(published, f),
           \A x \in PublishedLeg : x < f
    PROVE  /\ ResultsInOrder'
           /\ PublishedLeg' = PublishedLeg \cup {f}
<1>1. /\ DOMAIN published = 1..Len(published) /\ Len(published) \in Nat
      /\ DOMAIN published' = 1..(Len(published) + 1)
      /\ \A i \in 1..Len(published) : published'[i] = published[i]
      /\ published'[Len(published) + 1] = f
  OBVIOUS
<1>2. \A i \in 1..Len(published) : published[i] < f  BY <1>1 DEF PublishedLeg
<1> QED BY <1>1, <1>2 DEF ResultsInOrder, PublishedLeg

\* A queue is left alone by what is done to another one, and keeps its items when a
\* queue is stopped.
LEMMA QueuesApart ==
    ASSUME QueueType, NEW q \in Queues
    PROVE  /\ \A r \in Queues \ {q} : Pop(r) => queue'[q].items = queue[q].items
           /\ \A r \in Queues \ {q} : \A item : TryPush(r, item) \/ PushLatest(r, item) =>
                  queue'[q].items = queue[q].items
           /\ \A r \in Queues : queue' = [queue EXCEPT ![r].stopped = TRUE] =>
                  queue'[q].items = queue[q].items
           /\ queue' = queue => queue'[q].items = queue[q].items
<1>1. queue \in [Queues -> [items : Seq(AllItems), stopped : BOOLEAN]]  BY DEF QueueType
<1>2. ASSUME NEW r \in Queues \ {q}, Pop(r) PROVE queue'[q].items = queue[q].items
  BY <1>1, <1>2 DEF Pop
<1>3. ASSUME NEW r \in Queues \ {q}, NEW item, TryPush(r, item)
      PROVE  queue'[q].items = queue[q].items
  BY <1>1, <1>3 DEF TryPush
<1>4. ASSUME NEW r \in Queues \ {q}, NEW item, PushLatest(r, item)
      PROVE  queue'[q].items = queue[q].items
  BY <1>1, <1>4 DEF PushLatest
<1>5. ASSUME NEW r \in Queues, queue' = [queue EXCEPT ![r].stopped = TRUE]
      PROVE  queue'[q].items = queue[q].items
  BY <1>1, <1>5
<1> QED BY <1>2, <1>3, <1>4, <1>5

\* A step that carries no frame on: at most it drops the oldest of a queue, gives a job
\* up or lets go of what the capture thread has in hand.
Shortened(q) ==
    \/ queue'[q].items = queue[q].items
    \/ queue[q].items # <<>> /\ queue'[q].items = Tail(queue[q].items)

SamePublished == published' = published
NoFrameCarried ==
    /\ SamePublished /\ hand' \subseteq hand
    /\ Shortened("completed") /\ Shortened("prepared") /\ Shortened("captured")
    /\ \A u \in {"preprocess", "npu", "postprocess"} :
           job'[u].frame = job[u].frame \/ job'[u].frame = 0

\* Such are the calls.
LEMMA CallsCarryNothing ==
    ASSUME QueueType, WorkType, NEW t \in Threads, CallStep(t)
    PROVE  NoFrameCarried /\ UNCHANGED <<nextFrame, dispatch>>
<1> USE MainAndWorkers
<1>1. SamePublished /\ UNCHANGED dispatch
  BY DEF CallStep, SetFatal, SetStop, SetVideoFailed, CloseBroker, RequestCameraStop,
     StopQueue, NotifyCapture, Dispose, ReturnInput, ReturnOutput, history, work,
     pipelineVars, SamePublished
<1>2. \A u \in Threads : job'[u].frame = job[u].frame  BY CallCarries
<1>3. UNCHANGED <<hand, nextFrame>>
  BY DEF CallStep, SetFatal, SetStop, SetVideoFailed, CloseBroker, RequestCameraStop,
     StopQueue, NotifyCapture, Dispose, ReturnInput, ReturnOutput, brokerVars, cameraVars,
     handVars, Close, RequestStop, Wake, Notify, Release
<1>4. ASSUME NEW q \in {"completed", "prepared", "captured"}
      PROVE  queue'[q].items = queue[q].items
  <2>1. /\ q \in Queues /\ "freeIn" \in Queues \ {q} /\ "freeOut" \in Queues \ {q}
    BY <1>4 DEF Queues
  <2> QED BY <2>1, QueuesApart DEF CallStep, SetFatal, SetStop, SetVideoFailed,
          CloseBroker, RequestCameraStop, StopQueue, NotifyCapture, Dispose, ReturnInput,
          ReturnOutput, pipelineVars
<1> QED BY <1>1, <1>2, <1>3, <1>4 DEF NoFrameCarried, Shortened

\* So are the steps of main, and of the video branch.
LEMMA OthersCarryNothing ==
    ASSUME QueueType, WorkType, NEW t \in Threads,
           \/ t = "main" /\ Supervise
           \/ t = "video" /\ VideoLoop
           \/ t = "encoded" /\ EncodedPacketLoop
    PROVE  NoFrameCarried /\ UNCHANGED dispatch /\ (UNCHANGED nextFrame \/ StartCamera)
<1> USE MainAndWorkers
<1>0. {"preprocess", "npu", "postprocess"} \subseteq Threads \ {"video", "encoded"}
  OBVIOUS
<1>1. CASE t = "main" /\ Supervise
  <2>1. SamePublished /\ UNCHANGED <<dispatch, job, hand>>
    BY <1>1 DEF Supervise, StartCamera, Spawn, Join, StopCamera, history, work, brokerVars,
       handVars, CameraStart, CameraStartFails, CameraStop, SamePublished
  <2>2. UNCHANGED nextFrame \/ StartCamera
    BY <1>1 DEF Supervise, Spawn, Join, StopCamera, brokerVars, cameraVars, CameraStop
  <2>3. ASSUME NEW q \in {"completed", "prepared", "captured"}
        PROVE  queue'[q].items = queue[q].items
    <3>1. q \in Queues /\ q \notin {"freeIn", "freeOut", "encoded"}  BY <2>3 DEF Queues
    <3>2. StartQueues => queue'[q].items = queue[q].items
      BY <3>1 DEF StartQueues, QueueType
    <3> QED BY <1>1, <3>2 DEF Supervise, StartCamera, Spawn, Join, StopCamera
  <2> QED BY <2>1, <2>2, <2>3 DEF NoFrameCarried, Shortened
<1>2. CASE (t = "video" /\ VideoLoop) \/ (t = "encoded" /\ EncodedPacketLoop)
  <2>1. SamePublished /\ UNCHANGED <<dispatch, hand, nextFrame>>
    BY <1>2 DEF VideoLoop, TakeVideoFrame, Encode, PushEncoded, DrainLeases,
       EncodedPacketLoop, TakePacket, WritePacket, history, brokerVars, cameraVars,
       handVars, Release, SamePublished
  <2>2. \A u \in {"preprocess", "npu", "postprocess"} : job'[u] = job[u]
    BY <1>0, <1>2 DEF VideoLoop, TakeVideoFrame, Encode, PushEncoded, DrainLeases,
       EncodedPacketLoop, TakePacket, WritePacket, WorkType
  <2>3. ASSUME NEW q \in {"completed", "prepared", "captured"}
        PROVE  queue'[q].items = queue[q].items
    <3>1. q \in Queues /\ "video" \in Queues \ {q} /\ "encoded" \in Queues \ {q}
      BY <2>3 DEF Queues
    <3> QED BY <1>2, <3>1, QueuesApart DEF VideoLoop, TakeVideoFrame, Encode, PushEncoded,
            DrainLeases, EncodedPacketLoop, TakePacket, WritePacket
  <2> QED BY <2>1, <2>2, <2>3 DEF NoFrameCarried, Shortened
<1> QED BY <1>1, <1>2

\* And the steps of the stages, but for six.
LEMMA StagesCarryNothing ==
    ASSUME QueueType, WorkType, NEW t \in Threads,
           \/ t = "preprocess" /\ PreprocessLoop
           \/ t = "npu" /\ (NpuLoop \/ PostprocessStep(t))
           \/ t = "postprocess" /\ (TakeCompleted \/ PostprocessStep(t))
    PROVE  /\ UNCHANGED <<hand, nextFrame, dispatch>>
           /\ \/ NoFrameCarried
              \/ TakeFrame \/ PushPrepared \/ TakePrepared \/ PushCompleted
              \/ TakeCompleted \/ PublishResult(t)
<1> USE MainAndWorkers
<1> DEFINE Three == {"completed", "prepared", "captured"}
           Stage == {"preprocess", "npu", "postprocess"}
<1>1. UNCHANGED <<hand, nextFrame, dispatch>>
  BY DEF PreprocessLoop, TakeInputSlot, TakeFrame, NoMoreFrames, Preprocess, PushPrepared,
     DrainLeases, NpuLoop, TakePrepared, TakeOutputSlot, Run, PushCompleted, TakeCompleted,
     PostprocessStep, Postprocess, PublishResult, brokerVars, cameraVars, handVars, work,
     Release
<1>2. ASSUME NEW u \in Stage, NEW v \in Threads
      PROVE  /\ job' = job => job'[u].frame = job[u].frame
             /\ job' = [job EXCEPT ![v] = NoJob] =>
                    job'[u].frame = job[u].frame \/ job'[u].frame = 0
             /\ \A n : \/ job' = [job EXCEPT ![v].in = n]
                       \/ job' = [job EXCEPT ![v].out = n]
                       => job'[u].frame = job[u].frame
             /\ \A n : job' = [job EXCEPT ![v] = [NoJob EXCEPT !.in = n]] =>
                    job'[u].frame = job[u].frame \/ job'[u].frame = 0
  <2>1. job \in [Threads -> [frame : Nat, in : Nat, out : Nat]] /\ u \in Threads
    BY DEF WorkType, Jobs
  <2>2. job' = [job EXCEPT ![v] = NoJob] => job'[u].frame = job[u].frame \/ job'[u].frame = 0
    BY <2>1 DEF NoJob
  <2>3. ASSUME NEW n, job' = [job EXCEPT ![v].in = n] PROVE job'[u].frame = job[u].frame
    BY <2>1, <2>3
  <2>4. ASSUME NEW n, job' = [job EXCEPT ![v].out = n] PROVE job'[u].frame = job[u].frame
    BY <2>1, <2>4
  <2>5. ASSUME NEW n, job' = [job EXCEPT ![v] = [NoJob EXCEPT !.in = n]]
        PROVE  job'[u].frame = job[u].frame \/ job'[u].frame = 0
    BY <2>1, <2>5 DEF NoJob
  <2> QED BY <2>2, <2>3, <2>4, <2>5
<1>3. ASSUME NEW q \in Three
      PROVE  /\ Pop("freeIn") \/ Pop("freeOut") => Shortened(q)
             /\ \A item : TryPush("freeIn", item) \/ TryPush("freeOut", item) => Shortened(q)
             /\ CanPop("captured") /\ Pop("captured") => Shortened(q)
             /\ queue' = queue => Shortened(q)
  <2>1. q \in Queues /\ "freeIn" \in Queues \ {q} /\ "freeOut" \in Queues \ {q}
    BY <1>3 DEF Queues
  <2>2. CanPop("captured") /\ Pop("captured") => Shortened(q)
    <3>1. CASE q = "captured"  BY <2>1, <3>1, PopEffect DEF CanPop, Shortened
    <3>2. CASE q # "captured"
      <4>1. "captured" \in Queues \ {q}  BY <3>2 DEF Queues
      <4> QED BY <2>1, <4>1, QueuesApart DEF Shortened
    <3> QED BY <3>1, <3>2
  <2> QED BY <2>1, <2>2, QueuesApart DEF Shortened
<1>4. CASE t = "preprocess" /\ (TakeInputSlot \/ NoMoreFrames \/ Preprocess)
  <2>1. SamePublished
    BY <1>4 DEF TakeInputSlot, NoMoreFrames, Preprocess, history, SamePublished
  <2>2. \A u \in Stage : job'[u].frame = job[u].frame \/ job'[u].frame = 0
    BY <1>2, <1>4 DEF TakeInputSlot, NoMoreFrames, Preprocess, work
  <2>3. \A q \in Three : Shortened(q)
    BY <1>3, <1>4 DEF TakeInputSlot, NoMoreFrames, Preprocess
  <2> QED BY <1>1, <2>1, <2>2, <2>3 DEF NoFrameCarried
<1>5. CASE t = "preprocess" /\ DrainLeases("preprocess", "captured")
  <2>1. SamePublished /\ job' = job  BY <1>5 DEF DrainLeases, history, SamePublished
  <2>2. \A q \in Three : Shortened(q)  BY <1>3, <1>5 DEF DrainLeases
  <2> QED BY <1>1, <2>1, <2>2 DEF NoFrameCarried
<1>6. CASE t = "npu" /\ TakeOutputSlot
  <2>1. SamePublished  BY <1>6 DEF TakeOutputSlot, history, SamePublished
  <2>2. \A u \in Stage : job'[u].frame = job[u].frame \/ job'[u].frame = 0
    BY <1>2, <1>6 DEF TakeOutputSlot
  <2>3. \A q \in Three : Shortened(q)  BY <1>3, <1>6 DEF TakeOutputSlot
  <2> QED BY <1>1, <2>1, <2>2, <2>3 DEF NoFrameCarried
<1>7. CASE t = "npu" /\ Run
  <2>1. SamePublished  BY <1>7 DEF Run, SamePublished
  <2>2. \A u \in Stage : job'[u].frame = job[u].frame \/ job'[u].frame = 0
    BY <1>2, <1>7 DEF Run
  <2>3. \A q \in Three : Shortened(q)  BY <1>3, <1>7 DEF Run
  <2> QED BY <1>1, <2>1, <2>2, <2>3 DEF NoFrameCarried
<1>8. CASE Postprocess(t)
  <2>1. SamePublished  BY <1>8 DEF Postprocess, SamePublished
  <2>2. \A u \in Stage : job'[u].frame = job[u].frame \/ job'[u].frame = 0
    BY <1>2, <1>8 DEF Postprocess
  <2>3. \A q \in Three : Shortened(q)  BY <1>3, <1>8 DEF Postprocess
  <2> QED BY <1>1, <2>1, <2>2, <2>3 DEF NoFrameCarried
<1> QED BY <1>1, <1>4, <1>5, <1>6, <1>7, <1>8 DEF PreprocessLoop, NpuLoop, PostprocessStep

\* And those of the capture thread, but for three.
LEMMA CaptureCarriesNothing ==
    ASSUME QueueType, WorkType, CaptureLoop
    PROVE  \/ NoFrameCarried /\ UNCHANGED nextFrame
           \/ (\E b \in Buffers : PollFrame(b)) \/ PublishFrame \/ PushCaptured
<1> USE MainAndWorkers
<1>1. CASE \/ CaptureCheck \/ DrainPop \/ DrainRequeued \/ DrainRequeueFailed
           \/ DrainEmpty \/ CaptureStopped \/ PollWake \/ PollTimeout \/ PollThrows
           \/ (\E b \in Buffers, ok \in BOOLEAN : PollDropped(b, ok))
           \/ PublishRefused \/ RequeueDirect \/ AfterDirect
  <2>1. SamePublished /\ queue' = queue /\ job' = job
    BY <1>1 DEF CaptureCheck, DrainPop, DrainRequeued, DrainRequeueFailed, DrainEmpty,
       CaptureStopped, PollWake, PollTimeout, PollThrows, PollDropped, PublishRefused,
       RequeueDirect, AfterDirect, history, work, pipelineVars, SamePublished
  <2>2. hand' \subseteq hand /\ UNCHANGED nextFrame
    BY <1>1 DEF CaptureCheck, DrainPop, DrainRequeued, DrainRequeueFailed, DrainEmpty,
       CaptureStopped, PollWake, PollTimeout, PollThrows, PollDropped, PublishRefused,
       RequeueDirect, AfterDirect, brokerVars, cameraVars, handVars, PopRequeue, RequeueDone,
       RequeueFails, CaptureWake, CaptureDropped, PublishRejected, HandsFree
  <2> QED BY <2>1, <2>2 DEF NoFrameCarried, Shortened
<1>2. CASE PushVideo
  <2>1. SamePublished /\ job' = job /\ UNCHANGED <<hand, nextFrame>>
    BY <1>2 DEF PushVideo, history, brokerVars, cameraVars, handVars, SamePublished
  <2>2. ASSUME NEW q \in {"completed", "prepared", "captured"}
        PROVE  queue'[q].items = queue[q].items
    <3>1. q \in Queues /\ "video" \in Queues \ {q}  BY <2>2 DEF Queues
    <3> QED BY <1>2, <3>1, QueuesApart DEF PushVideo
  <2> QED BY <2>1, <2>2 DEF NoFrameCarried, Shortened
<1> QED BY <1>1, <1>2 DEF CaptureLoop

\* What the capture thread dispatches: only PublishFrame makes it something new, and it
\* is over once the frame is in the captured queue.
LEMMA DispatchLegStep ==
    ASSUME PcType, QueueType, WorkType, NEW t \in Threads, ThreadStep(t)
    PROVE  /\ (t = "capture" /\ PublishFrame) \/ DispatchLeg' \subseteq DispatchLeg
           /\ PublishFrame => DispatchLeg' \subseteq HandLeg /\ hand' = {}
           /\ t = "capture" /\ PushCaptured =>
                  DispatchLeg = {dispatch[1].key} /\ DispatchLeg' = {}
<1> USE MainAndWorkers
<1> DEFINE S == {"push_captured"}
           s == pc["capture"]
<1>0. s \in Seq(Steps)  BY DEF PcType
<1>00. /\ \A p \in {<<"drain", "capture">>, <<"drain", "check">>, <<"poll">>, <<"publish">>,
                   <<"check">>, <<"requeue_direct">>, <<"after_direct">>, <<"push_video">>,
                   <<>>} : ~Has(p, S)
       /\ ~Has(CaptureExit, S) /\ ~Has(SignalFailure, S)
       /\ ~Has(SignalFailure \o CaptureExit, S) /\ ~Has(<<"dispose">> \o CaptureExit, S)
       /\ ~Has(<<"dispose">> \o <<"check">>, S) /\ ~Has(<<"dispose">> \o <<"push_video">>, S)
  <2>1. \A p \in {<<"drain", "capture">>, <<"drain", "check">>, <<"poll">>, <<"publish">>,
                   <<"check">>, <<"requeue_direct">>, <<"after_direct">>, <<"push_video">>,
                   <<>>, <<"dispose">>} : ~Has(p, S)
    BY ShortLists
  <2>2. ~Has(CaptureExit, S) /\ ~Has(SignalFailure, S)
    BY DEF Has, CaptureExit, SignalFailure
  <2>3. <<"dispose">> \in Seq(Steps) /\ <<"check">> \in Seq(Steps) /\ <<"push_video">> \in Seq(Steps)
    BY DEF Steps
  <2>4. ~Has(<<"dispose">>, S) /\ ~Has(<<"check">>, S) /\ ~Has(<<"push_video">>, S)
    BY <2>1
  <2>5. ~Has(SignalFailure \o CaptureExit, S)  BY <2>2, Lists, ConcatHas
  <2>6. ~Has(<<"dispose">> \o CaptureExit, S)  BY <2>2, <2>3, <2>4, Lists, ConcatHas
  <2>7. ~Has(<<"dispose">> \o <<"check">>, S) /\ ~Has(<<"dispose">> \o <<"push_video">>, S)
    BY <2>3, <2>4, ConcatHas
  <2> QED BY <2>1, <2>2, <2>5, <2>6, <2>7
<1>1. PublishFrame => DispatchLeg' \subseteq HandLeg /\ hand' = {}
  <2>1. SUFFICES ASSUME PublishFrame PROVE DispatchLeg' \subseteq HandLeg /\ hand' = {}
    OBVIOUS
  <2>2. PICK r \in hand : PublishAccepted(r, {"inference"} \cup IF EnableVideo THEN {"video"} ELSE {})
                          /\ dispatch' = <<r>>
    BY <2>1 DEF PublishFrame
  <2>3. hand' = {} /\ dispatch'[1].key = r.key  BY <2>2 DEF PublishAccepted
  <2> QED BY <2>3 DEF DispatchLeg, HandLeg
<1>2. ASSUME ~Has(s', S) PROVE DispatchLeg' = {}  BY <1>2 DEF DispatchLeg
<1>3. ASSUME UNCHANGED dispatch, Has(s', S) => Has(s, S) PROVE DispatchLeg' \subseteq DispatchLeg
  BY <1>3 DEF DispatchLeg
<1>4. ASSUME t = "capture", PushCaptured
      PROVE  DispatchLeg = {dispatch[1].key} /\ DispatchLeg' = {}
  <2>1. s # <<>> /\ Head(s) = "push_captured"  BY <1>4 DEF PushCaptured, At
  <2>2. Has(s, S)  BY <1>0, <2>1, TailSteps DEF Has
  <2>3. \/ s' = CaptureExit \/ s' = <<"dispose">> \o CaptureExit
        \/ s' = <<"check">> \/ s' = <<"dispose">> \o <<"check">>
        \/ s' = <<"push_video">> \/ s' = <<"dispose">> \o <<"push_video">>
    BY <1>4 DEF PushCaptured, Disposing, Loop, PcType
  <2> QED BY <1>00, <1>2, <2>2, <2>3 DEF DispatchLeg
<1>5. CASE t # "capture"
  <2>1. UNCHANGED dispatch
    <3>1. CASE CallStep(t)  BY <3>1, CallsCarryNothing
    <3>2. CASE \/ t = "main" /\ Supervise
               \/ t = "video" /\ VideoLoop
               \/ t = "encoded" /\ EncodedPacketLoop
      BY <3>2, OthersCarryNothing
    <3>3. CASE \/ t = "preprocess" /\ PreprocessLoop
               \/ t = "npu" /\ (NpuLoop \/ PostprocessStep(t))
               \/ t = "postprocess" /\ (TakeCompleted \/ PostprocessStep(t))
      BY <3>3, StagesCarryNothing
    <3>4. \/ CallStep(t)
          \/ t = "main" /\ Supervise
          \/ t = "video" /\ VideoLoop
          \/ t = "encoded" /\ EncodedPacketLoop
          \/ t = "preprocess" /\ PreprocessLoop
          \/ t = "npu" /\ (NpuLoop \/ PostprocessStep(t))
          \/ t = "postprocess" /\ (TakeCompleted \/ PostprocessStep(t))
      BY <1>5 DEF ThreadStep
    <3> QED BY <3>1, <3>2, <3>3, <3>4
  <2>2. s' = s \/ s' = <<>> \/ s' = <<"check">>
    BY <1>5, OthersWait, SpawnEffect DEF FirstStep
  <2> QED BY <1>00, <1>1, <1>2, <1>3, <1>5, <2>1, <2>2
<1>6. CASE t = "capture" /\ CallStep(t)
  <2>1. UNCHANGED dispatch  BY <1>6, CallsCarryNothing
  <2>2. s' = s \/ (s # <<>> /\ s' = Tail(s))  BY <1>6, CallMoves DEF Proceeds, PcType
  <2> QED BY <1>0, <1>1, <1>3, <1>4, <2>1, <2>2, TailHas
<1>7. CASE t = "capture" /\ CaptureLoop
  <2>1. CASE PublishFrame  BY <1>1, <1>4, <1>7, <2>1
  <2>2. CASE PushCaptured  BY <1>1, <1>4, <1>7, <2>2
  <2>3. CASE \/ CaptureCheck \/ CaptureStopped \/ PollWake \/ PollTimeout \/ PollThrows
             \/ (\E b \in Buffers : PollFrame(b))
             \/ (\E b \in Buffers, ok \in BOOLEAN : PollDropped(b, ok))
             \/ PublishRefused \/ RequeueDirect \/ AfterDirect \/ PushVideo
    <3>1. \/ s' \in {<<"drain", "capture">>, <<"drain", "check">>, <<"poll">>, <<"publish">>,
                      <<"check">>, <<"requeue_direct">>, <<"after_direct">>}
          \/ s' = CaptureExit \/ s' = SignalFailure \o CaptureExit
          \/ s' = <<"dispose">> \o <<"check">>
      BY <2>3 DEF CaptureCheck, CaptureStopped, PollWake, PollTimeout, PollThrows,
         PollFrame, PollDropped, PublishRefused, RequeueDirect, AfterDirect, PushVideo,
         Disposing, Loop, PcType
    <3>2. ~Has(s', S)  BY <1>00, <3>1
    <3> QED BY <1>1, <1>2, <1>4, <3>2
  <2>4. CASE DrainPop \/ DrainRequeued \/ DrainRequeueFailed \/ DrainEmpty
    <3>1. UNCHANGED dispatch
      BY <2>4 DEF DrainPop, DrainRequeued, DrainRequeueFailed, DrainEmpty, pipelineVars, work
    <3>2. \/ s' = s
          \/ s # <<>> /\ s' = Tail(s)
          \/ s # <<>> /\ s' = SignalFailure \o Tail(s)
      BY <1>0, <2>4, EmptyFirst, TailSteps DEF DrainPop, DrainRequeued, DrainRequeueFailed,
         DrainEmpty, Draining, Proceed, PcType, At, pipelineVars
    <3>3. s # <<>> => Tail(s) \in Seq(Steps)  BY <1>0, TailSteps
    <3>4. ASSUME s # <<>> PROVE Has(SignalFailure \o Tail(s), S) => Has(Tail(s), S)
      <4>1. Tail(s) \in Seq(Steps) /\ SignalFailure \in Seq(Steps) /\ ~Has(SignalFailure, S)
        BY <1>00, <3>3, <3>4, Lists
      <4>2. Has(SignalFailure \o Tail(s), S) <=> Has(SignalFailure, S) \/ Has(Tail(s), S)
        BY <4>1, ConcatHas
      <4> QED BY <4>1, <4>2
    <3>5. ASSUME s # <<>>, s' = Tail(s) PROVE Has(s', S) => Has(s, S)
      BY <1>0, <3>5, TailHas
    <3>6. ASSUME s # <<>>, s' = SignalFailure \o Tail(s) PROVE Has(s', S) => Has(s, S)
      <4>1. Has(s', S) => Has(Tail(s), S)  BY <3>4, <3>6
      <4>2. Has(Tail(s), S) => Has(s, S)  BY <1>0, <3>6, TailHas
      <4> QED BY <4>1, <4>2
    <3>7. Has(s', S) => Has(s, S)  BY <3>2, <3>5, <3>6
    <3>8. DispatchLeg' \subseteq DispatchLeg  BY <1>3, <3>1, <3>7
    <3>9. ~PushCaptured
      <4>1. PushCaptured => Head(s) = "push_captured" /\ s # <<>>
        BY DEF PushCaptured, At
      <4> QED BY <2>4, <4>1 DEF DrainPop, DrainRequeued, DrainRequeueFailed, DrainEmpty, Draining, At
    <3> QED BY <1>1, <3>8, <3>9
  <2> QED BY <1>7, <2>1, <2>2, <2>3, <2>4 DEF CaptureLoop
<1> QED BY <1>4, <1>5, <1>6, <1>7 DEF ThreadStep

\* The legs one by one.
LEMMA LegList ==
    /\ \A c : c \in Legs <=> \/ c = 1 \/ c = 2 \/ c = 3 \/ c = 4 \/ c = 5 \/ c = 6
                             \/ c = 7 \/ c = 8 \/ c = 9 \/ c = 10
    /\ OnLeg[1] = PublishedLeg /\ OnLeg[2] = PostLeg /\ OnLeg[3] = CompletedLeg
    /\ OnLeg[4] = NpuLeg /\ OnLeg[5] = PreparedLeg /\ OnLeg[6] = PreprocessLeg
    /\ OnLeg[7] = CapturedLeg /\ OnLeg[8] = DispatchLeg /\ OnLeg[9] = HandLeg
    /\ OnLeg[10] = {nextFrame}
    /\ OnLeg'[1] = PublishedLeg' /\ OnLeg'[2] = PostLeg' /\ OnLeg'[3] = CompletedLeg'
    /\ OnLeg'[4] = NpuLeg' /\ OnLeg'[5] = PreparedLeg' /\ OnLeg'[6] = PreprocessLeg'
    /\ OnLeg'[7] = CapturedLeg' /\ OnLeg'[8] = DispatchLeg' /\ OnLeg'[9] = HandLeg'
    /\ OnLeg'[10] = {nextFrame'}
<1>1. \A c : c \in Legs <=> \/ c = 1 \/ c = 2 \/ c = 3 \/ c = 4 \/ c = 5 \/ c = 6
                            \/ c = 7 \/ c = 8 \/ c = 9 \/ c = 10
  BY DEF Legs
<1>2. /\ OnLeg[1] = PublishedLeg /\ OnLeg[2] = PostLeg /\ OnLeg[3] = CompletedLeg
      /\ OnLeg[4] = NpuLeg /\ OnLeg[5] = PreparedLeg /\ OnLeg[6] = PreprocessLeg
      /\ OnLeg[7] = CapturedLeg /\ OnLeg[8] = DispatchLeg /\ OnLeg[9] = HandLeg
      /\ OnLeg[10] = {nextFrame}
  BY DEF OnLeg
<1>3. /\ OnLeg'[1] = PublishedLeg' /\ OnLeg'[2] = PostLeg' /\ OnLeg'[3] = CompletedLeg'
      /\ OnLeg'[4] = NpuLeg' /\ OnLeg'[5] = PreparedLeg' /\ OnLeg'[6] = PreprocessLeg'
      /\ OnLeg'[7] = CapturedLeg' /\ OnLeg'[8] = DispatchLeg' /\ OnLeg'[9] = HandLeg'
      /\ OnLeg'[10] = {nextFrame'}
  BY DEF OnLeg
<1> QED BY <1>1, <1>2, <1>3

\* A leg whose variable is left alone stays what it is.
LEMMA LegsStay ==
    /\ UNCHANGED published => PublishedLeg' = PublishedLeg /\ ResultsInOrder' = ResultsInOrder
    /\ job'["postprocess"].frame = job["postprocess"].frame => PostLeg' = PostLeg
    /\ job'["npu"].frame = job["npu"].frame => NpuLeg' = NpuLeg
    /\ job'["preprocess"].frame = job["preprocess"].frame => PreprocessLeg' = PreprocessLeg
    /\ queue'["completed"].items = queue["completed"].items => CompletedLeg' = CompletedLeg
    /\ queue'["prepared"].items = queue["prepared"].items => PreparedLeg' = PreparedLeg
    /\ queue'["captured"].items = queue["captured"].items => CapturedLeg' = CapturedLeg
    /\ UNCHANGED hand => HandLeg' = HandLeg
    /\ Some(0) = {}
<1>1. UNCHANGED published => PublishedLeg' = PublishedLeg /\ ResultsInOrder' = ResultsInOrder
  BY DEF PublishedLeg, ResultsInOrder
<1>2. /\ job'["postprocess"].frame = job["postprocess"].frame => PostLeg' = PostLeg
      /\ job'["npu"].frame = job["npu"].frame => NpuLeg' = NpuLeg
      /\ job'["preprocess"].frame = job["preprocess"].frame => PreprocessLeg' = PreprocessLeg
  BY DEF PostLeg, NpuLeg, PreprocessLeg
<1>3. /\ queue'["completed"].items = queue["completed"].items => CompletedLeg' = CompletedLeg
      /\ queue'["prepared"].items = queue["prepared"].items => PreparedLeg' = PreparedLeg
      /\ queue'["captured"].items = queue["captured"].items => CapturedLeg' = CapturedLeg
  BY DEF CompletedLeg, PreparedLeg, CapturedLeg
<1>4. UNCHANGED hand => HandLeg' = HandLeg  BY DEF HandLeg
<1>5. Some(0) = {}  BY DEF Some
<1> QED BY <1>1, <1>2, <1>3, <1>4, <1>5

\* What the three queues carry, when they are left alone or their first is taken.
LEMMA QueueLegs ==
    ASSUME QueueType, Lined
    PROVE  /\ Shortened("completed") =>
                  RisingFrames(queue["completed"].items)' /\ CompletedLeg' \subseteq CompletedLeg
           /\ Shortened("prepared") =>
                  RisingFrames(queue["prepared"].items)' /\ PreparedLeg' \subseteq PreparedLeg
           /\ Shortened("captured") =>
                  RisingKeys(queue["captured"].items)' /\ CapturedLeg' \subseteq CapturedLeg
<1>0. /\ queue["completed"].items \in Seq(Jobs) /\ queue["prepared"].items \in Seq(Jobs)
      /\ queue["captured"].items \in Seq(Leases)
      /\ RisingFrames(queue["completed"].items) /\ RisingFrames(queue["prepared"].items)
      /\ RisingKeys(queue["captured"].items)
  BY QueueItems DEF QueueType, Lined
<1>1. ASSUME Shortened("completed")
      PROVE  RisingFrames(queue["completed"].items)' /\ CompletedLeg' \subseteq CompletedLeg
  BY <1>0, <1>1, JobsMove DEF Shortened, CompletedLeg
<1>2. ASSUME Shortened("prepared")
      PROVE  RisingFrames(queue["prepared"].items)' /\ PreparedLeg' \subseteq PreparedLeg
  BY <1>0, <1>2, JobsMove DEF Shortened, PreparedLeg
<1>3. ASSUME Shortened("captured")
      PROVE  RisingKeys(queue["captured"].items)' /\ CapturedLeg' \subseteq CapturedLeg
  BY <1>0, <1>3, LeasesMove DEF Shortened, CapturedLeg
<1> QED BY <1>1, <1>2, <1>3

\* A step that carries no frame on keeps the order.
LEMMA QuietKeepsOrder ==
    ASSUME QueueType, WorkType, Lined, NoFrameCarried, DispatchLeg' \subseteq DispatchLeg,
           UNCHANGED nextFrame
    PROVE  Lined'
<1>1. PublishedLeg' = PublishedLeg /\ ResultsInOrder'
  BY LegsStay DEF NoFrameCarried, SamePublished, Lined
<1>2. /\ PostLeg' \subseteq PostLeg /\ NpuLeg' \subseteq NpuLeg
      /\ PreprocessLeg' \subseteq PreprocessLeg
  BY DEF NoFrameCarried, PostLeg, NpuLeg, PreprocessLeg, Some
<1>3. /\ RisingFrames(queue["completed"].items)' /\ CompletedLeg' \subseteq CompletedLeg
      /\ RisingFrames(queue["prepared"].items)' /\ PreparedLeg' \subseteq PreparedLeg
      /\ RisingKeys(queue["captured"].items)' /\ CapturedLeg' \subseteq CapturedLeg
  BY QueueLegs DEF NoFrameCarried
<1>4. HandLeg' \subseteq HandLeg  BY DEF NoFrameCarried, HandLeg
<1>5. \A c \in Legs : OnLeg'[c] \subseteq OnLeg[c]  BY <1>1, <1>2, <1>3, <1>4, LegList
<1>6. InOrder(OnLeg')  BY <1>5, LegsShrink DEF Lined
<1> QED BY <1>1, <1>3, <1>6 DEF Lined

\* The frame that a stage hands on through a queue joins the end of it, those before it
\* on its way are in order, and the stage has nothing in hand any more.
LEMMA PushKeepsOrder ==
    ASSUME QueueType, WorkType, Lined, DispatchLeg' \subseteq DispatchLeg,
           \/ PushPrepared /\ job["preprocess"].frame # 0
           \/ PushCompleted /\ job["npu"].frame # 0
    PROVE  Lined'
<1> USE MainAndWorkers
<1>0. /\ queue["completed"].items \in Seq(Jobs) /\ queue["prepared"].items \in Seq(Jobs)
      /\ \A t \in Threads : job[t] \in Jobs
      /\ job["npu"] \in Jobs /\ job["preprocess"] \in Jobs
      /\ {"completed", "prepared", "captured"} \subseteq Queues
      /\ "completed" # "prepared" /\ "captured" # "prepared" /\ "completed" # "captured"
      /\ ItemsOf["completed"] = Jobs /\ ItemsOf["prepared"] = Jobs
  BY QueueItems DEF QueueType, WorkType, Queues
<1>1. UNCHANGED <<published, hand, nextFrame>>
  BY DEF PushPrepared, PushCompleted, history, brokerVars, handVars, cameraVars
<1>2. CASE PushPrepared /\ job["preprocess"].frame # 0
  <2> DEFINE items == queue["prepared"].items
             own == job["preprocess"]
  <2>1. /\ OnlyItems("prepared")
        /\ items' = IF queue["prepared"].stopped \/ Full("prepared") THEN items
                    ELSE Append(items, own)
    BY <1>0, <1>2, TryPushEffect DEF PushPrepared
  <2>2. /\ queue'["completed"].items = queue["completed"].items
        /\ queue'["captured"].items = queue["captured"].items
    BY <1>0, <2>1 DEF OnlyItems
  <2>3. CASE queue["prepared"].stopped
    <3>1. job' = job /\ items' = items  BY <1>2, <2>1, <2>3 DEF PushPrepared
    <3> QED BY <1>1, <2>2, <3>1, QuietKeepsOrder DEF NoFrameCarried, SamePublished, Shortened
  <2>4. CASE ~queue["prepared"].stopped
    <3>1. items' = Append(items, own)  BY <1>2, <2>1, <2>4 DEF PushPrepared, CanPush
    <3>2. job' = [job EXCEPT !["preprocess"] = NoJob]  BY <1>2, <2>4 DEF PushPrepared
    <3>3. /\ job'["preprocess"].frame = 0 /\ job'["npu"] = job["npu"]
          /\ job'["postprocess"] = job["postprocess"]
      BY <3>2 DEF WorkType, NoJob
    <3>4. PreprocessLeg = {own.frame} /\ PreprocessLeg' = {}
      BY <1>2, <3>3 DEF PreprocessLeg, Some
    <3>5. PreparedLeg' = PreparedLeg \cup {own.frame}
      BY <1>0, <3>1, FramesMove DEF PreparedLeg
    <3>6. \A x \in PreparedLeg : x < own.frame
      <4>1. 5 \in Legs /\ 6 \in Legs /\ 5 < 6 /\ own.frame \in OnLeg[6]
        BY <3>4, LegList
      <4> QED BY <4>1, LegList DEF Lined, InOrder
    <3>7. RisingFrames(items)'  BY <1>0, <3>1, <3>6, JobsMove DEF Lined, PreparedLeg
    <3>8. /\ PublishedLeg' = PublishedLeg /\ ResultsInOrder' /\ PostLeg' = PostLeg
          /\ CompletedLeg' = CompletedLeg /\ NpuLeg' = NpuLeg
          /\ CapturedLeg' = CapturedLeg /\ HandLeg' = HandLeg
      BY <1>1, <2>2, <3>3, LegsStay DEF Lined
    <3>9. \A c \in Legs \ {5} : OnLeg'[c] \subseteq OnLeg[c]
      BY <1>1, <3>4, <3>8, LegList
    <3>10. HandedOn(OnLeg, OnLeg', 5, 6, PreprocessLeg)
      <4>1. /\ 5 \in Legs /\ 6 \in Legs /\ OnLeg[6] = PreprocessLeg /\ OnLeg'[6] = {}
            /\ OnLeg'[5] = OnLeg[5] \cup PreprocessLeg
        BY <3>4, <3>5, LegList
      <4>2. \A c \in Legs : ~(5 < c /\ c < 6)  BY DEF Legs
      <4> QED BY <3>9, <4>1, <4>2 DEF HandedOn
    <3>11. InOrder(OnLeg')  BY <3>10, LegsMove DEF Lined
    <3> QED BY <2>2, <3>7, <3>8, <3>11 DEF Lined
  <2> QED BY <2>3, <2>4
<1>3. CASE PushCompleted /\ job["npu"].frame # 0
  <2> DEFINE items == queue["completed"].items
             own == job["npu"]
  <2>1. /\ OnlyItems("completed")
        /\ items' = IF queue["completed"].stopped \/ Full("completed") THEN items
                    ELSE Append(items, own)
    BY <1>0, <1>3, TryPushEffect DEF PushCompleted
  <2>2. /\ queue'["prepared"].items = queue["prepared"].items
        /\ queue'["captured"].items = queue["captured"].items
    BY <1>0, <2>1 DEF OnlyItems
  <2>3. CASE queue["completed"].stopped
    <3>1. job' = job /\ items' = items  BY <1>3, <2>1, <2>3 DEF PushCompleted
    <3> QED BY <1>1, <2>2, <3>1, QuietKeepsOrder DEF NoFrameCarried, SamePublished, Shortened
  <2>4. CASE ~queue["completed"].stopped
    <3>1. items' = Append(items, own)  BY <1>3, <2>1, <2>4 DEF PushCompleted, CanPush
    <3>2. job' = [job EXCEPT !["npu"] = NoJob]  BY <1>3, <2>4 DEF PushCompleted
    <3>3. /\ job'["npu"].frame = 0 /\ job'["preprocess"] = job["preprocess"]
          /\ job'["postprocess"] = job["postprocess"]
      BY <3>2 DEF WorkType, NoJob
    <3>4. NpuLeg = {own.frame} /\ NpuLeg' = {}  BY <1>3, <3>3 DEF NpuLeg, Some
    <3>5. CompletedLeg' = CompletedLeg \cup {own.frame}
      BY <1>0, <3>1, FramesMove DEF CompletedLeg
    <3>6. \A x \in CompletedLeg : x < own.frame
      <4>1. 3 \in Legs /\ 4 \in Legs /\ 3 < 4 /\ own.frame \in OnLeg[4]
        BY <3>4, LegList
      <4> QED BY <4>1, LegList DEF Lined, InOrder
    <3>7. RisingFrames(items)'  BY <1>0, <3>1, <3>6, JobsMove DEF Lined, CompletedLeg
    <3>8. /\ PublishedLeg' = PublishedLeg /\ ResultsInOrder' /\ PostLeg' = PostLeg
          /\ PreparedLeg' = PreparedLeg /\ PreprocessLeg' = PreprocessLeg
          /\ CapturedLeg' = CapturedLeg /\ HandLeg' = HandLeg
      BY <1>1, <2>2, <3>3, LegsStay DEF Lined
    <3>9. \A c \in Legs \ {3} : OnLeg'[c] \subseteq OnLeg[c]
      BY <1>1, <3>4, <3>8, LegList
    <3>10. HandedOn(OnLeg, OnLeg', 3, 4, NpuLeg)
      <4>1. /\ 3 \in Legs /\ 4 \in Legs /\ OnLeg[4] = NpuLeg /\ OnLeg'[4] = {}
            /\ OnLeg'[3] = OnLeg[3] \cup NpuLeg
        BY <3>4, <3>5, LegList
      <4>2. \A c \in Legs : ~(3 < c /\ c < 4)  BY DEF Legs
      <4> QED BY <3>9, <4>1, <4>2 DEF HandedOn
    <3>11. InOrder(OnLeg')  BY <3>10, LegsMove DEF Lined
    <3> QED BY <2>2, <3>7, <3>8, <3>11 DEF Lined
  <2> QED BY <2>3, <2>4
<1> QED BY <1>2, <1>3

\* The frame that a stage takes is the first of the queue before it; what the stage had
\* before is forgotten.
LEMMA TakeKeepsOrder ==
    ASSUME QueueType, WorkType, Lined, DispatchLeg' \subseteq DispatchLeg,
           TakeFrame \/ TakePrepared \/ TakeCompleted
    PROVE  Lined'
<1> USE MainAndWorkers
<1>0. /\ queue["completed"].items \in Seq(Jobs) /\ queue["prepared"].items \in Seq(Jobs)
      /\ queue["captured"].items \in Seq(Leases)
      /\ {"completed", "prepared", "captured"} \subseteq Queues
      /\ "completed" # "prepared" /\ "captured" # "prepared" /\ "completed" # "captured"
      /\ RisingFrames(queue["completed"].items) /\ RisingFrames(queue["prepared"].items)
      /\ RisingKeys(queue["captured"].items)
  BY QueueItems DEF QueueType, Queues, Lined
<1>1. UNCHANGED <<published, hand, nextFrame>>
  BY DEF TakeFrame, TakePrepared, TakeCompleted, history, brokerVars, handVars, cameraVars
<1>2. ASSUME NEW f, NEW a \in {2, 4, 6}, OnLeg'[a] \subseteq {f}, f \in OnLeg[a + 1],
             \A y \in OnLeg'[a + 1] : f < y,
             \A c \in Legs \ {a} : OnLeg'[c] \subseteq OnLeg[c]
      PROVE  InOrder(OnLeg')
  <2>1. /\ a \in Legs /\ a + 1 \in Legs /\ a < a + 1 /\ {f} \subseteq OnLeg[a + 1]
        /\ OnLeg'[a] \subseteq OnLeg[a] \cup {f}
        /\ \A c \in Legs : ~(a < c /\ c < a + 1)
        /\ \A x \in {f}, y \in OnLeg'[a + 1] : x < y
    BY <1>2 DEF Legs
  <2>2. HandedOn(OnLeg, OnLeg', a, a + 1, {f})  BY <1>2, <2>1 DEF HandedOn
  <2> QED BY <2>2, LegsMove DEF Lined
<1>3. CASE TakeFrame
  <2> DEFINE items == queue["captured"].items
             f == Front("captured").key
  <2>1. items # <<>> /\ items' = Tail(items) /\ OnlyItems("captured")
    BY <1>0, <1>3, PopEffect DEF TakeFrame, CanPop
  <2>2. /\ queue'["completed"].items = queue["completed"].items
        /\ queue'["prepared"].items = queue["prepared"].items
    BY <1>0, <2>1 DEF OnlyItems
  <2>3. /\ job'["preprocess"].frame = f
        /\ job'["npu"].frame = job["npu"].frame
        /\ job'["postprocess"].frame = job["postprocess"].frame
    BY <1>3 DEF TakeFrame, WorkType, Jobs
  <2>4. /\ RisingKeys(items)' /\ CapturedLeg' \subseteq CapturedLeg
        /\ f \in CapturedLeg /\ \A y \in CapturedLeg' : f < y
    BY <1>0, <2>1, LeasesMove DEF CapturedLeg, Front
  <2>5. PreprocessLeg' \subseteq {f}  BY <2>3 DEF PreprocessLeg, Some
  <2>6. /\ PublishedLeg' = PublishedLeg /\ ResultsInOrder' /\ PostLeg' = PostLeg
        /\ CompletedLeg' = CompletedLeg /\ NpuLeg' = NpuLeg /\ PreparedLeg' = PreparedLeg
        /\ HandLeg' = HandLeg
    BY <1>1, <2>2, <2>3, LegsStay DEF Lined
  <2>7. \A c \in Legs \ {6} : OnLeg'[c] \subseteq OnLeg[c]  BY <1>1, <2>4, <2>6, LegList
  <2>8. /\ OnLeg'[6] \subseteq {f} /\ f \in OnLeg[6 + 1] /\ \A y \in OnLeg'[6 + 1] : f < y
    BY <2>4, <2>5, LegList
  <2>9. InOrder(OnLeg')  BY <1>2, <2>7, <2>8
  <2> QED BY <1>0, <2>2, <2>4, <2>6, <2>9 DEF Lined
<1>4. CASE TakePrepared
  <2> DEFINE items == queue["prepared"].items
             f == Front("prepared").frame
  <2>1. CASE queue' = queue /\ job' = job
    BY <1>1, <2>1, QuietKeepsOrder DEF NoFrameCarried, SamePublished, Shortened
  <2>2. CASE /\ CanPop("prepared") /\ Pop("prepared")
             /\ job' = [job EXCEPT !["npu"] = Front("prepared")]
    <3>1. items # <<>> /\ items' = Tail(items) /\ OnlyItems("prepared")
      BY <1>0, <2>2, PopEffect DEF CanPop
    <3>2. /\ queue'["completed"].items = queue["completed"].items
          /\ queue'["captured"].items = queue["captured"].items
      BY <1>0, <3>1 DEF OnlyItems
    <3>3. /\ job'["npu"].frame = f
          /\ job'["preprocess"].frame = job["preprocess"].frame
          /\ job'["postprocess"].frame = job["postprocess"].frame
      BY <2>2 DEF WorkType
    <3>4. /\ RisingFrames(items)' /\ PreparedLeg' \subseteq PreparedLeg
          /\ f \in PreparedLeg /\ \A y \in PreparedLeg' : f < y
      BY <1>0, <3>1, JobsMove DEF PreparedLeg, Front
    <3>5. NpuLeg' \subseteq {f}  BY <3>3 DEF NpuLeg, Some
    <3>6. /\ PublishedLeg' = PublishedLeg /\ ResultsInOrder' /\ PostLeg' = PostLeg
          /\ CompletedLeg' = CompletedLeg /\ PreprocessLeg' = PreprocessLeg
          /\ CapturedLeg' = CapturedLeg /\ HandLeg' = HandLeg
      BY <1>1, <3>2, <3>3, LegsStay DEF Lined
    <3>7. \A c \in Legs \ {4} : OnLeg'[c] \subseteq OnLeg[c]
      BY <1>1, <3>4, <3>6, LegList
    <3>8. /\ OnLeg'[4] \subseteq {f} /\ f \in OnLeg[4 + 1] /\ \A y \in OnLeg'[4 + 1] : f < y
      BY <3>4, <3>5, LegList
    <3>9. InOrder(OnLeg')  BY <1>2, <3>7, <3>8
    <3> QED BY <1>0, <3>2, <3>4, <3>6, <3>9 DEF Lined
  <2> QED BY <1>4, <2>1, <2>2 DEF TakePrepared
<1>5. CASE TakeCompleted
  <2> DEFINE items == queue["completed"].items
             f == Front("completed").frame
  <2>1. CASE queue' = queue /\ job' = job
    BY <1>1, <2>1, QuietKeepsOrder DEF NoFrameCarried, SamePublished, Shortened
  <2>2. CASE /\ CanPop("completed") /\ Pop("completed")
             /\ job' = [job EXCEPT !["postprocess"] = Front("completed")]
    <3>1. items # <<>> /\ items' = Tail(items) /\ OnlyItems("completed")
      BY <1>0, <2>2, PopEffect DEF CanPop
    <3>2. /\ queue'["prepared"].items = queue["prepared"].items
          /\ queue'["captured"].items = queue["captured"].items
      BY <1>0, <3>1 DEF OnlyItems
    <3>3. /\ job'["postprocess"].frame = f
          /\ job'["preprocess"].frame = job["preprocess"].frame
          /\ job'["npu"].frame = job["npu"].frame
      BY <2>2 DEF WorkType
    <3>4. /\ RisingFrames(items)' /\ CompletedLeg' \subseteq CompletedLeg
          /\ f \in CompletedLeg /\ \A y \in CompletedLeg' : f < y
      BY <1>0, <3>1, JobsMove DEF CompletedLeg, Front
    <3>5. PostLeg' \subseteq {f}  BY <3>3 DEF PostLeg, Some
    <3>6. /\ PublishedLeg' = PublishedLeg /\ ResultsInOrder' /\ NpuLeg' = NpuLeg
          /\ PreparedLeg' = PreparedLeg /\ PreprocessLeg' = PreprocessLeg
          /\ CapturedLeg' = CapturedLeg /\ HandLeg' = HandLeg
      BY <1>1, <3>2, <3>3, LegsStay DEF Lined
    <3>7. \A c \in Legs \ {2} : OnLeg'[c] \subseteq OnLeg[c]
      BY <1>1, <3>4, <3>6, LegList
    <3>8. /\ OnLeg'[2] \subseteq {f} /\ f \in OnLeg[2 + 1] /\ \A y \in OnLeg'[2 + 1] : f < y
      BY <3>4, <3>5, LegList
    <3>9. InOrder(OnLeg')  BY <1>2, <3>7, <3>8
    <3> QED BY <1>0, <3>2, <3>4, <3>6, <3>9 DEF Lined
  <2> QED BY <1>5, <2>1, <2>2 DEF TakeCompleted
<1> QED BY <1>3, <1>4, <1>5

\* A result goes to the sink after those of the frames before it.  The inference thread
\* hands one over itself only when there is no other thread behind it.
LEMMA PublishKeepsOrder ==
    ASSUME QueueType, WorkType, published \in Seq(Nat), Lined, FusedAlone,
           DispatchLeg' \subseteq DispatchLeg, NEW t \in {"npu", "postprocess"},
           pc[t] \in Seq(Steps), PublishResult(t), job[t].frame # 0
    PROVE  Lined'
<1> USE MainAndWorkers
<1> DEFINE f == job[t].frame
           a == IF t = "npu" THEN 4 ELSE 2
<1>0. /\ t \in Threads /\ f \in Nat /\ f # 0  BY DEF WorkType, Jobs
<1>1. UNCHANGED <<queue, hand, nextFrame>>
  BY DEF PublishResult, brokerVars, handVars, cameraVars
<1>2. job' = [job EXCEPT ![t] = NoJob]  BY DEF PublishResult
<1>3. /\ job'[t].frame = 0 /\ \A u \in Threads \ {t} : job'[u] = job[u]
  BY <1>0, <1>2 DEF WorkType, NoJob
<1>4. CASE UNCHANGED published
  <2>1. \A u \in {"preprocess", "npu", "postprocess"} :
            job'[u].frame = job[u].frame \/ job'[u].frame = 0
    BY <1>3
  <2> QED BY <1>1, <1>4, <2>1, QuietKeepsOrder DEF NoFrameCarried, SamePublished, Shortened
<1>5. CASE published' = Append(published, f)
  <2>1. a \in Legs /\ 1 \in Legs /\ 1 < a /\ f \in OnLeg[a]
    BY <1>0, LegList DEF NpuLeg, PostLeg, Some
  <2>2. \A x \in PublishedLeg : x < f  BY <2>1, LegList DEF Lined, InOrder
  <2>3. ResultsInOrder' /\ PublishedLeg' = PublishedLeg \cup {f}
    BY <1>0, <1>5, <2>2, PublishedMove DEF Lined
  <2>4. /\ CompletedLeg' = CompletedLeg /\ PreparedLeg' = PreparedLeg
        /\ CapturedLeg' = CapturedLeg /\ HandLeg' = HandLeg
        /\ PreprocessLeg' = PreprocessLeg
    BY <1>1, <1>3, LegsStay
  <2>5. PostLeg' \subseteq PostLeg /\ NpuLeg' \subseteq NpuLeg
    BY <1>3 DEF PostLeg, NpuLeg, Some
  <2>6. OnLeg'[a] = {}  BY <1>3, LegList DEF NpuLeg, PostLeg, Some
  <2>7. ASSUME NEW c \in Legs, 1 < c, c < a PROVE OnLeg'[c] = {}
    <3>0. t = "npu"
      <4>1. t # "npu" => a = 2 /\ c \in Int  BY <2>7 DEF Legs
      <4> QED BY <2>7, <4>1
    <3>1. t = "npu" /\ (c = 2 \/ c = 3)
      <4>1. a = 4 /\ c \in Int  BY <2>7, <3>0 DEF Legs
      <4> QED BY <2>7, <3>0, <4>1
    <3>2. Head(pc["npu"]) = "publish_result" /\ pc["npu"] # <<>>
      BY <3>1 DEF PublishResult, At
    <3>3. Has(pc["npu"], PublishSteps)  BY <3>1, <3>2, TailSteps DEF Has, PublishSteps
    <3>4. queue["completed"].items = <<>> /\ job["postprocess"].frame = 0
      BY <3>3 DEF FusedAlone
    <3>5. CompletedLeg = {} /\ PostLeg = {}
      <4>1. <<>> \in Seq(Jobs)  OBVIOUS
      <4> QED BY <3>4, <4>1, FramesMove DEF CompletedLeg, PostLeg, Some
    <3> QED BY <2>4, <2>5, <3>1, <3>5, LegList
  <2>8. \A c \in Legs \ {1} : OnLeg'[c] \subseteq OnLeg[c]  BY <1>1, <2>4, <2>5, LegList
  <2>9. /\ {f} \subseteq OnLeg[a] /\ OnLeg'[1] \subseteq OnLeg[1] \cup {f}
        /\ \A x \in {f}, y \in OnLeg'[a] : x < y
    BY <2>1, <2>3, <2>6, LegList
  <2>10. InOrder(OnLeg')
    <3>1. \A c \in Legs : 1 < c /\ c < a => OnLeg'[c] = {}  BY <2>7
    <3> HIDE DEF a, f
    <3>2. HandedOn(OnLeg, OnLeg', 1, a, {f})  BY <2>1, <2>8, <2>9, <3>1 DEF HandedOn
    <3> QED BY <3>2, LegsMove DEF Lined
  <2> QED BY <1>1, <2>3, <2>10 DEF Lined
<1> QED BY <1>4, <1>5 DEF PublishResult

\* The capture thread's queue keeps the newer frame.
LEMMA CapturedKeepsOrder ==
    ASSUME QueueType, WorkType, Lined, DispatchAt, pc["capture"] \in Seq(Steps), PushCaptured,
           DispatchLeg = {dispatch[1].key}, DispatchLeg' = {}
    PROVE  Lined'
<1> USE MainAndWorkers
<1> DEFINE items == queue["captured"].items
           own == Lease(dispatch[1], "inference")
           rest == IF Full("captured") THEN Tail(items) ELSE items
<1>0. /\ items \in Seq(Leases) /\ "captured" \in Queues /\ ItemsOf["captured"] = Leases
      /\ {"completed", "prepared"} \subseteq Queues \ {"captured"} /\ RisingKeys(items)
  BY QueueItems DEF QueueType, Queues, Lined
<1>1. own \in Leases /\ own.key = dispatch[1].key
  <2>1. pc["capture"] # <<>> /\ Head(pc["capture"]) = "push_captured"
    BY DEF PushCaptured, At
  <2>2. Has(pc["capture"], {"push_captured", "push_video"})  BY <2>1, TailSteps DEF Has
  <2>3. dispatch[1] \in Requests  BY <2>2, OnlyItem DEF DispatchAt, WorkType
  <2> QED BY <2>3, LeaseTypes DEF Lease
<1>2. UNCHANGED <<published, hand, nextFrame, job>>
  BY DEF PushCaptured, history, brokerVars, handVars, cameraVars
<1>3. /\ OnlyItems("captured")
      /\ items' = IF queue["captured"].stopped THEN items ELSE Append(rest, own)
      /\ Full("captured") => items # <<>>
  BY <1>0, <1>1, PushLatestEffect DEF PushCaptured
<1>4. /\ queue'["completed"].items = queue["completed"].items
      /\ queue'["prepared"].items = queue["prepared"].items
  BY <1>0, <1>3 DEF OnlyItems
<1>5. CASE queue["captured"].stopped
  BY <1>2, <1>3, <1>4, <1>5, QuietKeepsOrder DEF NoFrameCarried, SamePublished, Shortened
<1>6. CASE ~queue["captured"].stopped
  <2>1. rest \in Seq(Leases) /\ RisingKeys(rest) /\ KeysOf(rest) \subseteq CapturedLeg
    BY <1>0, <1>3, LeasesMove, HeadTailProperties DEF CapturedLeg
  <2>2. \A x \in CapturedLeg : x < own.key
    <3>1. 7 \in Legs /\ 8 \in Legs /\ 7 < 8 /\ own.key \in OnLeg[8]  BY <1>1, LegList
    <3> QED BY <3>1, LegList DEF Lined, InOrder
  <2>3. /\ CapturedLeg' \subseteq CapturedLeg \cup {own.key}
        /\ RisingKeys(items)'
    <3>1. items' = Append(rest, own) /\ CapturedLeg' = KeysOf(items')
      BY <1>3, <1>6 DEF CapturedLeg
    <3>2. \A x \in KeysOf(rest) : x < own.key  BY <2>1, <2>2
    <3>3. KeysOf(Append(rest, own)) = KeysOf(rest) \cup {own.key} /\ RisingKeys(Append(rest, own))
      BY <1>1, <2>1, <3>2, LeasesMove
    <3> QED BY <2>1, <3>1, <3>3
  <2>4. /\ PublishedLeg' = PublishedLeg /\ ResultsInOrder' /\ PostLeg' = PostLeg
        /\ CompletedLeg' = CompletedLeg /\ NpuLeg' = NpuLeg /\ PreparedLeg' = PreparedLeg
        /\ PreprocessLeg' = PreprocessLeg /\ HandLeg' = HandLeg
    BY <1>2, <1>4, LegsStay DEF Lined
  <2>5. \A c \in Legs \ {7} : OnLeg'[c] \subseteq OnLeg[c]  BY <1>2, <2>4, LegList
  <2>6. /\ 7 \in Legs /\ 8 \in Legs /\ {own.key} \subseteq OnLeg[8]
        /\ OnLeg'[7] \subseteq OnLeg[7] \cup {own.key}
        /\ \A c \in Legs : 7 < c /\ c < 8 => OnLeg'[c] = {}
        /\ \A x \in {own.key}, y \in OnLeg'[8] : x < y
    BY <1>1, <2>3, LegList
  <2>7. InOrder(OnLeg')
    <3>1. HandedOn(OnLeg, OnLeg', 7, 8, {own.key})  BY <2>5, <2>6 DEF HandedOn
    <3> QED BY <3>1, LegsMove DEF Lined
  <2> QED BY <1>4, <2>3, <2>4, <2>7 DEF Lined
<1> QED BY <1>5, <1>6

\* The frame in hand is dispatched, and the next one comes after all others.
LEMMA CaptureKeepsOrder ==
    ASSUME QueueType, WorkType, Lined, BrokerTypeOK, published \in Seq(Nat), DispatchAt,
           \/ PublishFrame /\ DispatchLeg' \subseteq HandLeg /\ hand' = {}
           \/ (\E b \in Buffers : PollFrame(b)) /\ DispatchLeg' \subseteq DispatchLeg
    PROVE  Lined'
<1> USE MainAndWorkers
<1>1. UNCHANGED <<published, queue, job>>  BY DEF PublishFrame, PollFrame, history, work
<1>2. /\ PublishedLeg' = PublishedLeg /\ ResultsInOrder' /\ PostLeg' = PostLeg
      /\ CompletedLeg' = CompletedLeg /\ NpuLeg' = NpuLeg /\ PreparedLeg' = PreparedLeg
      /\ PreprocessLeg' = PreprocessLeg /\ CapturedLeg' = CapturedLeg
  BY <1>1, LegsStay DEF Lined
<1>3. CASE PublishFrame /\ DispatchLeg' \subseteq HandLeg /\ hand' = {}
  <2>1. UNCHANGED nextFrame  BY <1>3 DEF PublishFrame, PublishAccepted, cameraVars
  <2>2. HandLeg' = {}  BY <1>3 DEF HandLeg
  <2>3. \A c \in Legs \ {8} : OnLeg'[c] \subseteq OnLeg[c]  BY <1>2, <2>1, <2>2, LegList
  <2>4. /\ 8 \in Legs /\ 9 \in Legs /\ HandLeg \subseteq OnLeg[9]
        /\ OnLeg'[8] \subseteq OnLeg[8] \cup HandLeg
        /\ \A c \in Legs : 8 < c /\ c < 9 => OnLeg'[c] = {}
        /\ \A x \in HandLeg, y \in OnLeg'[9] : x < y
    <3>1. /\ 8 \in Legs /\ 9 \in Legs /\ OnLeg[9] = HandLeg /\ OnLeg'[9] = {}
          /\ OnLeg'[8] = DispatchLeg'
      BY <2>2, LegList
    <3>2. \A c \in Legs : ~(8 < c /\ c < 9)  BY DEF Legs
    <3> QED BY <1>3, <3>1, <3>2
  <2>5. InOrder(OnLeg')
    <3>1. HandedOn(OnLeg, OnLeg', 8, 9, HandLeg)  BY <2>3, <2>4 DEF HandedOn
    <3> QED BY <3>1, LegsMove DEF Lined
  <2> QED BY <1>1, <1>2, <2>5 DEF Lined
<1>4. CASE (\E b \in Buffers : PollFrame(b)) /\ DispatchLeg' \subseteq DispatchLeg
  <2>1. PICK b \in Buffers : CaptureFrame(b)  BY <1>4 DEF PollFrame
  <2>2. /\ nextFrame' = nextFrame + 1 /\ HandLeg' = {nextFrame}
        /\ nextFrame \in Nat /\ nextFrame # 0
    <3>1. nextFrame \in Nat /\ nextFrame # 0  BY MaxFramesNat DEF BrokerTypeOK
    <3> QED BY <2>1, <3>1 DEF CaptureFrame, HandLeg
  <2>3. /\ PublishedLeg \subseteq Nat /\ PostLeg \subseteq Nat /\ NpuLeg \subseteq Nat
        /\ PreprocessLeg \subseteq Nat /\ CompletedLeg \subseteq Nat
        /\ PreparedLeg \subseteq Nat /\ CapturedLeg \subseteq Nat
    <3>1. PostLeg \subseteq Nat /\ NpuLeg \subseteq Nat /\ PreprocessLeg \subseteq Nat
      <4>1. \A t \in Threads : job[t].frame \in Nat  BY JobTypes DEF WorkType
      <4>2. \A n \in Nat : Some(n) \subseteq Nat  BY DEF Some
      <4> QED BY <4>1, <4>2 DEF PostLeg, NpuLeg, PreprocessLeg
    <3>2. CompletedLeg \subseteq Nat /\ PreparedLeg \subseteq Nat
      <4>1. queue["completed"].items \in Seq(Jobs) /\ queue["prepared"].items \in Seq(Jobs)
        BY QueueItems DEF QueueType
      <4>2. \A s \in Seq(Jobs) : FramesOf(s) \subseteq Nat
        <5>1. ASSUME NEW s \in Seq(Jobs), NEW i \in DOMAIN s PROVE s[i].frame \in Nat
          <6>1. s[i] \in Jobs  OBVIOUS
          <6> QED BY <6>1, JobTypes
        <5> QED BY <5>1 DEF FramesOf
      <4> QED BY <4>1, <4>2 DEF CompletedLeg, PreparedLeg
    <3>3. CapturedLeg \subseteq Nat
      <4>1. queue["captured"].items \in Seq(Leases)  BY QueueItems DEF QueueType
      <4>2. \A s \in Seq(Leases) : KeysOf(s) \subseteq Nat  BY JobTypes DEF KeysOf
      <4> QED BY <4>1, <4>2 DEF CapturedLeg
    <3>4. PublishedLeg \subseteq Nat  BY DEF PublishedLeg
    <3> QED BY <3>1, <3>2, <3>3, <3>4
  <2>4. DispatchLeg \subseteq Nat
    <3>1. CASE Has(pc["capture"], {"push_captured"})
      <4>1. Has(pc["capture"], {"push_captured", "push_video"})  BY <3>1 DEF Has
      <4>2. dispatch[1] \in Requests  BY <4>1, OnlyItem DEF DispatchAt, WorkType
      <4> QED BY <4>2 DEF DispatchLeg, Requests, FrameIds
    <3>2. CASE ~Has(pc["capture"], {"push_captured"})  BY <3>2 DEF DispatchLeg
    <3> QED BY <3>1, <3>2
  <2>5. \A c \in Legs : c < 9 => OnLeg'[c] \subseteq OnLeg[c] /\ OnLeg[c] \subseteq Nat
    <3>1. \A c \in Legs : c < 9 => \/ c = 1 \/ c = 2 \/ c = 3 \/ c = 4 \/ c = 5
                                    \/ c = 6 \/ c = 7 \/ c = 8
      BY LegList
    <3> QED BY <1>2, <1>4, <2>3, <2>4, <3>1, LegList
  <2>6. OnLeg[10] = {nextFrame} /\ OnLeg'[10] = {nextFrame + 1} /\ OnLeg'[9] = {nextFrame}
    BY <2>2, LegList
  <2>7. InOrder(OnLeg')  BY <2>2, <2>5, <2>6, LegsGrow DEF Lined
  <2> QED BY <1>1, <1>2, <2>7 DEF Lined
<1> QED BY <1>3, <1>4

\* A thread works on its own job.
LEMMA JobsApart ==
    ASSUME QueueType, WorkType, NEW t \in Threads, ThreadStep(t), NEW u \in Threads, u # t
    PROVE  job'[u].frame = job[u].frame
<1> USE MainAndWorkers
<1> DEFINE kept == job'[u].frame = job[u].frame
<1>1. /\ job' = job => kept
      /\ \A j : job' = [job EXCEPT ![t] = j] => kept
      /\ \A n : \/ job' = [job EXCEPT ![t].in = n]
                \/ job' = [job EXCEPT ![t].out = n]
                \/ job' = [job EXCEPT ![t].frame = n]
                => kept
  BY DEF WorkType
<1> HIDE DEF kept
<1> SUFFICES kept  BY DEF kept
<1>2. CASE CallStep(t)  BY <1>2, CallCarries DEF kept
<1>3. CASE t = "main" /\ Supervise
  BY <1>1, <1>3 DEF Supervise, StartCamera, Spawn, Join, StopCamera, work
<1>4. CASE t = "capture" /\ CaptureLoop
  BY <1>1, <1>4 DEF CaptureLoop, CaptureCheck, DrainPop, DrainRequeued,
     DrainRequeueFailed, DrainEmpty, CaptureStopped, PollWake, PollTimeout, PollThrows,
     PollFrame, PollDropped, PublishFrame, PublishRefused, RequeueDirect, AfterDirect,
     PushCaptured, PushVideo, work, pipelineVars
<1>5. CASE t = "preprocess" /\ PreprocessLoop
  BY <1>1, <1>5 DEF PreprocessLoop, TakeInputSlot, TakeFrame, NoMoreFrames, Preprocess,
     PushPrepared, DrainLeases, work
<1>6. CASE t = "npu" /\ NpuLoop
  BY <1>1, <1>6 DEF NpuLoop, TakePrepared, TakeOutputSlot, Run, PushCompleted
<1>7. CASE PostprocessStep(t) \/ (t = "postprocess" /\ TakeCompleted)
  BY <1>1, <1>7 DEF PostprocessStep, Postprocess, PublishResult, TakeCompleted
<1>8. CASE t = "video" /\ VideoLoop
  BY <1>1, <1>8 DEF VideoLoop, TakeVideoFrame, Encode, PushEncoded, DrainLeases
<1>9. CASE t = "encoded" /\ EncodedPacketLoop
  BY <1>1, <1>9 DEF EncodedPacketLoop, TakePacket, WritePacket
<1> QED BY <1>2, <1>3, <1>4, <1>5, <1>6, <1>7, <1>8, <1>9 DEF ThreadStep

\* Threads that are created have no frame yet, and the lists that end a stage have none
\* of the steps at which it has one.
LEMMA IdleLists ==
    /\ \A t \in Workers : ~Has(<<FirstStep[t]>>, PreprocessBusy \cup NpuBusy \cup PublishSteps)
    /\ \A p \in {PreprocessExit, <<"return_input">> \o PreprocessExit,
                 SignalFailure \o PreprocessExit, <<"slot">>, <<"frame">>,
                 <<"return_input", "slot">>, <<"dispose", "return_input", "slot">>} :
           ~Has(p, PreprocessBusy)
    /\ \A p \in {NpuExit, <<"return_input">> \o NpuExit, <<"return_output">> \o NpuExit,
                 SignalFailure \o NpuExit, <<"prepared">>, <<"return_output", "prepared">>} :
           ~Has(p, NpuBusy)
    /\ \A S : ~Has(<<>>, S)
    /\ ~Has(<<"completed">>, PublishSteps)
<1>1. \A t \in Workers : ~Has(<<FirstStep[t]>>, PreprocessBusy \cup NpuBusy \cup PublishSteps)
  BY ShortLists DEF Workers, FirstStep, PreprocessBusy, NpuBusy, PublishSteps
<1>2. /\ \A p \in {<<"slot">>, <<"frame">>, <<"return_input", "slot">>,
                   <<"dispose", "return_input", "slot">>, <<"return_input">>,
                   PreprocessExit, SignalFailure} :
             ~Has(p, PreprocessBusy)
      /\ \A p \in {<<"prepared">>, <<"return_output", "prepared">>, <<"return_input">>,
                   <<"return_output">>, NpuExit, SignalFailure} :
             ~Has(p, NpuBusy)
  <2>1. /\ \A p \in {<<"slot">>, <<"frame">>, <<"return_input", "slot">>,
                     <<"dispose", "return_input", "slot">>, <<"return_input">>,
                     PreprocessExit} :
               ~Has(p, PreprocessBusy)
        /\ \A p \in {<<"prepared">>, <<"return_output", "prepared">>, <<"return_input">>,
                     <<"return_output">>, NpuExit} :
               ~Has(p, NpuBusy)
    BY ShortLists DEF PreprocessBusy, NpuBusy, PreprocessExit, NpuExit
  <2>2. ~Has(SignalFailure, PreprocessBusy) /\ ~Has(SignalFailure, NpuBusy)
    BY DEF Has, SignalFailure, PreprocessBusy, NpuBusy
  <2> QED BY <2>1, <2>2
<1>3. <<"return_input">> \in Seq(Steps) /\ <<"return_output">> \in Seq(Steps)
  BY DEF Steps
<1>4. /\ ~Has(<<"return_input">> \o PreprocessExit, PreprocessBusy)
      /\ ~Has(SignalFailure \o PreprocessExit, PreprocessBusy)
      /\ ~Has(<<"return_input">> \o NpuExit, NpuBusy)
      /\ ~Has(<<"return_output">> \o NpuExit, NpuBusy)
      /\ ~Has(SignalFailure \o NpuExit, NpuBusy)
  BY <1>2, <1>3, Lists, ConcatHas
<1>5. (\A S : ~Has(<<>>, S)) /\ ~Has(<<"completed">>, PublishSteps)
  BY ShortLists DEF PublishSteps
<1> QED BY <1>1, <1>2, <1>4, <1>5

\* A stage that does not take a step, or makes a call, has the frame it had.
LEMMA BusyKept ==
    ASSUME PcType, QueueType, WorkType, NEW t \in Threads, ThreadStep(t),
           NEW u \in {"preprocess", "npu", "postprocess"}, t # u \/ CallStep(t),
           NEW S \in SUBSET (PreprocessBusy \cup NpuBusy \cup PublishSteps),
           Has(pc[u], S) => job[u].frame # 0
    PROVE  Has(pc'[u], S) => job'[u].frame # 0
<1> USE MainAndWorkers
<1>0. u \in Threads /\ u \in Workers /\ pc[u] \in Seq(Steps)  BY DEF PcType, Workers
<1>1. CASE CallStep(t)
  <2>1. job'[u].frame = job[u].frame  BY <1>0, <1>1, CallCarries
  <2>2. pc'[u] = pc[u] \/ (pc[u] # <<>> /\ pc'[u] = Tail(pc[u]))
    BY <1>0, <1>1, CallMoves DEF Proceeds, PcType
  <2>3. Has(pc'[u], S) => Has(pc[u], S)  BY <1>0, <2>2, TailHas
  <2> QED BY <2>1, <2>3
<1>2. CASE t # u
  <2>1. job'[u].frame = job[u].frame  BY <1>0, <1>2, JobsApart
  <2>2. pc'[u] = pc[u] \/ pc'[u] = <<>> \/ pc'[u] = <<FirstStep[u]>>
    BY <1>0, <1>2, OthersWait, SpawnEffect
  <2>3. \A s : Has(s, S) => Has(s, PreprocessBusy \cup NpuBusy \cup PublishSteps)
    BY DEF Has
  <2> QED BY <1>0, <2>1, <2>2, <2>3, IdleLists
<1> QED BY <1>1, <1>2

\* A stage that works has a frame.
LEMMA StagesBusyStep ==
    ASSUME PcType, QueueType, WorkType, Lined, StagesBusy, NEW t \in Threads, ThreadStep(t)
    PROVE  StagesBusy'
<1> USE MainAndWorkers, IdleLists
<1>0. /\ \A u \in Threads : pc[u] \in Seq(Steps) /\ job[u] \in Jobs
      /\ {"preprocess", "npu", "postprocess"} \subseteq Threads
      /\ {PreprocessBusy, NpuBusy, PublishSteps} \subseteq
             SUBSET (PreprocessBusy \cup NpuBusy \cup PublishSteps)
  BY DEF PcType, WorkType
<1>1. Has(pc'["preprocess"], PreprocessBusy) => job'["preprocess"].frame # 0
  <2>1. CASE t # "preprocess" \/ CallStep(t)
    <3>1. Has(pc["preprocess"], PreprocessBusy) => job["preprocess"].frame # 0
      BY DEF StagesBusy
    <3> QED BY <1>0, <2>1, <3>1, BusyKept
  <2>2. CASE t = "preprocess" /\ PreprocessLoop
    <3>1. CASE TakeFrame
      <4>1. Front("captured") \in Leases  BY <3>1, PopEffect, QueueItems DEF TakeFrame
      <4>2. job'["preprocess"].frame = Front("captured").key
        BY <3>1 DEF TakeFrame, WorkType, Jobs
      <4> QED BY <4>1, <4>2, MaxFramesNat DEF Leases, FrameIds
    <3>2. CASE TakeInputSlot \/ NoMoreFrames \/ PushPrepared
      <4>1. pc'["preprocess"] \in {PreprocessExit, <<"return_input">> \o PreprocessExit,
                                   <<"frame">>, <<"slot">>}
        BY <3>2 DEF TakeInputSlot, NoMoreFrames, PushPrepared, Loop, PcType
      <4> QED BY <4>1
    <3>3. CASE Preprocess
      <4>1. Has(pc["preprocess"], PreprocessBusy)
        <5>1. pc["preprocess"] # <<>> /\ Head(pc["preprocess"]) \in PreprocessBusy
          BY <3>3 DEF Preprocess, At, PreprocessBusy
        <5> QED BY <1>0, <5>1, TailSteps DEF Has
      <4>2. \/ job' = job
            \/ pc'["preprocess"] \in {<<"return_input", "slot">>,
                                      SignalFailure \o PreprocessExit}
        BY <3>3 DEF Preprocess, Loop, PcType
      <4> QED BY <4>1, <4>2 DEF StagesBusy
    <3>4. CASE DrainLeases("preprocess", "captured")
      <4>1. job' = job  BY <3>4 DEF DrainLeases
      <4>2. \/ pc["preprocess"] # <<>> /\ pc'["preprocess"] = Tail(pc["preprocess"])
            \/ pc'["preprocess"] = <<"dispose">> \o pc["preprocess"]
        BY <1>0, <3>4, EmptyFirst, TailSteps DEF DrainLeases, Proceed, PcType, At
      <4>3. <<"dispose">> \in Seq(Steps) /\ ~Has(<<"dispose">>, PreprocessBusy)
        BY ShortLists DEF Steps, PreprocessBusy
      <4>4. Has(<<"dispose">> \o pc["preprocess"], PreprocessBusy)
            => Has(pc["preprocess"], PreprocessBusy)
        BY <1>0, <4>3, ConcatHas
      <4>5. Has(pc'["preprocess"], PreprocessBusy) => Has(pc["preprocess"], PreprocessBusy)
        <5>1. ASSUME pc["preprocess"] # <<>>, Has(Tail(pc["preprocess"]), PreprocessBusy)
              PROVE  Has(pc["preprocess"], PreprocessBusy)
          BY <1>0, <5>1, TailHas
        <5> QED BY <4>2, <4>4, <5>1
      <4> QED BY <4>1, <4>5 DEF StagesBusy
    <3> QED BY <2>2, <3>1, <3>2, <3>3, <3>4 DEF PreprocessLoop
  <2> QED BY <2>1, <2>2 DEF ThreadStep
<1>2. Has(pc'["npu"], NpuBusy) => job'["npu"].frame # 0
  <2>1. CASE t # "npu" \/ CallStep(t)
    <3>1. Has(pc["npu"], NpuBusy) => job["npu"].frame # 0  BY DEF StagesBusy
    <3> QED BY <1>0, <2>1, <3>1, BusyKept
  <2>2. CASE t = "npu" /\ TakePrepared
    <3>1. \/ pc'["npu"] = NpuExit
          \/ CanPop("prepared") /\ job' = [job EXCEPT !["npu"] = Front("prepared")]
      BY <2>2 DEF TakePrepared, Loop, PcType
    <3>2. CASE CanPop("prepared") /\ job' = [job EXCEPT !["npu"] = Front("prepared")]
      <4>1. queue["prepared"].items \in Seq(Jobs)  BY QueueItems DEF QueueType
      <4>2. Front("prepared").frame \in PreparedLeg
        BY <3>2, <4>1 DEF CanPop, Front, PreparedLeg, FramesOf
      <4>3. 0 \notin PreparedLeg  BY LegList DEF Lined, InOrder
      <4> QED BY <3>2, <4>2, <4>3 DEF WorkType
    <3> QED BY <3>1, <3>2
  <2>3. CASE t = "npu" /\ (TakeOutputSlot \/ Run \/ PushCompleted \/ PostprocessStep(t))
    <3>1. Has(pc["npu"], NpuBusy)
      <4>1. pc["npu"] # <<>> /\ Head(pc["npu"]) \in NpuBusy
        BY <2>3 DEF TakeOutputSlot, Run, PushCompleted, PostprocessStep, Postprocess,
           PublishResult, At, NpuBusy
      <4> QED BY <1>0, <4>1, TailSteps DEF Has
    <3>2. \/ job'["npu"].frame = job["npu"].frame
          \/ pc'["npu"] \in {NpuExit, <<"return_input">> \o NpuExit, <<"prepared">>,
                             <<"return_output">> \o NpuExit, SignalFailure \o NpuExit,
                             <<"return_output", "prepared">>}
      <4>1. CASE TakeOutputSlot
        <5>1. \/ job' = [job EXCEPT !["npu"].out = Front("freeOut")]
              \/ Loop("npu", <<"return_input">> \o NpuExit)
          BY <4>1 DEF TakeOutputSlot
        <5>2. ASSUME job' = [job EXCEPT !["npu"].out = Front("freeOut")]
              PROVE  job'["npu"].frame = job["npu"].frame
          BY <5>2 DEF WorkType, Jobs
        <5>3. ASSUME NEW p, Loop("npu", p) PROVE pc'["npu"] = p
          BY <5>3 DEF Loop, PcType
        <5> QED BY <5>1, <5>2, <5>3
      <4>2. CASE Run
        <5>1. \/ job' = [job EXCEPT !["npu"].in = 0]
              \/ Loop("npu", SignalFailure \o NpuExit)
          BY <4>2 DEF Run
        <5>2. ASSUME job' = [job EXCEPT !["npu"].in = 0]
              PROVE  job'["npu"].frame = job["npu"].frame
          BY <5>2 DEF WorkType, Jobs
        <5>3. ASSUME NEW p, Loop("npu", p) PROVE pc'["npu"] = p
          BY <5>3 DEF Loop, PcType
        <5> QED BY <5>1, <5>2, <5>3
      <4>3. CASE PushCompleted  BY <4>3 DEF PushCompleted, Loop, PcType
      <4>4. CASE PostprocessStep(t)
        <5>1. \/ job' = [job EXCEPT !["npu"].out = 0]
              \/ Loop("npu", <<NextRound("npu")>>)
          BY <2>3, <4>4 DEF PostprocessStep, Postprocess, PublishResult
        <5> QED BY <5>1 DEF NextRound, Loop, PcType, WorkType, Jobs
      <4> QED BY <2>3, <4>1, <4>2, <4>3, <4>4
    <3> QED BY <3>1, <3>2 DEF StagesBusy
  <2> QED BY <2>1, <2>2, <2>3 DEF ThreadStep, NpuLoop
<1>3. Has(pc'["postprocess"], PublishSteps) => job'["postprocess"].frame # 0
  <2>1. CASE t # "postprocess" \/ CallStep(t)
    <3>1. Has(pc["postprocess"], PublishSteps) => job["postprocess"].frame # 0
      BY DEF StagesBusy
    <3> QED BY <1>0, <2>1, <3>1, BusyKept
  <2>2. CASE t = "postprocess" /\ TakeCompleted
    <3>1. \/ pc'["postprocess"] = <<>>
          \/ CanPop("completed") /\ job' = [job EXCEPT !["postprocess"] = Front("completed")]
      BY <2>2 DEF TakeCompleted, Loop, PcType
    <3>2. CASE /\ CanPop("completed")
               /\ job' = [job EXCEPT !["postprocess"] = Front("completed")]
      <4>1. queue["completed"].items \in Seq(Jobs)  BY QueueItems DEF QueueType
      <4>2. Front("completed").frame \in CompletedLeg
        BY <3>2, <4>1 DEF CanPop, Front, CompletedLeg, FramesOf
      <4>3. 0 \notin CompletedLeg  BY LegList DEF Lined, InOrder
      <4> QED BY <3>2, <4>2, <4>3 DEF WorkType
    <3> QED BY <3>1, <3>2
  <2>3. CASE t = "postprocess" /\ PostprocessStep(t)
    <3>1. Has(pc["postprocess"], PublishSteps)
      <4>1. pc["postprocess"] # <<>> /\ Head(pc["postprocess"]) \in PublishSteps
        BY <2>3 DEF PostprocessStep, Postprocess, PublishResult, At, PublishSteps
      <4> QED BY <1>0, <4>1, TailSteps DEF Has
    <3>2. \/ job'["postprocess"].frame = job["postprocess"].frame
          \/ pc'["postprocess"] = <<"completed">>
      <4>1. \/ job' = [job EXCEPT !["postprocess"].out = 0]
            \/ Loop("postprocess", <<NextRound("postprocess")>>)
        BY <2>3 DEF PostprocessStep, Postprocess, PublishResult
      <4> QED BY <4>1 DEF NextRound, Loop, PcType, WorkType, Jobs
    <3> QED BY <3>1, <3>2 DEF StagesBusy
  <2> QED BY <2>1, <2>2, <2>3 DEF ThreadStep
<1> QED BY <1>1, <1>2, <1>3 DEF StagesBusy

\* In the fused topology nothing comes behind the inference thread, in the other one it
\* publishes nothing.
LEMMA FusedAloneStep ==
    ASSUME PcType, QueueType, WorkType, NpuAt, FusedAlone, NEW t \in Threads, ThreadStep(t)
    PROVE  FusedAlone'
<1> USE MainAndWorkers
<1>0. /\ pc["npu"] \in Seq(Steps) /\ "npu" \in Workers /\ "npu" \in Threads
      /\ "postprocess" \in Threads
      /\ "completed" \in Queues /\ "freeIn" \in Queues \ {"completed"}
      /\ "freeOut" \in Queues \ {"completed"} /\ "prepared" \in Queues \ {"completed"}
  BY DEF PcType, Queues, Workers
<1>1. CASE Split
  <2>1. ~Has(pc["npu"], PublishSteps)  BY <1>1 DEF FusedAlone
  <2>2. \A s : ~Has(s, NpuBusy) \/ ~Has(s, PreprocessBusy \cup NpuBusy \cup PublishSteps)
               => ~Has(s, PublishSteps)
    BY DEF Has, NpuBusy, PublishSteps
  <2>3. CASE t # "npu"
    <3>1. pc'["npu"] = pc["npu"] \/ pc'["npu"] = <<>> \/ pc'["npu"] = <<FirstStep["npu"]>>
      BY <1>0, <2>3, OthersWait, SpawnEffect
    <3> QED BY <1>0, <1>1, <2>1, <2>2, <3>1, IdleLists DEF FusedAlone
  <2>4. CASE CallStep(t) /\ t = "npu"
    <3>1. pc'["npu"] = pc["npu"] \/ (pc["npu"] # <<>> /\ pc'["npu"] = Tail(pc["npu"]))
      BY <1>0, <2>4, CallMoves DEF Proceeds, PcType
    <3>2. pc["npu"] # <<>> => ~Has(Tail(pc["npu"]), PublishSteps)
      BY <1>0, <2>1, TailHas
    <3> QED BY <1>1, <2>1, <3>1, <3>2 DEF FusedAlone
  <2>5. CASE t = "npu" /\ NpuLoop
    <3>1. ASSUME NEW p, Loop("npu", p) PROVE pc'["npu"] = p  BY <3>1 DEF Loop, PcType
    <3>2. \/ pc'["npu"] \in {<<"output">>, <<"run">>, <<"push_completed">>}
          \/ pc'["npu"] \in {NpuExit, <<"return_input">> \o NpuExit, <<"prepared">>,
                             <<"return_output">> \o NpuExit, SignalFailure \o NpuExit,
                             <<"return_output", "prepared">>}
      <4>1. CASE TakePrepared \/ TakeOutputSlot \/ PushCompleted
        BY <3>1, <4>1 DEF TakePrepared, TakeOutputSlot, PushCompleted
      <4>2. CASE Run  BY <1>1, <3>1, <4>2 DEF Run
      <4> QED BY <2>5, <4>1, <4>2 DEF NpuLoop
    <3>3. \A p \in {<<"output">>, <<"run">>, <<"push_completed">>} : ~Has(p, PublishSteps)
      BY ShortLists DEF PublishSteps
    <3>4. ~Has(pc'["npu"], PublishSteps)  BY <2>2, <3>2, <3>3, IdleLists
    <3> QED BY <1>1, <3>4 DEF FusedAlone
  <2>6. CASE t = "npu" /\ PostprocessStep(t)
    <3>1. pc["npu"] # <<>> /\ Head(pc["npu"]) \in PublishSteps
      BY <2>6 DEF PostprocessStep, Postprocess, PublishResult, At, PublishSteps
    <3> QED BY <1>0, <2>1, <3>1, TailSteps DEF Has
  <2> QED BY <2>3, <2>4, <2>5, <2>6 DEF ThreadStep
<1>2. CASE ~Split
  <2>0. queue["completed"].items = <<>> /\ job["postprocess"].frame = 0
    BY <1>2 DEF FusedAlone
  <2>1. ~PushCompleted
    <3> SUFFICES ASSUME PushCompleted PROVE FALSE  OBVIOUS
    <3>1. pc["npu"] # <<>> /\ Head(pc["npu"]) = "push_completed"
      BY DEF PushCompleted, At
    <3>2. Has(pc["npu"], {"push_completed"})  BY <1>0, <3>1, TailSteps DEF Has
    <3> QED BY <1>2, <3>2 DEF NpuAt
  <2>2. queue'["completed"].items = queue["completed"].items
    <3>1. CASE t \notin {"npu", "postprocess"}  BY <3>1, OthersCarry
    <3>2. CASE CallStep(t)  BY <3>2, CallCarries
    <3>3. CASE t = "npu" /\ NpuLoop
      BY <1>0, <2>1, <3>3, QueuesApart DEF NpuLoop, TakePrepared, TakeOutputSlot, Run
    <3>4. CASE PostprocessStep(t)
      BY <1>0, <3>4, QueuesApart DEF PostprocessStep, Postprocess, PublishResult
    <3>5. CASE TakeCompleted  BY <2>0, <3>5 DEF TakeCompleted, CanPop
    <3> QED BY <3>1, <3>2, <3>3, <3>4, <3>5 DEF ThreadStep
  <2>3. job'["postprocess"].frame = 0
    <3>1. CASE t # "postprocess"  BY <1>0, <2>0, <3>1, JobsApart
    <3>2. CASE CallStep(t)  BY <1>0, <2>0, <3>2, CallCarries
    <3>3. CASE t = "postprocess" /\ PostprocessStep(t)
      <4>1. \/ job' = [job EXCEPT !["postprocess"].out = 0]
            \/ job' = [job EXCEPT !["postprocess"] = NoJob]
        BY <3>3 DEF PostprocessStep, Postprocess, PublishResult
      <4>2. ASSUME job' = [job EXCEPT !["postprocess"].out = 0]
            PROVE  job'["postprocess"].frame = job["postprocess"].frame
        BY <1>0, <4>2 DEF WorkType, Jobs
      <4>3. ASSUME job' = [job EXCEPT !["postprocess"] = NoJob]
            PROVE  job'["postprocess"].frame = 0
        BY <1>0, <4>3 DEF WorkType, NoJob
      <4> QED BY <2>0, <4>1, <4>2, <4>3
    <3>4. CASE TakeCompleted  BY <2>0, <3>4 DEF TakeCompleted, CanPop
    <3> QED BY <3>1, <3>2, <3>3, <3>4 DEF ThreadStep
  <2> QED BY <1>2, <2>0, <2>2, <2>3 DEF FusedAlone
<1> QED BY <1>1, <1>2

\* The main thread starts the camera once, before there are frames.
LEMMA FirstFrameStep ==
    ASSUME PcType, Fresh, NEW t \in Threads, ThreadStep(t)
    PROVE  ~Has(pc'["main"], {"start"})
<1> USE MainAndWorkers
<1>0. pc["main"] \in Seq(Steps)  BY DEF PcType
<1>1. \A s : Has(s, {"start"}) => Has(s, {"start", "spawn"})  BY DEF Has
<1>2. ~Has(<<"spawn">>, {"start"})  BY ShortLists
<1>3. CASE Has(pc["main"], {"start", "spawn"})
  <2>1. StartCamera \/ Spawns  BY <1>3, MainStarts
  <2>2. \/ pc'["main"] = <<"spawn">> \/ pc'["main"] = SignalFailure
        \/ pc'["main"] = <<"run">> \/ pc'["main"] = SignalFailure \o StopSteps
    BY <2>1, SpawnEffect DEF StartCamera, Loop, PcType
  <2> QED BY <1>1, <1>2, <2>2, MainLists
<1>4. CASE ~Has(pc["main"], {"start", "spawn"})
  <2>1. ~Has(pc["main"], {"start"})  BY <1>1, <1>4
  <2>2. CASE t # "main"  BY <2>1, <2>2, OthersWait, SpawnEffect, MainLists
  <2>3. CASE t = "main"
    <3>1. \/ pc'["main"] = pc["main"]
          \/ pc["main"] # <<>> /\ pc'["main"] = Tail(pc["main"])
          \/ pc'["main"] \in {<<"spawn">>, SignalFailure, StopSteps}
          \/ pc'["main"] = <<"run">> \/ pc'["main"] = SignalFailure \o StopSteps
      <4>1. Moves(t)  BY ThreadMoves
      <4> QED BY <2>3, <4>1, SpawnEffect DEF Moves, Proceeds, Restarts, Programs, PcType
    <3>2. pc["main"] # <<>> => ~Has(Tail(pc["main"]), {"start"})  BY <1>0, <2>1, TailHas
    <3> QED BY <1>1, <1>2, <2>1, <3>1, <3>2, MainLists
  <2> QED BY <2>2, <2>3
<1> QED BY <1>3, <1>4

\* Every step of a thread keeps the frames in line.
LEMMA LinedStep ==
    ASSUME Inv, OrderInv, NEW t \in Threads, ThreadStep(t)
    PROVE  Lined'
<1> USE MainAndWorkers
<1>0. /\ PcType /\ QueueType /\ WorkType /\ BrokerTypeOK /\ DispatchAt /\ Lined
      /\ published \in Seq(Nat) /\ FusedAlone
      /\ \A u \in Threads : pc[u] \in Seq(Steps)
  BY DEF Inv, BrokerInv, Base, Control, Types, HistoryType, OrderInv, PcType
<1>1. (t = "capture" /\ PublishFrame) \/ DispatchLeg' \subseteq DispatchLeg
  BY <1>0, DispatchLegStep
<1>2. CASE CallStep(t)
  <2>1. ~(t = "capture" /\ PublishFrame)  BY <1>2, CallNotLoop DEF CaptureLoop
  <2> QED BY <1>0, <1>1, <1>2, <2>1, CallsCarryNothing, QuietKeepsOrder
<1>3. CASE \/ t = "main" /\ Supervise
           \/ t = "video" /\ VideoLoop
           \/ t = "encoded" /\ EncodedPacketLoop
  <2>1. NoFrameCarried /\ (UNCHANGED nextFrame \/ StartCamera)
    BY <1>0, <1>3, OthersCarryNothing
  <2>2. StartCamera => UNCHANGED nextFrame
    <3> SUFFICES ASSUME StartCamera PROVE UNCHANGED nextFrame  OBVIOUS
    <3>1. pc["main"] # <<>> /\ Head(pc["main"]) = "start"  BY DEF StartCamera, At
    <3>2. Has(pc["main"], {"start"})  BY <1>0, <3>1, TailSteps DEF Has
    <3>3. nextFrame = 1  BY <3>2 DEF OrderInv, FirstFrame
    <3>4. nextFrame' = 1 \/ nextFrame' = nextFrame
      BY DEF StartCamera, CameraStart, CameraStartFails
    <3> QED BY <3>3, <3>4
  <2> QED BY <1>0, <1>1, <1>3, <2>1, <2>2, QuietKeepsOrder
<1>4. CASE \/ t = "preprocess" /\ PreprocessLoop
           \/ t = "npu" /\ (NpuLoop \/ PostprocessStep(t))
           \/ t = "postprocess" /\ (TakeCompleted \/ PostprocessStep(t))
  <2>1. /\ UNCHANGED nextFrame
        /\ \/ NoFrameCarried
           \/ TakeFrame \/ PushPrepared \/ TakePrepared \/ PushCompleted
           \/ TakeCompleted \/ PublishResult(t)
    BY <1>0, <1>4, StagesCarryNothing
  <2>2. DispatchLeg' \subseteq DispatchLeg  BY <1>1, <1>4
  <2>3. CASE NoFrameCarried  BY <1>0, <2>1, <2>2, <2>3, QuietKeepsOrder
  <2>4. CASE TakeFrame \/ TakePrepared \/ TakeCompleted
    BY <1>0, <2>2, <2>4, TakeKeepsOrder
  <2>5. CASE PushPrepared
    <3>1. pc["preprocess"] # <<>> /\ Head(pc["preprocess"]) \in PreprocessBusy
      BY <2>5 DEF PushPrepared, At, PreprocessBusy
    <3>2. job["preprocess"].frame # 0
      BY <1>0, <3>1, TailSteps DEF Has, OrderInv, StagesBusy
    <3> QED BY <1>0, <2>2, <2>5, <3>2, PushKeepsOrder
  <2>6. CASE PushCompleted
    <3>1. pc["npu"] # <<>> /\ Head(pc["npu"]) \in NpuBusy
      BY <2>6 DEF PushCompleted, At, NpuBusy
    <3>2. job["npu"].frame # 0  BY <1>0, <3>1, TailSteps DEF Has, OrderInv, StagesBusy
    <3> QED BY <1>0, <2>2, <2>6, <3>2, PushKeepsOrder
  <2>7. CASE PublishResult(t) /\ t \in {"npu", "postprocess"}
    <3>1. /\ pc[t] # <<>> /\ Head(pc[t]) \in PublishSteps /\ Head(pc[t]) \in NpuBusy
      BY <2>7 DEF PublishResult, At, PublishSteps, NpuBusy
    <3>2. Has(pc[t], PublishSteps) /\ Has(pc[t], NpuBusy)
      BY <1>0, <3>1, TailSteps DEF Has
    <3>3. job[t].frame # 0  BY <2>7, <3>2 DEF OrderInv, StagesBusy
    <3> QED BY <1>0, <2>2, <2>7, <3>3, PublishKeepsOrder
  <2>8. ~(t = "preprocess" /\ PublishResult(t)) \/ NoFrameCarried \/ TakeFrame \/ PushPrepared
    <3>1. t = "preprocess" /\ PreprocessLoop => Head(pc[t]) # "publish_result"
      BY DEF PreprocessLoop, TakeInputSlot, TakeFrame, NoMoreFrames, Preprocess,
         PushPrepared, DrainLeases, DrainStep, At
    <3> QED BY <1>4, <3>1 DEF PublishResult, At
  <2> QED BY <1>4, <2>1, <2>3, <2>4, <2>5, <2>6, <2>7, <2>8
<1>5. CASE t = "capture" /\ CaptureLoop
  <2>1. \/ NoFrameCarried /\ UNCHANGED nextFrame
        \/ (\E b \in Buffers : PollFrame(b)) \/ PublishFrame \/ PushCaptured
    BY <1>0, <1>5, CaptureCarriesNothing
  <2>2. CASE PublishFrame  BY <1>0, <2>2, DispatchLegStep, CaptureKeepsOrder
  <2>3. CASE ~PublishFrame /\ NoFrameCarried /\ UNCHANGED nextFrame
    BY <1>0, <1>1, <2>3, QuietKeepsOrder
  <2>4. CASE \E b \in Buffers : PollFrame(b)
    <3>1. ~PublishFrame  BY <2>4 DEF PollFrame, PublishFrame, At
    <3> QED BY <1>0, <1>1, <2>4, <3>1, CaptureKeepsOrder
  <2>5. CASE PushCaptured
    <3>1. DispatchLeg = {dispatch[1].key} /\ DispatchLeg' = {}
      BY <1>0, <1>5, <2>5, DispatchLegStep
    <3> QED BY <1>0, <2>5, <3>1, CapturedKeepsOrder
  <2> QED BY <2>1, <2>2, <2>3, <2>4, <2>5
<1> QED BY <1>2, <1>3, <1>4, <1>5 DEF ThreadStep

\* Every step keeps the order, and what it rests on.
LEMMA OrderInvStep ==
    ASSUME Inv, ResultInv, OrderInv, [PipelineNext]_vars
    PROVE  OrderInv'
<1> USE MainAndWorkers
<1>0. /\ PcType /\ QueueType /\ WorkType /\ Fresh /\ NpuAt
      /\ Lined /\ StagesBusy /\ FusedAlone /\ FirstFrame
  BY DEF Inv, Base, Control, Types, ResultInv, OrderInv
<1>1. ASSUME NEW t \in Threads, ThreadStep(t) PROVE OrderInv'
  <2>1. Lined'  BY <1>1, LinedStep
  <2>2. StagesBusy' /\ FusedAlone'  BY <1>0, <1>1, StagesBusyStep, FusedAloneStep
  <2>3. FirstFrame'  BY <1>0, <1>1, FirstFrameStep DEF FirstFrame
  <2> QED BY <2>1, <2>2, <2>3 DEF OrderInv
<1>2. CASE UNCHANGED vars \/ StopRequested
  <2>1. UNCHANGED <<queue, job, dispatch, hand, nextFrame, published>>
    BY <1>2 DEF StopRequested, vars, pipelineVars, work, history, brokerVars, handVars,
       cameraVars
  <2>2. \A u \in {"capture", "preprocess", "npu", "postprocess"} : pc'[u] = pc[u]
    BY <1>0, <1>2 DEF StopRequested, Loop, PcType, vars, pipelineVars
  <2>3. Lined'
    <3>1. DispatchLeg' = DispatchLeg  BY <2>1, <2>2 DEF DispatchLeg
    <3> QED BY <1>0, <2>1, <3>1, QuietKeepsOrder DEF NoFrameCarried, SamePublished, Shortened
  <2>4. StagesBusy' /\ FusedAlone'  BY <1>0, <2>1, <2>2 DEF StagesBusy, FusedAlone
  <2>5. FirstFrame'
    <3>1. pc'["main"] = pc["main"] \/ pc'["main"] = StopSteps
      BY <1>0, <1>2 DEF StopRequested, Loop, PcType, vars, pipelineVars
    <3>2. ~Has(StopSteps, {"start"})  BY DEF Has, StopSteps
    <3> QED BY <1>0, <2>1, <3>1, <3>2 DEF FirstFrame
  <2> QED BY <2>3, <2>4, <2>5 DEF OrderInv
<1> QED BY <1>1, <1>2 DEF PipelineNext, Terminated

\* It holds before StartCamera.
LEMMA OrderInit == PipelineInit => OrderInv
<1> SUFFICES ASSUME PipelineInit PROVE OrderInv  OBVIOUS
<1> USE MainAndWorkers
<1>1. /\ \A u \in {"capture", "preprocess", "npu", "postprocess"} :
             pc[u] = <<>> /\ job[u].frame = 0
      /\ \A q \in {"completed", "prepared", "captured"} : queue[q].items = <<>>
      /\ published = <<>> /\ hand = {} /\ nextFrame = 1
  BY DEF PipelineInit, BrokerInit, Queues, NoJob
<1>2. \A S : ~Has(<<>>, S)  BY ShortLists
<1>3. /\ PublishedLeg = {} /\ PostLeg = {} /\ CompletedLeg = {} /\ NpuLeg = {}
      /\ PreparedLeg = {} /\ PreprocessLeg = {} /\ CapturedLeg = {} /\ DispatchLeg = {}
      /\ HandLeg = {}
  BY <1>1, <1>2 DEF PublishedLeg, PostLeg, CompletedLeg, NpuLeg, PreparedLeg,
     PreprocessLeg, CapturedLeg, DispatchLeg, HandLeg, Some, FramesOf, KeysOf
<1>4. InOrder(OnLeg)
  <2>1. \A c \in Legs : c \in Int /\ (OnLeg[c] = {} \/ (c = 10 /\ OnLeg[c] = {1}))
    BY <1>1, <1>3, LegList
  <2>2. \A c, d \in Legs : c < d => OnLeg[c] = {}
    <3> SUFFICES ASSUME NEW c \in Legs, NEW d \in Legs, c < d PROVE OnLeg[c] = {}
      OBVIOUS
    <3>1. c # 10  BY DEF Legs
    <3> QED BY <2>1, <3>1
  <2> QED BY <2>1, <2>2 DEF InOrder
<1>5. Lined  BY <1>1, <1>4 DEF Lined, RisingFrames, RisingKeys, ResultsInOrder
<1>6. StagesBusy /\ FusedAlone /\ FirstFrame
  BY <1>1, <1>2 DEF StagesBusy, FusedAlone, FirstFrame
<1> QED BY <1>5, <1>6 DEF OrderInv

\* The results reach the sink in the order in which their frames were captured, however
\* many frames are dropped on the way, and none of them twice.
THEOREM ResultsComeInOrder == PipelineSpec => []ResultsInOrder
<1>1. OrderInv => ResultsInOrder  BY DEF OrderInv, Lined
<1>2. PipelineInit => OrderInv /\ ResultInv  BY OrderInit, ResultInit
<1>3. Inv /\ ResultInv /\ OrderInv /\ [PipelineNext]_vars => OrderInv' /\ ResultInv'
  BY OrderInvStep, ResultInvStep
<1> QED BY <1>1, <1>2, <1>3, PipelineInvariant, PTL DEF PipelineSpec

================================================================================
