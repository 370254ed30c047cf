----------------------------- MODULE PipelineProofs -----------------------------
(***************************************************************************)
(* Proofs about InferencePipeline, for any number of buffers and frames,     *)
(* any queue capacities, both topologies, with and without the video         *)
(* branch, and any failures.                                                 *)
(*                                                                          *)
(* What a thread has left to do is a list of steps.  The invariants say of   *)
(* these lists what they still contain (Has) and which steps come before     *)
(* which (Before); the lemmas of the first part say how that changes when a  *)
(* step is done, a call is inserted or a loop starts over.                   *)
(***************************************************************************)
EXTENDS InferencePipeline, CaptureBrokerProofs, SequenceTheorems

--------------------------------------------------------------------------------
(* Lists of steps                                                           *)

Steps == {"start", "spawn", "run", "join_stages", "join_encoded", "stop_camera",
          "fatal", "stop", "videoFailed", "close", "requestStop", "wake",
          "stop_captured", "stop_video", "stop_encoded", "stop_prepared",
          "stop_completed", "stop_freeIn", "stop_freeOut", "dispose",
          "check", "drain", "drain_until_closed", "capture", "poll", "publish",
          "requeue_direct", "after_direct", "push_captured", "push_video",
          "slot", "frame", "process", "push_prepared", "drain_captured",
          "return_input", "return_output", "prepared", "output", "push_completed",
          "post", "publish_result", "completed", "video", "encode",
          "push_encoded", "drain_video", "packet", "write"}

\* Some step of S is left; every step of S comes after one of T.
Has(s, S) == \E i \in DOMAIN s : s[i] \in S
Before(s, S, T) == \A i \in DOMAIN s : s[i] \in S => \E j \in 1..(i - 1) : s[j] \in T

\* What is left after the first step.
LEMMA TailSteps ==
    ASSUME NEW s \in Seq(Steps), s # <<>>
    PROVE  /\ Tail(s) \in Seq(Steps)
           /\ Len(Tail(s)) = Len(s) - 1 /\ Len(s) \in Nat \ {0}
           /\ DOMAIN s = 1..Len(s) /\ DOMAIN Tail(s) = 1..(Len(s) - 1)
           /\ \A i \in 1..(Len(s) - 1) : Tail(s)[i] = s[i + 1]
           /\ Head(s) = s[1] /\ s[1] \in Steps
  OBVIOUS

\* A step that is left, and is not the first, is still left after the first.
LEMMA TailHas ==
    ASSUME NEW s \in Seq(Steps), s # <<>>, NEW S
    PROVE  /\ Has(Tail(s), S) => Has(s, S)
           /\ Has(s, S) /\ Head(s) \notin S => Has(Tail(s), S)
<1>1. ASSUME Has(s, S), Head(s) \notin S
      PROVE  Has(Tail(s), S)
  <2>1. PICK i \in 1..Len(s) : s[i] \in S  BY <1>1, TailSteps DEF Has
  <2>2. i # 1  BY <1>1, <2>1, TailSteps
  <2>3. i - 1 \in 1..(Len(s) - 1) /\ Tail(s)[i - 1] = s[i]  BY <2>2, TailSteps
  <2> QED BY <2>1, <2>3, TailSteps DEF Has
<1>2. ASSUME NEW i \in 1..(Len(s) - 1), Tail(s)[i] \in S
      PROVE  Has(s, S)
  <2>1. i + 1 \in 1..Len(s) /\ s[i + 1] \in S  BY <1>2, TailSteps
  <2> QED BY <2>1, TailSteps DEF Has
<1> QED BY <1>1, <1>2, TailSteps DEF Has

\* The order of what is left does not change while no step of T is done.
LEMMA TailBefore ==
    ASSUME NEW s \in Seq(Steps), s # <<>>, NEW S, NEW T, Before(s, S, T)
    PROVE  /\ Head(s) \notin S
           /\ Head(s) \notin T => Before(Tail(s), S, T)
<1>1. \A i \in 1..Len(s) : s[i] \in S => \E j \in 1..(i - 1) : s[j] \in T
  BY TailSteps DEF Before
<1>2. Head(s) \notin S  BY <1>1, TailSteps
<1>3. ASSUME Head(s) \notin T, NEW i \in 1..(Len(s) - 1), Tail(s)[i] \in S
      PROVE  \E j \in 1..(i - 1) : Tail(s)[j] \in T
  <2>1. s[i + 1] \in S /\ i + 1 \in 1..Len(s)  BY <1>3, TailSteps
  <2>2. PICK j \in 1..i : s[j] \in T  BY <2>1, <1>1
  <2>3. j # 1  BY <1>3, <2>2, TailSteps
  <2>4. j - 1 \in 1..(i - 1) /\ Tail(s)[j - 1] = s[j]  BY <2>3, TailSteps
  <2> QED BY <2>2, <2>4
<1> QED BY <1>2, <1>3, TailSteps DEF Before

\* A call's steps in front of what is left.
LEMMA ConcatSteps ==
    ASSUME NEW a \in Seq(Steps), NEW b \in Seq(Steps)
    PROVE  /\ a \o b \in Seq(Steps) /\ Len(a \o b) = Len(a) + Len(b)
           /\ Len(a) \in Nat /\ Len(b) \in Nat
           /\ DOMAIN (a \o b) = 1..(Len(a) + Len(b))
           /\ DOMAIN a = 1..Len(a) /\ DOMAIN b = 1..Len(b)
           /\ \A i \in DOMAIN a : (a \o b)[i] = a[i]
           /\ \A i \in DOMAIN b : (a \o b)[Len(a) + i] = b[i]
  OBVIOUS

\* A step is among those of two lists put together when it is in one of them.
LEMMA ConcatHas ==
    ASSUME NEW a \in Seq(Steps), NEW b \in Seq(Steps), NEW S
    PROVE  Has(a \o b, S) <=> Has(a, S) \/ Has(b, S)
<1>1. ASSUME NEW i \in DOMAIN (a \o b), (a \o b)[i] \in S
      PROVE  Has(a, S) \/ Has(b, S)
  <2>1. CASE i \in DOMAIN a  BY <1>1, <2>1, ConcatSteps DEF Has
  <2>2. CASE i \notin DOMAIN a
    <3>1. i - Len(a) \in DOMAIN b /\ i = Len(a) + (i - Len(a))  BY <2>2, ConcatSteps
    <3>2. b[i - Len(a)] \in S  BY <1>1, <3>1, ConcatSteps
    <3> QED BY <3>1, <3>2 DEF Has
  <2> QED BY <2>1, <2>2
<1>2. ASSUME NEW i \in DOMAIN a, a[i] \in S
      PROVE  Has(a \o b, S)
  <2>1. i \in DOMAIN (a \o b) /\ (a \o b)[i] \in S  BY <1>2, ConcatSteps
  <2> QED BY <2>1 DEF Has
<1>3. ASSUME NEW i \in DOMAIN b, b[i] \in S
      PROVE  Has(a \o b, S)
  <2>1. Len(a) + i \in DOMAIN (a \o b) /\ (a \o b)[Len(a) + i] \in S
    BY <1>3, ConcatSteps
  <2> QED BY <2>1 DEF Has
<1> QED BY <1>1, <1>2, <1>3 DEF Has

\* The order asked of two lists is that of the two put together, when the first has what
\* the second would ask for.
LEMMA ConcatBefore ==
    ASSUME NEW a \in Seq(Steps), NEW b \in Seq(Steps), NEW S, NEW T,
           Before(a, S, T), Before(b, S, T) \/ Has(a, T)
    PROVE  Before(a \o b, S, T)
<1> SUFFICES ASSUME NEW i \in DOMAIN (a \o b), (a \o b)[i] \in S
             PROVE  \E j \in 1..(i - 1) : (a \o b)[j] \in T
  BY DEF Before
<1>1. CASE i \in DOMAIN a
  <2>1. PICK j \in 1..(i - 1) : a[j] \in T  BY <1>1, ConcatSteps DEF Before
  <2>2. j \in DOMAIN a  BY <1>1, ConcatSteps
  <2> QED BY <2>1, <2>2, ConcatSteps
<1>2. CASE i \notin DOMAIN a
  <2>1. i - Len(a) \in DOMAIN b /\ i = Len(a) + (i - Len(a)) /\ i \in Nat
    BY <1>2, ConcatSteps
  <2>2. b[i - Len(a)] \in S  BY <2>1, ConcatSteps
  <2>3. CASE Has(a, T)
    <3>1. PICK j \in DOMAIN a : a[j] \in T  BY <2>3 DEF Has
    <3>2. j \in 1..(i - 1)  BY <2>1, ConcatSteps
    <3> QED BY <3>1, <3>2, ConcatSteps
  <2>4. CASE Before(b, S, T)
    <3>1. PICK j \in 1..(i - Len(a) - 1) : b[j] \in T  BY <2>1, <2>2, <2>4 DEF Before
    <3>2. j \in DOMAIN b /\ Len(a) + j \in 1..(i - 1)  BY <2>1, ConcatSteps
    <3> QED BY <3>1, <3>2, ConcatSteps
  <2> QED BY <2>3, <2>4
<1> QED BY <1>1, <1>2

\* Nothing put in front of a list changes nothing: Proceed with no call to make.
LEMMA EmptyFirst == ASSUME NEW s \in Seq(Steps) PROVE <<>> \o s = s
  OBVIOUS

\* Where there is no step of S, no order is asked for.
LEMMA NothingBefore ==
    ASSUME NEW s \in Seq(Steps), NEW S, NEW T, ~Has(s, S)
    PROVE  Before(s, S, T)
  BY DEF Has, Before


\* The lists the code's calls and loops are made of.
LEMMA Lists == /\ CaptureExit \in Seq(Steps) /\ SignalFailure \in Seq(Steps)
               /\ StopSteps \in Seq(Steps) /\ NpuExit \in Seq(Steps)
               /\ PreprocessExit \in Seq(Steps) /\ SignalVideoFailure \in Seq(Steps)
<1>1. CaptureExit \in Seq(Steps)  BY DEF CaptureExit, Steps
<1>2. SignalFailure \in Seq(Steps)  BY DEF SignalFailure, Steps
<1>3. StopSteps \in Seq(Steps)  BY DEF StopSteps, Steps
<1>4. PreprocessExit \in Seq(Steps) /\ SignalVideoFailure \in Seq(Steps)
  BY DEF PreprocessExit, SignalVideoFailure, Steps
<1>5. <<"stop_completed">> \in Seq(Steps)  BY DEF Steps
<1>6. NpuExit \in Seq(Steps)  BY <1>5 DEF NpuExit
<1> QED BY <1>1, <1>2, <1>3, <1>4, <1>6

\* What a thread may start over with.
Programs == [
    main |-> {<<"spawn">>, SignalFailure, StopSteps},
    capture |->
        {CaptureExit, SignalFailure \o CaptureExit, <<"dispose">> \o CaptureExit,
         <<"drain", "capture">>, <<"drain", "check">>, <<"poll">>, <<"publish">>,
         <<"check">>, <<"requeue_direct">>, <<"after_direct">>, <<"push_captured">>,
         <<"push_video">>, <<"dispose">> \o <<"push_video">>,
         <<"dispose">> \o <<"check">>},
    preprocess |->
        {PreprocessExit, SignalFailure \o PreprocessExit,
         <<"return_input">> \o PreprocessExit, <<"slot">>, <<"frame">>, <<"process">>,
         <<"dispose", "return_input", "slot">>, <<"push_prepared">>,
         <<"return_input", "slot">>},
    npu |->
        {NpuExit, SignalFailure \o NpuExit, <<"return_input">> \o NpuExit,
         <<"return_output">> \o NpuExit, <<"return_output", "prepared">>,
         <<"prepared">>, <<"output">>, <<"run">>, <<"push_completed">>, <<"post">>,
         <<"publish_result">>},
    postprocess |-> {<<>>, <<"completed">>, <<"post">>, <<"publish_result">>},
    video |->
        {<<"drain_video">>, SignalVideoFailure \o <<"drain_video">>, <<"video">>,
         <<"dispose", "video">>, <<"encode">>, <<"push_encoded">>},
    encoded |-> {<<>>, SignalVideoFailure, <<"packet">>, <<"write">>}]

PcType == pc \in [Threads -> Seq(Steps)]

\* A step that is done; a loop that starts over; a call put in front.
Proceeds(t) ==
    pc[t] # <<>> /\ t \notin notifying /\ pc' = [pc EXCEPT ![t] = Tail(pc[t])]
Restarts(t) ==
    /\ pc[t] # <<>> /\ t \notin notifying
    /\ \E p \in Programs[t] : pc' = [pc EXCEPT ![t] = p]
DrainFails ==
    /\ Draining /\ Head(pc["capture"]) = "drain"
    /\ pc' = [pc EXCEPT !["capture"] = SignalFailure \o Tail(pc["capture"])]
DrainsLease(t, q) ==
    /\ At(t, DrainStep[q])
    /\ pc' = [pc EXCEPT ![t] = <<"dispose">> \o pc[t]]
Spawns == \E n \in 0..Len(SpawnOrder) : Spawn(n)

Moves(t) ==
    \/ pc' = pc
    \/ Proceeds(t)
    \/ Restarts(t)
    \/ t = "capture" /\ DrainFails
    \/ t = "preprocess" /\ DrainsLease(t, "captured")
    \/ t = "video" /\ DrainsLease(t, "video")
    \/ t = "main" /\ Spawns

\* The calls of bookkeeping and the joins go on with the next step.
LEMMA CallMoves ==
    ASSUME PcType, NEW t \in Threads, CallStep(t)
    PROVE  pc' = pc \/ Proceeds(t)
<1>1. pc[t] \in Seq(Steps) /\ (pc[t] # <<>> => Tail(pc[t]) \in Seq(Steps))
  BY DEF PcType
<1>2. pc[t] # <<>> => <<>> \o Tail(pc[t]) = Tail(pc[t])  BY <1>1, EmptyFirst
<1>3. ASSUME Proceed(t, <<>>), pc[t] # <<>>, t \notin notifying PROVE Proceeds(t)
  BY <1>1, <1>2, <1>3 DEF Proceed, Proceeds
<1> QED BY <1>3 DEF CallStep, SetFatal, SetStop, SetVideoFailed, CloseBroker,
        RequestCameraStop, StopQueue, NotifyCapture, Dispose, ReturnInput, ReturnOutput,
        At, pipelineVars

\* The steps of the capture loop that do not start it over.
LEMMA CaptureDrains ==
    ASSUME PcType, CaptureLoop
    PROVE  \/ Restarts("capture")
           \/ Draining /\ (DrainPop \/ DrainRequeued) /\ pc' = pc
           \/ DrainRequeueFailed /\ (DrainFails \/ (Draining /\ pc' = pc))
           \/ DrainEmpty
<1> DEFINE t == "capture"
<1>1. ASSUME NEW p \in Programs[t], Loop(t, p), pc[t] # <<>>, t \notin notifying
      PROVE  Restarts(t)
  BY <1>1 DEF Loop, Restarts
<1>2. CASE \/ CaptureCheck \/ CaptureStopped \/ PollWake \/ PollTimeout \/ PollThrows
           \/ (\E b \in Buffers : PollFrame(b))
           \/ (\E b \in Buffers, ok \in BOOLEAN : PollDropped(b, ok))
           \/ PublishFrame \/ PublishRefused \/ RequeueDirect \/ AfterDirect
           \/ PushCaptured \/ PushVideo
  BY <1>1, <1>2 DEF CaptureCheck, CaptureStopped, PollWake, PollTimeout, PollThrows,
     PollFrame, PollDropped, PublishFrame, PublishRefused, RequeueDirect, AfterDirect,
     PushCaptured, PushVideo, Disposing, Programs, At
<1>3. CASE DrainPop \/ DrainRequeued  BY <1>3 DEF DrainPop, DrainRequeued, pipelineVars
<1>4. CASE DrainRequeueFailed
  BY <1>4 DEF DrainRequeueFailed, Draining, At, DrainFails, Proceed
<1> QED BY <1>2, <1>3, <1>4 DEF CaptureLoop

\* Every step of the capture loop moves its own list of steps only, in one of the ways
\* of Moves.
LEMMA CaptureMoves ==
    ASSUME PcType, CaptureLoop
    PROVE  Moves("capture")
<1>1. pc["capture"] \in Seq(Steps)  BY PipelineThreads DEF PcType, Workers
<1>2. DrainEmpty => Proceeds("capture")
  BY <1>1, EmptyFirst, TailSteps DEF DrainEmpty, Proceed, Proceeds, At
<1> QED BY <1>2, CaptureDrains DEF Moves

\* What a thread's loop does with its list, for the other threads.
LEMMA LoopMoves ==
    ASSUME PcType, NEW t \in Threads,
           \/ t = "preprocess" /\ PreprocessLoop
           \/ t = "npu" /\ (NpuLoop \/ PostprocessStep(t))
           \/ t = "postprocess" /\ (TakeCompleted \/ PostprocessStep(t))
           \/ t = "video" /\ VideoLoop
           \/ t = "encoded" /\ EncodedPacketLoop
    PROVE  Moves(t)
<1>1. pc[t] \in Seq(Steps) /\ (pc[t] # <<>> => Tail(pc[t]) \in Seq(Steps))
  BY DEF PcType
<1>2. pc[t] # <<>> => <<>> \o Tail(pc[t]) = Tail(pc[t])  BY <1>1, EmptyFirst
<1>3. ASSUME Proceed(t, <<>>), pc[t] # <<>>, t \notin notifying PROVE Proceeds(t)
  BY <1>1, <1>2, <1>3 DEF Proceed, Proceeds
<1>4. ASSUME NEW p \in Programs[t], Loop(t, p), pc[t] # <<>>, t \notin notifying
      PROVE  Restarts(t)
  BY <1>4 DEF Loop, Restarts
<1>5. CASE t = "preprocess" /\ (TakeInputSlot \/ TakeFrame \/ NoMoreFrames \/ Preprocess
                               \/ PushPrepared)
  <2>1. Restarts(t)
    BY <1>5, <1>4 DEF TakeInputSlot, TakeFrame, NoMoreFrames, Preprocess, PushPrepared,
       Programs, At
  <2> QED BY <2>1 DEF Moves
<1>6. CASE t = "npu" /\ NpuLoop
  <2>1. Restarts(t)
    BY <1>6, <1>4 DEF NpuLoop, TakePrepared, TakeOutputSlot, Run, PushCompleted,
       Programs, At
  <2> QED BY <2>1 DEF Moves
<1>7. CASE (t = "npu" \/ t = "postprocess") /\ PostprocessStep(t)
  <2>1. NextRound(t) = IF t = "npu" THEN "prepared" ELSE "completed"  BY DEF NextRound
  <2>2. Restarts(t)
    BY <1>7, <2>1, <1>4 DEF PostprocessStep, Postprocess, PublishResult, Programs, At
  <2> QED BY <2>2 DEF Moves
<1>8. CASE t = "postprocess" /\ TakeCompleted
  <2>1. Restarts(t)  BY <1>8, <1>4 DEF TakeCompleted, Programs, At
  <2> QED BY <2>1 DEF Moves
<1>9. CASE t = "video" /\ (TakeVideoFrame \/ Encode \/ PushEncoded)
  <2>1. Restarts(t)  BY <1>9, <1>4 DEF TakeVideoFrame, Encode, PushEncoded, Programs, At
  <2> QED BY <2>1 DEF Moves
<1>10. CASE t = "encoded" /\ EncodedPacketLoop
  <2>1. Restarts(t)
    BY <1>10, <1>4 DEF EncodedPacketLoop, TakePacket, WritePacket, Programs, At
  <2> QED BY <2>1 DEF Moves
<1>11. CASE t = "preprocess" /\ DrainLeases("preprocess", "captured")
  BY <1>11, <1>3 DEF DrainLeases, At, Moves, DrainsLease
<1>12. CASE t = "video" /\ DrainLeases("video", "video")
  BY <1>12, <1>3 DEF DrainLeases, At, Moves, DrainsLease
<1> QED BY <1>5, <1>6, <1>7, <1>8, <1>9, <1>10, <1>11, <1>12 DEF PreprocessLoop, VideoLoop

\* So does every step of the thread that runs RuntimeApp and calls Stop.
LEMMA MainMoves ==
    ASSUME PcType, Supervise \/ StopRequested
    PROVE  Moves("main")
<1> DEFINE t == "main"
<1>0. t \in Threads  BY PipelineThreads
<1>1. pc[t] \in Seq(Steps) /\ (pc[t] # <<>> => Tail(pc[t]) \in Seq(Steps))
  BY <1>0 DEF PcType
<1>2. pc[t] # <<>> => <<>> \o Tail(pc[t]) = Tail(pc[t])  BY <1>1, EmptyFirst
<1>3. ASSUME Proceed(t, <<>>), pc[t] # <<>>, t \notin notifying PROVE Proceeds(t)
  BY <1>1, <1>2, <1>3 DEF Proceed, Proceeds
<1>4. ASSUME NEW p \in Programs[t], Loop(t, p), pc[t] # <<>>, t \notin notifying
      PROVE  Restarts(t)
  BY <1>4 DEF Loop, Restarts
<1>5. CASE StartCamera \/ StopRequested
  <2>1. Restarts(t)  BY <1>5, <1>4 DEF StartCamera, StopRequested, Programs, At
  <2> QED BY <2>1 DEF Moves
<1>6. CASE Join \/ StopCamera  BY <1>6, <1>3 DEF Join, StopCamera, At, Moves
<1> QED BY <1>5, <1>6 DEF Supervise, Moves, Spawns

\* Every step of the pipeline is one of these, by one thread.
LEMMA ThreadMoves ==
    ASSUME PcType, NEW t \in Threads, ThreadStep(t)
    PROVE  Moves(t)
  BY CallMoves, CaptureMoves, LoopMoves, MainMoves DEF ThreadStep, Moves

--------------------------------------------------------------------------------
(* Types                                                                    *)

\* What a thread starts over with is a list of steps.
LEMMA ProgramTypes == \A t \in Threads : \A p \in Programs[t] : p \in Seq(Steps)
<1> USE Lists
<1>1. \A p \in Programs["main"] : p \in Seq(Steps)
  <2>1. <<"spawn">> \in Seq(Steps)  BY DEF Steps
  <2> QED BY <2>1 DEF Programs
<1>2. \A p \in Programs["capture"] : p \in Seq(Steps)
  <2>1. /\ <<"dispose">> \in Seq(Steps) /\ <<"push_video">> \in Seq(Steps)
        /\ <<"check">> \in Seq(Steps)
    BY DEF Steps
  <2>2. /\ SignalFailure \o CaptureExit \in Seq(Steps)
        /\ <<"dispose">> \o CaptureExit \in Seq(Steps)
        /\ <<"dispose">> \o <<"push_video">> \in Seq(Steps)
        /\ <<"dispose">> \o <<"check">> \in Seq(Steps)
    BY <2>1, ConcatSteps
  <2>3. /\ <<"drain", "capture">> \in Seq(Steps) /\ <<"drain", "check">> \in Seq(Steps)
        /\ <<"poll">> \in Seq(Steps) /\ <<"publish">> \in Seq(Steps)
        /\ <<"requeue_direct">> \in Seq(Steps) /\ <<"after_direct">> \in Seq(Steps)
        /\ <<"push_captured">> \in Seq(Steps)
    BY DEF Steps
  <2> QED BY <2>1, <2>2, <2>3 DEF Programs
<1>3. \A p \in Programs["preprocess"] : p \in Seq(Steps)
  <2>1. <<"return_input">> \in Seq(Steps)  BY DEF Steps
  <2>2. /\ SignalFailure \o PreprocessExit \in Seq(Steps)
        /\ <<"return_input">> \o PreprocessExit \in Seq(Steps)
    BY <2>1, ConcatSteps
  <2>3. /\ <<"slot">> \in Seq(Steps) /\ <<"frame">> \in Seq(Steps)
        /\ <<"process">> \in Seq(Steps) /\ <<"push_prepared">> \in Seq(Steps)
        /\ <<"dispose", "return_input", "slot">> \in Seq(Steps)
        /\ <<"return_input", "slot">> \in Seq(Steps)
    BY DEF Steps
  <2> QED BY <2>2, <2>3 DEF Programs
<1>4. \A p \in Programs["npu"] : p \in Seq(Steps)
  <2>1. <<"return_input">> \in Seq(Steps) /\ <<"return_output">> \in Seq(Steps)
    BY DEF Steps
  <2>2. /\ SignalFailure \o NpuExit \in Seq(Steps)
        /\ <<"return_input">> \o NpuExit \in Seq(Steps)
        /\ <<"return_output">> \o NpuExit \in Seq(Steps)
    BY <2>1, ConcatSteps
  <2>3. /\ <<"return_output", "prepared">> \in Seq(Steps)
        /\ <<"prepared">> \in Seq(Steps) /\ <<"output">> \in Seq(Steps)
        /\ <<"run">> \in Seq(Steps) /\ <<"push_completed">> \in Seq(Steps)
        /\ <<"post">> \in Seq(Steps) /\ <<"publish_result">> \in Seq(Steps)
    BY DEF Steps
  <2> QED BY <2>2, <2>3 DEF Programs
<1>5. \A p \in Programs["postprocess"] : p \in Seq(Steps)
  <2>1. /\ <<>> \in Seq(Steps) /\ <<"completed">> \in Seq(Steps)
        /\ <<"post">> \in Seq(Steps) /\ <<"publish_result">> \in Seq(Steps)
    BY DEF Steps
  <2> QED BY <2>1 DEF Programs
<1>6. \A p \in Programs["video"] : p \in Seq(Steps)
  <2>1. <<"drain_video">> \in Seq(Steps)  BY DEF Steps
  <2>2. SignalVideoFailure \o <<"drain_video">> \in Seq(Steps)  BY <2>1, ConcatSteps
  <2>3. /\ <<"video">> \in Seq(Steps) /\ <<"dispose", "video">> \in Seq(Steps)
        /\ <<"encode">> \in Seq(Steps) /\ <<"push_encoded">> \in Seq(Steps)
    BY DEF Steps
  <2> QED BY <2>1, <2>2, <2>3 DEF Programs
<1>7. \A p \in Programs["encoded"] : p \in Seq(Steps)
  <2>1. <<>> \in Seq(Steps) /\ <<"packet">> \in Seq(Steps) /\ <<"write">> \in Seq(Steps)
    BY DEF Steps
  <2> QED BY <2>1 DEF Programs
<1> QED BY <1>1, <1>2, <1>3, <1>4, <1>5, <1>6, <1>7, PipelineThreads DEF Workers

\* What the created threads and the creating one start with.
LEMMA SpawnEffect ==
    ASSUME Spawns
    PROVE  /\ At("main", "spawn") /\ pc' \in [Threads -> Seq(Steps)]
           /\ \A t \in Workers : pc'[t] = <<>> \/ pc'[t] = <<FirstStep[t]>>
           /\ pc'["main"] = <<"run">> \/ pc'["main"] = SignalFailure \o StopSteps
           /\ pc'["main"] = <<"run">> \/ Happens("spawn")
           /\ UNCHANGED <<brokerVars, queue, flags, work, history>>
<1>1. PICK n \in 0..Len(SpawnOrder) : Spawn(n)  BY DEF Spawns
<1> DEFINE made == {SpawnOrder[i] : i \in 1..n}
           next(t) == IF t \in made THEN <<FirstStep[t]>>
                      ELSE IF t # "main" THEN <<>>
                      ELSE IF n = Len(SpawnOrder) THEN <<"run">>
                      ELSE SignalFailure \o StopSteps
<1>2. pc' = [t \in Threads |-> next(t)]  BY <1>1 DEF Spawn
<1>3. made \subseteq Workers
  <2>1. /\ n \in Nat /\ n <= Len(SpawnOrder)
        /\ \A i \in 1..Len(SpawnOrder) : SpawnOrder[i] \in Workers
    BY DEF SpawnOrder, Workers
  <2> QED BY <2>1
<1>4. \A t \in Workers : FirstStep[t] \in Steps  BY DEF FirstStep, Workers, Steps
<1>5. SignalFailure \o StopSteps \in Seq(Steps) /\ <<"run">> \in Seq(Steps)
  <2>1. "run" \in Steps  BY DEF Steps
  <2> QED BY <2>1, Lists, ConcatSteps
<1>6. "main" \notin Workers  BY DEF Workers
<1>7. \A t \in Threads : next(t) \in Seq(Steps)  BY <1>3, <1>4, <1>5
<1> QED BY <1>1, <1>2, <1>3, <1>6, <1>7, PipelineThreads DEF Spawn

\* A move keeps every list of steps a list of steps.
LEMMA PcStep ==
    ASSUME PcType, NEW t \in Threads, Moves(t)
    PROVE  PcType'
<1>1. CASE Proceeds(t)  BY <1>1, TailSteps DEF PcType, Proceeds
<1>2. CASE Restarts(t)  BY <1>2, ProgramTypes DEF PcType, Restarts
<1>3. CASE t = "capture" /\ DrainFails
  <2>1. SignalFailure \o Tail(pc[t]) \in Seq(Steps)
    BY <1>3, TailSteps, ConcatSteps, Lists DEF PcType, DrainFails, Draining, At
  <2> QED BY <1>3, <2>1 DEF PcType, DrainFails
<1>4. ASSUME NEW q \in Queues, DrainsLease(t, q) PROVE PcType'
  <2>1. "dispose" \in Steps  BY DEF Steps
  <2>2. <<"dispose">> \o pc[t] \in Seq(Steps)  BY <2>1, ConcatSteps DEF PcType
  <2> QED BY <1>4, <2>2 DEF PcType, DrainsLease
<1>5. CASE Spawns  BY <1>5, SpawnEffect DEF PcType
<1>6. {"captured", "video"} \subseteq Queues  BY DEF Queues
<1> QED BY <1>1, <1>2, <1>3, <1>4, <1>5, <1>6 DEF Moves, PcType

\* The queues and what each may hold.
Jobs == [frame : Nat, in : Nat, out : Nat]
AllItems == Leases \cup Jobs \cup Nat
ItemsOf == [captured |-> Leases, video |-> Leases, encoded |-> Nat, prepared |-> Jobs,
            completed |-> Jobs, freeIn |-> Nat, freeOut |-> Nat]
QueueType ==
    /\ queue \in [Queues -> [items : Seq(AllItems), stopped : BOOLEAN]]
    /\ \A q \in Queues : queue[q].items \in Seq(ItemsOf[q])

\* Only queue q has changed, and it is as stopped as it was.
OnlyItems(q) ==
    /\ \A r \in Queues : queue'[r].stopped = queue[r].stopped
    /\ \A r \in Queues \ {q} : queue'[r] = queue[r]

\* Whatever a queue may hold is an item.
LEMMA ItemTypes == \A q \in Queues : ItemsOf[q] \subseteq AllItems
  BY DEF Queues, ItemsOf, AllItems

\* One queue gets other items.
LEMMA NewItems ==
    ASSUME QueueType, NEW q \in Queues, NEW s \in Seq(ItemsOf[q]),
           queue' = [queue EXCEPT ![q].items = s]
    PROVE  QueueType' /\ OnlyItems(q) /\ queue'[q].items = s
<1>1. s \in Seq(AllItems)  BY ItemTypes, SeqMonotonic
<1> QED BY <1>1 DEF QueueType, OnlyItems

\* TryPop takes the oldest item off one queue, and stops none.
LEMMA PopEffect ==
    ASSUME QueueType, NEW q \in Queues, CanPop(q), Pop(q)
    PROVE  /\ QueueType' /\ OnlyItems(q)
           /\ queue'[q].items = Tail(queue[q].items)
           /\ Front(q) \in ItemsOf[q]
<1>1. /\ queue[q].items \in Seq(ItemsOf[q]) /\ queue[q].items # <<>>
      /\ Tail(queue[q].items) \in Seq(ItemsOf[q]) /\ Head(queue[q].items) \in ItemsOf[q]
  BY HeadTailProperties DEF QueueType, CanPop
<1>2. queue' = [queue EXCEPT ![q].items = Tail(queue[q].items)]  BY DEF Pop, QueueType
<1> QED BY <1>1, <1>2, NewItems DEF Front

\* TryPush appends the item unless the queue is stopped or full.
LEMMA TryPushEffect ==
    ASSUME QueueType, NEW q \in Queues, NEW item \in ItemsOf[q], TryPush(q, item)
    PROVE  /\ QueueType' /\ OnlyItems(q)
           /\ queue'[q].items = IF queue[q].stopped \/ Full(q) THEN queue[q].items
                                ELSE Append(queue[q].items, item)
<1>1. Append(queue[q].items, item) \in Seq(ItemsOf[q])
  BY AppendProperties DEF QueueType
<1>2. CASE queue[q].stopped \/ Full(q)  BY <1>2 DEF TryPush, QueueType, OnlyItems
<1>3. CASE ~(queue[q].stopped \/ Full(q))
  <2>1. queue' = [queue EXCEPT ![q].items = Append(queue[q].items, item)]
    BY <1>3 DEF TryPush, QueueType
  <2> QED BY <1>1, <1>3, <2>1, NewItems
<1> QED BY <1>2, <1>3

\* PushLatest makes room by dropping the oldest item, unless the queue is stopped.
LEMMA PushLatestEffect ==
    ASSUME QueueType, NEW q \in Queues, NEW item \in ItemsOf[q], PushLatest(q, item)
    PROVE  /\ QueueType' /\ OnlyItems(q)
           /\ queue'[q].items =
                IF queue[q].stopped THEN queue[q].items
                ELSE Append(IF Full(q) THEN Tail(queue[q].items) ELSE queue[q].items, item)
           /\ Full(q) => queue[q].items # <<>> /\ Front(q) \in ItemsOf[q]
<1> DEFINE rest == IF Full(q) THEN Tail(queue[q].items) ELSE queue[q].items
<1>1. Full(q) => queue[q].items # <<>> /\ Front(q) \in ItemsOf[q]
  <2>1. Capacity[q] \in Nat \ {0} /\ queue[q].items \in Seq(ItemsOf[q])
    BY CapacityPositive DEF QueueType
  <2> QED BY <2>1 DEF Full, Front
<1>2. Append(rest, item) \in Seq(ItemsOf[q])
  <2>1. rest \in Seq(ItemsOf[q])  BY <1>1, HeadTailProperties DEF QueueType
  <2> QED BY <2>1, AppendProperties
<1>3. CASE queue[q].stopped  BY <1>1, <1>3 DEF PushLatest, QueueType, OnlyItems
<1>4. CASE ~queue[q].stopped
  <2>1. queue' = [queue EXCEPT ![q].items = Append(rest, item)]
    BY <1>4 DEF PushLatest, QueueType
  <2> QED BY <1>1, <1>2, <1>4, <2>1, NewItems
<1> QED BY <1>3, <1>4

\* Stop keeps what is in the queue, and leaves the other queues alone.
LEMMA StopQueueEffect ==
    ASSUME QueueType, NEW q \in Queues,
           queue' = [queue EXCEPT ![q].stopped = TRUE]
    PROVE  /\ QueueType' /\ queue'[q].stopped
           /\ \A r \in Queues : queue'[r].items = queue[r].items
           /\ \A r \in Queues \ {q} : queue'[r] = queue[r]
  BY DEF QueueType

--------------------------------------------------------------------------------
(* Control                                                                  *)

\* A step of S can only be the last.
Last(s, S) == \A i \in DOMAIN s : s[i] \in S => i = Len(s)

\* A step that can only be the last stays so, and nothing is left once it is done.
LEMMA TailLast ==
    ASSUME NEW s \in Seq(Steps), s # <<>>, NEW S, Last(s, S)
    PROVE  Last(Tail(s), S) /\ (Head(s) \in S => s = <<Head(s)>> /\ Tail(s) = <<>>)
<1>1. ASSUME NEW i \in 1..(Len(s) - 1), Tail(s)[i] \in S
      PROVE  i = Len(s) - 1
  <2>1. i + 1 \in 1..Len(s) /\ s[i + 1] \in S  BY <1>1, TailSteps
  <2> QED BY <2>1, TailSteps DEF Last
<1>2. ASSUME Head(s) \in S PROVE s = <<Head(s)>> /\ Tail(s) = <<>>
  <2>1. 1 \in DOMAIN s /\ s[1] = Head(s) /\ s[1] \in S  BY <1>2, TailSteps
  <2>2. 1 = Len(s)  BY <2>1 DEF Last
  <2>3. s = <<Head(s)>>  BY <2>1, <2>2
  <2>4. Tail(s) = <<>>
    <3>1. Tail(s) \in Seq(Steps) /\ Len(Tail(s)) = 0  BY <2>2, TailSteps
    <3> QED BY <3>1, EmptySeq
  <2> QED BY <2>3, <2>4
<1> QED BY <1>1, <1>2, TailSteps DEF Last

\* Steps put in front of a list leave its last step the last.
LEMMA ConcatLast ==
    ASSUME NEW a \in Seq(Steps), NEW b \in Seq(Steps), NEW S, ~Has(a, S), Last(b, S)
    PROVE  Last(a \o b, S)
<1> SUFFICES ASSUME NEW i \in DOMAIN (a \o b), (a \o b)[i] \in S
             PROVE  i = Len(a) + Len(b)
  BY ConcatSteps DEF Last
<1>1. i \notin DOMAIN a  BY ConcatSteps DEF Has
<1>2. i - Len(a) \in DOMAIN b /\ i = Len(a) + (i - Len(a))  BY <1>1, ConcatSteps
<1>3. b[i - Len(a)] \in S  BY <1>2, ConcatSteps
<1> QED BY <1>2, <1>3, ConcatSteps DEF Last

\* Where there is no step of S, nothing is asked of the last.
LEMMA NothingLast == ASSUME NEW s \in Seq(Steps), NEW S, ~Has(s, S) PROVE Last(s, S)
  BY DEF Last, Has

\* The steps of the capture thread that are part of its loop or its last drain.
CaptureLive == {"check", "capture", "poll", "publish", "requeue_direct", "after_direct",
                "push_captured", "push_video", "drain_until_closed"}
Stages == Workers \ {"encoded"}

\* Before the threads are created nothing has happened.
Fresh == Has(pc["main"], {"start", "spawn"}) =>
    /\ pc["main"] \in {<<"start">>, <<"spawn">>}
    /\ \A t \in Workers : pc[t] = <<>>
    /\ ~fatal /\ ~stop /\ ~camStop /\ ~closed /\ \A q \in Queues : ~queue[q].stopped
    /\ inferred = {} /\ finished = {} /\ notifying = {} /\ frameCount = 0
    /\ published = <<>> /\ written = <<>>

\* Stop stops the camera last, and after the joins.
Joined ==
    /\ Last(pc["main"], {"stop_camera"})
    /\ Has(pc["main"], {"stop_camera"}) =>
        /\ Has(pc["main"], {"join_stages"}) \/ \A t \in Stages : Returned(t)
        /\ Has(pc["main"], {"join_encoded"}) \/ Returned("encoded")

Ended == camera = "released" => AllReturned

\* The frame and the request in the capture thread's hands, and the steps at
\* which it has them.
HandAt == hand # {} => pc["capture"] = <<"publish">>
ToQueueAt == toQueue # {} =>
    /\ pc["capture"] # <<>>
    /\ Head(pc["capture"]) \in {"drain", "drain_until_closed", "requeue_direct"}

\* While a frame is out, the capture thread has its last drain before it.
FramesCared ==
    /\ Last(pc["capture"], {"drain_until_closed"})
    /\ frameCount # 0 \/ hand # {} \/ toQueue # {} \/ Has(pc["capture"], {"drain"}) =>
           Has(pc["capture"], CaptureLive)

Control == PcType /\ Fresh /\ Joined /\ Ended /\ HandAt /\ ToQueueAt /\ FramesCared

\* Which threads there are: main and the workers it creates; all of them but the sink
\* thread are joined as stages.
LEMMA MainAndWorkers ==
    /\ Workers \subseteq Threads /\ "main" \in Threads /\ "main" \notin Workers
    /\ \A t \in Threads : t # "main" => t \in Workers
    /\ "capture" \in Workers /\ "encoded" \in Workers /\ Stages \subseteq Workers
    /\ {"capture", "preprocess", "npu", "postprocess", "video", "encoded"} \subseteq Threads
    /\ Workers = Stages \cup {"encoded"}
  BY PipelineThreads DEF Workers, Stages

\* The first steps of the calls that any thread may be in.
CallSteps == {"fatal", "stop", "videoFailed", "close", "requestStop", "wake",
              "stop_captured", "stop_video", "stop_encoded", "stop_prepared",
              "stop_completed", "stop_freeIn", "stop_freeOut", "dispose",
              "return_input", "return_output"}

\* A call is made by a thread that is at one, or that holds the notification of the
\* eventfd.
LEMMA CallHeads ==
    ASSUME NEW t \in Threads, CallStep(t)
    PROVE  \/ NotifyCapture(t) /\ t \in notifying /\ pc' = pc
           \/ t \notin notifying /\ pc[t] # <<>> /\ Head(pc[t]) \in CallSteps
<1>1. \A q \in Queues : StopStep[q] \in CallSteps  BY DEF Queues, StopStep, CallSteps
<1>2. CASE NotifyCapture(t)  BY <1>2 DEF NotifyCapture, Notify, pipelineVars
<1>3. CASE \E q \in Queues : StopQueue(t, q)  BY <1>1, <1>3 DEF StopQueue, At
<1>4. CASE \/ SetFatal(t) \/ SetStop(t) \/ SetVideoFailed(t) \/ CloseBroker(t)
           \/ RequestCameraStop(t) \/ Dispose(t) \/ ReturnInput(t) \/ ReturnOutput(t)
  BY <1>4 DEF SetFatal, SetStop, SetVideoFailed, CloseBroker, RequestCameraStop,
     Dispose, ReturnInput, ReturnOutput, At, CallSteps
<1> QED BY <1>2, <1>3, <1>4 DEF CallStep

\* A call is not the capture loop.
LEMMA CallNotLoop ==
    ASSUME CallStep("capture")
    PROVE  ~CaptureLoop
<1> SUFFICES ASSUME CaptureLoop PROVE FALSE  OBVIOUS
<1>1. /\ "capture" \notin notifying /\ pc["capture"] # <<>>
      /\ Head(pc["capture"]) \in CaptureLive \cup {"drain"}
  BY DEF CaptureLoop, CaptureCheck, DrainPop, DrainRequeued, DrainRequeueFailed,
     DrainEmpty, CaptureStopped, PollWake, PollTimeout, PollThrows, PollFrame,
     PollDropped, PublishFrame, PublishRefused, RequeueDirect, AfterDirect,
     PushCaptured, PushVideo, Draining, At, CaptureLive
<1> QED BY <1>1, CallHeads, MainAndWorkers DEF CallSteps, CaptureLive

\* Threads are created once, before anything has happened.
LEMMA SpawnFresh ==
    ASSUME PcType, Fresh, Spawns
    PROVE  /\ pc["main"] = <<"spawn">> /\ \A t \in Workers : pc[t] = <<>>
           /\ ~fatal /\ ~stop /\ ~camStop /\ ~closed
           /\ \A q \in Queues : ~queue[q].stopped
           /\ inferred = {} /\ finished = {} /\ notifying = {} /\ frameCount = 0
<1>1. pc["main"] # <<>> /\ Head(pc["main"]) = "spawn"  BY SpawnEffect DEF At
<1>2. CASE Has(pc["main"], {"start", "spawn"})  BY <1>1, <1>2 DEF Fresh
<1>3. CASE ~Has(pc["main"], {"start", "spawn"})
  <2>1. 1 \in DOMAIN pc["main"] /\ pc["main"][1] = "spawn"
    BY <1>1, TailSteps, MainAndWorkers DEF PcType
  <2> QED BY <1>3, <2>1 DEF Has
<1> QED BY <1>2, <1>3

\* Only a thread that has something left to do takes a step.
LEMMA Active ==
    ASSUME NEW t \in Threads, ThreadStep(t)
    PROVE  t \in notifying \/ pc[t] # <<>>
<1>1. CASE CallStep(t)
  BY <1>1 DEF CallStep, SetFatal, SetStop, SetVideoFailed, CloseBroker,
     RequestCameraStop, StopQueue, NotifyCapture, Notify, Dispose, ReturnInput,
     ReturnOutput, At
<1>2. CASE t = "main" /\ Supervise
  BY <1>2 DEF Supervise, StartCamera, Spawn, Join, StopCamera, At
<1>3. CASE t = "capture" /\ CaptureLoop
  BY <1>3 DEF CaptureLoop, CaptureCheck, DrainPop, DrainRequeued, DrainRequeueFailed,
     DrainEmpty, CaptureStopped, PollWake, PollTimeout, PollThrows, PollFrame,
     PollDropped, PublishFrame, PublishRefused, RequeueDirect, AfterDirect,
     PushCaptured, PushVideo, Draining, At
<1>4. CASE t = "preprocess" /\ PreprocessLoop
  BY <1>4 DEF PreprocessLoop, TakeInputSlot, TakeFrame, NoMoreFrames, Preprocess,
     PushPrepared, DrainLeases, At
<1>5. CASE (t = "npu" \/ t = "postprocess") /\ PostprocessStep(t)
  BY <1>5 DEF PostprocessStep, Postprocess, PublishResult, At
<1>6. CASE \/ t = "npu" /\ NpuLoop
           \/ t = "postprocess" /\ TakeCompleted
  BY <1>6 DEF NpuLoop, TakePrepared, TakeOutputSlot, Run, PushCompleted, TakeCompleted, At
<1>7. CASE t = "video" /\ VideoLoop
  BY <1>7 DEF VideoLoop, TakeVideoFrame, Encode, PushEncoded, DrainLeases, At
<1>8. CASE t = "encoded" /\ EncodedPacketLoop
  BY <1>8 DEF EncodedPacketLoop, TakePacket, WritePacket, At
<1> QED BY <1>1, <1>2, <1>3, <1>4, <1>5, <1>6, <1>7, <1>8 DEF ThreadStep

\* What a step of any thread but the capture loop leaves alone.
LEMMA OthersKeep ==
    ASSUME NEW t \in Threads, ThreadStep(t), ~(t = "capture" /\ CaptureLoop)
    PROVE  UNCHANGED <<hand, toQueue, frameCount>>
<1> USE DEF brokerVars, coreVars, handVars, pipelineVars
<1>1. CASE CallStep(t)
  BY <1>1 DEF CallStep, SetFatal, SetStop, SetVideoFailed, CloseBroker, Close,
     RequestStop, Wake, RequestCameraStop, StopQueue, NotifyCapture, Notify, Dispose,
     Release, CoreRelease, ReturnInput, ReturnOutput
<1>2. CASE t = "main" /\ Supervise
  BY <1>2 DEF Supervise, StartCamera, CameraStart, CameraStartFails, Spawn, Join,
     StopCamera, CameraStop
<1>3. CASE t = "preprocess" /\ PreprocessLoop
  BY <1>3 DEF PreprocessLoop, TakeInputSlot, TakeFrame, NoMoreFrames, Preprocess,
     PushPrepared, DrainLeases, Release, CoreRelease
<1>4. CASE (t = "npu" \/ t = "postprocess") /\ PostprocessStep(t)
  BY <1>4 DEF PostprocessStep, Postprocess, PublishResult
<1>5. CASE \/ t = "npu" /\ NpuLoop
           \/ t = "postprocess" /\ TakeCompleted
  BY <1>5 DEF NpuLoop, TakePrepared, TakeOutputSlot, Run, PushCompleted, TakeCompleted
<1>6. CASE t = "video" /\ VideoLoop
  BY <1>6 DEF VideoLoop, TakeVideoFrame, Encode, PushEncoded, DrainLeases, Release,
     CoreRelease
<1>7. CASE t = "encoded" /\ EncodedPacketLoop
  BY <1>7 DEF EncodedPacketLoop, TakePacket, WritePacket
<1> QED BY <1>1, <1>2, <1>3, <1>4, <1>5, <1>6, <1>7 DEF ThreadStep

\* Only the stepping thread can be between an unlock and its notification.
LEMMA NotifiersStep ==
    ASSUME NEW t \in Threads, ThreadStep(t)
    PROVE  notifying' \subseteq notifying \cup {t}
<1> USE DEF brokerVars, pipelineVars
<1>2. CASE CallStep(t)
  BY <1>2 DEF CallStep, SetFatal, SetStop, SetVideoFailed, CloseBroker, Close,
     RequestStop, Wake, RequestCameraStop, StopQueue, NotifyCapture, Notify, Dispose,
     Release, CoreRelease, ReturnInput, ReturnOutput
<1>3. CASE t = "main" /\ Supervise
  BY <1>3 DEF Supervise, StartCamera, CameraStart, CameraStartFails, Spawn, Join,
     StopCamera, CameraStop
<1>4. CASE t = "capture" /\ CaptureLoop
  BY <1>4 DEF CaptureLoop, CaptureCheck, DrainPop, DrainRequeued, DrainRequeueFailed,
     DrainEmpty, CaptureStopped, PollWake, PollTimeout, PollThrows, PollFrame,
     PollDropped, PublishFrame, PublishRefused, RequeueDirect, AfterDirect,
     PushCaptured, PushVideo, PopRequeue, RequeueDone, RequeueFails, CaptureWake,
     CaptureFrame, CaptureDropped, PublishAccepted, PublishRejected
<1>5. CASE t = "preprocess" /\ PreprocessLoop
  BY <1>5 DEF PreprocessLoop, TakeInputSlot, TakeFrame, NoMoreFrames, Preprocess,
     PushPrepared, DrainLeases, Release, CoreRelease
<1>6. CASE (t = "npu" \/ t = "postprocess") /\ PostprocessStep(t)
  BY <1>6 DEF PostprocessStep, Postprocess, PublishResult
<1>7. CASE \/ t = "npu" /\ NpuLoop
           \/ t = "postprocess" /\ TakeCompleted
  BY <1>7 DEF NpuLoop, TakePrepared, TakeOutputSlot, Run, PushCompleted, TakeCompleted
<1>8. CASE t = "video" /\ VideoLoop
  BY <1>8 DEF VideoLoop, TakeVideoFrame, Encode, PushEncoded, DrainLeases, Release,
     CoreRelease
<1>9. CASE t = "encoded" /\ EncodedPacketLoop
  BY <1>9 DEF EncodedPacketLoop, TakePacket, WritePacket
<1> QED BY <1>2, <1>3, <1>4, <1>5, <1>6, <1>7, <1>8, <1>9 DEF ThreadStep

\* The other threads keep their lists.
LEMMA OthersWait ==
    ASSUME PcType, NEW t \in Threads, ThreadStep(t), NEW u \in Threads, u # t
    PROVE  pc'[u] = pc[u] \/ (t = "main" /\ Spawns)
  BY ThreadMoves DEF Moves, Proceeds, Restarts, DrainFails, DrainsLease, PcType

\* A thread that has returned stays so, once the threads have been created.
LEMMA ReturnedStays ==
    ASSUME PcType, NEW t \in Threads, ThreadStep(t), ~(t = "main" /\ Spawns),
           NEW u \in Threads, Returned(u)
    PROVE  Returned(u)' /\ t # u
<1>1. t # u  BY Active DEF Returned
<1> QED BY <1>1, OthersWait, NotifiersStep DEF Returned

\* What a step of the main thread does to the lists of steps, by its first step.
LEMMA MainStarts ==
    ASSUME PcType, Fresh, Has(pc["main"], {"start", "spawn"}), NEW t \in Threads,
           ThreadStep(t)
    PROVE  t = "main" /\ (StartCamera \/ Spawns)
<1>1. t = "main"  BY Active, MainAndWorkers DEF Fresh
<1>2. t \notin notifying /\ Head(pc[t]) \in {"start", "spawn"}  BY <1>1 DEF Fresh
<1>3. ~CallStep(t)
  <2>1. \A q \in Queues : StopStep[q] \notin {"start", "spawn"}  BY DEF Queues, StopStep
  <2> QED BY <1>2, <2>1 DEF CallStep, SetFatal, SetStop, SetVideoFailed, CloseBroker,
        RequestCameraStop, StopQueue, NotifyCapture, Notify, Dispose, ReturnInput,
        ReturnOutput, At
<1>4. ~Join /\ ~StopCamera  BY <1>1, <1>2 DEF Join, StopCamera, At
<1> QED BY <1>1, <1>3, <1>4 DEF ThreadStep, Supervise, Spawns

\* The lists of the main thread: Stop's steps only, no second start.
LEMMA MainLists ==
    /\ \A p \in {SignalFailure, StopSteps, <<"run">>, SignalFailure \o StopSteps} :
           /\ ~Has(p, {"start", "spawn"}) /\ Last(p, {"stop_camera"})
           /\ Has(p, {"stop_camera"}) => Has(p, {"join_stages"}) /\ Has(p, {"join_encoded"})
    /\ Last(<<"spawn">>, {"stop_camera"}) /\ ~Has(<<"spawn">>, {"stop_camera"})
<1>1. ~Has(SignalFailure, {"start", "spawn"}) /\ ~Has(SignalFailure, {"stop_camera"})
  BY DEF Has, SignalFailure
<1>2. /\ ~Has(StopSteps, {"start", "spawn"}) /\ Last(StopSteps, {"stop_camera"})
      /\ Has(StopSteps, {"join_stages"}) /\ Has(StopSteps, {"join_encoded"})
  BY DEF Has, Last, StopSteps
<1>3. /\ Last(SignalFailure \o StopSteps, {"stop_camera"})
      /\ Last(SignalFailure, {"stop_camera"})
      /\ ~Has(SignalFailure \o StopSteps, {"start", "spawn"})
      /\ Has(SignalFailure \o StopSteps, {"join_stages"})
      /\ Has(SignalFailure \o StopSteps, {"join_encoded"})
  BY <1>1, <1>2, Lists, ConcatHas, ConcatLast, NothingLast
<1>4. /\ ~Has(<<"run">>, {"start", "spawn"}) /\ Last(<<"run">>, {"stop_camera"})
      /\ ~Has(<<"run">>, {"stop_camera"})
      /\ Last(<<"spawn">>, {"stop_camera"}) /\ ~Has(<<"spawn">>, {"stop_camera"})
  BY DEF Has, Last
<1> QED BY <1>1, <1>2, <1>3, <1>4

\* The threads are created in a state in which nothing has happened, and no step before
\* that changes it.
LEMMA FreshStep ==
    ASSUME PcType, QueueType, Fresh, NEW t \in Threads, ThreadStep(t)
    PROVE  Fresh'
<1> SUFFICES ASSUME Has(pc'["main"], {"start", "spawn"})
             PROVE  Fresh'
  BY DEF Fresh
<1>1. CASE Has(pc["main"], {"start", "spawn"})
  <2>1. t = "main" /\ (StartCamera \/ Spawns)  BY <1>1, MainStarts
  <2>2. ~Spawns  BY SpawnEffect, MainLists
  <2>3. StartCamera  BY <2>1, <2>2
  <2>4. /\ pc' = [pc EXCEPT !["main"] = <<"spawn">>]
           \/ pc' = [pc EXCEPT !["main"] = SignalFailure]
        /\ UNCHANGED <<fatal, stop, closed, inferred, finished, notifying, frameCount,
                       published, written>>
        /\ camStop' = FALSE
        /\ \A q \in Queues : queue'[q].stopped = queue[q].stopped
    <3>1. CameraStart \/ (\E Queued \in SUBSET Buffers : CameraStartFails(Queued))
      BY <2>3 DEF StartCamera
    <3>2. /\ UNCHANGED <<closed, notifying, frameCount>>
          /\ camStop' = FALSE
      BY <3>1 DEF CameraStart, CameraStartFails, coreVars
    <3>3. \A q \in Queues : queue'[q].stopped = queue[q].stopped
      BY <2>3 DEF StartCamera, StartQueues, QueueType
    <3> QED BY <2>3, <3>2, <3>3 DEF StartCamera, Loop, flags
  <2>5. pc["main"] \in {<<"start">>, <<"spawn">>}  BY <1>1 DEF Fresh
  <2>6. pc'["main"] # SignalFailure  BY MainLists
  <2>7. pc'["main"] = <<"spawn">> /\ \A u \in Workers : pc'[u] = pc[u]
    BY <2>4, <2>6, MainAndWorkers DEF PcType
  <2> QED BY <1>1, <2>4, <2>7 DEF Fresh
<1>2. CASE ~Has(pc["main"], {"start", "spawn"})
  <2>1. CASE t # "main"  BY <1>2, <2>1, OthersWait, MainAndWorkers
  <2>2. CASE t = "main"
    <3>1. pc["main"] \in Seq(Steps)  BY MainAndWorkers DEF PcType
    <3>2. ~Spawns  BY SpawnEffect, MainLists
    <3>3. ~Proceeds(t) /\ pc' # pc  BY <1>2, <2>2, <3>1, TailHas DEF Proceeds, PcType
    <3>4. ASSUME Restarts(t), pc'["main"] = <<"spawn">> PROVE FALSE
      <4>1. Supervise  BY <2>2, <3>3, CallMoves DEF ThreadStep
      <4>2. StartCamera
        BY <3>2, <3>3, <4>1, <2>2, EmptyFirst, <3>1, TailSteps
           DEF Supervise, Spawns, Join, StopCamera, Proceed, Proceeds, At
      <4> QED BY <1>2, <4>2, <3>1, TailSteps DEF StartCamera, At, Has
    <3>5. CASE Restarts(t)
      <4>1. pc'["main"] \in {<<"spawn">>, SignalFailure, StopSteps}
        BY <2>2, <3>5 DEF Restarts, PcType, Programs
      <4> QED BY <3>4, <3>5, <4>1, MainLists
    <3>6. Moves(t)  BY ThreadMoves
    <3> QED BY <1>2, <2>2, <3>2, <3>3, <3>5, <3>6 DEF Moves
  <2> QED BY <2>1, <2>2
<1> QED BY <1>1, <1>2

\* The joins wait for the threads they join.
LEMMA JoinGuard ==
    ASSUME ThreadStep("main"), Proceeds("main")
    PROVE  /\ Head(pc["main"]) = "join_stages" => \A t \in Stages : Returned(t)
           /\ Head(pc["main"]) = "join_encoded" => Returned("encoded")
<1>1. ASSUME Head(pc["main"]) \in {"join_stages", "join_encoded"} PROVE Join
  <2>1. \A q \in Queues : StopStep[q] \notin {"join_stages", "join_encoded"}
    BY DEF Queues, StopStep
  <2>2. ~CallStep("main")
    BY <1>1, <2>1 DEF CallStep, SetFatal, SetStop, SetVideoFailed, CloseBroker,
       Proceeds, RequestCameraStop, StopQueue, NotifyCapture, Notify, Dispose,
       ReturnInput, ReturnOutput, At
  <2>3. Supervise  BY <2>2 DEF ThreadStep
  <2> QED BY <1>1, <2>3 DEF Supervise, StartCamera, Spawn, StopCamera, At
<1> QED BY <1>1 DEF Join, At, Stages

\* Stop reaches the camera only when both joins are behind it.
LEMMA JoinedStep ==
    ASSUME PcType, Joined, NEW t \in Threads, ThreadStep(t)
    PROVE  Joined'
<1> USE MainAndWorkers
<1>1. CASE t = "main" /\ Spawns  BY <1>1, SpawnEffect, MainLists DEF Joined
<1>2. CASE ~(t = "main" /\ Spawns)
  <2>1. \A u \in Threads : Returned(u) => Returned(u)'  BY <1>2, ReturnedStays
  <2>2. CASE pc'["main"] = pc["main"]  BY <2>1, <2>2 DEF Joined
  <2>3. CASE t = "main" /\ Proceeds("main")
    <3>1. pc["main"] \in Seq(Steps) /\ pc["main"] # <<>> /\ pc'["main"] = Tail(pc["main"])
      BY <2>3 DEF PcType, Proceeds
    <3>2. Last(pc'["main"], {"stop_camera"})  BY <3>1, TailLast DEF Joined
    <3>3. Has(pc'["main"], {"stop_camera"}) => Has(pc["main"], {"stop_camera"})
      BY <3>1, TailHas
    <3>4. /\ Has(pc["main"], {"join_stages"}) =>
               Has(pc'["main"], {"join_stages"}) \/ \A u \in Stages : Returned(u)
          /\ Has(pc["main"], {"join_encoded"}) =>
               Has(pc'["main"], {"join_encoded"}) \/ Returned("encoded")
      BY <2>3, <3>1, JoinGuard, TailHas
    <3> QED BY <2>1, <3>2, <3>3, <3>4 DEF Joined
  <2>4. CASE t = "main" /\ Restarts("main")
    <3>1. pc'["main"] \in {<<"spawn">>, SignalFailure, StopSteps}
      BY <2>4 DEF Restarts, PcType, Programs
    <3> QED BY <3>1, MainLists DEF Joined
  <2>5. Moves(t)  BY ThreadMoves
  <2>6. t # "main" => pc'["main"] = pc["main"]  BY OthersWait
  <2>7. CASE t = "main"  BY <1>2, <2>2, <2>3, <2>4, <2>5, <2>7 DEF Moves
  <2> QED BY <2>2, <2>6, <2>7
<1> QED BY <1>1, <1>2

\* Only StopCamera releases the camera, and then everything has returned.
LEMMA CameraKept ==
    ASSUME NEW t \in Threads, ThreadStep(t), camera' = "released"
    PROVE  camera = "released" \/ (t = "main" /\ StopCamera)
<1> USE DEF brokerVars, cameraVars, pipelineVars
<1>1. CASE CallStep(t)
  BY <1>1 DEF CallStep, SetFatal, SetStop, SetVideoFailed, CloseBroker, Close,
     RequestStop, Wake, RequestCameraStop, StopQueue, NotifyCapture, Notify, Dispose,
     Release, ReturnInput, ReturnOutput
<1>2. CASE t = "main" /\ Supervise
  BY <1>2 DEF Supervise, StartCamera, CameraStart, CameraStartFails, Spawn, Join
<1>3. CASE t = "capture" /\ CaptureLoop
  BY <1>3 DEF CaptureLoop, CaptureCheck, DrainPop, DrainRequeued, DrainRequeueFailed,
     DrainEmpty, CaptureStopped, PollWake, PollTimeout, PollThrows, PollFrame,
     PollDropped, PublishFrame, PublishRefused, RequeueDirect, AfterDirect,
     PushCaptured, PushVideo, PopRequeue, RequeueDone, RequeueFails, CaptureWake,
     CaptureFrame, CaptureDropped, PublishAccepted, PublishRejected
<1>4. CASE t = "preprocess" /\ PreprocessLoop
  BY <1>4 DEF PreprocessLoop, TakeInputSlot, TakeFrame, NoMoreFrames, Preprocess,
     PushPrepared, DrainLeases, Release
<1>5. CASE (t = "npu" \/ t = "postprocess") /\ PostprocessStep(t)
  BY <1>5 DEF PostprocessStep, Postprocess, PublishResult
<1>6. CASE \/ t = "npu" /\ NpuLoop
           \/ t = "postprocess" /\ TakeCompleted
  BY <1>6 DEF NpuLoop, TakePrepared, TakeOutputSlot, Run, PushCompleted, TakeCompleted
<1>7. CASE t = "video" /\ VideoLoop
  BY <1>7 DEF VideoLoop, TakeVideoFrame, Encode, PushEncoded, DrainLeases, Release
<1>8. CASE t = "encoded" /\ EncodedPacketLoop
  BY <1>8 DEF EncodedPacketLoop, TakePacket, WritePacket
<1> QED BY <1>1, <1>2, <1>3, <1>4, <1>5, <1>6, <1>7, <1>8 DEF ThreadStep

\* At the last step of Stop every other thread has returned.
LEMMA AllJoined ==
    ASSUME PcType, Joined, At("main", "stop_camera")
    PROVE  pc["main"] = <<"stop_camera">> /\ \A t \in Threads \ {"main"} : Returned(t)
<1>1. pc["main"] \in Seq(Steps) /\ pc["main"] # <<>> /\ Head(pc["main"]) = "stop_camera"
  BY MainAndWorkers DEF PcType, At
<1>2. pc["main"] = <<"stop_camera">>  BY <1>1, TailLast DEF Joined
<1>3. Has(pc["main"], {"stop_camera"})  BY <1>2 DEF Has
<1>4. ~Has(pc["main"], {"join_stages"}) /\ ~Has(pc["main"], {"join_encoded"})
  BY <1>2 DEF Has
<1> QED BY <1>2, <1>3, <1>4, MainAndWorkers DEF Joined

\* The camera is released only once every thread has returned.
LEMMA EndedStep ==
    ASSUME PcType, Joined, Ended, NEW t \in Threads, ThreadStep(t)
    PROVE  Ended'
<1> SUFFICES ASSUME camera' = "released" PROVE AllReturned'  BY DEF Ended
<1>1. camera # "released"  BY Active DEF Ended, AllReturned, Returned
<1>2. t = "main" /\ StopCamera  BY <1>1, CameraKept
<1>3. pc["main"] = <<"stop_camera">> /\ \A u \in Threads \ {"main"} : Returned(u)
  BY <1>2, AllJoined DEF StopCamera
<1>4. pc' = [pc EXCEPT !["main"] = <<>>]
  <2>1. <<>> \o Tail(<<"stop_camera">>) = <<>>  OBVIOUS
  <2> QED BY <1>2, <1>3, <2>1 DEF StopCamera, Proceed
<1>5. notifying' = notifying /\ "main" \notin notifying
  BY <1>2 DEF StopCamera, CameraStop, At
<1> QED BY <1>3, <1>4, <1>5, MainAndWorkers DEF AllReturned, Returned, PcType

\* Whatever the capture thread starts over with is its loop or ends with its
\* last drain; a failure that is signalled is not a drain.
LEMMA CaptureLists ==
    /\ \A p \in Programs["capture"] :
           Has(p, CaptureLive) /\ Last(p, {"drain_until_closed"})
    /\ ~Has(SignalFailure, CaptureLive) /\ ~Has(SignalFailure, {"drain"})
    /\ ~Has(SignalFailure, {"drain_until_closed"})
<1>1. /\ ~Has(SignalFailure, CaptureLive) /\ ~Has(SignalFailure, {"drain"})
      /\ ~Has(SignalFailure, {"drain_until_closed"})
  BY DEF Has, SignalFailure, CaptureLive
<1>2. /\ Has(CaptureExit, {"drain_until_closed"})
      /\ Last(CaptureExit, {"drain_until_closed"})
  BY DEF Has, Last, CaptureExit
<1>3. Has(CaptureExit, CaptureLive)  BY <1>2 DEF Has, CaptureLive
<1>4. <<"dispose">> \in Seq(Steps) /\ ~Has(<<"dispose">>, {"drain_until_closed"})
  BY DEF Steps, Has
<1>5. \A p \in {<<"drain", "capture">>, <<"drain", "check">>, <<"poll">>, <<"publish">>,
                <<"check">>, <<"requeue_direct">>, <<"after_direct">>, <<"push_captured">>,
                <<"push_video">>} :
          Has(p, CaptureLive) /\ Last(p, {"drain_until_closed"})
  BY DEF Has, Last, CaptureLive
<1>6. \A p \in {<<"push_video">>, <<"check">>} :
          Has(<<"dispose">> \o p, CaptureLive)
              /\ Last(<<"dispose">> \o p, {"drain_until_closed"})
  <2>1. <<"push_video">> \in Seq(Steps) /\ <<"check">> \in Seq(Steps)  BY DEF Steps
  <2> QED BY <1>4, <1>5, <2>1, ConcatHas, ConcatLast
<1>7. \A a \in {SignalFailure, <<"dispose">>} :
          Has(a \o CaptureExit, CaptureLive) /\ Last(a \o CaptureExit, {"drain_until_closed"})
  BY <1>1, <1>2, <1>3, <1>4, Lists, ConcatHas, ConcatLast
<1> QED BY <1>1, <1>2, <1>3, <1>5, <1>6, <1>7 DEF Programs

\* While the frame is in hand nobody but the capture thread, which publishes it
\* or gives it back, changes that.
LEMMA HandStep ==
    ASSUME PcType, Fresh, HandAt, NEW t \in Threads, ThreadStep(t)
    PROVE  HandAt'
<1> USE MainAndWorkers DEF brokerVars, handVars, pipelineVars
<1>1. CASE t = "capture" /\ CaptureLoop
  <2>1. CASE \E b \in Buffers : PollFrame(b)
    BY <2>1 DEF PollFrame, Loop, HandAt, PcType
  <2>2. CASE PublishFrame \/ PublishRefused
    BY <2>2 DEF PublishFrame, PublishRefused, PublishAccepted, PublishRejected, HandAt
  <2>3. CASE \/ CaptureCheck \/ DrainPop \/ DrainRequeued \/ DrainRequeueFailed
             \/ DrainEmpty \/ CaptureStopped \/ PollWake \/ PollTimeout \/ PollThrows
             \/ (\E b \in Buffers, ok \in BOOLEAN : PollDropped(b, ok))
             \/ RequeueDirect \/ AfterDirect \/ PushCaptured \/ PushVideo
    <3>1. hand' = hand
      BY <2>3 DEF CaptureCheck, DrainPop, DrainRequeued, DrainRequeueFailed, DrainEmpty,
         CaptureStopped, PollWake, PollTimeout, PollThrows, PollDropped, RequeueDirect,
         AfterDirect, PushCaptured, PushVideo, PopRequeue, RequeueDone, RequeueFails,
         CaptureWake, CaptureDropped
    <3>2. pc["capture"] # <<>> /\ Head(pc["capture"]) # "publish"
      BY <2>3 DEF CaptureCheck, DrainPop, DrainRequeued, DrainRequeueFailed, DrainEmpty,
         CaptureStopped, PollWake, PollTimeout, PollThrows, PollDropped, RequeueDirect,
         AfterDirect, PushCaptured, PushVideo, Draining, At
    <3> QED BY <3>1, <3>2 DEF HandAt
  <2> QED BY <1>1, <2>1, <2>2, <2>3 DEF CaptureLoop
<1>2. CASE ~(t = "capture" /\ CaptureLoop)
  <2>1. hand' = hand  BY <1>2, OthersKeep
  <2>2. SUFFICES ASSUME pc["capture"] = <<"publish">>
                 PROVE  pc'["capture"] = pc["capture"]
    BY <2>1 DEF HandAt
  <2>3. CASE t = "capture"
    <3>1. CallStep(t)  BY <1>2, <2>3 DEF ThreadStep
    <3> QED BY <2>2, <2>3, <3>1, CallHeads DEF CallSteps
  <2>4. CASE t # "capture"  BY <2>2, <2>4, OthersWait, SpawnFresh
  <2> QED BY <2>3, <2>4
<1> QED BY <1>1, <1>2

\* The buffers to be requeued wait for one of the three steps that requeue them.
LEMMA ToQueueStep ==
    ASSUME PcType, Fresh, ToQueueAt, NEW t \in Threads, ThreadStep(t)
    PROVE  ToQueueAt'
<1> USE MainAndWorkers DEF brokerVars, handVars, pipelineVars
<1>1. CASE t = "capture" /\ CaptureLoop
  <2>1. CASE DrainPop  BY <2>1 DEF DrainPop, Draining, At, ToQueueAt
  <2>2. CASE PublishRefused
    <3>1. pc'["capture"] = <<"requeue_direct">>
      BY <2>2 DEF PublishRefused, Loop, PcType
    <3> QED BY <3>1 DEF ToQueueAt
  <2>3. CASE DrainRequeued \/ DrainRequeueFailed \/ RequeueDirect
    BY <2>3 DEF DrainRequeued, DrainRequeueFailed, RequeueDirect, RequeueDone,
       RequeueFails, ToQueueAt
  <2>4. CASE DrainEmpty  BY <2>4 DEF DrainEmpty, ToQueueAt
  <2>5. CASE \/ CaptureCheck \/ CaptureStopped \/ PollWake \/ PollTimeout \/ PollThrows
             \/ (\E b \in Buffers : PollFrame(b)) \/ PublishFrame
             \/ (\E b \in Buffers, ok \in BOOLEAN : PollDropped(b, ok))
             \/ AfterDirect \/ PushCaptured \/ PushVideo
    <3>1. toQueue' = toQueue
      BY <2>5 DEF CaptureCheck, CaptureStopped, PollWake, PollTimeout, PollThrows,
         PollDropped, PollFrame, PublishFrame, AfterDirect, PushCaptured, PushVideo,
         CaptureWake, CaptureFrame, CaptureDropped, PublishAccepted
    <3>2. /\ pc["capture"] # <<>>
          /\ Head(pc["capture"]) \notin {"drain", "drain_until_closed", "requeue_direct"}
      BY <2>5 DEF CaptureCheck, CaptureStopped, PollWake, PollTimeout, PollThrows,
         PollDropped, PollFrame, PublishFrame, AfterDirect, PushCaptured, PushVideo, At
    <3> QED BY <3>1, <3>2 DEF ToQueueAt
  <2> QED BY <1>1, <2>1, <2>2, <2>3, <2>4, <2>5 DEF CaptureLoop
<1>2. CASE ~(t = "capture" /\ CaptureLoop)
  <2>1. toQueue' = toQueue  BY <1>2, OthersKeep
  <2>2. SUFFICES ASSUME pc["capture"] # <<>>,
                        Head(pc["capture"]) \in {"drain", "drain_until_closed",
                                                 "requeue_direct"}
                 PROVE  pc'["capture"] = pc["capture"]
    BY <2>1 DEF ToQueueAt
  <2>3. CASE t = "capture"
    <3>1. CallStep(t)  BY <1>2, <2>3 DEF ThreadStep
    <3> QED BY <2>2, <2>3, <3>1, CallHeads DEF CallSteps
  <2>4. CASE t # "capture"  BY <2>2, <2>4, OthersWait, SpawnFresh
  <2> QED BY <2>3, <2>4
<1> QED BY <1>1, <1>2

\* As long as a frame is out, the capture thread has its last drain to do.
LEMMA FramesCaredStep ==
    ASSUME PcType, Fresh, HandAt, ToQueueAt, FramesCared, NEW t \in Threads, ThreadStep(t)
    PROVE  FramesCared'
<1> USE MainAndWorkers
<1> DEFINE s == pc["capture"]
           Due == frameCount # 0 \/ hand # {} \/ toQueue # {}
<1>0. s \in Seq(Steps) /\ Last(s, {"drain_until_closed"})  BY DEF PcType, FramesCared
<1>1. CASE t = "main" /\ Spawns
  <2>1. s = <<>> /\ frameCount = 0  BY <1>1, SpawnFresh
  <2>2. hand = {} /\ toQueue = {}  BY <2>1 DEF HandAt, ToQueueAt
  <2>3. UNCHANGED <<hand, toQueue, frameCount>>  BY <1>1, OthersKeep
  <2>4. s' = <<>> \/ s' = <<"check">>  BY <1>1, SpawnEffect DEF FirstStep
  <2>5. /\ Last(<<>>, {"drain_until_closed"}) /\ ~Has(<<>>, {"drain"})
        /\ Last(<<"check">>, {"drain_until_closed"}) /\ Has(<<"check">>, CaptureLive)
    BY DEF Last, Has, CaptureLive
  <2> QED BY <2>1, <2>2, <2>3, <2>4, <2>5 DEF FramesCared
<1>2. CASE t # "capture" /\ ~(t = "main" /\ Spawns)
  BY <1>2, OthersWait, OthersKeep DEF FramesCared
<1>3. CASE t = "capture" /\ Restarts(t)
  <2>1. \E p \in Programs["capture"] : s' = p  BY <1>3 DEF Restarts, PcType
  <2> QED BY <2>1, CaptureLists DEF FramesCared
<1>4. CASE t = "capture" /\ DrainFails
  <2>1. s # <<>> /\ Head(s) = "drain" /\ s' = SignalFailure \o Tail(s)
    BY <1>4 DEF DrainFails, Draining, At, PcType
  <2>2. Has(s, {"drain"})  BY <1>0, <2>1, TailSteps DEF Has
  <2>3. Has(Tail(s), CaptureLive)
    BY <1>0, <2>1, <2>2, TailHas DEF FramesCared, CaptureLive
  <2>4. Last(Tail(s), {"drain_until_closed"}) /\ Tail(s) \in Seq(Steps)
    BY <1>0, <2>1, TailLast, TailSteps
  <2>5. Has(SignalFailure \o Tail(s), CaptureLive)  BY <2>3, <2>4, Lists, ConcatHas
  <2>6. Last(SignalFailure \o Tail(s), {"drain_until_closed"})
    BY <2>4, CaptureLists, Lists, ConcatLast
  <2> QED BY <2>1, <2>5, <2>6 DEF FramesCared
<1>5. CASE t = "capture" /\ CallStep(t)
  <2>1. UNCHANGED <<hand, toQueue, frameCount>>
    <3>1. ~CaptureLoop  BY <1>5, CallNotLoop
    <3> QED BY <1>5, <3>1, OthersKeep
  <2>2. CASE s' = s  BY <2>1, <2>2 DEF FramesCared
  <2>3. CASE s # <<>> /\ s' = Tail(s) /\ Head(s) \in CallSteps
    <3>1. Last(s', {"drain_until_closed"})  BY <1>0, <2>3, TailLast
    <3>2. Has(s, CaptureLive) => Has(s', CaptureLive)
      BY <1>0, <2>3, TailHas DEF CallSteps, CaptureLive
    <3>3. Has(s', {"drain"}) => Has(s, {"drain"})  BY <1>0, <2>3, TailHas
    <3> QED BY <2>1, <3>1, <3>2, <3>3 DEF FramesCared
  <2> QED BY <1>5, <2>2, <2>3, CallHeads, CallMoves DEF Proceeds, PcType
<1>6. CASE t = "capture" /\ DrainEmpty
  <2>1. /\ s # <<>> /\ s' = Tail(s) /\ Head(s) \in {"drain", "drain_until_closed"}
        /\ UNCHANGED <<hand, toQueue, frameCount>>
    BY <1>0, <1>6, EmptyFirst, TailSteps
       DEF DrainEmpty, At, Proceed, PcType, brokerVars, coreVars, handVars
  <2>2. Last(s', {"drain_until_closed"})  BY <1>0, <2>1, TailLast
  <2>3. CASE Head(s) = "drain_until_closed"
    <3>1. s' = <<>>  BY <1>0, <2>1, <2>3, TailLast
    <3>2. frameCount = 0 /\ toQueue = {} /\ hand = {}
      BY <1>6, <2>1, <2>3 DEF DrainEmpty, At, HandAt
    <3>3. ~Has(<<>>, {"drain"})  BY DEF Has
    <3> QED BY <2>1, <2>2, <3>1, <3>2, <3>3 DEF FramesCared
  <2>4. CASE Head(s) = "drain"
    <3>1. Has(s, {"drain"})  BY <1>0, <2>1, <2>4, TailSteps DEF Has
    <3>2. Has(s', CaptureLive)
      BY <1>0, <2>1, <2>4, <3>1, TailHas DEF FramesCared, CaptureLive
    <3> QED BY <2>2, <3>2 DEF FramesCared
  <2> QED BY <2>1, <2>3, <2>4
<1>7. CASE t = "capture" /\ Draining /\ pc' = pc
  <2>1. Has(s, {"drain"}) \/ Has(s, CaptureLive)
    <3>1. s # <<>> /\ Head(s) \in {"drain", "drain_until_closed"}
      BY <1>7 DEF Draining, At
    <3> QED BY <1>0, <3>1, TailSteps DEF Has, CaptureLive
  <2> QED BY <1>7, <2>1 DEF FramesCared
<1>8. CASE t = "capture"
  BY <1>3, <1>4, <1>5, <1>6, <1>7, <1>8, CaptureDrains DEF ThreadStep
<1> QED BY <1>1, <1>2, <1>8

\* A request to stop, from the user or the control link, changes the list of main only.
LEMMA StopRequestedKeeps ==
    ASSUME Control, StopRequested
    PROVE  Control' /\ UNCHANGED brokerVars
<1> USE MainAndWorkers
<1>1. UNCHANGED <<brokerVars, queue, flags, work, faults, history>>
  BY DEF StopRequested
<1>2. pc["main"] # <<>> /\ pc' = [pc EXCEPT !["main"] = StopSteps]
  BY DEF StopRequested, Loop, At
<1>3. PcType'  BY <1>2, Lists DEF Control, PcType
<1>4. pc'["main"] = StopSteps /\ \A t \in Workers : pc'[t] = pc[t]
  BY <1>2 DEF Control, PcType
<1>5. Fresh' /\ Joined'  BY <1>4, MainLists DEF Fresh, Joined
<1>6. Ended'
  BY <1>1, <1>2 DEF Control, Ended, AllReturned, Returned, brokerVars, cameraVars
<1>7. HandAt' /\ ToQueueAt' /\ FramesCared'
  BY <1>1, <1>4 DEF Control, HandAt, ToQueueAt, FramesCared, brokerVars, handVars, coreVars
<1> QED BY <1>1, <1>3, <1>5, <1>6, <1>7 DEF Control

\* Every step of the pipeline keeps what is said about the lists of steps.
LEMMA ControlStep ==
    ASSUME Control, QueueType, [PipelineNext]_vars
    PROVE  Control'
<1>1. ASSUME NEW t \in Threads, ThreadStep(t) PROVE Control'
  <2> USE DEF Control
  <2>1. PcType'  BY <1>1, ThreadMoves, PcStep
  <2>2. Fresh'  BY <1>1, FreshStep
  <2>3. Joined'  BY <1>1, JoinedStep
  <2>4. Ended'  BY <1>1, EndedStep
  <2>5. HandAt'  BY <1>1, HandStep
  <2>6. ToQueueAt'  BY <1>1, ToQueueStep
  <2>7. FramesCared'  BY <1>1, FramesCaredStep
  <2> QED BY <2>1, <2>2, <2>3, <2>4, <2>5, <2>6, <2>7
<1>2. CASE UNCHANGED vars
  BY <1>2 DEF vars, pipelineVars, flags, work, history, brokerVars, cameraVars, coreVars,
     leaseVars, handVars, ghostVars, Control, PcType, Fresh, Joined, Ended, HandAt,
     ToQueueAt, FramesCared, AllReturned, Returned
<1> QED BY <1>1, <1>2, StopRequestedKeeps DEF PipelineNext, Terminated
--------------------------------------------------------------------------------
(* What the queues, the threads' jobs and the histories hold                *)

\* A step of S can only be the first.
First(s, S) == \A i \in DOMAIN s : s[i] \in S => i = 1

\* After the first step none of S is left.
LEMMA TailFirst ==
    ASSUME NEW s \in Seq(Steps), s # <<>>, NEW S, First(s, S)
    PROVE  ~Has(Tail(s), S)
<1> SUFFICES ASSUME NEW i \in 1..(Len(s) - 1), Tail(s)[i] \in S PROVE FALSE
  BY TailSteps DEF Has
<1>1. i + 1 \in 1..Len(s) /\ s[i + 1] \in S  BY TailSteps
<1> QED BY <1>1, TailSteps DEF First

\* Which steps a list of up to three contains.
LEMMA ShortLists ==
    /\ \A S : ~Has(<<>>, S) /\ First(<<>>, S) /\ Last(<<>>, S)
    /\ \A S, x : x \notin S => ~Has(<<x>>, S)
    /\ \A S, x, y : x \notin S /\ y \notin S => ~Has(<<x, y>>, S)
    /\ \A S, x, y, z : x \notin S /\ y \notin S /\ z \notin S => ~Has(<<x, y, z>>, S)
    /\ \A S, x : First(<<x>>, S) /\ Last(<<x>>, S)
    /\ \A S, x, y : y \notin S => First(<<x, y>>, S)
    /\ \A S, x, y, z : y \notin S /\ z \notin S => First(<<x, y, z>>, S)
<1>7. \A S : ~Has(<<>>, S) /\ First(<<>>, S) /\ Last(<<>>, S)  BY DEF Has, First, Last
<1>1. \A S, x : x \notin S => ~Has(<<x>>, S)  BY DEF Has
<1>2. \A S, x, y : x \notin S /\ y \notin S => ~Has(<<x, y>>, S)  BY DEF Has
<1>3. \A S, x, y, z : x \notin S /\ y \notin S /\ z \notin S => ~Has(<<x, y, z>>, S)
  BY DEF Has
<1>4. \A S, x : First(<<x>>, S) /\ Last(<<x>>, S)  BY DEF First, Last
<1>5. \A S, x, y : y \notin S => First(<<x, y>>, S)  BY DEF First
<1>6. \A S, x, y, z : y \notin S /\ z \notin S => First(<<x, y, z>>, S)  BY DEF First
<1> QED BY <1>1, <1>2, <1>3, <1>4, <1>5, <1>6, <1>7

\* One step in front of a list without steps of S.
LEMMA PutFirst ==
    ASSUME NEW x \in Steps, NEW s \in Seq(Steps), NEW S, ~Has(s, S)
    PROVE  <<x>> \o s \in Seq(Steps) /\ First(<<x>> \o s, S)
<1>1. <<x>> \in Seq(Steps) /\ Len(<<x>>) = 1  OBVIOUS
<1>2. ASSUME NEW i \in DOMAIN (<<x>> \o s), (<<x>> \o s)[i] \in S, i # 1 PROVE FALSE
  <2>1. i - 1 \in DOMAIN s /\ i = Len(<<x>>) + (i - 1)  BY <1>1, <1>2, ConcatSteps
  <2>2. s[i - 1] \in S  BY <1>1, <1>2, <2>1, ConcatSteps
  <2> QED BY <2>1, <2>2 DEF Has
<1> QED BY <1>1, <1>2, ConcatSteps DEF First

\* The leases about to be released, the job of a stage, the frame dispatched.
WorkType ==
    /\ disposing \in [Threads -> Seq(Leases)]
    /\ job \in [Threads -> Jobs]
    /\ dispatch \in Seq(Requests)
HistoryType ==
    /\ inferred \subseteq Nat /\ finished \subseteq Nat
    /\ published \in Seq(Nat) /\ packets \in Seq(Nat) /\ written \in Seq(Nat)
Types == QueueType /\ WorkType /\ HistoryType

\* The capture thread has a frame to dispatch where it dispatches one; a thread
\* that is about to release leases has some.
DispatchAt == Has(pc["capture"], {"push_captured", "push_video"}) => Len(dispatch) = 1
DisposeAt ==
    \A t \in Threads : /\ First(pc[t], {"dispose"})
                       /\ Has(pc[t], {"dispose"}) => disposing[t] # <<>>

\* The leases of a dequeued frame are leases.
LEMMA LeaseTypes ==
    ASSUME NEW r \in Requests, NEW c \in {"inference", "video"}
    PROVE  Lease(r, c) \in Leases
  BY PipelineConsumers DEF Requests, Leases, Lease

\* A job whose slot or frame is set is a job.
LEMMA JobTypes ==
    /\ NoJob \in Jobs
    /\ \A l \in Leases : l.key \in Nat
    /\ \A j \in Jobs, n \in Nat : /\ [j EXCEPT !.in = n] \in Jobs
                                  /\ [j EXCEPT !.out = n] \in Jobs
                                  /\ [j EXCEPT !.frame = n] \in Jobs
                                  /\ j.in \in Nat /\ j.out \in Nat /\ j.frame \in Nat
  BY DEF NoJob, Jobs, Leases, FrameIds

\* What each of the seven queues holds.
LEMMA QueueItems ==
    /\ ItemsOf["captured"] = Leases /\ ItemsOf["video"] = Leases
    /\ ItemsOf["prepared"] = Jobs /\ ItemsOf["completed"] = Jobs
    /\ ItemsOf["encoded"] = Nat /\ ItemsOf["freeIn"] = Nat /\ ItemsOf["freeOut"] = Nat
    /\ Queues = {"captured", "video", "encoded", "prepared", "completed", "freeIn",
                 "freeOut"}
  BY DEF ItemsOf, Queues

\* Lists of one item, and one more.
LEMMA OnlyItem ==
    ASSUME NEW S, NEW s \in Seq(S)
    PROVE  /\ Len(s) = 1 => s[1] \in S
           /\ \A x \in S : Append(s, x) \in Seq(S) /\ <<x>> \in Seq(S)
           /\ <<>> \in Seq(S)
  OBVIOUS

\* The list of free slots that a pool starts with is a list of numbers.
LEMMA SlotLists == \A n \in Nat : SlotList(n) \in Seq(Nat)
<1> SUFFICES ASSUME NEW n \in Nat PROVE SlotList(n) \in Seq(Nat)  OBVIOUS
<1>1. SlotList(n) \in [1..n -> Nat]  BY DEF SlotList
<1> QED BY <1>1

\* One field of a thread's job changes, or the job is over.
LEMMA JobStep ==
    ASSUME job \in [Threads -> Jobs], NEW u \in Threads, NEW n \in Nat,
           \/ job' = job
           \/ job' = [job EXCEPT ![u] = NoJob]
           \/ job' = [job EXCEPT ![u].in = n]
           \/ job' = [job EXCEPT ![u].out = n]
           \/ job' = [job EXCEPT ![u].frame = n]
    PROVE  job' \in [Threads -> Jobs]
<1>1. /\ NoJob \in Jobs /\ job[u] \in Jobs
      /\ [job[u] EXCEPT !.in = n] \in Jobs /\ [job[u] EXCEPT !.out = n] \in Jobs
      /\ [job[u] EXCEPT !.frame = n] \in Jobs
  BY DEF NoJob, Jobs
<1>2. \/ job' = job
      \/ job' = [job EXCEPT ![u] = NoJob]
      \/ job' = [job EXCEPT ![u] = [job[u] EXCEPT !.in = n]]
      \/ job' = [job EXCEPT ![u] = [job[u] EXCEPT !.out = n]]
      \/ job' = [job EXCEPT ![u] = [job[u] EXCEPT !.frame = n]]
  OBVIOUS
<1> QED BY <1>1, <1>2

\* A full queue has an item to make room with.
LEMMA QueueFronts ==
    ASSUME QueueType
    PROVE  \A q \in Queues : Full(q) => queue[q].items # <<>> /\ Front(q) \in ItemsOf[q]
<1> SUFFICES ASSUME NEW q \in Queues, Full(q)
             PROVE  queue[q].items # <<>> /\ Front(q) \in ItemsOf[q]
  OBVIOUS
<1>1. Capacity[q] \in Nat \ {0} /\ queue[q].items \in Seq(ItemsOf[q])
  BY CapacityPositive DEF QueueType
<1> QED BY <1>1 DEF Full, Front

\* The steps of calls keep the types.
LEMMA CallTypes ==
    ASSUME PcType, Types, DisposeAt, NEW t \in Threads, CallStep(t)
    PROVE  Types'
<1> USE DEF Types, HistoryType, history, pipelineVars, flags, work
<1>1. CASE SetFatal(t) \/ SetStop(t) \/ SetVideoFailed(t) \/ CloseBroker(t)
           \/ RequestCameraStop(t) \/ NotifyCapture(t)
  BY <1>1 DEF SetFatal, SetStop, SetVideoFailed, CloseBroker, RequestCameraStop,
     NotifyCapture, QueueType, WorkType
<1>2. ASSUME NEW q \in Queues, StopQueue(t, q) PROVE Types'
  <2>1. QueueType'  BY <1>2, StopQueueEffect DEF StopQueue
  <2> QED BY <1>2, <2>1 DEF StopQueue, WorkType
<1>3. CASE Dispose(t)
  <2>1. disposing[t] # <<>>
    <3>1. pc[t] \in Seq(Steps) /\ pc[t] # <<>> /\ Head(pc[t]) = "dispose"
      BY <1>3 DEF Dispose, At, PcType
    <3>2. Has(pc[t], {"dispose"})  BY <3>1, TailSteps DEF Has
    <3> QED BY <3>2 DEF DisposeAt
  <2>2. Tail(disposing[t]) \in Seq(Leases)  BY <2>1, HeadTailProperties DEF WorkType
  <2> QED BY <1>3, <2>2 DEF Dispose, WorkType, QueueType
<1>4. CASE ReturnInput(t) \/ ReturnOutput(t)
  <2>1. job[t].in \in Nat /\ job[t].out \in Nat  BY JobTypes DEF WorkType
  <2>2. QueueType'
    BY <1>4, <2>1, QueueItems, TryPushEffect DEF ReturnInput, ReturnOutput
  <2>3. [job[t] EXCEPT !.in = 0] \in Jobs /\ [job[t] EXCEPT !.out = 0] \in Jobs
    BY JobTypes DEF WorkType
  <2> QED BY <1>4, <2>2, <2>3 DEF ReturnInput, ReturnOutput, WorkType
<1> QED BY <1>1, <1>2, <1>3, <1>4 DEF CallStep

\* The steps of the capture loop keep the types.
LEMMA CaptureTypes ==
    ASSUME PcType, Types, DispatchAt, BrokerTypeOK, CaptureLoop
    PROVE  Types'
<1> USE DEF Types, HistoryType, history, pipelineVars, flags, work
<1>0. "capture" \in Threads  BY MainAndWorkers
<1>1. CASE \/ CaptureCheck \/ DrainPop \/ DrainRequeued \/ DrainRequeueFailed
           \/ DrainEmpty \/ CaptureStopped \/ PollWake \/ PollTimeout \/ PollThrows
           \/ (\E b \in Buffers : PollFrame(b))
           \/ (\E b \in Buffers, ok \in BOOLEAN : PollDropped(b, ok))
           \/ PublishRefused \/ RequeueDirect \/ AfterDirect
  BY <1>1 DEF CaptureCheck, DrainPop, DrainRequeued, DrainRequeueFailed, DrainEmpty,
     CaptureStopped, PollWake, PollTimeout, PollThrows, PollFrame, PollDropped,
     PublishRefused, RequeueDirect, AfterDirect, QueueType, WorkType
<1>2. CASE PublishFrame
  <2>1. dispatch' \in Seq(Requests)  BY <1>2 DEF PublishFrame, BrokerTypeOK
  <2> QED BY <1>2, <2>1 DEF PublishFrame, QueueType, WorkType
<1>3. CASE PushCaptured \/ PushVideo
  <2>1. /\ pc["capture"] \in Seq(Steps) /\ pc["capture"] # <<>>
        /\ Head(pc["capture"]) \in {"push_captured", "push_video"}
    BY <1>0, <1>3 DEF PushCaptured, PushVideo, At, PcType
  <2>2. Len(dispatch) = 1  BY <2>1, TailSteps DEF DispatchAt, Has
  <2>3. dispatch \in Seq(Requests) /\ dispatch[1] \in Requests
    <3>1. dispatch \in Seq(Requests)  BY DEF WorkType
    <3> QED BY <2>2, <3>1, OnlyItem
  <2> DEFINE own(c) == Lease(dispatch[1], c)
  <2>4. own("inference") \in Leases /\ own("video") \in Leases  BY <2>3, LeaseTypes
  <2>5. QueueType' /\ \A q \in {"captured", "video"} :
                          Full(q) => Front(q) \in Leases
    <3>1. CASE PushCaptured
      BY <3>1, <2>4, QueueItems, PushLatestEffect, QueueFronts DEF PushCaptured
    <3>2. CASE PushVideo
      BY <3>2, <2>4, QueueItems, PushLatestEffect, QueueFronts DEF PushVideo
    <3> QED BY <1>3, <3>1, <3>2
  <2>6. \A q \in {"captured", "video"}, c \in {"inference", "video"} :
            Evicted(q, own(c)) \in Seq(Leases)
    BY <2>4, <2>5 DEF Evicted
  <2>7. /\ <<own("inference")>> \o (IF EnableVideo THEN <<own("video")>> ELSE <<>>)
              \in Seq(Leases)
    BY <2>4
  <2>8. disposing' \in [Threads -> Seq(Leases)]
    BY <1>0, <1>3, <2>6, <2>7 DEF PushCaptured, PushVideo, Disposing, WorkType
  <2>9. dispatch' \in Seq(Requests) /\ job' = job
    <3>1. dispatch' = dispatch \/ dispatch' = <<>>  BY <1>3 DEF PushCaptured, PushVideo
    <3>2. job' = job  BY <1>3 DEF PushCaptured, PushVideo
    <3> QED BY <2>3, <3>1, <3>2, OnlyItem
  <2> QED BY <1>3, <2>5, <2>8, <2>9 DEF PushCaptured, PushVideo, WorkType
<1> QED BY <1>1, <1>2, <1>3 DEF CaptureLoop

\* The steps of the other threads keep the types.
LEMMA StageTypes ==
    ASSUME PcType, Types, NEW t \in Threads,
           \/ t = "main" /\ Supervise
           \/ t = "preprocess" /\ PreprocessLoop
           \/ t = "npu" /\ (NpuLoop \/ PostprocessStep(t))
           \/ t = "postprocess" /\ (TakeCompleted \/ PostprocessStep(t))
           \/ t = "video" /\ VideoLoop
           \/ t = "encoded" /\ EncodedPacketLoop
    PROVE  Types'
<1> USE DEF Types, HistoryType, history, pipelineVars, flags, work
<1>0. \A u \in Threads : job[u] \in Jobs /\ disposing[u] \in Seq(Leases)
  BY DEF WorkType
<1>24. \A u \in Threads : job[u].in \in Nat /\ job[u].out \in Nat /\ job[u].frame \in Nat
  BY JobTypes DEF WorkType
<1>25. job \in [Threads -> Jobs] /\ 0 \in Nat  BY DEF WorkType
<1>26. \A l \in Leases : l.key \in Nat  BY JobTypes
<1>1. ASSUME NEW l \in Leases PROVE <<l>> \in Seq(Leases)  OBVIOUS
<1>2. CASE StartCamera
  <2>1. QueueType'
    <3> DEFINE free(q) == SlotList(Capacity[q])
    <3>1. \A q \in Queues : free(q) \in Seq(Nat)  BY CapacityPositive, SlotLists
    <3>2. <<0>> \in Seq(Nat) /\ <<>> \in Seq(Nat) /\ Nat \subseteq AllItems
      BY DEF AllItems
    <3>3. \A q \in Queues : free(q) \in Seq(AllItems)  BY <3>1, <3>2, SeqMonotonic
    <3>4. <<0>> \in Seq(AllItems) /\ <<>> \in Seq(AllItems)  BY <3>2
    <3>5. StartQueues  BY <1>2 DEF StartCamera
    <3> HIDE DEF free
    <3>6. queue' \in [Queues -> [items : Seq(AllItems), stopped : BOOLEAN]]
      <4>1. queue' = [queue EXCEPT
                !["freeIn"].items = free("freeIn"),
                !["freeOut"].items = free("freeOut"),
                !["encoded"].items = IF EnableVideo THEN <<0>> ELSE <<>>]
        BY <3>5 DEF StartQueues, free
      <4>2. queue \in [Queues -> [items : Seq(AllItems), stopped : BOOLEAN]]
        BY DEF QueueType
      <4>3. {"freeIn", "freeOut", "encoded"} \subseteq Queues  BY DEF Queues
      <4>4. \A q \in Queues :
                queue'[q] = [items |-> IF q \in {"freeIn", "freeOut"} THEN free(q)
                                      ELSE IF q = "encoded"
                                           THEN IF EnableVideo THEN <<0>> ELSE <<>>
                                           ELSE queue[q].items,
                             stopped |-> queue[q].stopped]
        BY <4>1, <4>2, <4>3
      <4>5. queue' = [q \in Queues |-> queue'[q]]  BY <4>1, <4>2
      <4>6. \A q \in Queues : queue[q].items \in Seq(AllItems) /\ queue[q].stopped \in BOOLEAN
        BY <4>2
      <4>7. \A q \in Queues : queue'[q] \in [items : Seq(AllItems), stopped : BOOLEAN]
        <5> SUFFICES ASSUME NEW q \in Queues
                     PROVE  queue'[q] \in [items : Seq(AllItems), stopped : BOOLEAN]
          OBVIOUS
        <5> DEFINE list == IF q \in {"freeIn", "freeOut"} THEN free(q)
                           ELSE IF q = "encoded"
                                THEN IF EnableVideo THEN <<0>> ELSE <<>>
                                ELSE queue[q].items
        <5>1. list \in Seq(AllItems)  BY <3>3, <3>4, <4>6
        <5>2. queue'[q] = [items |-> list, stopped |-> queue[q].stopped]  BY <4>4
        <5> HIDE DEF list
        <5> QED BY <4>6, <5>1, <5>2
      <4> QED BY <4>5, <4>7
    <3>7. \A q \in Queues : queue'[q].items \in Seq(ItemsOf[q])
      <4>1. queue' = [queue EXCEPT
                !["freeIn"].items = free("freeIn"),
                !["freeOut"].items = free("freeOut"),
                !["encoded"].items = IF EnableVideo THEN <<0>> ELSE <<>>]
        BY <3>5 DEF StartQueues, free
      <4>2. \A q \in Queues \ {"freeIn", "freeOut", "encoded"} :
                queue'[q].items = queue[q].items
        BY <4>1 DEF QueueType
      <4>3. /\ queue'["freeIn"].items = free("freeIn")
            /\ queue'["freeOut"].items = free("freeOut")
            /\ queue'["encoded"].items = IF EnableVideo THEN <<0>> ELSE <<>>
        BY <4>1, QueueItems DEF QueueType
      <4> QED BY <3>1, <3>2, <4>2, <4>3, QueueItems DEF QueueType
    <3> QED BY <3>6, <3>7 DEF QueueType
  <2>2. packets' \in Seq(Nat)  BY <1>2 DEF StartCamera
  <2> QED BY <1>2, <2>1, <2>2 DEF StartCamera, WorkType
<1>3. CASE (\E n \in 0..Len(SpawnOrder) : Spawn(n)) \/ Join \/ StopCamera
  BY <1>3 DEF Spawn, Join, StopCamera, QueueType, WorkType
<1>4. CASE TakeInputSlot
  <2>1. CASE CanPop("freeIn") /\ Pop("freeIn")
                /\ job' = [job EXCEPT !["preprocess"] = [NoJob EXCEPT !.in = Front("freeIn")]]
    <3>1. QueueType' /\ Front("freeIn") \in Nat  BY <2>1, PopEffect, QueueItems
    <3>2. [NoJob EXCEPT !.in = Front("freeIn")] \in Jobs  BY <3>1, JobTypes
    <3>3. job' \in [Threads -> Jobs]  BY <1>25, <2>1, <3>2
    <3> QED BY <1>4, <3>1, <3>3 DEF TakeInputSlot, WorkType
  <2>2. CASE UNCHANGED <<queue, job>>
    BY <1>4, <2>2 DEF TakeInputSlot, QueueType, WorkType
  <2> QED BY <1>4, <2>1, <2>2 DEF TakeInputSlot
<1>5. CASE TakeFrame
  <2>1. QueueType' /\ Front("captured") \in Leases
    BY <1>5, PopEffect, QueueItems DEF TakeFrame
  <2>2. <<Front("captured")>> \in Seq(Leases) /\ Front("captured").key \in Nat
    BY <1>1, <1>26, <2>1
  <2>3. job' \in [Threads -> Jobs]
    BY <1>5, <1>25, <2>2, JobStep, MainAndWorkers DEF TakeFrame
  <2> QED BY <1>5, <2>1, <2>2, <2>3 DEF TakeFrame, WorkType
<1>6. CASE NoMoreFrames  BY <1>6 DEF NoMoreFrames, QueueType, WorkType
<1>7. CASE Preprocess
  <2>1. disposing' \in [Threads -> Seq(Leases)]
    BY <1>7, OnlyItem DEF Preprocess, WorkType
  <2>2. job' \in [Threads -> Jobs]
    <3>1. job' = job \/ job' = [job EXCEPT !["preprocess"] = NoJob]
      BY <1>7 DEF Preprocess
    <3> QED BY <1>24, <1>25, JobStep, <3>1, MainAndWorkers
  <2> QED BY <1>7, <2>1, <2>2 DEF Preprocess, QueueType, WorkType
<1>8. CASE PushPrepared
  <2>1. QueueType'
    BY <1>0, <1>8, MainAndWorkers, TryPushEffect, QueueItems DEF PushPrepared
  <2>2. job' \in [Threads -> Jobs]
    BY <1>24, <1>25, <1>8, JobStep, MainAndWorkers DEF PushPrepared
  <2> QED BY <1>8, <2>1, <2>2 DEF PushPrepared, WorkType
<1>9. ASSUME NEW q \in {"captured", "video"}, DrainLeases(t, q) PROVE Types'
  <2>1. CASE CanPop(q)
    <3>1. QueueType' /\ Front(q) \in Leases
      BY <1>9, <2>1, PopEffect, QueueItems DEF DrainLeases
    <3>2. <<Front(q)>> \in Seq(Leases)  BY <1>1, <1>26, <3>1
    <3> QED BY <1>9, <2>1, <3>1, <3>2 DEF DrainLeases, WorkType
  <2>2. CASE ~CanPop(q)  BY <1>9, <2>2 DEF DrainLeases, QueueType, WorkType
  <2> QED BY <2>1, <2>2
<1>10. ASSUME NEW q \in {"prepared", "completed"}, NEW u \in Threads, CanPop(q), Pop(q),
              job' = [job EXCEPT ![u] = Front(q)],
              UNCHANGED <<disposing, dispatch, history>>
       PROVE  Types'
  <2>1. QueueType' /\ Front(q) \in Jobs  BY <1>10, PopEffect, QueueItems
  <2> QED BY <1>10, <2>1 DEF WorkType
<1>11. CASE TakePrepared
  BY <1>10, <1>11, MainAndWorkers DEF TakePrepared, QueueType, WorkType
<1>12. CASE TakeCompleted
  BY <1>10, <1>12, MainAndWorkers DEF TakeCompleted, QueueType, WorkType
<1>13. CASE TakeOutputSlot
  <2>1. CASE CanPop("freeOut") /\ Pop("freeOut")
                /\ job' = [job EXCEPT !["npu"].out = Front("freeOut")]
    <3>1. QueueType' /\ Front("freeOut") \in Nat  BY <2>1, PopEffect, QueueItems
    <3>2. job' \in [Threads -> Jobs]  BY <1>25, <2>1, <3>1, JobStep, MainAndWorkers
    <3> QED BY <1>13, <3>1, <3>2 DEF TakeOutputSlot, WorkType
  <2>2. CASE UNCHANGED <<queue, job>>
    BY <1>13, <2>2 DEF TakeOutputSlot, QueueType, WorkType
  <2> QED BY <1>13, <2>1, <2>2 DEF TakeOutputSlot
<1>14. CASE Run
  <2>1. job["npu"].in \in Nat /\ job["npu"].frame \in Nat  BY <1>24, MainAndWorkers
  <2>2. QueueType'  BY <1>14, <2>1, TryPushEffect, QueueItems DEF Run, QueueType
  <2>3. job' \in [Threads -> Jobs]
    <3>1. \/ job' = [job EXCEPT !["npu"].in = 0]
          \/ job' = [job EXCEPT !["npu"] = NoJob]
      BY <1>14 DEF Run
    <3> QED BY <1>24, <1>25, JobStep, <3>1, MainAndWorkers
  <2> QED BY <1>14, <2>1, <2>2, <2>3 DEF Run, WorkType
<1>15. CASE PushCompleted
  <2>1. QueueType'
    BY <1>0, <1>15, MainAndWorkers, TryPushEffect, QueueItems DEF PushCompleted
  <2>2. job' \in [Threads -> Jobs]
    BY <1>24, <1>25, <1>15, JobStep, MainAndWorkers DEF PushCompleted
  <2> QED BY <1>15, <2>1, <2>2 DEF PushCompleted, WorkType
<1>16. CASE Postprocess(t)
  <2>1. job[t].out \in Nat /\ job[t].frame \in Nat  BY <1>24
  <2>2. QueueType'  BY <1>16, <2>1, TryPushEffect, QueueItems DEF Postprocess
  <2>3. job' \in [Threads -> Jobs]
    <3>1. job' = [job EXCEPT ![t].out = 0] \/ job' = [job EXCEPT ![t] = NoJob]
      BY <1>16 DEF Postprocess
    <3> QED BY <1>24, <1>25, JobStep, <3>1
  <2> QED BY <1>16, <2>1, <2>2, <2>3 DEF Postprocess, WorkType
<1>17. CASE PublishResult(t)
  <2>1. published' \in Seq(Nat)
    <3>1. published' = published \/ published' = Append(published, job[t].frame)
      BY <1>17 DEF PublishResult
    <3>2. published \in Seq(Nat)  OBVIOUS
    <3> HIDE DEF HistoryType
    <3> QED BY <1>24, <1>25, JobStep, <3>1, <3>2, OnlyItem
  <2>2. job' \in [Threads -> Jobs]
    BY <1>24, <1>25, <1>17, JobStep, MainAndWorkers DEF PublishResult
  <2> QED BY <1>17, <2>1, <2>2 DEF PublishResult, QueueType, WorkType
<1>18. CASE TakeVideoFrame
  <2>1. CASE CanPop("video") /\ Pop("video")
                /\ disposing' = [disposing EXCEPT !["video"] = <<Front("video")>>]
                /\ (\/ job' = job
                    \/ job' = [job EXCEPT !["video"].frame = Front("video").key])
    <3>1. QueueType' /\ Front("video") \in Leases  BY <2>1, PopEffect, QueueItems
    <3>2. <<Front("video")>> \in Seq(Leases) /\ Front("video").key \in Nat
      BY <1>1, <1>26, <3>1
    <3>3. job' \in [Threads -> Jobs]
      <4> QED BY <1>24, <1>25, JobStep, <2>1, <3>2, MainAndWorkers
    <3> QED BY <1>18, <2>1, <3>1, <3>2, <3>3 DEF TakeVideoFrame, WorkType
  <2>2. CASE UNCHANGED <<queue, job, disposing>>
    BY <1>18, <2>2 DEF TakeVideoFrame, QueueType, WorkType
  <2> QED BY <1>18, <2>1, <2>2 DEF TakeVideoFrame
<1>19. CASE Encode
  <2>1. disposing' \in [Threads -> Seq(Leases)]  BY <1>19, OnlyItem DEF Encode, WorkType
  <2>2. job' \in [Threads -> Jobs] /\ packets' \in Seq(Nat)
    <3>1. /\ job' = job \/ job' = [job EXCEPT !["video"] = NoJob]
          /\ packets' = packets \/ packets' = Append(packets, job["video"].frame)
      BY <1>19 DEF Encode
    <3>2. packets \in Seq(Nat)  OBVIOUS
    <3> HIDE DEF HistoryType
    <3>3. job' \in [Threads -> Jobs]  BY <1>25, <3>1, JobStep, MainAndWorkers
    <3>4. packets' \in Seq(Nat)
      <4>1. job["video"].frame \in Nat  BY <1>24, MainAndWorkers
      <4> HIDE DEF HistoryType
      <4> QED BY <3>1, <3>2, <4>1, OnlyItem
    <3> QED BY <3>3, <3>4
  <2> QED BY <1>19, <2>1, <2>2 DEF Encode, QueueType, WorkType
<1>20. CASE PushEncoded
  <2>1. QueueType'
    BY <1>24, <1>20, MainAndWorkers, TryPushEffect, QueueItems DEF PushEncoded
  <2>2. job' \in [Threads -> Jobs]
    BY <1>24, <1>25, <1>20, JobStep, MainAndWorkers DEF PushEncoded
  <2> QED BY <1>20, <2>1, <2>2 DEF PushEncoded, WorkType
<1>21. CASE TakePacket
  <2>1. CASE CanPop("encoded") /\ Pop("encoded")
                /\ job' = [job EXCEPT !["encoded"].frame = Front("encoded")]
    <3>1. QueueType' /\ Front("encoded") \in Nat  BY <2>1, PopEffect, QueueItems
    <3>2. job' \in [Threads -> Jobs]  BY <1>25, <2>1, <3>1, JobStep, MainAndWorkers
    <3> QED BY <1>21, <3>1, <3>2 DEF TakePacket, WorkType
  <2>2. CASE UNCHANGED <<queue, job>>
    BY <1>21, <2>2 DEF TakePacket, QueueType, WorkType
  <2> QED BY <1>21, <2>1, <2>2 DEF TakePacket
<1>22. CASE WritePacket
  <2>1. written' \in Seq(Nat)
    <3>1. written' = written \/ written' = Append(written, job["encoded"].frame)
      BY <1>22 DEF WritePacket
    <3>2. written \in Seq(Nat)  OBVIOUS
    <3> HIDE DEF HistoryType
    <3>3. job["encoded"].frame \in Nat  BY <1>24, MainAndWorkers
    <3> QED BY <3>1, <3>2, <3>3, OnlyItem
  <2>2. job' \in [Threads -> Jobs]
    BY <1>24, <1>25, <1>22, JobStep, MainAndWorkers DEF WritePacket
  <2> QED BY <1>22, <2>1, <2>2 DEF WritePacket, QueueType, WorkType
<1>23. CASE t = "npu" /\ NpuLoop  BY <1>11, <1>13, <1>14, <1>15, <1>23 DEF NpuLoop
<1> QED BY <1>2, <1>3, <1>4, <1>5, <1>6, <1>7, <1>8, <1>9, <1>12, <1>16, <1>17,
           <1>18, <1>19, <1>20, <1>21, <1>22, <1>23
    DEF Supervise, PreprocessLoop, PostprocessStep, VideoLoop, EncodedPacketLoop

\* Releasing leases: what the capture thread, the preprocess thread and the
\* video thread are about to release is there.
LEMMA DisposeLists ==
    /\ \A t \in Threads : \A p \in Programs[t] : First(p, {"dispose"})
    /\ \A t \in Workers : First(<<FirstStep[t]>>, {"dispose"})
    /\ First(<<>>, {"dispose"}) /\ First(<<"run">>, {"dispose"})
    /\ First(SignalFailure \o StopSteps, {"dispose"})
    /\ ~Has(CaptureExit, {"dispose"}) /\ ~Has(SignalFailure, {"dispose"})
    /\ ~Has(PreprocessExit, {"dispose"}) /\ ~Has(SignalVideoFailure, {"dispose"})
    /\ ~Has(NpuExit, {"dispose"}) /\ ~Has(StopSteps, {"dispose"})
    /\ ~Has(SignalFailure \o CaptureExit, {"dispose"})
    /\ ~Has(SignalFailure \o PreprocessExit, {"dispose"})
    /\ ~Has(SignalFailure \o NpuExit, {"dispose"})
    /\ ~Has(SignalFailure \o StopSteps, {"dispose"})
    /\ ~Has(SignalVideoFailure \o <<"drain_video">>, {"dispose"})
    /\ ~Has(<<"return_input">> \o PreprocessExit, {"dispose"})
    /\ ~Has(<<"return_input">> \o NpuExit, {"dispose"})
    /\ ~Has(<<"return_output">> \o NpuExit, {"dispose"})
<1> USE Lists
<1> DEFINE None(p) == ~Has(p, {"dispose"})
<1>1. None(CaptureExit) /\ None(SignalFailure) /\ None(PreprocessExit)
          /\ None(SignalVideoFailure) /\ None(StopSteps)
  BY DEF Has, CaptureExit, SignalFailure, PreprocessExit, SignalVideoFailure, StopSteps
<1>2. None(NpuExit)  BY DEF Has, NpuExit
<1>3. /\ <<"return_input">> \in Seq(Steps) /\ <<"return_output">> \in Seq(Steps)
      /\ <<"drain_video">> \in Seq(Steps)
  BY DEF Steps
<1>4. None(<<"return_input">>) /\ None(<<"return_output">>) /\ None(<<"drain_video">>)
  BY DEF Has
<1>5. /\ None(SignalFailure \o CaptureExit) /\ None(SignalFailure \o PreprocessExit)
      /\ None(SignalFailure \o NpuExit) /\ None(SignalFailure \o StopSteps)
      /\ None(SignalVideoFailure \o <<"drain_video">>)
      /\ None(<<"return_input">> \o PreprocessExit)
      /\ None(<<"return_input">> \o NpuExit) /\ None(<<"return_output">> \o NpuExit)
  BY <1>1, <1>2, <1>3, <1>4, ConcatHas
<1>6. \A p : None(p) => First(p, {"dispose"})  BY DEF Has, First
<1>7. None(<<>>) /\ None(<<"run">>) /\ \A t \in Workers : None(<<FirstStep[t]>>)
  <2>1. \A t \in Workers : FirstStep[t] # "dispose"  BY DEF Workers, FirstStep
  <2>2. None(<<>>)  BY DEF Has
  <2> QED BY <2>1, <2>2, ShortLists
<1>8. \A p \in {CaptureExit, <<"push_video">>, <<"check">>} :
          First(<<"dispose">> \o p, {"dispose"})
  <2>1. /\ <<"push_video">> \in Seq(Steps) /\ <<"check">> \in Seq(Steps)
        /\ "dispose" \in Steps
    BY DEF Steps
  <2>2. None(<<"push_video">>) /\ None(<<"check">>)  BY DEF Has
  <2> QED BY <1>1, <2>1, <2>2, PutFirst
<1>9. /\ First(<<"dispose", "return_input", "slot">>, {"dispose"})
      /\ First(<<"dispose", "video">>, {"dispose"})
  BY ShortLists
<1> HIDE DEF None
<1>10. \A p \in Programs["capture"] : First(p, {"dispose"})
  <2>1. \A p \in {<<"drain", "capture">>, <<"drain", "check">>} : First(p, {"dispose"})
    BY ShortLists
  <2>2. \A p \in {<<"poll">>, <<"publish">>, <<"check">>, <<"requeue_direct">>,
                   <<"after_direct">>, <<"push_captured">>, <<"push_video">>} :
            First(p, {"dispose"})
    BY ShortLists
  <2> QED BY <1>1, <1>5, <1>6, <1>8, <2>1, <2>2 DEF Programs
<1>11. \A p \in Programs["preprocess"] : First(p, {"dispose"})
  <2>1. \A p \in {<<"slot">>, <<"frame">>, <<"process">>, <<"push_prepared">>,
                   <<"return_input", "slot">>} : First(p, {"dispose"})
    BY ShortLists
  <2> QED BY <1>1, <1>5, <1>6, <1>9, <2>1 DEF Programs
<1>12. \A p \in Programs["npu"] : First(p, {"dispose"})
  <2>1. \A p \in {<<"return_output", "prepared">>, <<"prepared">>, <<"output">>,
                   <<"run">>, <<"push_completed">>, <<"post">>, <<"publish_result">>} :
            First(p, {"dispose"})
    BY ShortLists
  <2> QED BY <1>2, <1>5, <1>6, <2>1 DEF Programs
<1>13. \A p \in Programs["video"] : First(p, {"dispose"})
  <2>1. \A p \in {<<"drain_video">>, <<"video">>, <<"encode">>, <<"push_encoded">>} :
            First(p, {"dispose"})
    BY ShortLists
  <2> QED BY <1>5, <1>6, <1>9, <2>1 DEF Programs
<1>14. \A t \in {"main", "postprocess", "encoded"} :
          \A p \in Programs[t] : First(p, {"dispose"})
  <2>1. \A p \in {<<"spawn">>, <<>>, <<"completed">>, <<"post">>, <<"publish_result">>,
                   <<"packet">>, <<"write">>} : First(p, {"dispose"})
    BY ShortLists
  <2>2. \A p \in Programs["main"] : First(p, {"dispose"})
    BY <1>1, <1>6, <2>1 DEF Programs
  <2>3. \A p \in Programs["postprocess"] : First(p, {"dispose"})  BY <2>1 DEF Programs
  <2>4. \A p \in Programs["encoded"] : First(p, {"dispose"})
    BY <1>1, <1>6, <2>1 DEF Programs
  <2> QED BY <2>2, <2>3, <2>4
<1>15. \A t \in Threads : \A p \in Programs[t] : First(p, {"dispose"})
  BY <1>10, <1>11, <1>12, <1>13, <1>14, PipelineThreads DEF Workers
<1> QED BY <1>1, <1>2, <1>5, <1>6, <1>7, <1>15 DEF None

\* Nothing is put in front of a release.
LEMMA FirstKept ==
    ASSUME PcType, NEW t \in Threads, Moves(t),
           \A u \in Threads : First(pc[u], {"dispose"})
    PROVE  \A u \in Threads : First(pc'[u], {"dispose"})
<1> USE DEF PcType
<1>1. CASE Proceeds(t)
  <2>1. ~Has(Tail(pc[t]), {"dispose"})  BY <1>1, TailFirst DEF Proceeds
  <2>2. First(Tail(pc[t]), {"dispose"})  BY <2>1 DEF Has, First
  <2> QED BY <1>1, <2>2 DEF Proceeds
<1>2. CASE Restarts(t)  BY <1>2, DisposeLists DEF Restarts
<1>3. CASE t = "capture" /\ DrainFails
  <2>1. pc[t] # <<>> /\ pc' = [pc EXCEPT ![t] = SignalFailure \o Tail(pc[t])]
    BY <1>3 DEF DrainFails, Draining, At
  <2>2. ~Has(Tail(pc[t]), {"dispose"}) /\ Tail(pc[t]) \in Seq(Steps)
    BY <2>1, TailFirst, TailSteps
  <2>3. ~Has(SignalFailure \o Tail(pc[t]), {"dispose"})
    <3>1. SignalFailure \in Seq(Steps) /\ ~Has(SignalFailure, {"dispose"})
      BY Lists, DisposeLists
    <3> QED BY <2>2, <3>1, ConcatHas
  <2>4. First(SignalFailure \o Tail(pc[t]), {"dispose"})  BY <2>3 DEF Has, First
  <2> QED BY <2>1, <2>4
<1>4. ASSUME NEW q \in {"captured", "video"}, DrainsLease(t, q)
      PROVE  \A u \in Threads : First(pc'[u], {"dispose"})
  <2>1. /\ pc[t] # <<>> /\ Head(pc[t]) # "dispose"
        /\ pc' = [pc EXCEPT ![t] = <<"dispose">> \o pc[t]]
    BY <1>4 DEF DrainsLease, At, DrainStep
  <2>2. ~Has(Tail(pc[t]), {"dispose"})  BY <2>1, TailFirst
  <2>3. ~Has(pc[t], {"dispose"}) /\ "dispose" \in Steps
    BY <2>1, <2>2, TailHas DEF Steps
  <2>4. First(<<"dispose">> \o pc[t], {"dispose"})  BY <2>3, PutFirst
  <2> QED BY <2>1, <2>4
<1>5. CASE Spawns  BY <1>5, SpawnEffect, MainAndWorkers, DisposeLists
<1> QED BY <1>1, <1>2, <1>3, <1>4, <1>5 DEF Moves

\* A thread touches no other thread's leases.
LEMMA DisposingOwn ==
    ASSUME WorkType, NEW t \in Threads, ThreadStep(t), NEW u \in Threads, u # t
    PROVE  disposing'[u] = disposing[u]
<1> USE DEF pipelineVars, work, WorkType
<1>1. CASE CallStep(t)
  BY <1>1 DEF CallStep, SetFatal, SetStop, SetVideoFailed, CloseBroker,
     RequestCameraStop, StopQueue, NotifyCapture, Dispose, ReturnInput, ReturnOutput
<1>2. CASE t = "main" /\ Supervise
  BY <1>2 DEF Supervise, StartCamera, Spawn, Join, StopCamera
<1>3. CASE t = "capture" /\ CaptureLoop
  BY <1>3 DEF CaptureLoop, CaptureCheck, DrainPop, DrainRequeued, DrainRequeueFailed,
     DrainEmpty, CaptureStopped, PollWake, PollTimeout, PollThrows, PollFrame,
     PollDropped, PublishFrame, PublishRefused, RequeueDirect, AfterDirect,
     PushCaptured, PushVideo, Disposing
<1>4. CASE t = "preprocess" /\ PreprocessLoop
  BY <1>4 DEF PreprocessLoop, TakeInputSlot, TakeFrame, NoMoreFrames, Preprocess,
     PushPrepared, DrainLeases
<1>5. CASE (t = "npu" \/ t = "postprocess") /\ PostprocessStep(t)
  BY <1>5 DEF PostprocessStep, Postprocess, PublishResult
<1>6. CASE \/ t = "npu" /\ NpuLoop
           \/ t = "postprocess" /\ TakeCompleted
  BY <1>6 DEF NpuLoop, TakePrepared, TakeOutputSlot, Run, PushCompleted, TakeCompleted
<1>7. CASE t = "video" /\ VideoLoop
  BY <1>7 DEF VideoLoop, TakeVideoFrame, Encode, PushEncoded, DrainLeases
<1>8. CASE t = "encoded" /\ EncodedPacketLoop
  BY <1>8 DEF EncodedPacketLoop, TakePacket, WritePacket
<1> QED BY <1>1, <1>2, <1>3, <1>4, <1>5, <1>6, <1>7, <1>8 DEF ThreadStep

\* A thread that starts over with a release has put the leases there.
LEMMA DisposeSet ==
    ASSUME PcType, WorkType, DisposeAt, NEW t \in Threads, ThreadStep(t),
           Has(pc'[t], {"dispose"})
    PROVE  disposing'[t] # <<>>
<1> USE MainAndWorkers DEF PcType, WorkType
<1>0. pc[t] \in Seq(Steps) /\ First(pc[t], {"dispose"})  BY DEF DisposeAt
<1>1. ~Proceeds(t)
  <2> SUFFICES ASSUME Proceeds(t) PROVE FALSE  OBVIOUS
  <2>1. pc[t] # <<>> /\ pc'[t] = Tail(pc[t])  BY DEF Proceeds
  <2> QED BY <1>0, <2>1, TailFirst
<1>2. CASE CallStep(t)
  <2>1. pc' = pc  BY <1>1, <1>2, CallMoves
  <2>2. disposing[t] # <<>>  BY <2>1 DEF DisposeAt
  <2>3. CASE Dispose(t)
    <3>1. Len(disposing[t]) # 1
      BY <1>0, <1>1, <2>3, EmptyFirst, TailSteps DEF Dispose, Proceed, Proceeds, At
    <3>2. disposing'[t] = Tail(disposing[t]) /\ disposing[t] \in Seq(Leases)
      BY <2>3 DEF Dispose
    <3>3. Len(disposing'[t]) # 0  BY <2>2, <3>1, <3>2
    <3> QED BY <3>3
  <2>4. CASE ~Dispose(t)
    BY <1>2, <2>2, <2>4 DEF CallStep, SetFatal, SetStop, SetVideoFailed, CloseBroker,
       RequestCameraStop, StopQueue, NotifyCapture, ReturnInput, ReturnOutput, work,
       pipelineVars
  <2> QED BY <2>3, <2>4
<1>3. CASE t = "main" /\ Supervise
  <2>1. /\ ~Has(<<"spawn">>, {"dispose"}) /\ ~Has(<<"run">>, {"dispose"})  BY DEF Has
  <2>2. ~Spawns /\ ~StartCamera
    BY <1>3, <2>1, SpawnEffect, DisposeLists DEF StartCamera, Loop
  <2>3. Join \/ StopCamera  BY <1>3, <2>2 DEF Supervise, Spawns
  <2> QED BY <1>0, <1>1, <1>3, <2>3, EmptyFirst, TailSteps
          DEF Join, StopCamera, Proceed, Proceeds, At
<1>4. CASE t = "capture" /\ CaptureLoop
  <2>1. \A p \in {<<"drain", "capture">>, <<"drain", "check">>, <<"poll">>, <<"publish">>,
                   <<"check">>, <<"requeue_direct">>, <<"after_direct">>,
                   <<"push_captured">>, <<"push_video">>} : ~Has(p, {"dispose"})
    BY ShortLists
  <2>2. CASE PushCaptured \/ PushVideo
    <3>1. \E leases, steps :
             /\ disposing' = [disposing EXCEPT ![t] = leases]
             /\ pc' = [pc EXCEPT ![t] = IF leases = <<>> THEN steps
                                        ELSE <<"dispose">> \o steps]
             /\ steps \in {CaptureExit, <<"push_video">>, <<"check">>}
      BY <1>4, <2>2 DEF PushCaptured, PushVideo, Disposing, Loop
    <3> QED BY <1>4, <2>1, <3>1, DisposeLists
  <2>3. CASE \/ CaptureCheck \/ CaptureStopped \/ PollWake \/ PollTimeout \/ PollThrows
             \/ (\E b \in Buffers : PollFrame(b))
             \/ (\E b \in Buffers, ok \in BOOLEAN : PollDropped(b, ok))
             \/ PublishFrame \/ PublishRefused \/ RequeueDirect \/ AfterDirect
    BY <1>4, <2>1, <2>3, DisposeLists DEF CaptureCheck, CaptureStopped, PollWake,
       PollTimeout, PollThrows, PollFrame, PollDropped, PublishFrame, PublishRefused,
       RequeueDirect, AfterDirect, Loop
  <2>4. ASSUME pc' = pc, Draining PROVE FALSE
    <3>1. Head(pc[t]) # "dispose" /\ pc[t] # <<>>  BY <1>4, <2>4 DEF Draining, At
    <3>2. Has(Tail(pc[t]), {"dispose"})  BY <1>0, <2>4, <3>1, TailHas
    <3> QED BY <1>0, <3>1, <3>2, TailFirst
  <2>5. ASSUME DrainFails PROVE FALSE
    <3>1. pc[t] # <<>> /\ pc'[t] = SignalFailure \o Tail(pc[t])
      BY <1>4, <2>5 DEF DrainFails, Draining, At
    <3>2. ~Has(Tail(pc[t]), {"dispose"}) /\ Tail(pc[t]) \in Seq(Steps)
      BY <1>0, <3>1, TailFirst, TailSteps
    <3>3. SignalFailure \in Seq(Steps) /\ ~Has(SignalFailure, {"dispose"})
      BY Lists, DisposeLists
    <3>4. ~Has(SignalFailure \o Tail(pc[t]), {"dispose"})  BY <3>2, <3>3, ConcatHas
    <3> QED BY <3>1, <3>4
  <2>6. ~DrainEmpty
    BY <1>0, <1>1, <1>4, EmptyFirst, TailSteps DEF DrainEmpty, Proceed, Proceeds, At
  <2>7. ~DrainPop /\ ~DrainRequeued  BY <2>4 DEF DrainPop, DrainRequeued, pipelineVars
  <2>8. ~DrainRequeueFailed
    BY <2>4, <2>5 DEF DrainRequeueFailed, DrainFails, Draining, At, Proceed
  <2> QED BY <1>4, <2>2, <2>3, <2>6, <2>7, <2>8 DEF CaptureLoop
<1>5. ASSUME NEW q \in {"captured", "video"}, DrainLeases(t, q) PROVE disposing'[t] # <<>>
  <2>1. CanPop(q)
    BY <1>0, <1>1, <1>5, EmptyFirst, TailSteps DEF DrainLeases, Proceed, Proceeds, At
  <2>2. disposing' = [disposing EXCEPT ![t] = <<Front(q)>>]
    BY <1>5, <2>1 DEF DrainLeases
  <2> QED BY <2>2
<1>6. CASE t = "preprocess" /\ PreprocessLoop
  <2>1. \A p \in {<<"slot">>, <<"frame">>, <<"process">>, <<"push_prepared">>,
                   <<"return_input", "slot">>} : ~Has(p, {"dispose"})
    BY ShortLists
  <2>2. CASE TakeFrame  BY <1>6, <2>2 DEF TakeFrame
  <2>3. CASE TakeInputSlot \/ NoMoreFrames \/ Preprocess \/ PushPrepared
    BY <1>6, <2>1, <2>3, DisposeLists DEF TakeInputSlot, NoMoreFrames, Preprocess,
       PushPrepared, Loop
  <2> QED BY <1>5, <1>6, <2>2, <2>3 DEF PreprocessLoop
<1>7. CASE (t = "npu" \/ t = "postprocess") /\ PostprocessStep(t)
  <2>1. \A p \in {<<"publish_result">>, <<"prepared">>, <<"completed">>} :
            ~Has(p, {"dispose"})
    BY ShortLists
  <2> QED BY <1>7, <2>1 DEF PostprocessStep, Postprocess, PublishResult, Loop, NextRound
<1>8. CASE t = "npu" /\ NpuLoop
  <2>1. \A p \in {<<"return_output", "prepared">>, <<"prepared">>, <<"output">>,
                   <<"run">>, <<"push_completed">>, <<"post">>} : ~Has(p, {"dispose"})
    BY ShortLists
  <2> QED BY <1>8, <2>1, DisposeLists DEF NpuLoop, TakePrepared, TakeOutputSlot, Run,
        PushCompleted, Loop
<1>9. CASE \/ t = "postprocess" /\ TakeCompleted
           \/ t = "encoded" /\ EncodedPacketLoop
  <2>1. \A p \in {<<"post">>, <<>>, <<"packet">>, <<"write">>} : ~Has(p, {"dispose"})
    BY ShortLists
  <2> QED BY <1>9, <2>1, DisposeLists DEF TakeCompleted, EncodedPacketLoop, TakePacket,
        WritePacket, Loop
<1>10. CASE t = "video" /\ VideoLoop
  <2>1. \A p \in {<<"drain_video">>, <<"video">>, <<"encode">>, <<"push_encoded">>} :
            ~Has(p, {"dispose"})
    BY ShortLists
  <2>2. CASE TakeVideoFrame /\ CanPop("video")
    BY <1>10, <2>1, <2>2 DEF TakeVideoFrame, CanPop, Drained
  <2>3. CASE (TakeVideoFrame /\ ~CanPop("video")) \/ Encode \/ PushEncoded
    BY <1>10, <2>1, <2>3, DisposeLists DEF TakeVideoFrame, Encode, PushEncoded, Loop
  <2> QED BY <1>5, <1>10, <2>2, <2>3 DEF VideoLoop
<1> QED BY <1>2, <1>3, <1>4, <1>6, <1>7, <1>8, <1>9, <1>10 DEF ThreadStep

\* A thread that is about to release leases has some, and releases them first.
LEMMA DisposeStep ==
    ASSUME PcType, WorkType, Fresh, DisposeAt, NEW t \in Threads, ThreadStep(t)
    PROVE  DisposeAt'
<1>1. \A u \in Threads : First(pc'[u], {"dispose"})
  <2>1. \A u \in Threads : First(pc[u], {"dispose"})  BY DEF DisposeAt
  <2> QED BY <2>1, FirstKept, ThreadMoves
<1>2. ASSUME NEW u \in Threads, Has(pc'[u], {"dispose"}) PROVE disposing'[u] # <<>>
  <2>1. CASE u = t  BY <1>2, <2>1, DisposeSet
  <2>2. CASE u # t
    <3>1. disposing'[u] = disposing[u]  BY <2>2, DisposingOwn
    <3>2. CASE pc'[u] = pc[u]  BY <1>2, <3>1, <3>2 DEF DisposeAt
    <3>3. CASE t = "main" /\ Spawns
      <4>1. u \in Workers /\ FirstStep[u] # "dispose"
        BY <2>2, <3>3, MainAndWorkers DEF Workers, FirstStep
      <4>2. pc'[u] = <<>> \/ pc'[u] = <<FirstStep[u]>>  BY <3>3, <4>1, SpawnEffect
      <4> QED BY <1>2, <4>1, <4>2, ShortLists
    <3> QED BY <2>2, <3>2, <3>3, OthersWait
  <2> QED BY <2>1, <2>2
<1> QED BY <1>1, <1>2 DEF DisposeAt

\* The lists of the capture thread that dispatch nothing.
LEMMA DispatchLists ==
    ASSUME NEW S, S = {"push_captured", "push_video"}
    PROVE  /\ ~Has(CaptureExit, S) /\ ~Has(SignalFailure, S)
           /\ ~Has(SignalFailure \o CaptureExit, S)
           /\ ~Has(<<"dispose">> \o CaptureExit, S)
           /\ ~Has(<<"dispose">> \o <<"check">>, S)
<1> USE Lists
<1>1. ~Has(CaptureExit, S) /\ ~Has(SignalFailure, S)
  BY DEF Has, CaptureExit, SignalFailure
<1>2. /\ <<"dispose">> \in Seq(Steps) /\ ~Has(<<"dispose">>, S)
      /\ <<"check">> \in Seq(Steps) /\ ~Has(<<"check">>, S)
  <2>1. <<"dispose">> \in Seq(Steps) /\ <<"check">> \in Seq(Steps)  BY DEF Steps
  <2> QED BY <2>1, ShortLists
<1>3. ~Has(SignalFailure \o CaptureExit, S)  BY <1>1, ConcatHas
<1>4. ~Has(<<"dispose">> \o CaptureExit, S) /\ ~Has(<<"dispose">> \o <<"check">>, S)
  BY <1>1, <1>2, ConcatHas
<1> QED BY <1>1, <1>3, <1>4

\* The capture thread that dispatches a frame has it.
LEMMA DispatchStep ==
    ASSUME PcType, WorkType, Fresh, DispatchAt, NEW t \in Threads, ThreadStep(t)
    PROVE  DispatchAt'
<1> USE MainAndWorkers
<1> DEFINE S == {"push_captured", "push_video"}
           s == pc["capture"]
<1>0. s \in Seq(Steps)  BY DEF PcType
<1>1. CASE t # "capture"
  <2>1. dispatch' = dispatch
    <3> USE DEF pipelineVars, work
    <3>1. CASE CallStep(t)
      BY <3>1 DEF CallStep, SetFatal, SetStop, SetVideoFailed, CloseBroker,
         RequestCameraStop, StopQueue, NotifyCapture, Dispose, ReturnInput, ReturnOutput
    <3>2. CASE t = "main" /\ Supervise
      BY <3>2 DEF Supervise, StartCamera, Spawn, Join, StopCamera
    <3>3. CASE t = "preprocess" /\ PreprocessLoop
      BY <3>3 DEF PreprocessLoop, TakeInputSlot, TakeFrame, NoMoreFrames, Preprocess,
         PushPrepared, DrainLeases
    <3>4. CASE (t = "npu" \/ t = "postprocess") /\ PostprocessStep(t)
      BY <3>4 DEF PostprocessStep, Postprocess, PublishResult
    <3>5. CASE \/ t = "npu" /\ NpuLoop
               \/ t = "postprocess" /\ TakeCompleted
      BY <3>5 DEF NpuLoop, TakePrepared, TakeOutputSlot, Run, PushCompleted, TakeCompleted
    <3>6. CASE t = "video" /\ VideoLoop
      BY <3>6 DEF VideoLoop, TakeVideoFrame, Encode, PushEncoded, DrainLeases
    <3>7. CASE t = "encoded" /\ EncodedPacketLoop
      BY <3>7 DEF EncodedPacketLoop, TakePacket, WritePacket
    <3> QED BY <1>1, <3>1, <3>2, <3>3, <3>4, <3>5, <3>6, <3>7 DEF ThreadStep
  <2>2. CASE s' = s  BY <2>1, <2>2 DEF DispatchAt
  <2>3. CASE Spawns
    <3>1. s' = <<>> \/ s' = <<"check">>  BY <2>3, SpawnEffect DEF FirstStep
    <3>2. ~Has(s', S)  BY <3>1, ShortLists
    <3> QED BY <3>2 DEF DispatchAt
  <2> QED BY <1>1, <2>2, <2>3, OthersWait
<1>2. CASE t = "capture" /\ CallStep(t)
  <2>1. dispatch' = dispatch
    BY <1>2 DEF CallStep, SetFatal, SetStop, SetVideoFailed, CloseBroker, pipelineVars,
        RequestCameraStop, StopQueue, NotifyCapture, Dispose, ReturnInput, ReturnOutput, work
  <2>2. s' = s \/ (s # <<>> /\ s' = Tail(s))  BY <1>2, CallMoves DEF Proceeds, PcType
  <2>3. Has(s', S) => Has(s, S)  BY <1>0, <2>2, TailHas
  <2> QED BY <2>1, <2>3 DEF DispatchAt
<1>3. CASE t = "capture" /\ CaptureLoop
  <2>1. \A p \in {<<"drain", "capture">>, <<"drain", "check">>, <<"poll">>, <<"publish">>,
                   <<"check">>, <<"requeue_direct">>, <<"after_direct">>} : ~Has(p, S)
    BY ShortLists
  <2>2. CASE PublishFrame  BY <2>2 DEF PublishFrame, DispatchAt
  <2>3. CASE PushVideo
    <3>1. s' = <<"check">> \/ s' = <<"dispose">> \o <<"check">>
      BY <2>3 DEF PushVideo, Disposing, Loop, PcType
    <3>2. ~Has(s', S)  BY <2>1, <3>1, DispatchLists
    <3> QED BY <3>2 DEF DispatchAt
  <2>4. CASE PushCaptured
    <3>1. \/ dispatch' = dispatch
          \/ s' = CaptureExit \/ s' = <<"dispose">> \o CaptureExit
          \/ s' = <<"check">> \/ s' = <<"dispose">> \o <<"check">>
      BY <2>4 DEF PushCaptured, Disposing, Loop, PcType
    <3>2. Has(s, S)
      <4>1. s # <<>> /\ Head(s) = "push_captured"  BY <2>4 DEF PushCaptured, At
      <4> QED BY <1>0, <4>1, TailSteps DEF Has
    <3>3. CASE dispatch' = dispatch  BY <3>2, <3>3 DEF DispatchAt
    <3>4. CASE dispatch' # dispatch
      <4>1. ~Has(s', S)  BY <2>1, <3>1, <3>4, DispatchLists
      <4> QED BY <4>1 DEF DispatchAt
    <3> QED BY <3>3, <3>4
  <2>5. CASE \/ CaptureCheck \/ CaptureStopped \/ PollWake \/ PollTimeout \/ PollThrows
             \/ (\E b \in Buffers : PollFrame(b))
             \/ (\E b \in Buffers, ok \in BOOLEAN : PollDropped(b, ok))
             \/ PublishRefused \/ RequeueDirect \/ AfterDirect
    <3>1. \/ s' \in {<<"drain", "capture">>, <<"drain", "check">>, <<"poll">>, <<"publish">>,
                      <<"check">>, <<"requeue_direct">>, <<"after_direct">>}
          \/ s' = CaptureExit \/ s' = SignalFailure \o CaptureExit
      BY <2>5 DEF CaptureCheck, CaptureStopped, PollWake, PollTimeout, PollThrows,
          PollFrame, PollDropped, PublishRefused, RequeueDirect, AfterDirect, Loop, PcType
    <3>2. ~Has(s', S)  BY <2>1, <3>1, DispatchLists
    <3> QED BY <3>2 DEF DispatchAt
  <2>6. CASE DrainPop \/ DrainRequeued \/ DrainRequeueFailed \/ DrainEmpty
    <3>1. dispatch' = dispatch
      BY <2>6 DEF DrainPop, DrainRequeued, DrainRequeueFailed, DrainEmpty, pipelineVars, work
    <3>2. \/ s' = s
          \/ s # <<>> /\ s' = <<>> \o Tail(s)
          \/ s # <<>> /\ s' = SignalFailure \o Tail(s)
      BY <2>6 DEF DrainPop, DrainRequeued, DrainRequeueFailed, DrainEmpty, pipelineVars,
         Proceed, At, Draining, PcType
    <3>3. Has(s', S) => Has(s, S)
      <4>1. CASE s # <<>> /\ s' = SignalFailure \o Tail(s)
        <5>1. Has(s', S) => Has(Tail(s), S)
          <6>1. Tail(s) \in Seq(Steps) /\ SignalFailure \in Seq(Steps)
            BY <1>0, <4>1, Lists, TailSteps
          <6>2. ~Has(SignalFailure, S)  BY DispatchLists
          <6>3. Has(SignalFailure \o Tail(s), S) => Has(Tail(s), S)
            BY <6>1, <6>2, ConcatHas
          <6> QED BY <4>1, <6>3
        <5> QED BY <1>0, <4>1, <5>1, TailHas
      <4>2. CASE s # <<>> /\ s' = <<>> \o Tail(s)
        <5>1. s' = Tail(s)  BY <1>0, <4>2, EmptyFirst, TailSteps
        <5> QED BY <1>0, <4>2, <5>1, TailHas
      <4> QED BY <3>2, <4>1, <4>2
    <3> QED BY <3>1, <3>3 DEF DispatchAt
  <2> QED BY <1>3, <2>2, <2>3, <2>4, <2>5, <2>6 DEF CaptureLoop
<1> QED BY <1>1, <1>2, <1>3 DEF ThreadStep

\* The lists, the types and what the capture thread has in hand, together.
Base == Control /\ Types /\ DispatchAt /\ DisposeAt

\* Every step keeps the lists, the types and what the threads have in hand.
LEMMA BaseStep ==
    ASSUME Base, BrokerTypeOK, [PipelineNext]_vars
    PROVE  Base'
<1>1. ASSUME NEW t \in Threads, ThreadStep(t) PROVE Base'
  <2>1. Control'  BY <1>1, ControlStep DEF Base, Types, PipelineNext
  <2>2. DisposeAt' /\ DispatchAt'
    BY <1>1, DisposeStep, DispatchStep DEF Base, Types, Control
  <2>3. Types'
    <3>1. PcType /\ Types /\ DispatchAt /\ DisposeAt  BY DEF Base, Control
    <3> QED BY <1>1, <3>1, CallTypes, CaptureTypes, StageTypes DEF ThreadStep
  <2> QED BY <2>1, <2>2, <2>3 DEF Base
<1>2. CASE StopRequested
  <2>1. Control' /\ Types'
    <3>1. UNCHANGED <<queue, work, history>>  BY <1>2 DEF StopRequested
    <3> QED BY <1>2, <3>1, StopRequestedKeeps DEF Base, Types, QueueType, WorkType,
            HistoryType, work, history
  <2>2. pc' = [pc EXCEPT !["main"] = StopSteps] /\ UNCHANGED <<disposing, dispatch>>
    BY <1>2 DEF StopRequested, Loop, work
  <2>3. DispatchAt'  BY <2>2, MainAndWorkers DEF Base, Control, PcType, DispatchAt
  <2>4. ~Has(StopSteps, {"dispose"}) /\ First(StopSteps, {"dispose"})
    BY DisposeLists DEF Has, First
  <2>5. DisposeAt'  BY <2>2, <2>4, MainAndWorkers DEF Base, Control, PcType, DisposeAt
  <2> QED BY <2>1, <2>3, <2>5 DEF Base
<1>3. CASE UNCHANGED vars
  <2>1. Control'  BY <1>3, ControlStep DEF Base, Types
  <2> QED BY <1>3, <2>1 DEF Base, vars, pipelineVars, work, history, Types, QueueType,
          WorkType, HistoryType, DispatchAt, DisposeAt
<1> QED BY <1>1, <1>2, <1>3 DEF PipelineNext, Terminated

\* They hold before StartCamera.
LEMMA BaseInit == PipelineInit => Base
<1> SUFFICES ASSUME PipelineInit PROVE Base  OBVIOUS
<1> USE MainAndWorkers DEF PipelineInit
<1>1. PcType
  <2>1. <<"start">> \in Seq(Steps) /\ <<>> \in Seq(Steps)  BY DEF Steps
  <2> QED BY <2>1 DEF PcType
<1>2. pc["main"] = <<"start">> /\ \A t \in Workers : pc[t] = <<>>  OBVIOUS
<1>3. Fresh  BY <1>2 DEF Fresh, BrokerInit
<1>4. Joined
  <2>1. Last(<<"start">>, {"stop_camera"}) /\ ~Has(<<"start">>, {"stop_camera"})
    BY ShortLists
  <2> QED BY <1>2, <2>1 DEF Joined
<1>5. Ended /\ HandAt /\ ToQueueAt  BY DEF Ended, HandAt, ToQueueAt, BrokerInit
<1>6. FramesCared
  <2>1. pc["capture"] = <<>> /\ frameCount = 0 /\ hand = {} /\ toQueue = {}
    BY <1>2 DEF BrokerInit
  <2>2. Last(<<>>, {"drain_until_closed"}) /\ ~Has(<<>>, {"drain"})  BY ShortLists
  <2> QED BY <2>1, <2>2 DEF FramesCared
<1>7. QueueType
  <2>1. <<>> \in Seq(AllItems) /\ \A q \in Queues : <<>> \in Seq(ItemsOf[q])  OBVIOUS
  <2> QED BY <2>1 DEF QueueType
<1>8. WorkType /\ HistoryType
  <2>1. <<>> \in Seq(Leases) /\ <<>> \in Seq(Requests) /\ <<>> \in Seq(Nat)  OBVIOUS
  <2> QED BY <2>1, JobTypes DEF WorkType, HistoryType
<1>9. DispatchAt  BY <1>2, ShortLists DEF DispatchAt
<1>10. DisposeAt
  <2>1. First(<<>>, {"dispose"}) /\ ~Has(<<>>, {"dispose"})  BY ShortLists
  <2>2. First(<<"start">>, {"dispose"}) /\ ~Has(<<"start">>, {"dispose"})  BY ShortLists
  <2> QED BY <1>2, <2>1, <2>2 DEF DisposeAt
<1> QED BY <1>1, <1>3, <1>4, <1>5, <1>6, <1>7, <1>8, <1>9, <1>10
        DEF Base, Control, Types
--------------------------------------------------------------------------------
(* The pipeline uses the capture path as its contract asks                  *)

\* When Stop is about to stop the camera the threads have returned, and nothing is
\* leased, completed or in hand.
LEMMA NothingLeftAtStop ==
    ASSUME Control, BrokerInv, pc["main"] = <<"stop_camera">>
    PROVE  /\ \A t \in Threads \ {"main"} : Returned(t)
           /\ live = {} /\ completions = <<>> /\ HandsFree /\ frameCount = 0
<1> USE MainAndWorkers
<1>1. \A t \in Threads \ {"main"} : Returned(t)
  <2>1. /\ Has(<<"stop_camera">>, {"stop_camera"})
        /\ ~Has(<<"stop_camera">>, {"join_stages"})
        /\ ~Has(<<"stop_camera">>, {"join_encoded"})
    BY DEF Has
  <2> QED BY <2>1 DEF Control, Joined
<1>2. pc["capture"] = <<>>  BY <1>1 DEF Returned
<1>3. ~Has(<<>>, CaptureLive)  BY DEF Has
<1>4. hand = {} /\ toQueue = {} /\ frameCount = 0
  BY <1>2, <1>3 DEF Control, FramesCared
<1>5. Occupied = {}
  <2>1. IsFiniteSet(Occupied)  BY BuffersFinite, FS_Subset DEF Occupied
  <2> QED BY <1>4, <2>1, FS_EmptySet DEF BrokerInv, LedgersAgree
<1>6. live = {}
  <2>1. ASSUME NEW l \in live PROVE FALSE
    <3>1. l \in Leases  BY <2>1 DEF BrokerInv, BrokerTypeOK
    <3>2. slot[l.buf].occupied /\ l.buf \in Buffers
      BY <2>1, <3>1 DEF BrokerInv, LeasesConsistent, Leases
    <3> QED BY <1>5, <3>2 DEF Occupied
  <2> QED BY <2>1
<1>7. completions = <<>>
  <2>1. completions \in Seq(Requests)  BY DEF BrokerInv, BrokerTypeOK
  <2>2. ASSUME completions # <<>> PROVE FALSE
    <3>1. 1 \in DOMAIN completions /\ completions[1] \in Requests  BY <2>1, <2>2
    <3>2. completions[1].buf \in Buffers /\ slot[completions[1].buf].queued
      BY <3>1 DEF BrokerInv, CompletionsConsistent, Requests
    <3>3. ~slot[completions[1].buf].occupied  BY <1>5, <3>2 DEF Occupied
    <3>4. \A b \in Buffers : ~slot[b].occupied => slot[b] = EmptySlot
      BY DEF BrokerInv, SlotsConsistent, SlotAgrees
    <3>5. ~EmptySlot.queued  BY DEF EmptySlot
    <3> QED BY <3>2, <3>3, <3>4, <3>5
  <2> QED BY <2>2
<1> QED BY <1>1, <1>4, <1>6, <1>7 DEF HandsFree

\* So the camera is stopped as its contract asks.
LEMMA QuietAtStop ==
    ASSUME Control, BrokerInv, At("main", "stop_camera")
    PROVE  Quiet /\ frameCount = 0
<1>1. pc["main"] = <<"stop_camera">>  BY AllJoined DEF Control
<1>2. notifying = {}
  <2>1. \A t \in Threads : t \notin notifying
    BY <1>1, NothingLeftAtStop DEF Returned, At
  <2> QED BY <2>1 DEF BrokerInv, BrokerTypeOK
<1> QED BY <1>1, <1>2, NothingLeftAtStop DEF Quiet

\* Every step of a thread is one step of the capture path, or none.
LEMMA ThreadIsBroker ==
    ASSUME Control, BrokerInv, NEW t \in Threads, ThreadStep(t)
    PROVE  [BrokerNext]_brokerVars
<1> USE MainAndWorkers
<1>1. CASE CallStep(t)
  <2>1. CASE SetFatal(t) \/ SetStop(t) \/ SetVideoFailed(t) \/ (\E q \in Queues : StopQueue(t, q))
             \/ ReturnInput(t) \/ ReturnOutput(t)
    BY <2>1 DEF SetFatal, SetStop, SetVideoFailed, StopQueue, ReturnInput, ReturnOutput
  <2>2. CASE CloseBroker(t) \/ RequestCameraStop(t) \/ NotifyCapture(t)
    BY <2>2 DEF CloseBroker, RequestCameraStop, NotifyCapture, BrokerNext
  <2>3. CASE Dispose(t)
    <3>1. Release(t, Head(disposing[t]), FALSE) /\ Head(disposing[t]) \in live
      BY <2>3 DEF Dispose, Release
    <3> QED BY <3>1 DEF BrokerNext
  <2> QED BY <1>1, <2>1, <2>2, <2>3 DEF CallStep
<1>2. CASE t = "main" /\ Supervise
  <2>1. CASE StopCamera  BY <2>1, QuietAtStop DEF StopCamera, BrokerNext
  <2>2. CASE StartCamera \/ (\E n \in 0..Len(SpawnOrder) : Spawn(n)) \/ Join
    BY <2>2 DEF StartCamera, Spawn, Join, BrokerNext
  <2> QED BY <1>2, <2>1, <2>2 DEF Supervise
<1>3. CASE t = "capture" /\ CaptureLoop
  <2>1. CASE \E b \in Buffers : PollFrame(b)
    <3>1. HandsFree  BY <2>1 DEF PollFrame, At, Control, HandAt, ToQueueAt, HandsFree
    <3> QED BY <2>1, <3>1 DEF PollFrame, BrokerNext
  <2>2. CASE \E b \in Buffers, ok \in BOOLEAN : PollDropped(b, ok)
    <3>1. HandsFree  BY <2>2 DEF PollDropped, At, Control, HandAt, ToQueueAt, HandsFree
    <3> QED BY <2>2, <3>1 DEF PollDropped, BrokerNext
  <2>3. CASE PublishFrame
    <3>1. {"inference"} \cup (IF EnableVideo THEN {"video"} ELSE {})
              \in (SUBSET Consumers) \ {{}}
      BY PipelineConsumers
    <3> QED BY <2>3, <3>1 DEF PublishFrame, BrokerNext
  <2>4. CASE DrainPop \/ DrainRequeued \/ DrainRequeueFailed \/ PollWake
             \/ PublishRefused \/ RequeueDirect
    BY <2>4 DEF DrainPop, DrainRequeued, DrainRequeueFailed, PollWake, PublishRefused,
       RequeueDirect, BrokerNext
  <2>5. CASE CaptureCheck \/ DrainEmpty \/ CaptureStopped \/ PollTimeout \/ PollThrows
             \/ AfterDirect \/ PushCaptured \/ PushVideo
    BY <2>5 DEF CaptureCheck, DrainEmpty, CaptureStopped, PollTimeout, PollThrows,
       AfterDirect, PushCaptured, PushVideo
  <2> QED BY <1>3, <2>1, <2>2, <2>3, <2>4, <2>5 DEF CaptureLoop
<1>4. CASE t = "preprocess" /\ PreprocessLoop
  <2>1. CASE Preprocess
    <3>1. /\ Release("preprocess", disposing["preprocess"][1], FALSE)
          /\ disposing["preprocess"][1] \in live
      BY <2>1 DEF Preprocess, Release
    <3> QED BY <3>1 DEF BrokerNext
  <2> QED BY <1>4, <2>1 DEF PreprocessLoop, TakeInputSlot, TakeFrame, NoMoreFrames,
        PushPrepared, DrainLeases
<1>5. CASE t = "video" /\ VideoLoop
  <2>1. CASE Encode
    <3>1. Release("video", disposing["video"][1], FALSE) /\ disposing["video"][1] \in live
      BY <2>1 DEF Encode, Release
    <3> QED BY <3>1 DEF BrokerNext
  <2> QED BY <1>5, <2>1 DEF VideoLoop, TakeVideoFrame, PushEncoded, DrainLeases
<1>6. CASE (t = "npu" \/ t = "postprocess") /\ PostprocessStep(t)
  BY <1>6 DEF PostprocessStep, Postprocess, PublishResult
<1>7. CASE \/ t = "npu" /\ NpuLoop
           \/ t = "postprocess" /\ TakeCompleted
           \/ t = "encoded" /\ EncodedPacketLoop
  BY <1>7 DEF NpuLoop, TakePrepared, TakeOutputSlot, Run, PushCompleted, TakeCompleted,
     EncodedPacketLoop, TakePacket, WritePacket
<1> QED BY <1>1, <1>2, <1>3, <1>4, <1>5, <1>6, <1>7 DEF ThreadStep

\* Every step of the pipeline is a step of CaptureBroker, or leaves its state alone.
LEMMA StepIsBroker ==
    ASSUME Control, BrokerInv, [PipelineNext]_vars
    PROVE  [BrokerNext]_brokerVars
  BY ThreadIsBroker, StopRequestedKeeps DEF PipelineNext, Terminated, vars

\* The lists, the types and the capture path's own invariant hold throughout.
Inv == Base /\ BrokerInv

\* Hence the invariant is kept: the conjuncts of the broker by the proof of the broker.
LEMMA InvStep == Inv /\ [PipelineNext]_vars => Inv'
<1> SUFFICES ASSUME Inv, [PipelineNext]_vars PROVE Inv'  OBVIOUS
<1>1. Base'  BY BaseStep DEF Inv, BrokerInv
<1>2. BrokerInv'  BY StepIsBroker, StepInv DEF Inv, Base
<1> QED BY <1>1, <1>2 DEF Inv

\* In every state of the pipeline, for every number of buffers, slots and queue places:
\* its lists of steps and its queues are well formed, and what CaptureBrokerProofs shows
\* of the camera's buffers holds of it.
THEOREM PipelineInvariant == PipelineSpec => []Inv
<1>1. PipelineInit => Inv  BY BaseInit, InitInv DEF PipelineInit, Inv
<1> QED BY <1>1, InvStep, PTL DEF PipelineSpec

\* The threads use the camera and the broker as these ask to be used: nobody
\* takes a frame while another is in hand, what is released is leased, and the
\* camera is stopped only when every frame is back.  So whatever is proved of the
\* capture path on its own holds of the pipeline.
THEOREM PipelineUsesBroker == PipelineSpec => BrokerSpec
<1>1. PipelineInit => BrokerInit  BY DEF PipelineInit
<1>2. Inv /\ [PipelineNext]_vars => [BrokerNext]_brokerVars
  BY StepIsBroker DEF Inv, Base
<1> QED BY <1>1, <1>2, PipelineInvariant, PTL DEF PipelineSpec, BrokerSpec

\* So the frame behind a live lease is intact in every state of the pipeline, the
\* broker's defences are never needed, its counters are exact and no buffer is forgotten.
THEOREM PipelineKeepsFrames ==
    PipelineSpec => [](LeasedFrameIntact /\ NeverDefends /\ LedgersAgree /\ NoBufferForgotten)
  BY PipelineUsesBroker, LeasesSafe, DefencesUnused, CountersExact, BuffersKept, PTL
================================================================================
