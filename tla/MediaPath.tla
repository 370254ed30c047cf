------------------------------- MODULE MediaPath -------------------------------
(***************************************************************************)
(* The threads that carry encoded media: AudioCaptureWorker,                *)
(* AudioEncodeWorker, EncodedAudioSinkWorker and the pipeline's encoded     *)
(* packet thread, the two muxers they write to (FfmpegMp4Muxer under its    *)
(* mutex, FfmpegMpegTsUdpSink with a queue and a worker of its own), and    *)
(* RunRuntime, which stops them all.  Chunks, packets and access units are  *)
(* numbers; an access unit comes in one or two fragments.                   *)
(***************************************************************************)
EXTENDS Naturals, SequencesExt

CONSTANTS
    PcmCapacity, AacCapacity, NetCapacity,
    MaxChunks,      \* bound: PCM chunks captured
    Fragments,      \* bound: the fragments of each access unit the encoder gives
    Faults,         \* the failures that may happen: see Fail
    MaxMediaFaults  \* bound: how many do

ASSUME CapacitiesPositive ==
    PcmCapacity \in Nat \ {0} /\ AacCapacity \in Nat \ {0} /\ NetCapacity \in Nat \ {0}

VARIABLES
    pcmQueue, aacQueue, \* the two BoundedQueues: contents and stopped_
    capture,        \* AudioCaptureWorker: at, the chunk it holds, fatal_error
    encode,         \* AudioEncodeWorker: at, what the codec holds, its packets
    sinkWorker,     \* EncodedAudioSinkWorker: at, its packet, ok of the fanout
    video,          \* the encoded packet thread: at, access unit, fragment, ok
    mp4,            \* FfmpegMp4Muxer
    net,            \* FfmpegMpegTsUdpSink: producers' side and queue
    netWorker,      \* its worker thread
    runtime,        \* RunRuntime
    chunks,         \* bound: chunks captured so far
    accepted,       \* history: what entered the PCM queue
    faultCount      \* bound: failures so far

audioVars == <<pcmQueue, aacQueue, capture, encode, sinkWorker>>
muxVars == <<mp4, net, netWorker>>
inputVars == <<chunks, accepted>>
mediaVars == <<audioVars, video, muxVars, runtime, inputVars, faultCount>>

MediaInit ==
    /\ pcmQueue = [items |-> <<>>, stopped |-> FALSE]
    /\ aacQueue = [items |-> <<>>, stopped |-> FALSE]
    /\ capture = [at |-> "read", item |-> 0, stop |-> FALSE, fatal |-> FALSE]
    /\ encode = [at |-> "pop", inside |-> <<>>, out |-> <<>>, tail |-> FALSE, fatal |-> FALSE]
    /\ sinkWorker = [at |-> "pop", item |-> 0, ok |-> TRUE, fatal |-> FALSE]
    /\ video = [at |-> "pop", unit |-> 1, part |-> 1, ok |-> TRUE, failed |-> FALSE]
    /\ mp4 = [opened |-> TRUE, fatal |-> FALSE, finalized |-> FALSE, pending |-> 0,
              audio |-> <<>>, video |-> <<>>]
    /\ net = [accepting |-> TRUE, fatal |-> FALSE, finalized |-> FALSE, pending |-> 0,
              items |-> <<>>, stopped |-> FALSE, audio |-> <<>>, video |-> <<>>,
              queued |-> 0]
    /\ netWorker = "pop"
    /\ runtime = "run"
    /\ chunks = 0
    /\ accepted = <<>>
    /\ faultCount = 0

\* A choice between failing, while the bound allows it, and not.
Fail(kind) == kind \in Faults /\ faultCount < MaxMediaFaults /\ faultCount' = faultCount + 1
Fine == UNCHANGED faultCount

Stopped(q) == [q EXCEPT !.stopped = TRUE]
Push(q, x) == [q EXCEPT !.items = Append(@, x)]
Pop(q) == [q EXCEPT !.items = Tail(@)]

--------------------------------------------------------------------------------
(* AudioCaptureWorker::ThreadMain                                           *)

CaptureDone(fatal) ==
    /\ capture' = [capture EXCEPT !.at = "ended", !.item = 0, !.fatal = @ \/ fatal]
    /\ pcmQueue' = Stopped(pcmQueue)

\* The stop flag is tested once per chunk; Read waits for the device.
CaptureRead ==
    /\ capture.at = "read"
    /\ \/ capture.stop /\ CaptureDone(FALSE) /\ Fine /\ UNCHANGED chunks
       \/ /\ chunks < MaxChunks
          /\ chunks' = chunks + 1
          /\ \/ /\ capture' = [capture EXCEPT !.at = "push", !.item = chunks + 1]
                /\ Fine /\ UNCHANGED pcmQueue
             \/ Fail("capture") /\ CaptureDone(TRUE)
    /\ UNCHANGED <<aacQueue, encode, sinkWorker, video, muxVars, runtime, accepted>>

\* WaitPush: a stopped queue refuses the chunk.
CapturePush ==
    /\ capture.at = "push"
    /\ IF pcmQueue.stopped
       THEN CaptureDone(FALSE) /\ UNCHANGED accepted
       ELSE /\ Len(pcmQueue.items) < PcmCapacity
            /\ pcmQueue' = Push(pcmQueue, capture.item)
            /\ accepted' = Append(accepted, capture.item)
            /\ capture' = [capture EXCEPT !.at = "read", !.item = 0]
    /\ UNCHANGED <<aacQueue, encode, sinkWorker, video, muxVars, runtime, chunks, faultCount>>

--------------------------------------------------------------------------------
(* AudioEncodeWorker::ThreadMain                                            *)

EncodeDone(fatal) ==
    /\ encode' = [encode EXCEPT !.at = "ended", !.out = <<>>, !.fatal = @ \/ fatal]
    /\ pcmQueue' = IF fatal THEN Stopped(pcmQueue) ELSE pcmQueue
    /\ aacQueue' = Stopped(aacQueue)

\* Encode holds the newest chunk back in the codec.
EncodeChunk ==
    /\ encode.at = "pop" /\ pcmQueue.items # <<>>
    /\ LET inside == Append(encode.inside, Head(pcmQueue.items))
       IN  \/ /\ encode' = [encode EXCEPT !.at = "push", !.out = Front(inside),
                                          !.inside = <<Last(inside)>>]
              /\ pcmQueue' = Pop(pcmQueue)
              /\ Fine /\ UNCHANGED aacQueue
           \/ /\ Fail("encode")
              /\ encode' = [encode EXCEPT !.at = "ended", !.fatal = TRUE]
              /\ pcmQueue' = Stopped(Pop(pcmQueue))
              /\ aacQueue' = Stopped(aacQueue)
    /\ UNCHANGED <<capture, sinkWorker, video, muxVars, runtime, inputVars>>

\* The stopped PCM queue is empty: the codec is drained.
EncodeFlush ==
    /\ encode.at = "pop" /\ pcmQueue.items = <<>> /\ pcmQueue.stopped
    /\ \/ /\ encode' = [encode EXCEPT !.at = "push", !.out = encode.inside,
                                      !.inside = <<>>, !.tail = TRUE]
          /\ Fine /\ UNCHANGED <<pcmQueue, aacQueue>>
       \/ Fail("encode") /\ EncodeDone(TRUE)
    /\ UNCHANGED <<capture, sinkWorker, video, muxVars, runtime, inputVars>>

\* PublishPackets
EncodePush ==
    /\ encode.at = "push"
    /\ IF encode.out = <<>>
       THEN IF encode.tail THEN EncodeDone(FALSE)
            ELSE encode' = [encode EXCEPT !.at = "pop"] /\ UNCHANGED <<pcmQueue, aacQueue>>
       ELSE IF aacQueue.stopped THEN EncodeDone(TRUE)
       ELSE /\ Len(aacQueue.items) < AacCapacity
            /\ aacQueue' = Push(aacQueue, Head(encode.out))
            /\ encode' = [encode EXCEPT !.out = Tail(@)]
            /\ UNCHANGED pcmQueue
    /\ UNCHANGED <<capture, sinkWorker, video, muxVars, runtime, inputVars, faultCount>>

--------------------------------------------------------------------------------
(* FfmpegMp4Muxer: each call holds the mutex throughout                     *)

Mp4Refuses == ~mp4.opened \/ mp4.finalized \/ mp4.fatal

\* WriteAudio.  The result is what the fanout combines.
Mp4WriteAudio(n, result) ==
    IF Mp4Refuses THEN result = FALSE /\ Fine /\ UNCHANGED mp4
    ELSE \/ result = TRUE /\ Fine /\ mp4' = [mp4 EXCEPT !.audio = Append(@, n)]
         \/ result = FALSE /\ Fail("mp4") /\ mp4' = [mp4 EXCEPT !.fatal = TRUE]

\* Write.  The fragments of an access unit are collected until the last; one
\* that cannot be written stays pending.
Mp4Write(unit, ends, result) ==
    IF Mp4Refuses THEN result = FALSE /\ Fine /\ UNCHANGED mp4
    ELSE IF ~ends THEN result = TRUE /\ Fine /\ mp4' = [mp4 EXCEPT !.pending = unit]
    ELSE \/ /\ result = TRUE /\ Fine
            /\ mp4' = [mp4 EXCEPT !.pending = 0, !.video = Append(@, unit)]
         \/ /\ result = FALSE /\ Fail("mp4")
            /\ mp4' = [mp4 EXCEPT !.pending = unit, !.fatal = TRUE]

\* Finalize.  An incomplete access unit costs the trailer.
Mp4Finalize ==
    \/ /\ mp4.pending # 0
       /\ Fine
       /\ mp4' = [mp4 EXCEPT !.fatal = TRUE, !.opened = FALSE, !.pending = 0]
    \/ /\ mp4.pending = 0
       /\ \/ Fine /\ mp4' = [mp4 EXCEPT !.finalized = TRUE, !.opened = FALSE]
          \/ Fail("mp4") /\ mp4' = [mp4 EXCEPT !.fatal = TRUE, !.opened = FALSE]

--------------------------------------------------------------------------------
(* FfmpegMpegTsUdpSink: accepting is tested first and without a lock        *)

NetError(n) == [n EXCEPT !.fatal = TRUE, !.accepting = FALSE, !.stopped = TRUE]

\* TryPush: a full or a stopped queue is an overload.
NetPush(n, packet, result) ==
    IF n.stopped \/ Len(n.items) = NetCapacity
    THEN result = FALSE /\ net' = NetError(n)
    ELSE result = TRUE /\ net' = [n EXCEPT !.items = Append(@, packet), !.queued = @ + 1]

NetWrite(unit, ends, result) ==
    IF ends THEN NetPush([net EXCEPT !.pending = 0], <<"video", unit>>, result)
    ELSE result = TRUE /\ net' = [net EXCEPT !.pending = unit]

\* WorkerMain.  The queue is emptied also after it was stopped, up to a packet
\* that cannot be sent.
NetSend ==
    /\ netWorker = "pop" /\ net.items # <<>>
    /\ LET packet == Head(net.items)
           rest == [net EXCEPT !.items = Tail(@)]
       IN  \/ /\ net' = [rest EXCEPT ![packet[1]] = Append(@, packet[2])]
              /\ Fine /\ UNCHANGED netWorker
           \/ Fail("net") /\ net' = NetError(rest) /\ netWorker' = "finish"
    /\ UNCHANGED <<audioVars, video, mp4, runtime, inputVars>>

NetDrained ==
    /\ netWorker = "pop" /\ net.items = <<>> /\ net.stopped
    /\ netWorker' = "finish"
    /\ UNCHANGED <<audioVars, video, mp4, net, runtime, inputVars, faultCount>>

NetPendingTest ==
    /\ netWorker = "finish"
    /\ net' = IF net.pending # 0 THEN NetError(net) ELSE net
    /\ netWorker' = "trailer"
    /\ UNCHANGED <<audioVars, video, mp4, runtime, inputVars, faultCount>>

NetTrailer ==
    /\ netWorker = "trailer"
    /\ \/ net.fatal /\ Fine /\ UNCHANGED net
       \/ ~net.fatal /\ Fine /\ net' = [net EXCEPT !.finalized = TRUE]
       \/ ~net.fatal /\ Fail("net") /\ net' = NetError(net)
    /\ netWorker' = "ended"
    /\ UNCHANGED <<audioVars, video, mp4, runtime, inputVars>>

--------------------------------------------------------------------------------
(* EncodedAudioSinkWorker::ThreadMain with FanoutEncodedAudioSink           *)

SinkTake ==
    /\ sinkWorker.at = "pop" /\ aacQueue.items # <<>>
    /\ sinkWorker' = [sinkWorker EXCEPT !.at = "mp4", !.item = Head(aacQueue.items), !.ok = TRUE]
    /\ aacQueue' = Pop(aacQueue)
    /\ UNCHANGED <<pcmQueue, capture, encode, video, muxVars, runtime, inputVars, faultCount>>

SinkEnds ==
    /\ sinkWorker.at = "pop" /\ aacQueue.items = <<>> /\ aacQueue.stopped
    /\ sinkWorker' = [sinkWorker EXCEPT !.at = "ended"]
    /\ UNCHANGED <<pcmQueue, aacQueue, capture, encode, video, muxVars, runtime, inputVars,
                   faultCount>>

SinkMp4 ==
    /\ sinkWorker.at = "mp4"
    /\ \E result \in BOOLEAN :
          /\ Mp4WriteAudio(sinkWorker.item, result)
          /\ sinkWorker' = [sinkWorker EXCEPT !.at = "net_test", !.ok = result]
    /\ UNCHANGED <<pcmQueue, aacQueue, capture, encode, video, net, netWorker, runtime, inputVars>>

\* Mutant of SinkDone: a failed sink leaves the encoded queue open.
SinkDoneSilently(ok) ==
    /\ sinkWorker' = [sinkWorker EXCEPT !.at = IF ok THEN "pop" ELSE "ended", !.item = 0,
                            !.fatal = ~ok]
    /\ UNCHANGED aacQueue

\* One sink that failed ends the worker, after all of them were called.
SinkDone(ok) ==
    /\ sinkWorker' = [sinkWorker EXCEPT !.at = IF ok THEN "pop" ELSE "ended", !.item = 0,
                            !.fatal = ~ok]
    /\ aacQueue' = IF ok THEN aacQueue ELSE Stopped(aacQueue)

SinkNetTest ==
    /\ sinkWorker.at = "net_test"
    /\ IF net.accepting
       THEN sinkWorker' = [sinkWorker EXCEPT !.at = "net_push"] /\ UNCHANGED aacQueue
       ELSE SinkDone(FALSE)
    /\ UNCHANGED <<pcmQueue, capture, encode, video, muxVars, runtime, inputVars, faultCount>>

SinkNetPush ==
    /\ sinkWorker.at = "net_push"
    /\ \E result \in BOOLEAN :
          NetPush(net, <<"audio", sinkWorker.item>>, result) /\ SinkDone(sinkWorker.ok /\ result)
    /\ UNCHANGED <<pcmQueue, capture, encode, video, mp4, netWorker, runtime, inputVars, faultCount>>

--------------------------------------------------------------------------------
(* EncodedPacketLoop with FanoutEncodedVideoSink: file, MP4, network.  The  *)
(* pipeline's Stop lets the loop empty its queue; the encoder queues all    *)
(* fragments of an access unit, which carry one time stamp, or none.        *)

LastPart == video.part = Fragments[video.unit]

VideoTake ==
    /\ video.at = "pop" /\ video.unit <= Len(Fragments)
    /\ \/ Fine /\ video' = [video EXCEPT !.at = "mp4", !.ok = TRUE]
       \/ Fail("file") /\ video' = [video EXCEPT !.at = "mp4", !.ok = FALSE]
    /\ UNCHANGED <<audioVars, muxVars, runtime, inputVars>>

VideoEnds ==
    /\ video.at = "pop" /\ video.part = 1 /\ runtime # "run"
    /\ video' = [video EXCEPT !.at = "ended"]
    /\ UNCHANGED <<audioVars, muxVars, runtime, inputVars, faultCount>>

VideoMp4 ==
    /\ video.at = "mp4"
    /\ \E result \in BOOLEAN :
          /\ Mp4Write(video.unit, LastPart, result)
          /\ video' = [video EXCEPT !.at = "net_test", !.ok = @ /\ result]
    /\ UNCHANGED <<audioVars, net, netWorker, runtime, inputVars>>

VideoDone(ok) ==
    video' = IF ~ok THEN [video EXCEPT !.at = "ended", !.failed = TRUE]
             ELSE IF LastPart
             THEN [video EXCEPT !.at = "pop", !.unit = @ + 1, !.part = 1]
             ELSE [video EXCEPT !.at = "pop", !.part = @ + 1]

VideoNetTest ==
    /\ video.at = "net_test"
    /\ IF net.accepting THEN video' = [video EXCEPT !.at = "net_push"] ELSE VideoDone(FALSE)
    /\ UNCHANGED <<audioVars, muxVars, runtime, inputVars, faultCount>>

VideoNetPush ==
    /\ video.at = "net_push"
    /\ \E result \in BOOLEAN :
          NetWrite(video.unit, LastPart, result) /\ VideoDone(video.ok /\ result)
    /\ UNCHANGED <<audioVars, mp4, netWorker, runtime, inputVars, faultCount>>

--------------------------------------------------------------------------------
(* RunRuntime's shutdown: each Stop closes a queue and joins a thread       *)

StopPipeline ==
    /\ runtime = "run"
    /\ runtime' = "pipeline"
    /\ UNCHANGED <<audioVars, video, muxVars, inputVars, faultCount>>

StopCapture ==
    /\ runtime = "pipeline" /\ video.at = "ended"
    /\ runtime' = "capture"
    /\ capture' = [capture EXCEPT !.stop = TRUE]
    /\ pcmQueue' = Stopped(pcmQueue)
    /\ UNCHANGED <<aacQueue, encode, sinkWorker, video, muxVars, inputVars, faultCount>>

StopEncode ==
    /\ runtime = "capture" /\ capture.at = "ended"
    /\ runtime' = "encode"
    /\ pcmQueue' = Stopped(pcmQueue)
    /\ UNCHANGED <<aacQueue, capture, encode, sinkWorker, video, muxVars, inputVars, faultCount>>

StopSink ==
    /\ runtime = "encode" /\ encode.at = "ended"
    /\ runtime' = "sink"
    /\ aacQueue' = Stopped(aacQueue)
    /\ UNCHANGED <<pcmQueue, capture, encode, sinkWorker, video, muxVars, inputVars, faultCount>>

\* Mutant of Finalize: the sink worker is not joined first.
FinalizeEarly ==
    /\ runtime = "sink"
    /\ runtime' = "finalized"
    /\ Mp4Finalize
    /\ UNCHANGED <<audioVars, video, net, netWorker, inputVars>>

Finalize ==
    /\ runtime = "sink" /\ sinkWorker.at = "ended"
    /\ runtime' = "finalized"
    /\ Mp4Finalize
    /\ UNCHANGED <<audioVars, video, net, netWorker, inputVars>>

StopNet ==
    /\ runtime = "finalized"
    /\ runtime' = "net"
    /\ net' = [net EXCEPT !.accepting = FALSE, !.stopped = TRUE]
    /\ UNCHANGED <<audioVars, video, mp4, netWorker, inputVars, faultCount>>

Joined ==
    /\ runtime = "net" /\ netWorker = "ended"
    /\ runtime' = "done"
    /\ UNCHANGED <<audioVars, video, muxVars, inputVars, faultCount>>

--------------------------------------------------------------------------------
CaptureStep == CaptureRead \/ CapturePush
EncodeStep == EncodeChunk \/ EncodeFlush \/ EncodePush
SinkStep == SinkTake \/ SinkEnds \/ SinkMp4 \/ SinkNetTest \/ SinkNetPush
VideoStep == VideoTake \/ VideoEnds \/ VideoMp4 \/ VideoNetTest \/ VideoNetPush
WorkerStep == NetSend \/ NetDrained \/ NetPendingTest \/ NetTrailer
MainStep == StopCapture \/ StopEncode \/ StopSink \/ Finalize \/ StopNet \/ Joined

MediaNext ==
    CaptureStep \/ EncodeStep \/ SinkStep \/ VideoStep \/ WorkerStep
        \/ StopPipeline \/ MainStep

\* Every thread runs; when the runtime is stopped is not settled.
MediaFairness ==
    /\ WF_mediaVars(CaptureStep) /\ WF_mediaVars(EncodeStep) /\ WF_mediaVars(SinkStep)
    /\ WF_mediaVars(VideoStep) /\ WF_mediaVars(WorkerStep) /\ WF_mediaVars(MainStep)

MediaSpec == MediaInit /\ [][MediaNext]_mediaVars /\ MediaFairness

--------------------------------------------------------------------------------
(* Properties                                                               *)

\* What a muxer accepted and what was meant for it is in its output when all
\* has stopped, or somebody on the way reports a failure: neither a queue nor
\* a muxer loses a chunk, a packet or an access unit in silence.
NoSilentLoss ==
    runtime = "done" =>
        /\ mp4.audio = accepted \/ encode.fatal \/ sinkWorker.fatal \/ mp4.fatal
        /\ net.audio = accepted \/ encode.fatal \/ sinkWorker.fatal \/ net.fatal
        /\ Len(mp4.video) = video.unit - 1 \/ video.failed \/ mp4.fatal
        /\ mp4.video = net.video \/ video.failed \/ net.fatal
        /\ Len(net.audio) + Len(net.video) = net.queued \/ net.fatal
        /\ mp4.finalized \/ mp4.fatal
        /\ net.finalized \/ net.fatal

\* A trailer closes a file or a stream that nobody will write to any more:
\* everything before it was stopped and, unless it failed, emptied.
TrailerAfterDrain ==
    mp4.finalized \/ (netWorker \in {"trailer", "ended"} /\ ~net.fatal) =>
        /\ capture.at = "ended" /\ encode.at = "ended"
        /\ sinkWorker.at = "ended" /\ video.at = "ended"
        /\ encode.inside = <<>> \/ encode.fatal
        /\ aacQueue.items = <<>> \/ sinkWorker.fatal

MediaKept == NoSilentLoss /\ TrailerAfterDrain

\* Whatever failed and wherever the threads wait, the shutdown ends.
MediaStops == runtime = "pipeline" ~> runtime = "done"
================================================================================
