----------------------------- MODULE AudioTimeline -----------------------------
(***************************************************************************)
(* The audio timeline, from the sample counter of AlsaCapture through       *)
(* MediaClock's anchor and the AAC encoder's reframing to the time stamps   *)
(* the muxers test.  One chunk is under way at a time: what happens to it   *)
(* does not depend on the threads, which MediaPath models.                  *)
(***************************************************************************)
EXTENDS Integers, Sequences

CONSTANTS
    FrameSize,      \* frame_size_frames; the encoder's priming has the same length
    NsNum, NsDen,   \* nanoseconds of a sample frame, as a fraction
    PeriodFrames,   \* the frame counts that a read may return
    Anchors,        \* bound: the first sample's time after the media epoch, ns
    Drifts,         \* bound: observed minus predicted time after an xrun, ns
    MaxReads        \* bound: chunks read

\* A sample lasts two nanoseconds at least.
ASSUME TimelineAssumption ==
    /\ FrameSize \in Nat /\ FrameSize > 1
    /\ NsNum \in Nat /\ NsDen \in Nat \ {0} /\ NsNum >= 2 * NsDen
    /\ PeriodFrames \subseteq Nat \ {0} /\ Anchors \subseteq Int /\ Drifts \subseteq Int
    /\ MaxReads \in Nat

VARIABLES
    delivered,      \* delivered_frames_
    lostSync,       \* pending_discontinuity_
    clock,          \* MediaClock's snapshot_; history "abuts": some chunk behind an
                    \* overrun was stamped at the nanosecond where the one before ended
    pcm,            \* the TimedAudioChunk between capture and encoder, if any
    aac,            \* FfmpegAacEncoder::Impl and, of the muxer that takes its packets,
                    \* last_audio_dts_ns and fatal_error (refused); history: skews, and
                    \* the samples in what the muxers took (represented)
    recording       \* "capture", "flush", "drained" or what failed

timelineVars == <<delivered, lostSync, clock, pcm, aac, recording>>

--------------------------------------------------------------------------------
(* Conversions                                                              *)

FramesToNs(n) == (n * NsNum) \div NsDen

\* av_rescale_q rounds to the nearest, halves away from zero.
RoundedQuotient(a, b) ==
    IF a >= 0 THEN (2 * a + b) \div (2 * b) ELSE -((b - 2 * a) \div (2 * b))

NsToTicks(ns) == RoundedQuotient(ns * NsDen, NsNum)
TicksToNs(ticks) == RoundedQuotient(ticks * NsNum, NsDen)

--------------------------------------------------------------------------------
(* AlsaCapture::Read and MediaClock::StampAudio                             *)

TimelineInit ==
    /\ delivered = 0
    /\ lostSync = FALSE
    /\ clock = [anchored |-> FALSE, anchorFrame |-> 0, anchorNs |-> 0,
                stamped |-> 0, lastEnd |-> 0, abuts |-> FALSE]
    /\ pcm = <<>>
    /\ aac = [pending |-> <<>>, pendingFrames |-> 0, intervals |-> <<>>, held |-> <<>>,
              haveInput |-> FALSE, expected |-> 0, accepted |-> 0, represented |-> 0,
              lastDts |-> -1, refused |-> FALSE, skews |-> {}]
    /\ recording = "capture"

\* snd_pcm_readi reports an overrun or a suspend; Recover succeeds.
Recover ==
    /\ recording = "capture" /\ pcm = <<>>
    /\ clock.stamped < MaxReads
    /\ lostSync' = TRUE
    /\ UNCHANGED <<delivered, clock, pcm, aac, recording>>

\* PredictAudioMonoNs, relative to the epoch
Predict(c, frame) == c.anchorNs + FramesToNs(frame - c.anchorFrame)

\* The anchor moves before the tests that refuse the chunk.
Reanchored(observed) ==
    IF ~clock.anchored \/ lostSync
    THEN [clock EXCEPT !.anchored = TRUE, !.anchorFrame = delivered,
                       !.anchorNs = observed]
    ELSE clock

\* Mutant of MayStamp: a chunk may overlap the one before it.
MayStampOverlapping(c, first) == first >= 0

MayStamp(c, first) == first >= 0 /\ (c.stamped > 0 => first >= c.lastEnd)

Read(n, observed) ==
    LET c == Reanchored(observed)
        first == Predict(c, delivered)
        end == Predict(c, delivered + n)
    IN  /\ recording = "capture" /\ pcm = <<>>
        /\ clock.stamped < MaxReads
        /\ delivered' = delivered + n
        /\ lostSync' = FALSE
        /\ IF MayStamp(c, first)
           THEN /\ clock' = [c EXCEPT !.stamped = @ + 1, !.lastEnd = end,
                     !.abuts = @ \/ (lostSync /\ clock.stamped > 0 /\ first = clock.lastEnd)]
                /\ pcm' = <<[frame |-> delivered, frames |-> n, pts |-> first,
                            discontinuity |-> lostSync, used |-> 0]>>
                /\ UNCHANGED recording
           ELSE clock' = c /\ recording' = "flush" /\ UNCHANGED pcm
        /\ UNCHANGED aac

\* An observation is used only where the clock takes an anchor; elsewhere it
\* differs from the prediction by what the clock reports as timing error.
Observations ==
    IF ~clock.anchored THEN Anchors
    ELSE IF lostSync THEN {Predict(clock, delivered) + d : d \in Drifts}
    ELSE {Predict(clock, delivered)}

\* AudioCaptureWorker stops its queue; the encoder drains what it holds.
CaptureEnds ==
    /\ recording = "capture" /\ pcm = <<>>
    /\ recording' = "flush"
    /\ UNCHANGED <<delivered, lostSync, clock, pcm, aac>>

--------------------------------------------------------------------------------
(* FfmpegAacEncoder                                                         *)

Greater(a, b) == IF a > b THEN a ELSE b
Smaller(a, b) == IF a < b THEN a ELSE b

\* Frames of [s, t) that lie in the packet
Overlap(interval, packet) ==
    Greater(0, Smaller(interval.end, packet.end) - Greater(interval.start, packet.start))

Covered(intervals, packet) ==
    LET sum[i \in 0 .. Len(intervals)] ==
            IF i = 0 THEN 0 ELSE sum[i - 1] + Overlap(intervals[i], packet)
    IN  sum[Len(intervals)]

\* The intervals at the front that end no later than the packet.
Complete(intervals, packet) ==
    CHOOSE k \in 0 .. Len(intervals) :
        /\ \A i \in 1..k : intervals[i].end <= packet.end
        /\ k < Len(intervals) => intervals[k + 1].end > packet.end

\* WriteAudio of a muxer: a DTS below the last one is a fatal error, after which
\* it takes nothing.
WriteAudio(e, dts, samples) ==
    IF e.refused \/ (e.lastDts >= 0 /\ dts < e.lastDts)
    THEN [e EXCEPT !.refused = TRUE]
    ELSE [e EXCEPT !.lastDts = dts, !.represented = @ + samples]

EmitPacket(e, packet) ==
    WriteAudio([e EXCEPT !.intervals = SubSeq(@, Complete(@, packet) + 1, Len(@))],
               TicksToNs(packet.start), Covered(e.intervals, packet))

\* The AAC encoder puts a priming packet before the first frame and holds two
\* packets back; each further frame releases the oldest one.
AvSendFrame(e, start, n) ==
    LET frame == [start |-> start, end |-> start + n]
    IN  IF e.held = <<>>
        THEN [e EXCEPT !.held = <<[start |-> start - FrameSize, end |-> start], frame>>]
        ELSE EmitPacket([e EXCEPT !.held = <<@[2], frame>>], e.held[1])

\* How many frames are pending before each chunk, and behind the last.
Before(pending) ==
    LET before[k \in 1 .. Len(pending) + 1] ==
            IF k = 1 THEN 0
            ELSE before[k - 1] + (pending[k - 1].frames - pending[k - 1].used)
    IN  before

ConsumePending(pending, n) ==
    LET before == Before(pending)
        spent == CHOOSE k \in 0 .. Len(pending) :
                    /\ before[k + 1] <= n
                    /\ k < Len(pending) => n < before[k + 2]
    IN  [i \in 1 .. Len(pending) - spent |->
            IF i = 1 THEN [pending[spent + 1] EXCEPT !.used = @ + (n - before[spent + 1])]
            ELSE pending[spent + i]]

Stamp(p) == NsToTicks(p.pts + FramesToNs(p.used))

\* History: how far a frame's samples are from the time the clock gave them.
Skews(pending, n) ==
    {Stamp(pending[1]) + Before(pending)[k] - Stamp(pending[k]) :
        k \in {k \in 1 .. Len(pending) : Before(pending)[k] < n}}

\* BuildFrame and SubmitFrame: the frame begins where its first chunk stands.
SubmitFrame(e, n) ==
    LET start == Stamp(e.pending[1])
    IN  AvSendFrame([e EXCEPT !.intervals = Append(@, [start |-> start, end |-> start + n]),
                              !.pending = ConsumePending(@, n),
                              !.pendingFrames = @ - n,
                              !.skews = @ \cup Skews(e.pending, n)],
                    start, n)

DrainCodec(e) ==
    IF e.held = <<>> THEN e
    ELSE EmitPacket(EmitPacket([e EXCEPT !.held = <<>>], e.held[1]), e.held[2])

\* DrainAndReopenForDiscontinuity
Reopened(e) == DrainCodec(e)

\* The chunk at the front enters the encoder.
chunk == Head(pcm)

Accepted(e) ==
    [e EXCEPT !.pending = Append(@, chunk), !.pendingFrames = @ + chunk.frames,
              !.haveInput = TRUE, !.expected = chunk.frame + chunk.frames,
              !.accepted = @ + chunk.frames]

SubmitWhole(e) ==
    LET whole == e.pendingFrames \div FrameSize
        submitted[k \in 0 .. whole] ==
            IF k = 0 THEN e ELSE SubmitFrame(submitted[k - 1], FrameSize)
    IN  submitted[whole]

\* A gap that is not announced, or one announced within a frame, is an error.
Refused ==
    /\ aac.haveInput
    /\ IF chunk.discontinuity THEN aac.pendingFrames # 0
       ELSE chunk.frame # aac.expected

\* EncodedAudioSinkWorker: a packet that is not taken stops the queue of packets,
\* and with it the encoder.
OrMuxerFailed(next) == IF aac'.refused THEN "muxer_failed" ELSE next

Encode ==
    /\ recording = "capture" /\ pcm # <<>>
    /\ IF Refused
       THEN recording' = "encoder_failed" /\ UNCHANGED aac
       ELSE /\ aac' = SubmitWhole(Accepted(
                   IF aac.haveInput /\ chunk.discontinuity THEN Reopened(aac) ELSE aac))
            /\ recording' = OrMuxerFailed("capture")
    /\ pcm' = <<>>
    /\ UNCHANGED <<delivered, lostSync, clock>>

\* A last short frame goes through as it is.
Flush ==
    /\ recording = "flush"
    /\ LET n == aac.pendingFrames
       IN  aac' = DrainCodec(IF n = 0 THEN aac ELSE SubmitFrame(aac, n))
    /\ recording' = OrMuxerFailed("drained")
    /\ UNCHANGED <<delivered, lostSync, clock, pcm>>

TimelineNext ==
    \/ Recover
    \/ \E n \in PeriodFrames, observed \in Observations : Read(n, observed)
    \/ CaptureEnds
    \/ Encode
    \/ Flush

TimelineSpec == TimelineInit /\ [][TimelineNext]_timelineVars

--------------------------------------------------------------------------------
(* Properties                                                               *)

\* The muxers refuse nothing, across any number of overruns, as long as every one
\* leaves a gap, of a nanosecond even: the reframing, the priming of a reopened
\* encoder and the rounding both ways never set a DTS back.
RefusedOnlyWithoutGap == aac.refused => clock.abuts

\* What the comments promise of a recovered overrun: the muxers account for it.
OverrunsAccountedFor == recording # "muxer_failed"

\* No sample that the encoder accepted is missing from what the muxers took of a
\* drained stream, and rounding counts at most one twice for each whole frame.
SamplesRepresented ==
    recording = "drained" =>
        /\ aac.intervals = <<>> /\ aac.pending = <<>>
        /\ aac.represented >= aac.accepted
        /\ aac.represented <= aac.accepted + aac.accepted \div FrameSize

\* A sample is played at the time the clock gave it, within a sample: none is
\* put into a frame that began before an overrun.
SamplesKeepTheirTime == aac.skews \subseteq -1..1

\* Sound stays whole, in order and in step with the video, whatever overruns
\* the capture recovers from.
AudioTimelineKept ==
    RefusedOnlyWithoutGap /\ SamplesRepresented /\ SamplesKeepTheirTime
================================================================================
