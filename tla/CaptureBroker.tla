----------------------------- MODULE CaptureBroker -----------------------------
(***************************************************************************)
(* The zero-copy capture path of visionram: V4L2Camera's buffer ledger and  *)
(* wake eventfd, CaptureBufferBroker's slots, leases and completion queue,  *)
(* and the two frames the capture thread can have in its hands.             *)
(*                                                                          *)
(* Each action is one critical section of the code (core_->mutex or         *)
(* queue_mutex_) with what the caller does before the next one.  A lease    *)
(* release and the external notification that follows its unlock are two    *)
(* actions, since another thread may run between them.  Frame ids count     *)
(* from 1, so that 0 stands for an invalid key (active_key_valid = false).  *)
(***************************************************************************)
EXTENDS Naturals, FiniteSets, Sequences

CONSTANTS
    Buffers,      \* the camera's buffers; the broker has one slot for each
    Consumers,    \* CaptureConsumer: the parties a frame may be leased to
    Threads,      \* the threads that release leases or close the broker
    MaxFrames,    \* bound: how many frames the driver delivers
    QbufMayFail   \* may VIDIOC_QBUF fail?

ASSUME BuffersFinite == IsFiniteSet(Buffers)
ASSUME ConsumersFinite == IsFiniteSet(Consumers)
ASSUME MaxFramesNat == MaxFrames \in Nat
ASSUME QbufBoolean == QbufMayFail \in BOOLEAN

VARIABLES
    \* V4L2Camera
    camera,       \* opened_ and streaming_
    bufState,     \* BufferMapping::state of each buffer
    activeKey,    \* BufferMapping::active_key, 0 when it is not valid
    outstanding,  \* outstanding_buffers_
    nextFrame,    \* next_frame_id_
    camStop,      \* stop_requested_
    wake,         \* the eventfd is readable
    \* CaptureBufferBroker::Core
    slot,         \* slots
    completions,  \* the ring of completed requests, oldest first
    closed,       \* snapshot.closed
    frameCount,   \* snapshot.outstanding_frames
    leaseCount,   \* snapshot.outstanding_leases
    notifying,    \* threads past the unlock and before NotifyExternal
    \* FrameLeaseImpl objects
    live,         \* armed and not released
    spent,        \* released, and still held by somebody
    \* locals of the capture thread
    hand,         \* the frame Capture returned, before Publish
    toQueue,      \* the request about to be given to Requeue
    \* history
    lost,         \* buffers whose QBUF failed
    defended      \* the branches against misuse that have run

cameraVars == <<camera, bufState, activeKey, outstanding, nextFrame, camStop>>
coreVars == <<slot, completions, closed, frameCount, leaseCount>>
leaseVars == <<live, spent>>
handVars == <<hand, toQueue>>
ghostVars == <<lost, defended>>
brokerVars == <<cameraVars, wake, coreVars, notifying, leaseVars, handVars,
                ghostVars>>

FrameIds == 1..MaxFrames
Requests == [buf : Buffers, key : FrameIds]
Leases == [buf : Buffers, key : FrameIds, consumer : Consumers]
Defences == {"stale_release", "duplicate_release", "completion_full",
             "duplicate_publish", "stale_requeue"}

EmptySlot == [occupied |-> FALSE, queued |-> FALSE, key |-> 0,
              requested |-> {}, released |-> {}, remaining |-> 0]

BrokerInit ==
    /\ camera = "open"
    /\ bufState = [b \in Buffers |-> "AVAILABLE"]
    /\ activeKey = [b \in Buffers |-> 0]
    /\ outstanding = 0
    /\ nextFrame = 1
    /\ camStop = FALSE
    /\ wake = FALSE
    /\ slot = [b \in Buffers |-> EmptySlot]
    /\ completions = <<>>
    /\ closed = FALSE
    /\ frameCount = 0
    /\ leaseCount = 0
    /\ notifying = {}
    /\ live = {}
    /\ spent = {}
    /\ hand = {}
    /\ toQueue = {}
    /\ lost = {}
    /\ defended = {}

--------------------------------------------------------------------------------
(* V4L2Camera                                                               *)

\* QueueAllBuffers and STREAMON succeed.
CameraStart ==
    /\ camera = "open"
    /\ \A b \in Buffers : bufState[b] # "QUEUED"
    /\ camera' = "streaming"
    /\ bufState' = [b \in Buffers |-> "QUEUED"]
    /\ outstanding' = 0
    /\ nextFrame' = 1
    /\ camStop' = FALSE
    /\ wake' = FALSE
    /\ UNCHANGED <<activeKey, coreVars, notifying, leaseVars, handVars, ghostVars>>

\* QBUF fails after some of the buffers, or STREAMON after all of them.
CameraStartFails(Queued) ==
    /\ QbufMayFail
    /\ camera = "open"
    /\ bufState' = [b \in Buffers |->
                        IF b \in Queued THEN "QUEUED" ELSE bufState[b]]
    /\ outstanding' = 0
    /\ camStop' = FALSE
    /\ wake' = FALSE
    /\ UNCHANGED <<camera, activeKey, nextFrame, coreVars, notifying, leaseVars,
                   handVars, ghostVars>>

\* Mutant of Notify: the thread that completed a frame wakes nobody.
NotifyNobody(t) ==
    /\ t \in notifying
    /\ notifying' = notifying \ {t}
    /\ UNCHANGED <<cameraVars, wake, coreVars, leaseVars, handVars, ghostVars>>

\* Wake() by the broker's notifier, in the thread that completed a frame.
Notify(t) ==
    /\ t \in notifying
    /\ notifying' = notifying \ {t}
    /\ wake' = (wake \/ camera # "released")
    /\ UNCHANGED <<cameraVars, coreVars, leaseVars, handVars, ghostVars>>

\* RequestStop stores the flag and then calls Wake, which writes the eventfd.
RequestStop ==
    /\ camStop' = TRUE
    /\ UNCHANGED <<camera, bufState, activeKey, outstanding, nextFrame, wake,
                   coreVars, notifying, leaseVars, handVars, ghostVars>>

Wake ==
    /\ wake' = (wake \/ camera # "released")
    /\ UNCHANGED <<cameraVars, coreVars, notifying, leaseVars, handVars, ghostVars>>

\* Capture found the eventfd readable: WAKE, or STOPPED when camStop is set.
CaptureWake ==
    /\ wake
    /\ wake' = FALSE
    /\ UNCHANGED <<cameraVars, coreVars, notifying, leaseVars, handVars, ghostVars>>

\* DQBUF, then BuildFrameView: Capture returns FRAME.
CaptureFrame(b) ==
    /\ camera = "streaming"
    /\ hand = {}
    /\ nextFrame <= MaxFrames
    /\ bufState[b] = "QUEUED"
    /\ bufState' = [bufState EXCEPT ![b] = "DEQUEUED"]
    /\ activeKey' = [activeKey EXCEPT ![b] = nextFrame]
    /\ outstanding' = outstanding + 1
    /\ nextFrame' = nextFrame + 1
    /\ hand' = {[buf |-> b, key |-> nextFrame]}
    /\ UNCHANGED <<camera, camStop, wake, coreVars, notifying, leaseVars, toQueue,
                   ghostVars>>

\* DQBUF of a buffer with the error flag: it is queued again at once.  When
\* that QBUF fails the buffer stays DEQUEUED and Capture returns DROPPED too.
CaptureDropped(b, ok) ==
    /\ camera = "streaming"
    /\ hand = {}
    /\ bufState[b] = "QUEUED"
    /\ ok \/ QbufMayFail
    /\ IF ok
       THEN UNCHANGED <<bufState, outstanding, lost>>
       ELSE /\ bufState' = [bufState EXCEPT ![b] = "DEQUEUED"]
            /\ outstanding' = outstanding + 1
            /\ lost' = lost \cup {b}
    /\ activeKey' = [activeKey EXCEPT ![b] = 0]
    /\ UNCHANGED <<camera, nextFrame, camStop, wake, coreVars, notifying,
                   leaseVars, handVars, defended>>

RequeueMatches(r) ==
    /\ camera = "streaming"
    /\ bufState[r.buf] = "DEQUEUED"
    /\ activeKey[r.buf] = r.key

\* Requeue of the request in hand returns false: it is refused, or QBUF fails.
RequeueFails(r) ==
    /\ r \in toQueue
    /\ IF RequeueMatches(r)
       THEN QbufMayFail /\ lost' = lost \cup {r.buf} /\ UNCHANGED defended
       ELSE defended' = defended \cup {"stale_requeue"} /\ UNCHANGED lost
    /\ toQueue' = {}
    /\ UNCHANGED <<cameraVars, wake, coreVars, notifying, leaseVars, hand>>

RequeueDone(r) ==
    /\ r \in toQueue
    /\ RequeueMatches(r)
    /\ bufState' = [bufState EXCEPT ![r.buf] = "QUEUED"]
    /\ activeKey' = [activeKey EXCEPT ![r.buf] = 0]
    /\ outstanding' = outstanding - 1
    /\ toQueue' = {}
    /\ UNCHANGED <<camera, nextFrame, camStop, wake, coreVars, notifying, leaseVars,
                   hand, ghostVars>>

\* V4L2Camera::Stop: the stop flag, STREAMOFF, then every resource is released.
CameraStop ==
    /\ camera' = "released"
    /\ bufState' = [b \in Buffers |-> "AVAILABLE"]
    /\ activeKey' = [b \in Buffers |-> 0]
    /\ outstanding' = 0
    /\ camStop' = TRUE
    /\ wake' = FALSE
    /\ lost' = {}
    /\ UNCHANGED <<nextFrame, coreVars, notifying, leaseVars, handVars, defended>>

--------------------------------------------------------------------------------
(* CaptureBufferBroker                                                      *)

\* Publish commits the frame and arms one lease for each consumer.
PublishAccepted(r, C) ==
    /\ r \in hand
    /\ ~closed
    /\ ~slot[r.buf].occupied
    /\ slot' = [slot EXCEPT ![r.buf] =
                   [occupied |-> TRUE, queued |-> FALSE, key |-> r.key,
                    requested |-> C, released |-> {},
                    remaining |-> Cardinality(C)]]
    /\ live' = live \cup [buf : {r.buf}, key : {r.key}, consumer : C]
    /\ frameCount' = frameCount + 1
    /\ leaseCount' = leaseCount + Cardinality(C)
    /\ hand' = {}
    /\ UNCHANGED <<cameraVars, wake, completions, closed, notifying, spent, toQueue,
                   ghostVars>>

\* Publish refuses: closed, occupied, an invalid view or no memory for a lease.
\* Its caller then gives the frame to Requeue directly.
PublishRejected(r) ==
    /\ r \in hand
    /\ hand' = {}
    /\ toQueue' = hand
    /\ defended' = IF ~closed /\ slot[r.buf].occupied
                   THEN defended \cup {"duplicate_publish"} ELSE defended
    /\ UNCHANGED <<cameraVars, wake, coreVars, notifying, leaseVars, lost>>

\* Core::ReleaseLease under the mutex.
StaleRelease(l) ==
    \/ ~slot[l.buf].occupied
    \/ slot[l.buf].key # l.key
    \/ l.consumer \notin slot[l.buf].requested

\* Mutants of LastLease: any release completes the frame; none does.
AnyLease(s) == TRUE
PastLastLease(s) == s.remaining = 0

\* remaining_leases reaches zero with this release.
LastLease(s) == s.remaining = 1

CoreRelease(t, l) ==
    LET s == slot[l.buf]
        last == LastLease(s)
        full == Len(completions) >= Cardinality(Buffers)
    IN  IF StaleRelease(l)
        THEN /\ defended' = defended \cup {"stale_release"}
             /\ UNCHANGED <<coreVars, notifying>>
        ELSE IF l.consumer \in s.released
        THEN /\ defended' = defended \cup {"duplicate_release"}
             /\ UNCHANGED <<coreVars, notifying>>
        ELSE /\ slot' = [slot EXCEPT
                   ![l.buf].released = @ \cup {l.consumer},
                   ![l.buf].remaining = @ - 1,
                   ![l.buf].queued = @ \/ (last /\ ~full)]
             /\ leaseCount' = leaseCount - 1
             /\ completions' = IF last /\ ~full
                               THEN Append(completions,
                                           [buf |-> l.buf, key |-> s.key])
                               ELSE completions
             /\ notifying' = IF last /\ ~full THEN notifying \cup {t} ELSE notifying
             /\ defended' = IF last /\ full
                            THEN defended \cup {"completion_full"} ELSE defended
             /\ UNCHANGED <<closed, frameCount>>

\* FrameLeaseImpl::Release (or the destructor of an armed lease).  The holder
\* may keep the handle, and then call Release once more.
Release(t, l, kept) ==
    /\ t \notin notifying
    /\ l \in live
    /\ live' = live \ {l}
    /\ spent' = IF kept THEN spent \cup {l} ELSE spent
    /\ CoreRelease(t, l)
    /\ UNCHANGED <<cameraVars, wake, handVars, lost>>

\* Mutant of ReleaseAgain: no compare-exchange, so the core sees the call.
ReleaseTwice(t, l) ==
    /\ t \notin notifying
    /\ l \in spent
    /\ spent' = spent \ {l}
    /\ CoreRelease(t, l)
    /\ UNCHANGED <<cameraVars, wake, live, handVars, lost>>

\* Release of a lease that is released already: the compare-exchange fails.
ReleaseAgain(t, l) ==
    /\ t \notin notifying
    /\ l \in spent
    /\ spent' = spent \ {l}
    /\ UNCHANGED <<cameraVars, wake, coreVars, notifying, live, handVars, ghostVars>>

\* Mutant of PopRequeue: outstanding_frames is not decremented.
PopRequeueUncounted ==
    /\ toQueue = {}
    /\ completions # <<>>
    /\ LET r == Head(completions)
       IN  toQueue' = {r} /\ slot' = [slot EXCEPT ![r.buf] = EmptySlot]
    /\ completions' = Tail(completions)
    /\ UNCHANGED <<cameraVars, wake, closed, frameCount, leaseCount, notifying,
                   leaseVars, hand, ghostVars>>

\* PopLocked: the slot is free again before the buffer is queued.
PopRequeue ==
    /\ toQueue = {}
    /\ completions # <<>>
    /\ LET r == Head(completions)
           s == slot[r.buf]
           frees == s.occupied /\ s.queued /\ s.key = r.key
       IN  /\ toQueue' = {r}
           /\ slot' = IF frees THEN [slot EXCEPT ![r.buf] = EmptySlot] ELSE slot
           /\ frameCount' = IF frees THEN frameCount - 1 ELSE frameCount
    /\ completions' = Tail(completions)
    /\ UNCHANGED <<cameraVars, wake, closed, leaseCount, notifying, leaseVars, hand,
                   ghostVars>>

\* Close: only the call that changes the flag notifies.
Close(t) ==
    /\ t \notin notifying
    /\ closed' = TRUE
    /\ notifying' = IF closed THEN notifying ELSE notifying \cup {t}
    /\ UNCHANGED <<cameraVars, wake, slot, completions, frameCount, leaseCount,
                   leaseVars, handVars, ghostVars>>

--------------------------------------------------------------------------------
(* The clients' contract: the capture thread has one frame or request in    *)
(* hand at a time, and the camera is stopped only when no lease is live, no *)
(* completion is queued and the capture thread holds nothing.               *)

HandsFree == hand = {} /\ toQueue = {}
Quiet == live = {} /\ completions = <<>> /\ notifying = {} /\ HandsFree

BrokerNext ==
    \/ CameraStart
    \/ \E Queued \in SUBSET Buffers : CameraStartFails(Queued)
    \/ RequestStop
    \/ Wake
    \/ CaptureWake
    \/ HandsFree /\ \E b \in Buffers : CaptureFrame(b)
    \/ HandsFree /\ \E b \in Buffers, ok \in BOOLEAN : CaptureDropped(b, ok)
    \/ \E r \in hand, C \in (SUBSET Consumers) \ {{}} : PublishAccepted(r, C)
    \/ \E r \in hand : PublishRejected(r)
    \/ \E t \in Threads, l \in live, kept \in BOOLEAN : Release(t, l, kept)
    \/ \E t \in Threads, l \in spent : ReleaseAgain(t, l)
    \/ \E t \in Threads : Notify(t)
    \/ \E t \in Threads : Close(t)
    \/ HandsFree /\ PopRequeue
    \/ \E r \in toQueue : RequeueFails(r)
    \/ \E r \in toQueue : RequeueDone(r)
    \/ Quiet /\ CameraStop

BrokerSpec == BrokerInit /\ [][BrokerNext]_brokerVars

--------------------------------------------------------------------------------
(* Properties                                                               *)

Slots == [occupied : BOOLEAN, queued : BOOLEAN, key : 0..MaxFrames,
          requested : SUBSET Consumers, released : SUBSET Consumers,
          remaining : Nat]

\* The values each variable may take.
BrokerTypeOK ==
    /\ camera \in {"open", "streaming", "released"}
    /\ bufState \in [Buffers -> {"AVAILABLE", "QUEUED", "DEQUEUED"}]
    /\ activeKey \in [Buffers -> 0..MaxFrames]
    /\ outstanding \in Nat
    /\ nextFrame \in 1..(MaxFrames + 1)
    /\ camStop \in BOOLEAN
    /\ wake \in BOOLEAN
    /\ slot \in [Buffers -> Slots]
    /\ completions \in Seq(Requests)
    /\ closed \in BOOLEAN
    /\ frameCount \in Nat
    /\ leaseCount \in Nat
    /\ notifying \subseteq Threads
    /\ live \subseteq Leases
    /\ spent \subseteq Leases
    /\ hand \subseteq Requests
    /\ toQueue \subseteq Requests
    /\ lost \subseteq Buffers
    /\ defended \subseteq Defences

Occupied == {b \in Buffers : slot[b].occupied}
Dequeued == {b \in Buffers : bufState[b] = "DEQUEUED"}

\* Zero-copy safety: whoever holds a live lease reads a buffer the driver does
\* not have, and the slot and the camera still name the leased frame, so
\* lease->frame() neither throws nor shows another frame.
LeasedFrameIntact ==
    \A l \in live :
        /\ bufState[l.buf] = "DEQUEUED"
        /\ activeKey[l.buf] = l.key
        /\ slot[l.buf].occupied
        /\ slot[l.buf].key = l.key
        /\ ~slot[l.buf].queued

\* The rejecting branches of ReleaseLease, Publish and Requeue are never taken:
\* in particular the full completion ring "cannot occur", as its comment says.
NeverDefends == defended = {}

\* The three counters that the shutdown report checks against zero are the
\* numbers of things they count.
LedgersAgree ==
    /\ outstanding = Cardinality(Dequeued)
    /\ frameCount = Cardinality(Occupied)
    /\ leaseCount = Cardinality(live)

\* No dequeued buffer is forgotten: it is in the capture thread's hands, leased
\* through its slot, on the completion ring, or its QBUF failed.
NoBufferForgotten ==
    \A b \in Dequeued :
        \/ b \in lost
        \/ \E r \in hand \cup toQueue : r.buf = b
        \/ \E l \in live : l.buf = b
        \/ \E i \in DOMAIN completions : completions[i].buf = b

\* What holds of the slots, the leases, the completion ring and the hands
\* together, and makes the four properties above inductive.
SlotAgrees(s, state, key) ==
    /\ ~s.occupied => s = EmptySlot
    /\ s.occupied =>
        /\ state = "DEQUEUED"
        /\ key = s.key
        /\ s.key \in FrameIds
        /\ s.released \subseteq s.requested
        /\ s.remaining = Cardinality(s.requested \ s.released)
        /\ s.queued <=> s.released = s.requested

SlotsConsistent ==
    \A b \in Buffers : SlotAgrees(slot[b], bufState[b], activeKey[b])

LeasesConsistent ==
    /\ IsFiniteSet(live)
    /\ \A l \in Leases :
        l \in live <=> /\ slot[l.buf].occupied
                       /\ slot[l.buf].key = l.key
                       /\ l.consumer \in slot[l.buf].requested
                       /\ l.consumer \notin slot[l.buf].released

CompletionsConsistent ==
    /\ \A i \in DOMAIN completions :
        /\ slot[completions[i].buf].queued
        /\ slot[completions[i].buf].key = completions[i].key
    /\ \A i, j \in DOMAIN completions :
        completions[i].buf = completions[j].buf => i = j
    /\ \A b \in Buffers :
        slot[b].queued => \E i \in DOMAIN completions : completions[i].buf = b

HandsConsistent ==
    /\ hand = {} \/ toQueue = {}
    /\ \A r, s \in hand \cup toQueue : r = s
    /\ \A r \in hand \cup toQueue :
        /\ bufState[r.buf] = "DEQUEUED"
        /\ activeKey[r.buf] = r.key
        /\ ~slot[r.buf].occupied

CameraConsistent == camera # "streaming" => Dequeued = {}

BrokerInv ==
    /\ BrokerTypeOK
    /\ SlotsConsistent
    /\ LeasesConsistent
    /\ CompletionsConsistent
    /\ HandsConsistent
    /\ CameraConsistent
    /\ LedgersAgree
    /\ NoBufferForgotten
    /\ NeverDefends

\* The buffers as BufferOwnership sees them: the driver has what is queued, the
\* application what is dequeued, and a live lease is a reader.
OwnerOf(b) ==
    CASE bufState[b] = "AVAILABLE" -> "idle"
      [] bufState[b] = "QUEUED" -> "driver"
      [] bufState[b] = "DEQUEUED" -> "application"
ReadersOf(b) == {l.consumer : l \in {m \in live : m.buf = b}}

Ownership == INSTANCE BufferOwnership WITH
    owner <- [b \in Buffers |-> OwnerOf(b)],
    readers <- [b \in Buffers |-> ReadersOf(b)]

\* README "Resource and shutdown contracts": V4L2 remains the camera-buffer
\* owner, and a buffer is requeued only after every lease has been released.
OwnershipKept == Ownership!OwnershipSpec
================================================================================
