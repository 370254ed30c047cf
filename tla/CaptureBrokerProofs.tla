-------------------------- MODULE CaptureBrokerProofs --------------------------
(***************************************************************************)
(* Proofs about CaptureBroker for every number of buffers, consumers,       *)
(* threads and frames.  BrokerInv is the inductive invariant: it relates    *)
(* the camera's buffer states, the broker's slots, the live leases, the     *)
(* completion ring and the capture thread's hands.  One lemma per action    *)
(* shows that the action preserves it.                                      *)
(***************************************************************************)
EXTENDS CaptureBroker, FiniteSetTheorems, FunctionTheorems, TLAPS

--------------------------------------------------------------------------------
(* Lemmas about finite sets and the operators of the model                  *)

\* The leases that Publish creates are as many as the consumers.
LEMMA NewLeases ==
    ASSUME NEW b, NEW k, NEW C \in SUBSET Consumers
    PROVE  LET N == [buf : {b}, key : {k}, consumer : C]
           IN  IsFiniteSet(N) /\ Cardinality(N) = Cardinality(C)
<1> DEFINE N == [buf : {b}, key : {k}, consumer : C]
           f == [c \in C |-> [buf |-> b, key |-> k, consumer |-> c]]
<1>1. IsFiniteSet(C)  BY ConsumersFinite, FS_Subset
<1>2. f \in [C -> N]  OBVIOUS
<1>3. \A x, y \in C : f[x] = f[y] => x = y
  <2> SUFFICES ASSUME NEW x \in C, NEW y \in C, f[x] = f[y] PROVE x = y  OBVIOUS
  <2>1. f[x].consumer = x /\ f[y].consumer = y  OBVIOUS
  <2> QED BY <2>1
<1>4. \A n \in N : \E c \in C : f[c] = n
  <2> SUFFICES ASSUME NEW n \in N PROVE \E c \in C : f[c] = n  OBVIOUS
  <2>1. n.consumer \in C /\ f[n.consumer] = n  OBVIOUS
  <2> QED BY <2>1
<1>5. f \in Bijection(C, N)  BY <1>2, <1>3, <1>4, Fun_IsBij
<1>6. ExistsBijection(C, N)  BY <1>5 DEF ExistsBijection
<1> QED BY <1>1, <1>6, FS_Bijection

\* Every completion names a buffer.
LEMMA CompletionBuffers ==
    ASSUME BrokerTypeOK
    PROVE  \A i \in DOMAIN completions :
               completions[i] \in Requests /\ completions[i].buf \in Buffers
<1>1. \A i \in DOMAIN completions : completions[i] \in Requests  BY DEF BrokerTypeOK
<1>2. \A q \in Requests : q.buf \in Buffers  BY DEF Requests
<1> QED BY <1>1, <1>2

\* The completion ring has room for the completion of any slot that has none:
\* queued completions belong to different buffers.
LEMMA CompletionRoom ==
    ASSUME BrokerTypeOK, CompletionsConsistent, NEW b \in Buffers, ~slot[b].queued
    PROVE  Len(completions) < Cardinality(Buffers)
<1> DEFINE D == 1..Len(completions)
           f == [i \in D |-> completions[i].buf]
<1>1. Len(completions) \in Nat /\ DOMAIN completions = D  BY DEF BrokerTypeOK
<1>2. \A i \in D : completions[i] \in Requests /\ completions[i].buf # b
  BY <1>1 DEF BrokerTypeOK, CompletionsConsistent
<1>3. f \in [D -> Buffers \ {b}]  BY <1>2 DEF Requests
<1>4. f \in Injection(D, Buffers \ {b})
  <2>1. \A i, j \in D : f[i] = f[j] => i = j  BY <1>1 DEF CompletionsConsistent
  <2> QED BY <1>3, <2>1 DEF Injection, IsInjective
<1>5. IsFiniteSet(Buffers \ {b}) /\ Cardinality(Buffers \ {b}) = Cardinality(Buffers) - 1
  BY BuffersFinite, FS_RemoveElement
<1>6. Cardinality(D) <= Cardinality(Buffers \ {b})  BY <1>4, <1>5, FS_Injection
<1>7. Cardinality(D) = Len(completions)
  <2>1. 1 \in Int /\ Len(completions) \in Int  BY <1>1
  <2>2. Cardinality(D) = IF 1 > Len(completions) THEN 0 ELSE Len(completions) - 1 + 1
    BY <2>1, FS_Interval
  <2> QED BY <1>1, <2>2
<1>8. Cardinality(Buffers) \in Nat  BY BuffersFinite, FS_CardinalityType
<1> QED BY <1>1, <1>5, <1>6, <1>7, <1>8

\* The sets that the ledgers count are finite.
LEMMA CountedFinite ==
    IsFiniteSet(Dequeued) /\ IsFiniteSet(Occupied)
BY BuffersFinite, FS_Subset DEF Dequeued, Occupied

--------------------------------------------------------------------------------
(* The inductive invariant                                                  *)

\* A camera that is open and a broker that holds nothing satisfy the invariant.
LEMMA InitInv == BrokerInit => BrokerInv
<1> SUFFICES ASSUME BrokerInit PROVE BrokerInv  OBVIOUS
<1> USE DEF BrokerInit
<1>1. EmptySlot \in Slots  BY MaxFramesNat DEF EmptySlot, Slots
<1>2. BrokerTypeOK
  <2>1. completions \in Seq(Requests)  OBVIOUS
  <2>2. slot \in [Buffers -> Slots]  BY <1>1
  <2>3. /\ activeKey \in [Buffers -> 0..MaxFrames]
        /\ nextFrame \in 1..(MaxFrames + 1)
    BY MaxFramesNat
  <2> QED BY <2>1, <2>2, <2>3 DEF BrokerTypeOK
<1>3. SlotsConsistent  BY DEF SlotsConsistent, SlotAgrees, EmptySlot
<1>4. LeasesConsistent  BY FS_EmptySet DEF LeasesConsistent, EmptySlot, Leases
<1>5. CompletionsConsistent  BY DEF CompletionsConsistent, EmptySlot
<1>6. HandsConsistent /\ CameraConsistent /\ NoBufferForgotten /\ NeverDefends
  BY DEF HandsConsistent, CameraConsistent, NoBufferForgotten, NeverDefends, Dequeued
<1>7. LedgersAgree
  <2>1. Dequeued = {} /\ Occupied = {}  BY DEF Dequeued, Occupied, EmptySlot
  <2> QED BY <2>1, FS_EmptySet DEF LedgersAgree
<1> QED BY <1>2, <1>3, <1>4, <1>5, <1>6, <1>7 DEF BrokerInv

\* A step that changes neither buffers, slots, leases nor hands keeps the rest.
LEMMA FrameInv ==
    ASSUME BrokerInv, BrokerTypeOK',
           UNCHANGED <<camera, bufState, activeKey, outstanding, slot, completions,
                       frameCount, leaseCount, live, hand, toQueue, lost, defended>>
    PROVE  BrokerInv'
BY DEF BrokerInv, SlotsConsistent, LeasesConsistent, CompletionsConsistent,
   HandsConsistent, CameraConsistent, LedgersAgree, NoBufferForgotten, NeverDefends,
   Dequeued, Occupied

\* The steps that only set a flag, wake the capture thread or drop a spent handle.
LEMMA QuietSteps ==
    ASSUME BrokerInv
    PROVE  /\ RequestStop => BrokerInv'
           /\ Wake => BrokerInv'
           /\ CaptureWake => BrokerInv'
           /\ \A t \in Threads : Notify(t) => BrokerInv'
           /\ \A t \in Threads : Close(t) => BrokerInv'
           /\ \A t \in Threads, l \in spent : ReleaseAgain(t, l) => BrokerInv'
<1> USE DEF cameraVars, coreVars, leaseVars, handVars, ghostVars
<1>0. BrokerTypeOK  BY DEF BrokerInv
<1>1. ASSUME RequestStop PROVE BrokerInv'
  <2>1. BrokerTypeOK'  BY <1>0, <1>1 DEF BrokerTypeOK, RequestStop
  <2> QED BY <1>1, <2>1, FrameInv DEF RequestStop
<1>2. ASSUME CaptureWake PROVE BrokerInv'
  <2>1. BrokerTypeOK'  BY <1>0, <1>2 DEF BrokerTypeOK, CaptureWake
  <2> QED BY <1>2, <2>1, FrameInv DEF CaptureWake
<1>3. ASSUME NEW t \in Threads, Notify(t) PROVE BrokerInv'
  <2>1. BrokerTypeOK'  BY <1>0, <1>3 DEF BrokerTypeOK, Notify
  <2> QED BY <1>3, <2>1, FrameInv DEF Notify
<1>4. ASSUME NEW t \in Threads, Close(t) PROVE BrokerInv'
  <2>1. BrokerTypeOK'  BY <1>0, <1>4 DEF BrokerTypeOK, Close
  <2> QED BY <1>4, <2>1, FrameInv DEF Close
<1>5. ASSUME NEW t \in Threads, NEW l \in spent, ReleaseAgain(t, l) PROVE BrokerInv'
  <2>1. BrokerTypeOK'  BY <1>0, <1>5 DEF BrokerTypeOK, ReleaseAgain
  <2> QED BY <1>5, <2>1, FrameInv DEF ReleaseAgain
<1>6. ASSUME Wake PROVE BrokerInv'
  <2>1. BrokerTypeOK'  BY <1>0, <1>6 DEF BrokerTypeOK, Wake
  <2> QED BY <1>6, <2>1, FrameInv DEF Wake
<1> QED BY <1>1, <1>2, <1>3, <1>4, <1>5, <1>6

\* While the camera does not stream nothing is leased, queued or in hand.
LEMMA IdleCamera ==
    ASSUME BrokerInv, Dequeued = {}
    PROVE  /\ \A b \in Buffers : ~slot[b].occupied
           /\ hand = {} /\ toQueue = {}
<1>1. BrokerTypeOK /\ SlotsConsistent /\ HandsConsistent  BY DEF BrokerInv
<1>2. \A b \in Buffers : ~slot[b].occupied
  BY <1>1 DEF SlotsConsistent, SlotAgrees, Dequeued
<1>3. \A r \in hand \cup toQueue : r.buf \in Buffers  BY <1>1 DEF BrokerTypeOK, Requests
<1>4. \A r \in hand \cup toQueue : FALSE  BY <1>1, <1>3 DEF HandsConsistent, Dequeued
<1> QED BY <1>2, <1>4

\* Start queues every buffer; nothing is leased while the camera does not stream.
LEMMA CameraStartInv ==
    ASSUME BrokerInv, CameraStart PROVE BrokerInv'
<1> USE DEF coreVars, leaseVars, handVars, ghostVars
<1>0. BrokerTypeOK /\ Dequeued = {}  BY DEF BrokerInv, CameraStart, CameraConsistent
<1>1. BrokerTypeOK'
  <2>1. nextFrame' \in 1..(MaxFrames + 1)  BY MaxFramesNat DEF CameraStart
  <2> QED BY <1>0, <2>1 DEF CameraStart, BrokerTypeOK
<1>2. (\A b \in Buffers : ~slot[b].occupied) /\ hand = {} /\ toQueue = {}
  BY <1>0, IdleCamera
<1>3. Dequeued' = {}  BY DEF CameraStart, Dequeued
<1>4. SlotsConsistent'
  BY <1>2 DEF BrokerInv, CameraStart, SlotAgrees, SlotsConsistent, SlotAgrees, EmptySlot
<1>5. LeasesConsistent' /\ CompletionsConsistent'
  BY DEF BrokerInv, CameraStart, LeasesConsistent, CompletionsConsistent
<1>6. HandsConsistent' /\ CameraConsistent' /\ NoBufferForgotten' /\ NeverDefends'
  BY <1>2, <1>3 DEF BrokerInv, CameraStart, HandsConsistent, CameraConsistent,
     NoBufferForgotten, NeverDefends
<1>7. LedgersAgree'
  BY <1>3, FS_EmptySet DEF BrokerInv, CameraStart, LedgersAgree, Occupied
<1> QED BY <1>1, <1>4, <1>5, <1>6, <1>7 DEF BrokerInv

\* A start that fails half way leaves no buffer dequeued.
LEMMA CameraStartFailsInv ==
    ASSUME BrokerInv, NEW Queued \in SUBSET Buffers, CameraStartFails(Queued)
    PROVE  BrokerInv'
<1> USE DEF coreVars, leaseVars, handVars, ghostVars
<1>0. BrokerTypeOK /\ Dequeued = {}
  BY DEF BrokerInv, CameraStartFails, CameraConsistent
<1>1. BrokerTypeOK'  BY <1>0 DEF CameraStartFails, BrokerTypeOK
<1>2. (\A b \in Buffers : ~slot[b].occupied) /\ hand = {} /\ toQueue = {}
  BY <1>0, IdleCamera
<1>3. Dequeued' = {}  BY <1>0 DEF CameraStartFails, Dequeued
<1>4. SlotsConsistent'
  BY <1>2 DEF BrokerInv, CameraStartFails, SlotAgrees, SlotsConsistent, SlotAgrees, EmptySlot
<1>5. LeasesConsistent' /\ CompletionsConsistent'
  BY DEF BrokerInv, CameraStartFails, LeasesConsistent, CompletionsConsistent
<1>6. HandsConsistent' /\ CameraConsistent' /\ NoBufferForgotten' /\ NeverDefends'
  BY <1>2, <1>3 DEF BrokerInv, CameraStartFails, HandsConsistent, CameraConsistent,
     NoBufferForgotten, NeverDefends
<1>7. LedgersAgree'
  BY <1>3, FS_EmptySet DEF BrokerInv, CameraStartFails, LedgersAgree, Occupied
<1> QED BY <1>1, <1>4, <1>5, <1>6, <1>7 DEF BrokerInv

--------------------------------------------------------------------------------
(* Capture                                                                  *)

\* A captured frame is in the capture thread's hand and in no slot.
LEMMA CaptureFrameInv ==
    ASSUME BrokerInv, HandsFree, NEW b \in Buffers, CaptureFrame(b)
    PROVE  BrokerInv'
<1> USE DEF coreVars, leaseVars, ghostVars
<1>0. BrokerTypeOK /\ hand = {} /\ toQueue = {}  BY DEF BrokerInv, HandsFree
<1>1. BrokerTypeOK'
  <2>1. nextFrame \in FrameIds /\ nextFrame + 1 \in 1..(MaxFrames + 1)
    BY <1>0, MaxFramesNat DEF CaptureFrame, BrokerTypeOK, FrameIds
  <2>2. hand' \subseteq Requests  BY <2>1 DEF CaptureFrame, Requests
  <2>3. activeKey' \in [Buffers -> 0..MaxFrames]
    BY <1>0, <2>1, MaxFramesNat DEF CaptureFrame, BrokerTypeOK, FrameIds
  <2>4. outstanding' \in Nat  BY <1>0 DEF CaptureFrame, BrokerTypeOK
  <2> QED BY <1>0, <2>1, <2>2, <2>3, <2>4 DEF CaptureFrame, BrokerTypeOK
<1>2. ~slot[b].occupied  BY DEF BrokerInv, SlotsConsistent, SlotAgrees, CaptureFrame
<1>3. SlotsConsistent'
  BY <1>0, <1>2 DEF BrokerInv, SlotsConsistent, SlotAgrees, CaptureFrame, BrokerTypeOK
<1>4. LeasesConsistent' /\ CompletionsConsistent' /\ NeverDefends'
  BY DEF BrokerInv, LeasesConsistent, CompletionsConsistent, NeverDefends, CaptureFrame
<1>5. HandsConsistent'  BY <1>0, <1>2 DEF HandsConsistent, CaptureFrame, BrokerTypeOK
<1>6. Dequeued' = Dequeued \cup {b} /\ b \notin Dequeued
  BY <1>0 DEF CaptureFrame, Dequeued, BrokerTypeOK
<1>7. CameraConsistent'  BY DEF CameraConsistent, CaptureFrame
<1>8. LedgersAgree'
  <2>1. Cardinality(Dequeued') = Cardinality(Dequeued) + 1
    BY <1>6, CountedFinite, FS_AddElement
  <2> QED BY <2>1 DEF BrokerInv, LedgersAgree, CaptureFrame, Occupied
<1>9. NoBufferForgotten'
  <2> SUFFICES ASSUME NEW d \in Dequeued'
               PROVE  \/ d \in lost'
                      \/ \E r \in hand' \cup toQueue' : r.buf = d
                      \/ \E l \in live' : l.buf = d
                      \/ \E i \in DOMAIN completions' : completions'[i].buf = d
    BY DEF NoBufferForgotten
  <2>1. CASE d = b
    <3>1. [buf |-> b, key |-> nextFrame] \in hand' \cup toQueue'  BY DEF CaptureFrame
    <3>2. [buf |-> b, key |-> nextFrame].buf = d  BY <2>1
    <3> QED BY <3>1, <3>2
  <2>2. CASE d \in Dequeued
    BY <1>0, <2>2 DEF BrokerInv, NoBufferForgotten, CaptureFrame
  <2> QED BY <1>6, <2>1, <2>2
<1> QED BY <1>1, <1>3, <1>4, <1>5, <1>7, <1>8, <1>9 DEF BrokerInv

\* A dropped frame is queued again, or counted as lost when its QBUF fails.
LEMMA CaptureDroppedInv ==
    ASSUME BrokerInv, HandsFree, NEW b \in Buffers, NEW ok \in BOOLEAN,
           CaptureDropped(b, ok)
    PROVE  BrokerInv'
<1> USE DEF coreVars, leaseVars, handVars
<1>0. BrokerTypeOK /\ hand = {} /\ toQueue = {}  BY DEF BrokerInv, HandsFree
<1>1. BrokerTypeOK'
  <2>1. activeKey' \in [Buffers -> 0..MaxFrames]
    BY <1>0, MaxFramesNat DEF CaptureDropped, BrokerTypeOK
  <2>2. outstanding' \in Nat /\ lost' \subseteq Buffers
    BY <1>0 DEF CaptureDropped, BrokerTypeOK
  <2>3. bufState' \in [Buffers -> {"AVAILABLE", "QUEUED", "DEQUEUED"}]
    BY <1>0 DEF CaptureDropped, BrokerTypeOK
  <2> QED BY <1>0, <2>1, <2>2, <2>3 DEF CaptureDropped, BrokerTypeOK
<1>2. ~slot[b].occupied  BY DEF BrokerInv, SlotsConsistent, SlotAgrees, CaptureDropped
<1>3. SlotsConsistent'
  BY <1>0, <1>2 DEF BrokerInv, SlotsConsistent, SlotAgrees, CaptureDropped, BrokerTypeOK
<1>4. LeasesConsistent' /\ CompletionsConsistent' /\ NeverDefends'
  BY DEF BrokerInv, LeasesConsistent, CompletionsConsistent, NeverDefends,
     CaptureDropped
<1>5. HandsConsistent'  BY <1>0 DEF HandsConsistent, CaptureDropped
<1>6. CameraConsistent'  BY DEF CameraConsistent, CaptureDropped
<1>7. CASE ok
  <2>1. Dequeued' = Dequeued  BY <1>7 DEF CaptureDropped, Dequeued
  <2>2. LedgersAgree' /\ NoBufferForgotten'
    BY <1>7, <2>1 DEF BrokerInv, LedgersAgree, NoBufferForgotten, CaptureDropped,
       Occupied
  <2> QED BY <1>1, <1>3, <1>4, <1>5, <1>6, <2>2 DEF BrokerInv
<1>8. CASE ~ok
  <2>1. Dequeued' = Dequeued \cup {b} /\ b \notin Dequeued
    BY <1>0, <1>8 DEF CaptureDropped, Dequeued, BrokerTypeOK
  <2>2. Cardinality(Dequeued') = Cardinality(Dequeued) + 1
    BY <2>1, CountedFinite, FS_AddElement
  <2>3. LedgersAgree'
    BY <1>8, <2>2 DEF BrokerInv, LedgersAgree, CaptureDropped, Occupied
  <2>4. NoBufferForgotten'
    BY <1>8, <2>1 DEF BrokerInv, NoBufferForgotten, CaptureDropped
  <2> QED BY <1>1, <1>3, <1>4, <1>5, <1>6, <2>3, <2>4 DEF BrokerInv
<1> QED BY <1>7, <1>8

--------------------------------------------------------------------------------
(* Requeue and Stop                                                         *)

\* A request in hand is always the one the camera expects.
LEMMA RequestMatches ==
    ASSUME BrokerInv, NEW r \in toQueue
    PROVE  /\ RequeueMatches(r) /\ r.buf \in Buffers
           /\ hand = {} /\ toQueue = {r}
<1>1. BrokerTypeOK /\ HandsConsistent /\ CameraConsistent  BY DEF BrokerInv
<1>2. r.buf \in Buffers  BY <1>1 DEF BrokerTypeOK, Requests
<1>3. bufState[r.buf] = "DEQUEUED" /\ activeKey[r.buf] = r.key
  BY <1>1 DEF HandsConsistent
<1>4. camera = "streaming"  BY <1>1, <1>2, <1>3 DEF CameraConsistent, Dequeued
<1>5. hand = {} /\ toQueue = {r}  BY <1>1 DEF HandsConsistent
<1> QED BY <1>2, <1>3, <1>4, <1>5 DEF RequeueMatches

\* A failed QBUF leaves the buffer dequeued, and recorded as lost.
LEMMA RequeueFailsInv ==
    ASSUME BrokerInv, NEW r \in toQueue, RequeueFails(r)
    PROVE  BrokerInv'
<1> USE DEF cameraVars, coreVars, leaseVars
<1>0. BrokerTypeOK  BY DEF BrokerInv
<1>1. RequeueMatches(r) /\ r.buf \in Buffers /\ hand = {} /\ toQueue = {r}
  BY RequestMatches
<1>2. defended' = defended /\ lost' = lost \cup {r.buf}  BY <1>1 DEF RequeueFails
<1>3. BrokerTypeOK'  BY <1>0, <1>1, <1>2 DEF RequeueFails, BrokerTypeOK
<1>4. /\ SlotsConsistent' /\ LeasesConsistent' /\ CompletionsConsistent'
      /\ CameraConsistent' /\ LedgersAgree' /\ NeverDefends'
  BY <1>2 DEF BrokerInv, RequeueFails, SlotsConsistent, LeasesConsistent,
     CompletionsConsistent, CameraConsistent, LedgersAgree, NeverDefends, Dequeued,
     Occupied
<1>5. HandsConsistent'  BY <1>1 DEF HandsConsistent, RequeueFails
<1>6. NoBufferForgotten'
  <2> SUFFICES ASSUME NEW d \in Dequeued'
               PROVE  \/ d \in lost'
                      \/ \E l \in live' : l.buf = d
                      \/ \E i \in DOMAIN completions' : completions'[i].buf = d
    BY DEF NoBufferForgotten
  <2>1. d \in Dequeued  BY DEF Dequeued, RequeueFails
  <2>2. CASE d = r.buf  BY <1>2, <2>2
  <2>3. CASE d # r.buf
    BY <1>1, <1>2, <2>1, <2>3 DEF BrokerInv, NoBufferForgotten, RequeueFails
  <2> QED BY <2>2, <2>3
<1> QED BY <1>3, <1>4, <1>5, <1>6 DEF BrokerInv

\* A requeue gives the buffer of a free slot back to the driver.
LEMMA RequeueDoneInv ==
    ASSUME BrokerInv, NEW r \in toQueue, RequeueDone(r)
    PROVE  BrokerInv'
<1> USE DEF coreVars, leaseVars, ghostVars
<1>0. BrokerTypeOK  BY DEF BrokerInv
<1>1. /\ r.buf \in Buffers /\ hand = {} /\ toQueue = {r}
      /\ bufState[r.buf] = "DEQUEUED"
  BY RequestMatches DEF RequeueMatches
<1>2. ~slot[r.buf].occupied  BY DEF BrokerInv, HandsConsistent
<1>3. Dequeued' = Dequeued \ {r.buf} /\ r.buf \in Dequeued
  BY <1>0, <1>1 DEF RequeueDone, Dequeued, BrokerTypeOK
<1>4. Cardinality(Dequeued') = Cardinality(Dequeued) - 1
  BY <1>3, CountedFinite, FS_RemoveElement
<1>5. Cardinality(Dequeued') \in Nat
  BY <1>3, CountedFinite, FS_RemoveElement, FS_CardinalityType
<1>6. LedgersAgree'  BY <1>4 DEF BrokerInv, LedgersAgree, RequeueDone, Occupied
<1>7. BrokerTypeOK'
  <2>1. outstanding' \in Nat  BY <1>5, <1>6 DEF LedgersAgree
  <2>2. activeKey' \in [Buffers -> 0..MaxFrames]
    BY <1>0, <1>1, MaxFramesNat DEF RequeueDone, BrokerTypeOK
  <2> QED BY <1>0, <1>1, <2>1, <2>2 DEF RequeueDone, BrokerTypeOK
<1>8. SlotsConsistent'
  BY <1>0, <1>1, <1>2 DEF BrokerInv, SlotsConsistent, SlotAgrees, RequeueDone, BrokerTypeOK
<1>9. LeasesConsistent' /\ CompletionsConsistent' /\ NeverDefends'
  BY DEF BrokerInv, LeasesConsistent, CompletionsConsistent, NeverDefends, RequeueDone
<1>10. HandsConsistent'  BY <1>1 DEF HandsConsistent, RequeueDone
<1>11. CameraConsistent'  BY <1>3 DEF BrokerInv, CameraConsistent, RequeueDone
<1>12. NoBufferForgotten'  BY <1>1, <1>3 DEF BrokerInv, NoBufferForgotten, RequeueDone
<1> QED BY <1>6, <1>7, <1>8, <1>9, <1>10, <1>11, <1>12 DEF BrokerInv

\* The clients' contract leaves no slot occupied when the camera is stopped.
LEMMA QuietSlots ==
    ASSUME BrokerInv, Quiet
    PROVE  \A b \in Buffers : ~slot[b].occupied
<1> SUFFICES ASSUME NEW b \in Buffers, slot[b].occupied PROVE FALSE  OBVIOUS
<1>1. BrokerTypeOK /\ SlotsConsistent /\ LeasesConsistent /\ CompletionsConsistent
  BY DEF BrokerInv
<1>2. ~slot[b].queued  BY <1>1 DEF CompletionsConsistent, Quiet
<1>3. PICK c \in slot[b].requested : c \notin slot[b].released
  BY <1>1, <1>2 DEF SlotsConsistent, SlotAgrees
<1>4. [buf |-> b, key |-> slot[b].key, consumer |-> c] \in Leases
  BY <1>1 DEF Leases, SlotsConsistent, SlotAgrees, BrokerTypeOK, Slots
<1>5. [buf |-> b, key |-> slot[b].key, consumer |-> c] \in live
  BY <1>1, <1>3, <1>4 DEF LeasesConsistent
<1> QED BY <1>5 DEF Quiet

\* Stopping the camera under the clients' contract strands no slot and no lease.
LEMMA CameraStopInv ==
    ASSUME BrokerInv, Quiet, CameraStop
    PROVE  BrokerInv'
<1> USE DEF coreVars, leaseVars, handVars
<1>0. BrokerTypeOK  BY DEF BrokerInv
<1>1. BrokerTypeOK'
  <2>1. activeKey' \in [Buffers -> 0..MaxFrames]  BY MaxFramesNat DEF CameraStop
  <2> QED BY <1>0, <2>1 DEF CameraStop, BrokerTypeOK
<1>2. Dequeued' = {}  BY DEF CameraStop, Dequeued
<1>3. SlotsConsistent'
  BY QuietSlots DEF BrokerInv, SlotsConsistent, SlotAgrees, CameraStop, EmptySlot
<1>4. LeasesConsistent' /\ CompletionsConsistent' /\ NeverDefends'
  BY DEF BrokerInv, LeasesConsistent, CompletionsConsistent, NeverDefends, CameraStop
<1>5. HandsConsistent' /\ CameraConsistent' /\ NoBufferForgotten'
  BY <1>2 DEF HandsConsistent, CameraConsistent, NoBufferForgotten, CameraStop, Quiet,
     HandsFree
<1>6. LedgersAgree'
  BY <1>2, FS_EmptySet DEF BrokerInv, LedgersAgree, CameraStop, Occupied
<1> QED BY <1>1, <1>3, <1>4, <1>5, <1>6 DEF BrokerInv

--------------------------------------------------------------------------------
(* Publish                                                                  *)

\* A refused frame goes on to Requeue, and never because its slot is occupied.
LEMMA PublishRejectedInv ==
    ASSUME BrokerInv, NEW r \in hand, PublishRejected(r)
    PROVE  BrokerInv'
<1> USE DEF cameraVars, coreVars, leaseVars
<1>0. BrokerTypeOK /\ HandsConsistent  BY DEF BrokerInv
<1>1. toQueue = {} /\ ~slot[r.buf].occupied  BY <1>0 DEF HandsConsistent
<1>2. defended' = defended  BY <1>1 DEF PublishRejected
<1>3. BrokerTypeOK'  BY <1>0, <1>2 DEF PublishRejected, BrokerTypeOK
<1>4. /\ SlotsConsistent' /\ LeasesConsistent' /\ CompletionsConsistent'
      /\ CameraConsistent' /\ LedgersAgree' /\ NeverDefends'
  BY <1>2 DEF BrokerInv, PublishRejected, SlotsConsistent, LeasesConsistent,
     CompletionsConsistent, CameraConsistent, LedgersAgree, NeverDefends, Dequeued,
     Occupied
<1>5. hand' \cup toQueue' = hand \cup toQueue  BY <1>1 DEF PublishRejected
<1>6. HandsConsistent'  BY <1>0, <1>5 DEF HandsConsistent, PublishRejected
<1>7. NoBufferForgotten'
  BY <1>5 DEF BrokerInv, NoBufferForgotten, PublishRejected, Dequeued
<1> QED BY <1>3, <1>4, <1>6, <1>7 DEF BrokerInv

\* Publish fills a free slot and arms exactly the leases that the slot counts.
LEMMA PublishAcceptedInv ==
    ASSUME BrokerInv, NEW r \in hand, NEW C \in SUBSET Consumers, C # {},
           PublishAccepted(r, C)
    PROVE  BrokerInv'
<1> USE DEF cameraVars, ghostVars
<1> DEFINE N == [buf : {r.buf}, key : {r.key}, consumer : C]
           s == [occupied |-> TRUE, queued |-> FALSE, key |-> r.key,
                 requested |-> C, released |-> {}, remaining |-> Cardinality(C)]
<1>0. /\ BrokerTypeOK /\ HandsConsistent /\ SlotsConsistent /\ LeasesConsistent
      /\ CompletionsConsistent /\ LedgersAgree
  BY DEF BrokerInv
<1>1. /\ r.buf \in Buffers /\ r.key \in FrameIds
      /\ hand = {r} /\ toQueue = {} /\ hand' = {} /\ toQueue' = {}
      /\ bufState[r.buf] = "DEQUEUED" /\ activeKey[r.buf] = r.key
      /\ ~slot[r.buf].occupied
  BY <1>0 DEF HandsConsistent, BrokerTypeOK, Requests, PublishAccepted
<1>2. slot[r.buf] = EmptySlot  BY <1>0, <1>1 DEF SlotsConsistent, SlotAgrees
<1>3. IsFiniteSet(C) /\ Cardinality(C) \in Nat /\ Cardinality(C) # 0
  BY ConsumersFinite, FS_Subset, FS_CardinalityType, FS_EmptySet
<1>4. IsFiniteSet(N) /\ Cardinality(N) = Cardinality(C)  BY NewLeases
<1>5. slot' = [slot EXCEPT ![r.buf] = s] /\ live' = live \cup N  BY DEF PublishAccepted
<1>6. \A l \in live : l.buf # r.buf  BY <1>0, <1>1 DEF LeasesConsistent, BrokerTypeOK
<1>7. N \cap live = {}  BY <1>6
<1>8. N \subseteq Leases  BY <1>1 DEF Leases
<1>9. s \in Slots  BY <1>1, <1>3, MaxFramesNat DEF Slots, FrameIds
<1>10. BrokerTypeOK'
  <2>1. frameCount' \in Nat /\ leaseCount' \in Nat
    BY <1>0, <1>3 DEF PublishAccepted, BrokerTypeOK
  <2>2. slot' \in [Buffers -> Slots] /\ live' \subseteq Leases
    BY <1>0, <1>5, <1>8, <1>9 DEF BrokerTypeOK
  <2> QED BY <1>0, <1>1, <2>1, <2>2 DEF PublishAccepted, BrokerTypeOK
<1>11. \A b \in Buffers : slot'[b] = IF b = r.buf THEN s ELSE slot[b]
  BY <1>0, <1>5 DEF BrokerTypeOK
<1>12. SlotsConsistent'
  <2> SUFFICES ASSUME NEW b \in Buffers
               PROVE  SlotAgrees(slot'[b], bufState'[b], activeKey'[b])
    BY DEF SlotsConsistent
  <2>1. CASE b = r.buf
    <3>1. C \ {} = C  OBVIOUS
    <3> QED BY <1>1, <1>11, <2>1, <3>1 DEF PublishAccepted, SlotAgrees
  <2>2. CASE b # r.buf  BY <1>0, <1>11, <2>2 DEF SlotsConsistent, PublishAccepted
  <2> QED BY <2>1, <2>2
<1>13. LeasesConsistent'
  <2>1. IsFiniteSet(live')  BY <1>0, <1>4, <1>5, FS_Union DEF LeasesConsistent
  <2> SUFFICES ASSUME NEW l \in Leases
               PROVE  l \in live' <=> /\ slot'[l.buf].occupied
                                      /\ slot'[l.buf].key = l.key
                                      /\ l.consumer \in slot'[l.buf].requested
                                      /\ l.consumer \notin slot'[l.buf].released
    BY <2>1 DEF LeasesConsistent
  <2>2. CASE l.buf = r.buf
    <3>1. l \notin live  BY <1>6, <2>2
    <3>2. l \in N <=> l.key = r.key /\ l.consumer \in C  BY <2>2 DEF Leases
    <3> QED BY <1>1, <1>5, <1>11, <2>2, <3>1, <3>2
  <2>3. CASE l.buf # r.buf
    <3>1. l \notin N  BY <2>3
    <3>2. l.buf \in Buffers  BY DEF Leases
    <3> QED BY <1>0, <1>5, <1>11, <2>3, <3>1, <3>2 DEF LeasesConsistent
  <2> QED BY <2>2, <2>3
<1>14. CompletionsConsistent'
  <2>1. \A i \in DOMAIN completions : completions[i].buf # r.buf
    BY <1>0, <1>2 DEF CompletionsConsistent, EmptySlot
  <2>2. \A i \in DOMAIN completions : completions[i].buf \in Buffers
    BY <1>0, CompletionBuffers
  <2> QED BY <1>0, <1>11, <2>1, <2>2 DEF CompletionsConsistent, PublishAccepted
<1>15. HandsConsistent' /\ CameraConsistent' /\ NeverDefends'
  BY <1>1 DEF BrokerInv, HandsConsistent, CameraConsistent, NeverDefends,
     PublishAccepted, Dequeued
<1>16. LedgersAgree'
  <2>1. Occupied' = Occupied \cup {r.buf} /\ r.buf \notin Occupied
    BY <1>1, <1>11 DEF Occupied
  <2>2. Cardinality(Occupied') = Cardinality(Occupied) + 1
    BY <2>1, CountedFinite, FS_AddElement
  <2>3. Cardinality(live') = Cardinality(live) + Cardinality(C)
    <3>1. live \cap N = {}  BY <1>7
    <3>2. Cardinality(live \cup N) =
              Cardinality(live) + Cardinality(N) - Cardinality(live \cap N)
      BY <1>0, <1>4, FS_Union DEF LeasesConsistent
    <3>3. Cardinality(live) \in Nat  BY <1>0, FS_CardinalityType DEF LeasesConsistent
    <3>4. Cardinality(live \cap N) = 0  BY <3>1, FS_EmptySet
    <3> QED BY <1>3, <1>4, <1>5, <3>2, <3>3, <3>4
  <2> QED BY <1>0, <2>2, <2>3 DEF LedgersAgree, PublishAccepted, Dequeued
<1>17. NoBufferForgotten'
  <2>1. PICK c \in C : TRUE  OBVIOUS
  <2>2. [buf |-> r.buf, key |-> r.key, consumer |-> c] \in live'  BY <1>5
  <2> SUFFICES ASSUME NEW d \in Dequeued'
               PROVE  \/ d \in lost'
                      \/ \E l \in live' : l.buf = d
                      \/ \E i \in DOMAIN completions' : completions'[i].buf = d
    BY DEF NoBufferForgotten
  <2>3. CASE d = r.buf
    <3>1. [buf |-> r.buf, key |-> r.key, consumer |-> c].buf = d  BY <2>3
    <3> QED BY <2>2, <3>1
  <2>4. CASE d # r.buf
    <3>1. d \in Dequeued  BY DEF Dequeued, PublishAccepted
    <3> QED BY <1>1, <1>5, <2>4, <3>1 DEF BrokerInv, NoBufferForgotten, PublishAccepted
  <2> QED BY <2>3, <2>4
<1> QED BY <1>10, <1>12, <1>13, <1>14, <1>15, <1>16, <1>17 DEF BrokerInv

--------------------------------------------------------------------------------
(* PopRequeue                                                               *)

\* PopRequeue frees the slot of the oldest completion; the buffer is in hand.
LEMMA PopRequeueInv ==
    ASSUME BrokerInv, HandsFree, PopRequeue
    PROVE  BrokerInv'
<1> USE DEF cameraVars, leaseVars, ghostVars
<1> DEFINE r == Head(completions)
<1>0. /\ BrokerTypeOK /\ SlotsConsistent /\ LeasesConsistent
      /\ CompletionsConsistent /\ LedgersAgree
      /\ hand = {} /\ toQueue = {}
  BY DEF BrokerInv, HandsFree
<1>1. /\ completions # <<>> /\ r = completions[1] /\ 1 \in DOMAIN completions
      /\ r \in Requests
  BY <1>0 DEF PopRequeue, BrokerTypeOK
<1>2. /\ r.buf \in Buffers /\ slot[r.buf].queued /\ slot[r.buf].key = r.key
  BY <1>0, <1>1 DEF CompletionsConsistent, Requests
<1>3. /\ slot[r.buf].occupied
      /\ slot[r.buf].released = slot[r.buf].requested
      /\ bufState[r.buf] = "DEQUEUED" /\ activeKey[r.buf] = r.key
  <2>1. slot[r.buf] # EmptySlot  BY <1>2 DEF EmptySlot
  <2>2. slot[r.buf].occupied  BY <1>0, <1>2, <2>1 DEF SlotsConsistent, SlotAgrees
  <2> QED BY <1>0, <1>2, <2>2 DEF SlotsConsistent, SlotAgrees
<1>4. /\ toQueue' = {r} /\ hand' = {}
      /\ slot' = [slot EXCEPT ![r.buf] = EmptySlot]
      /\ frameCount' = frameCount - 1
      /\ completions' = Tail(completions)
  BY <1>0, <1>2, <1>3 DEF PopRequeue
<1>5. \A b \in Buffers : slot'[b] = IF b = r.buf THEN EmptySlot ELSE slot[b]
  BY <1>0, <1>4 DEF BrokerTypeOK
<1>6. Occupied' = Occupied \ {r.buf} /\ r.buf \in Occupied
  BY <1>2, <1>3, <1>5 DEF Occupied, EmptySlot
<1>7. Cardinality(Occupied') = Cardinality(Occupied) - 1 /\ Cardinality(Occupied') \in Nat
  BY <1>6, CountedFinite, FS_RemoveElement, FS_CardinalityType
<1>8. LedgersAgree'  BY <1>0, <1>4, <1>7 DEF LedgersAgree, PopRequeue, Dequeued
<1>9. BrokerTypeOK'
  <2>1. frameCount' \in Nat  BY <1>7, <1>8 DEF LedgersAgree
  <2>2. EmptySlot \in Slots  BY MaxFramesNat DEF EmptySlot, Slots
  <2>3. slot' \in [Buffers -> Slots]  BY <1>0, <1>4, <2>2 DEF BrokerTypeOK
  <2>4. completions' \in Seq(Requests)  BY <1>0, <1>1, <1>4 DEF BrokerTypeOK
  <2> QED BY <1>0, <1>1, <1>4, <2>1, <2>3, <2>4 DEF PopRequeue, BrokerTypeOK
<1>10. SlotsConsistent'
  <2> SUFFICES ASSUME NEW b \in Buffers
               PROVE  SlotAgrees(slot'[b], bufState'[b], activeKey'[b])
    BY DEF SlotsConsistent
  <2>1. CASE b = r.buf  BY <1>5, <2>1 DEF EmptySlot, SlotAgrees
  <2>2. CASE b # r.buf  BY <1>0, <1>5, <2>2 DEF SlotsConsistent, PopRequeue
  <2> QED BY <2>1, <2>2
<1>11. LeasesConsistent'
  <2> SUFFICES ASSUME NEW l \in Leases
               PROVE  l \in live' <=> /\ slot'[l.buf].occupied
                                      /\ slot'[l.buf].key = l.key
                                      /\ l.consumer \in slot'[l.buf].requested
                                      /\ l.consumer \notin slot'[l.buf].released
    BY <1>0 DEF LeasesConsistent, PopRequeue
  <2>1. l.buf \in Buffers  BY DEF Leases
  <2> QED BY <1>0, <1>3, <1>5, <2>1 DEF LeasesConsistent, PopRequeue, EmptySlot
<1>12. CompletionsConsistent'
  <2>1. /\ Len(completions) \in Nat \ {0}
        /\ DOMAIN completions = 1..Len(completions)
        /\ DOMAIN completions' = 1..(Len(completions) - 1)
        /\ \A i \in DOMAIN completions' : completions'[i] = completions[i + 1]
    BY <1>0, <1>1, <1>4 DEF BrokerTypeOK
  <2>2. \A i \in DOMAIN completions' :
            i + 1 \in DOMAIN completions /\ completions'[i].buf # r.buf
    <3> SUFFICES ASSUME NEW i \in DOMAIN completions'
                 PROVE  i + 1 \in DOMAIN completions /\ completions'[i].buf # r.buf
      OBVIOUS
    <3>1. i + 1 \in DOMAIN completions /\ i + 1 # 1  BY <2>1
    <3>2. completions[i + 1].buf # completions[1].buf
      BY <1>0, <1>1, <3>1 DEF CompletionsConsistent
    <3> QED BY <1>1, <2>1, <3>1, <3>2
  <2>3. \A i \in DOMAIN completions' : completions'[i].buf \in Buffers
    BY <1>0, <2>1, <2>2, CompletionBuffers
  <2>4. \A i \in DOMAIN completions' :
            /\ slot'[completions'[i].buf].queued
            /\ slot'[completions'[i].buf].key = completions'[i].key
    BY <1>0, <1>5, <2>1, <2>2, <2>3 DEF CompletionsConsistent
  <2>5. \A i, j \in DOMAIN completions' :
            completions'[i].buf = completions'[j].buf => i = j
    <3> SUFFICES ASSUME NEW i \in DOMAIN completions', NEW j \in DOMAIN completions',
                        completions'[i].buf = completions'[j].buf
                 PROVE  i = j
      OBVIOUS
    <3>1. i + 1 = j + 1  BY <1>0, <2>1, <2>2 DEF CompletionsConsistent
    <3> QED BY <2>1, <3>1
  <2>6. \A b \in Buffers :
            slot'[b].queued => \E i \in DOMAIN completions' : completions'[i].buf = b
    <3> SUFFICES ASSUME NEW b \in Buffers, slot'[b].queued
                 PROVE  \E i \in DOMAIN completions' : completions'[i].buf = b
      OBVIOUS
    <3>1. b # r.buf /\ slot[b].queued  BY <1>5 DEF EmptySlot
    <3>2. PICK j \in DOMAIN completions : completions[j].buf = b
      BY <1>0, <3>1 DEF CompletionsConsistent
    <3>3. j # 1  BY <1>1, <3>1, <3>2
    <3>4. j - 1 \in DOMAIN completions' /\ (j - 1) + 1 = j  BY <2>1, <3>3
    <3> QED BY <2>1, <3>2, <3>4
  <2> QED BY <2>4, <2>5, <2>6 DEF CompletionsConsistent
<1>13. HandsConsistent'
  BY <1>2, <1>3, <1>4, <1>5 DEF HandsConsistent, PopRequeue, EmptySlot
<1>14. CameraConsistent' /\ NeverDefends'
  BY DEF BrokerInv, CameraConsistent, NeverDefends, PopRequeue, Dequeued
<1>15. NoBufferForgotten'
  <2> SUFFICES ASSUME NEW d \in Dequeued'
               PROVE  \/ d \in lost'
                      \/ \E q \in hand' \cup toQueue' : q.buf = d
                      \/ \E l \in live' : l.buf = d
                      \/ \E i \in DOMAIN completions' : completions'[i].buf = d
    BY DEF NoBufferForgotten
  <2>1. d \in Dequeued  BY DEF Dequeued, PopRequeue
  <2>2. CASE d = r.buf  BY <1>4, <2>2
  <2>3. CASE d # r.buf /\ \E i \in DOMAIN completions : completions[i].buf = d
    <3>1. slot'[d].queued  BY <1>0, <1>5, <2>1, <2>3 DEF CompletionsConsistent, Dequeued
    <3> QED BY <1>12, <2>1, <3>1 DEF CompletionsConsistent, Dequeued
  <2>4. CASE d # r.buf /\ ~\E i \in DOMAIN completions : completions[i].buf = d
    BY <1>0, <2>1, <2>4 DEF BrokerInv, NoBufferForgotten, PopRequeue
  <2> QED BY <2>2, <2>3, <2>4
<1> QED BY <1>8, <1>9, <1>10, <1>11, <1>12, <1>13, <1>14, <1>15 DEF BrokerInv

--------------------------------------------------------------------------------
(* Release                                                                  *)

\* A live lease names its slot's frame, so its release is neither stale nor a
\* duplicate, and its slot is not yet on the completion ring.
LEMMA LiveLease ==
    ASSUME BrokerInv, NEW l \in live
    PROVE  /\ l \in Leases /\ l.buf \in Buffers /\ l.consumer \in Consumers
           /\ slot[l.buf] \in Slots
           /\ slot[l.buf].occupied /\ ~slot[l.buf].queued
           /\ slot[l.buf].key = l.key /\ l.key \in FrameIds
           /\ l.consumer \in slot[l.buf].requested
           /\ l.consumer \notin slot[l.buf].released
           /\ bufState[l.buf] = "DEQUEUED" /\ activeKey[l.buf] = l.key
           /\ ~StaleRelease(l)
           /\ Len(completions) < Cardinality(Buffers)
<1>1. /\ BrokerTypeOK /\ SlotsConsistent /\ LeasesConsistent
      /\ CompletionsConsistent
  BY DEF BrokerInv
<1>2. /\ l \in Leases /\ l.buf \in Buffers /\ l.consumer \in Consumers
      /\ l.key \in FrameIds
  BY <1>1 DEF BrokerTypeOK, Leases
<1>3. /\ slot[l.buf].occupied /\ slot[l.buf].key = l.key
      /\ l.consumer \in slot[l.buf].requested
      /\ l.consumer \notin slot[l.buf].released
  BY <1>1, <1>2 DEF LeasesConsistent
<1>4. /\ ~slot[l.buf].queued
      /\ bufState[l.buf] = "DEQUEUED" /\ activeKey[l.buf] = l.key
  BY <1>1, <1>2, <1>3 DEF SlotsConsistent, SlotAgrees
<1>5. slot[l.buf] \in Slots  BY <1>1, <1>2 DEF BrokerTypeOK
<1>6. Len(completions) < Cardinality(Buffers)  BY <1>1, <1>2, <1>4, CompletionRoom
<1> QED BY <1>2, <1>3, <1>4, <1>5, <1>6 DEF StaleRelease

\* What one release does to the slot it names and to the leases.
LEMMA ReleaseEffect ==
    ASSUME BrokerInv, NEW t \in Threads, NEW l \in live, NEW kept \in BOOLEAN,
           Release(t, l, kept)
    PROVE  LET s == slot[l.buf]
               last == s.remaining = 1
               after == [s EXCEPT !.released = s.released \cup {l.consumer},
                                  !.remaining = s.remaining - 1,
                                  !.queued = last]
           IN  /\ slot' = [slot EXCEPT ![l.buf] = after]
               /\ live' = live \ {l}
               /\ leaseCount' = leaseCount - 1
               /\ completions' = IF last
                                 THEN Append(completions,
                                             [buf |-> l.buf, key |-> l.key])
                                 ELSE completions
               /\ notifying' \subseteq Threads /\ spent' \subseteq Leases
               /\ UNCHANGED <<cameraVars, wake, closed, frameCount, handVars,
                              ghostVars>>
<1> DEFINE s == slot[l.buf]
           last == s.remaining = 1
<1>1. /\ l \in Leases /\ l.buf \in Buffers /\ s \in Slots /\ s.key = l.key
      /\ ~s.queued /\ ~StaleRelease(l) /\ l.consumer \notin s.released
      /\ Len(completions) < Cardinality(Buffers)
  BY LiveLease
<1>2. Len(completions) \in Nat /\ Cardinality(Buffers) \in Nat /\ BrokerTypeOK
  BY BuffersFinite, FS_CardinalityType DEF BrokerInv, BrokerTypeOK
<1>3. ~(Len(completions) >= Cardinality(Buffers))  BY <1>1, <1>2
<1>4. /\ slot' = [slot EXCEPT
             ![l.buf].released = @ \cup {l.consumer},
             ![l.buf].remaining = @ - 1,
             ![l.buf].queued = @ \/ last]
      /\ leaseCount' = leaseCount - 1
      /\ completions' = IF last
                        THEN Append(completions, [buf |-> l.buf, key |-> s.key])
                        ELSE completions
      /\ notifying' = IF last THEN notifying \cup {t} ELSE notifying
      /\ defended' = defended /\ closed' = closed /\ frameCount' = frameCount
  BY <1>1, <1>3 DEF Release, CoreRelease, LastLease
<1>5. slot' = [slot EXCEPT ![l.buf] =
                  [s EXCEPT !.released = s.released \cup {l.consumer},
                            !.remaining = s.remaining - 1,
                            !.queued = last]]
  <2>1. slot \in [Buffers -> Slots]  BY <1>2 DEF BrokerTypeOK
  <2>2. (s.queued \/ last) = last  BY <1>1 DEF Slots
  <2> QED BY <1>1, <1>4, <2>1, <2>2
<1> QED BY <1>1, <1>2, <1>4, <1>5
        DEF Release, cameraVars, handVars, ghostVars, BrokerTypeOK

\* A release keeps the invariant: the last lease of a slot puts it on the ring.
LEMMA ReleaseInv ==
    ASSUME BrokerInv, NEW t \in Threads, NEW l \in live, NEW kept \in BOOLEAN,
           Release(t, l, kept)
    PROVE  BrokerInv'
<1> USE DEF cameraVars, handVars, ghostVars
<1> DEFINE s == slot[l.buf]
           last == s.remaining = 1
           left == s.requested \ s.released
           after == [s EXCEPT !.released = s.released \cup {l.consumer},
                              !.remaining = s.remaining - 1,
                              !.queued = last]
<1>0. /\ BrokerTypeOK /\ SlotsConsistent /\ LeasesConsistent
      /\ CompletionsConsistent /\ HandsConsistent /\ LedgersAgree
  BY DEF BrokerInv
<1>1. /\ l \in Leases /\ l.buf \in Buffers /\ l.consumer \in Consumers
      /\ s \in Slots /\ s.occupied /\ ~s.queued /\ s.key = l.key
      /\ l.key \in FrameIds /\ l.consumer \in left
      /\ bufState[l.buf] = "DEQUEUED" /\ activeKey[l.buf] = l.key
  BY LiveLease
<1>2. /\ slot' = [slot EXCEPT ![l.buf] = after]
      /\ live' = live \ {l}
      /\ leaseCount' = leaseCount - 1
      /\ completions' = IF last
                        THEN Append(completions, [buf |-> l.buf, key |-> l.key])
                        ELSE completions
      /\ notifying' \subseteq Threads /\ spent' \subseteq Leases
      /\ UNCHANGED <<cameraVars, wake, closed, frameCount, handVars, ghostVars>>
  BY ReleaseEffect
<1>3. \A b \in Buffers : slot'[b] = IF b = l.buf THEN after ELSE slot[b]
  BY <1>0, <1>2 DEF BrokerTypeOK
<1>4. /\ after.occupied /\ after.key = s.key
      /\ after.requested = s.requested
      /\ after.released = s.released \cup {l.consumer}
      /\ after.remaining = s.remaining - 1 /\ after.queued = last
  BY <1>1 DEF Slots
<1>5. /\ IsFiniteSet(left) /\ Cardinality(left) = s.remaining
      /\ s.released \subseteq s.requested
  <2>1. s.released \subseteq s.requested /\ s.remaining = Cardinality(left)
    BY <1>0, <1>1 DEF SlotsConsistent, SlotAgrees
  <2>2. left \subseteq Consumers  BY <1>1 DEF Slots
  <2> QED BY <2>1, <2>2, ConsumersFinite, FS_Subset
<1>6. /\ Cardinality(left \ {l.consumer}) = s.remaining - 1
      /\ IsFiniteSet(left \ {l.consumer})
      /\ s.remaining - 1 \in Nat
  <2>1. /\ Cardinality(left \ {l.consumer}) = Cardinality(left) - 1
        /\ IsFiniteSet(left \ {l.consumer})
    BY <1>1, <1>5, FS_RemoveElement
  <2> QED BY <1>5, <2>1, FS_CardinalityType
<1>7. after.requested \ after.released = left \ {l.consumer}  BY <1>4
<1>8. last <=> after.released = after.requested
  <2>1. s.remaining \in Nat  BY <1>1 DEF Slots
  <2>2. last <=> Cardinality(left \ {l.consumer}) = 0  BY <1>6, <2>1
  <2>3. last <=> left \ {l.consumer} = {}  BY <1>6, <2>2, FS_EmptySet
  <2>4. after.released \subseteq after.requested  BY <1>1, <1>4, <1>5
  <2> QED BY <1>7, <2>3, <2>4
<1>9. after \in Slots
  <2>1. s.released \cup {l.consumer} \in SUBSET Consumers  BY <1>1 DEF Slots
  <2>2. last \in BOOLEAN  OBVIOUS
  <2> HIDE DEF last
  <2> QED BY <1>1, <1>6, <2>1, <2>2 DEF Slots
<1>10. /\ IsFiniteSet(live') /\ Cardinality(live') = Cardinality(live) - 1
       /\ Cardinality(live') \in Nat
  <2>1. IsFiniteSet(live)  BY <1>0 DEF LeasesConsistent
  <2>2. live' = live \ {l}  BY <1>2
  <2> QED BY <2>1, <2>2, FS_RemoveElement, FS_CardinalityType
<1>11. LedgersAgree'
  <2>1. \A b \in Buffers : slot'[b].occupied <=> slot[b].occupied  BY <1>1, <1>3, <1>4
  <2>2. Occupied' = Occupied  BY <2>1 DEF Occupied
  <2>3. Dequeued' = Dequeued /\ outstanding' = outstanding  BY <1>2 DEF Dequeued
  <2> QED BY <1>0, <1>2, <1>10, <2>2, <2>3 DEF LedgersAgree
<1>12. [buf |-> l.buf, key |-> l.key] \in Requests  BY <1>1 DEF Requests
<1>13. BrokerTypeOK'
  <2>1. slot' \in [Buffers -> Slots]  BY <1>0, <1>2, <1>9 DEF BrokerTypeOK
  <2>2. completions' \in Seq(Requests)  BY <1>0, <1>2, <1>12 DEF BrokerTypeOK
  <2>3. leaseCount' \in Nat /\ live' \subseteq Leases
    BY <1>0, <1>2, <1>10, <1>11 DEF BrokerTypeOK, LedgersAgree
  <2> QED BY <1>0, <1>2, <2>1, <2>2, <2>3 DEF BrokerTypeOK
<1>14. SlotsConsistent'
  <2> SUFFICES ASSUME NEW b \in Buffers
               PROVE  SlotAgrees(slot'[b], bufState[b], activeKey[b])
    BY <1>2 DEF SlotsConsistent
  <2>1. CASE b = l.buf
    <3>1. after.released \subseteq after.requested  BY <1>1, <1>4, <1>5
    <3>2. after.remaining = Cardinality(after.requested \ after.released)
      BY <1>4, <1>6, <1>7
    <3>3. SlotAgrees(after, bufState[b], activeKey[b])
      BY <1>1, <1>4, <1>8, <2>1, <3>1, <3>2 DEF SlotAgrees
    <3> QED BY <1>3, <2>1, <3>3
  <2>2. CASE b # l.buf  BY <1>0, <1>3, <2>2 DEF SlotsConsistent
  <2> QED BY <2>1, <2>2
<1>15. LeasesConsistent'
  <2> SUFFICES ASSUME NEW m \in Leases
               PROVE  m \in live' <=> /\ slot'[m.buf].occupied
                                      /\ slot'[m.buf].key = m.key
                                      /\ m.consumer \in slot'[m.buf].requested
                                      /\ m.consumer \notin slot'[m.buf].released
    BY <1>10 DEF LeasesConsistent
  <2>1. m.buf \in Buffers  BY DEF Leases
  <2>2. CASE m.buf # l.buf  BY <1>0, <1>2, <1>3, <2>1, <2>2 DEF LeasesConsistent
  <2>3. CASE m.buf = l.buf /\ (m.key # l.key \/ m.consumer # l.consumer)
    BY <1>0, <1>1, <1>2, <1>3, <1>4, <2>3 DEF LeasesConsistent
  <2>4. CASE m.buf = l.buf /\ m.key = l.key /\ m.consumer = l.consumer
    <3>1. m = l  BY <1>1, <2>4 DEF Leases
    <3> QED BY <1>2, <1>3, <1>4, <2>1, <3>1
  <2> QED BY <2>2, <2>3, <2>4
<1>16. CompletionsConsistent'
  <2>1. /\ Len(completions) \in Nat
        /\ DOMAIN completions = 1..Len(completions)
        /\ \A i \in DOMAIN completions :
               completions[i].buf \in Buffers /\ completions[i].buf # l.buf
    BY <1>0, <1>1, CompletionBuffers DEF BrokerTypeOK, CompletionsConsistent
  <2>2. CASE ~last
    <3>1. completions' = completions  BY <1>2, <2>2
    <3> HIDE DEF last
    <3>2. \A b \in Buffers : /\ slot'[b].queued <=> slot[b].queued
                             /\ slot'[b].key = slot[b].key
      <4> SUFFICES ASSUME NEW b \in Buffers
                   PROVE  /\ slot'[b].queued <=> slot[b].queued
                          /\ slot'[b].key = slot[b].key
        OBVIOUS
      <4>1. CASE b = l.buf
        <5>1. ~after.queued /\ after.key = s.key  BY <1>4, <2>2
        <5> QED BY <1>1, <1>3, <4>1, <5>1
      <4> QED BY <1>3, <4>1
    <3> QED BY <1>0, <2>1, <3>1, <3>2 DEF CompletionsConsistent
  <2>3. CASE last
    <3> DEFINE n == Len(completions) + 1
               q == [buf |-> l.buf, key |-> l.key]
    <3>1. /\ completions' = Append(completions, q)
          /\ DOMAIN completions' = 1..n /\ n \in DOMAIN completions'
          /\ completions'[n] = q
          /\ \A i \in DOMAIN completions :
                 i \in DOMAIN completions' /\ completions'[i] = completions[i]
          /\ \A i \in DOMAIN completions' : i = n \/ i \in DOMAIN completions
      <4>1. completions \in Seq(Requests) /\ q \in Requests
        BY <1>0, <1>12 DEF BrokerTypeOK
      <4>2. completions' = Append(completions, q)  BY <1>2, <2>3
      <4> HIDE DEF q
      <4> QED BY <2>1, <4>1, <4>2
    <3>2. q.buf = l.buf /\ q.key = l.key  OBVIOUS
    <3>3. slot'[l.buf].queued /\ slot'[l.buf].key = l.key  BY <1>1, <1>3, <1>4, <2>3
    <3>4. \A b \in Buffers : b # l.buf => slot'[b] = slot[b]  BY <1>3
    <3> HIDE DEF last, q, n
    <3>5. \A i \in DOMAIN completions' :
              /\ slot'[completions'[i].buf].queued
              /\ slot'[completions'[i].buf].key = completions'[i].key
      BY <1>0, <2>1, <3>1, <3>2, <3>3, <3>4 DEF CompletionsConsistent
    <3>6. \A i, j \in DOMAIN completions' :
              completions'[i].buf = completions'[j].buf => i = j
      BY <1>0, <2>1, <3>1, <3>2 DEF CompletionsConsistent
    <3>7. \A b \in Buffers : slot'[b].queued =>
              \E i \in DOMAIN completions' : completions'[i].buf = b
      BY <1>0, <3>1, <3>2, <3>4 DEF CompletionsConsistent
    <3> QED BY <3>5, <3>6, <3>7 DEF CompletionsConsistent
  <2> QED BY <2>2, <2>3
<1>17. HandsConsistent'
  <2>1. \A r \in hand \cup toQueue : r.buf # l.buf /\ r.buf \in Buffers
    BY <1>0, <1>1 DEF HandsConsistent, BrokerTypeOK, Requests
  <2> QED BY <1>0, <1>2, <1>3, <2>1 DEF HandsConsistent
<1>18. CameraConsistent' /\ NeverDefends'
  BY <1>2 DEF BrokerInv, CameraConsistent, NeverDefends, Dequeued
<1>19. NoBufferForgotten'
  <2> SUFFICES ASSUME NEW d \in Dequeued'
               PROVE  \/ d \in lost
                      \/ \E r \in hand \cup toQueue : r.buf = d
                      \/ \E m \in live' : m.buf = d
                      \/ \E i \in DOMAIN completions' : completions'[i].buf = d
    BY <1>2 DEF NoBufferForgotten
  <2>1. d \in Dequeued  BY <1>2 DEF Dequeued
  <2>2. CASE d = l.buf /\ last
    <3>1. slot'[d].queued  BY <1>1, <1>3, <1>4, <2>2
    <3> QED BY <1>1, <1>16, <2>2, <3>1 DEF CompletionsConsistent
  <2>3. CASE d = l.buf /\ ~last
    <3>0. after.released # after.requested  BY <1>8, <2>3
    <3>1. PICK c \in s.requested : c \notin after.released
      <4> HIDE DEF after
      <4> QED BY <1>1, <1>4, <1>5, <3>0
    <3>2. [buf |-> d, key |-> l.key, consumer |-> c] \in Leases
      BY <1>1, <2>3, <3>1 DEF Leases, Slots
    <3>3. [buf |-> d, key |-> l.key, consumer |-> c] \in live'
      BY <1>1, <1>3, <1>4, <1>15, <2>3, <3>1, <3>2 DEF LeasesConsistent
    <3> QED BY <3>3
  <2>4. CASE d # l.buf
    <3>1. \/ d \in lost
          \/ \E r \in hand \cup toQueue : r.buf = d
          \/ \E m \in live : m.buf = d
          \/ \E i \in DOMAIN completions : completions[i].buf = d
      BY <2>1 DEF BrokerInv, NoBufferForgotten
    <3>2. (\E m \in live : m.buf = d) => \E m \in live' : m.buf = d  BY <1>2, <2>4
    <3>3. ASSUME NEW i \in DOMAIN completions, completions[i].buf = d
          PROVE  \E j \in DOMAIN completions' : completions'[j].buf = d
      <4>1. slot'[d].queued /\ d \in Buffers
        BY <1>0, <1>3, <2>1, <2>4, <3>3 DEF CompletionsConsistent, Dequeued
      <4> QED BY <1>16, <4>1 DEF CompletionsConsistent
    <3> QED BY <3>1, <3>2, <3>3
  <2> QED BY <2>2, <2>3, <2>4
<1> QED BY <1>11, <1>13, <1>14, <1>15, <1>16, <1>17, <1>18, <1>19 DEF BrokerInv

--------------------------------------------------------------------------------
(* The theorems                                                             *)

\* Every step keeps the inductive invariant.
LEMMA StepInv == BrokerInv /\ [BrokerNext]_brokerVars => BrokerInv'
<1> SUFFICES ASSUME BrokerInv, [BrokerNext]_brokerVars PROVE BrokerInv'  OBVIOUS
<1>1. CASE CameraStart  BY <1>1, CameraStartInv
<1>2. CASE \E Queued \in SUBSET Buffers : CameraStartFails(Queued)
  BY <1>2, CameraStartFailsInv
<1>3. CASE RequestStop \/ Wake \/ CaptureWake  BY <1>3, QuietSteps
<1>4. CASE HandsFree /\ \E b \in Buffers : CaptureFrame(b)  BY <1>4, CaptureFrameInv
<1>5. CASE HandsFree /\ \E b \in Buffers, ok \in BOOLEAN : CaptureDropped(b, ok)
  BY <1>5, CaptureDroppedInv
<1>6. CASE \E r \in hand, C \in (SUBSET Consumers) \ {{}} : PublishAccepted(r, C)
  <2>1. PICK r \in hand, C \in (SUBSET Consumers) \ {{}} : PublishAccepted(r, C)
    BY <1>6
  <2>2. C \in SUBSET Consumers /\ C # {}  OBVIOUS
  <2> QED BY <2>1, <2>2, PublishAcceptedInv
<1>7. CASE \E r \in hand : PublishRejected(r)  BY <1>7, PublishRejectedInv
<1>8. CASE \E t \in Threads, l \in live, kept \in BOOLEAN : Release(t, l, kept)
  BY <1>8, ReleaseInv
<1>9. CASE \E t \in Threads, l \in spent : ReleaseAgain(t, l)  BY <1>9, QuietSteps
<1>10. CASE \E t \in Threads : Notify(t) \/ Close(t)  BY <1>10, QuietSteps
<1>11. CASE HandsFree /\ PopRequeue  BY <1>11, PopRequeueInv
<1>12. CASE \E r \in toQueue : RequeueFails(r)  BY <1>12, RequeueFailsInv
<1>13. CASE \E r \in toQueue : RequeueDone(r)  BY <1>13, RequeueDoneInv
<1>14. CASE Quiet /\ CameraStop  BY <1>14, CameraStopInv
<1>15. CASE UNCHANGED brokerVars
  <2>1. BrokerTypeOK  BY DEF BrokerInv
  <2>2. BrokerTypeOK'
    BY <1>15, <2>1 DEF BrokerTypeOK, brokerVars, cameraVars, coreVars, leaseVars,
       handVars, ghostVars
  <2> QED BY <1>15, <2>2, FrameInv DEF brokerVars, cameraVars, coreVars, leaseVars,
             handVars, ghostVars
<1> QED BY <1>1, <1>2, <1>3, <1>4, <1>5, <1>6, <1>7, <1>8, <1>9, <1>10, <1>11,
           <1>12, <1>13, <1>14, <1>15 DEF BrokerNext

\* The camera ledger, the slots, the leases, the completion ring and the capture
\* thread's hands agree in every state, under every interleaving of releases.
THEOREM BrokerInvariant == BrokerSpec => []BrokerInv
BY InitInv, StepInv, PTL DEF BrokerSpec

\* What a live lease implies, for its buffer and its slot.
LEMMA InvIntact == BrokerInv => LeasedFrameIntact
BY LiveLease DEF LeasedFrameIntact

\* Every variable keeps to its values.
THEOREM TypeCorrect == BrokerSpec => []BrokerTypeOK
<1>1. BrokerInv => BrokerTypeOK  BY DEF BrokerInv
<1> QED BY <1>1, BrokerInvariant, PTL

\* Zero-copy safety: the frame behind a live lease is neither with the driver
\* nor replaced by a later frame.
THEOREM LeasesSafe == BrokerSpec => []LeasedFrameIntact
BY InvIntact, BrokerInvariant, PTL

\* The branches of ReleaseLease, Publish and Requeue against a stale, duplicate
\* or surplus call never run: the full completion ring cannot occur.
THEOREM DefencesUnused == BrokerSpec => []NeverDefends
<1>1. BrokerInv => NeverDefends  BY DEF BrokerInv
<1> QED BY <1>1, BrokerInvariant, PTL

\* outstanding_buffers_, outstanding_frames and outstanding_leases count exactly
\* the dequeued buffers, the occupied slots and the live leases.
THEOREM CountersExact == BrokerSpec => []LedgersAgree
<1>1. BrokerInv => LedgersAgree  BY DEF BrokerInv
<1> QED BY <1>1, BrokerInvariant, PTL

\* A dequeued buffer always has somebody that will requeue it, unless its QBUF
\* failed.
THEOREM BuffersKept == BrokerSpec => []NoBufferForgotten
<1>1. BrokerInv => NoBufferForgotten  BY DEF BrokerInv
<1> QED BY <1>1, BrokerInvariant, PTL

--------------------------------------------------------------------------------
(* CaptureBroker implements BufferOwnership                                 *)

\* The owner follows from the buffer's state, the readers from the live leases.
LEMMA OwnersAndReaders ==
    ASSUME BrokerTypeOK, NEW b \in Buffers
    PROVE  /\ OwnerOf(b) = "idle" <=> bufState[b] = "AVAILABLE"
           /\ OwnerOf(b) = "driver" <=> bufState[b] = "QUEUED"
           /\ OwnerOf(b) = "application" <=> bufState[b] = "DEQUEUED"
           /\ \A c : c \in ReadersOf(b) <=> \E l \in live : l.buf = b /\ l.consumer = c
<1>1. bufState[b] \in {"AVAILABLE", "QUEUED", "DEQUEUED"}  BY DEF BrokerTypeOK
<1> QED BY <1>1 DEF OwnerOf, ReadersOf

\* A buffer without an occupied slot has no reader.
LEMMA NoReaders ==
    ASSUME BrokerInv, NEW b \in Buffers, ~slot[b].occupied
    PROVE  ReadersOf(b) = {}
<1>1. \A l \in live : l.buf # b  BY LiveLease
<1> QED BY <1>1 DEF ReadersOf

\* A step that moves no buffer and no lease is a stutter of BufferOwnership.
LEMMA Stutters ==
    ASSUME UNCHANGED <<bufState, live>>
    PROVE  UNCHANGED Ownership!ownershipVars
BY DEF Ownership!ownershipVars, OwnerOf, ReadersOf

\* A step that moves one buffer and no lease changes that buffer's owner only.
LEMMA OneOwnerMoves ==
    ASSUME BrokerTypeOK, NEW b \in Buffers, NEW state,
           bufState' = [bufState EXCEPT ![b] = state], live' = live
    PROVE  /\ [c \in Buffers |-> OwnerOf(c)]' =
                  [[c \in Buffers |-> OwnerOf(c)] EXCEPT ![b] = OwnerOf(b)']
           /\ [c \in Buffers |-> ReadersOf(c)]' = [c \in Buffers |-> ReadersOf(c)]
<1>1. \A c \in Buffers : c # b => OwnerOf(c)' = OwnerOf(c)  BY DEF BrokerTypeOK, OwnerOf
<1>2. \A c \in Buffers : ReadersOf(c)' = ReadersOf(c)  BY DEF ReadersOf
<1> QED BY <1>1, <1>2

\* The initial states map to the initial state of BufferOwnership.
LEMMA InitRefines == BrokerInit => Ownership!OwnershipInit
BY DEF BrokerInit, Ownership!OwnershipInit, OwnerOf, ReadersOf

\* Start, DQBUF, QBUF and Stop move buffers between the driver and us.
LEMMA CameraRefines ==
    ASSUME BrokerInv
    PROVE  /\ CameraStart => [Ownership!OwnershipNext]_Ownership!ownershipVars
           /\ \A Queued \in SUBSET Buffers : CameraStartFails(Queued)
                  => [Ownership!OwnershipNext]_Ownership!ownershipVars
           /\ \A b \in Buffers : CaptureFrame(b)
                  => [Ownership!OwnershipNext]_Ownership!ownershipVars
           /\ \A b \in Buffers, ok \in BOOLEAN : CaptureDropped(b, ok)
                  => [Ownership!OwnershipNext]_Ownership!ownershipVars
           /\ \A r \in toQueue : RequeueDone(r)
                  => [Ownership!OwnershipNext]_Ownership!ownershipVars
           /\ Quiet /\ CameraStop
                  => [Ownership!OwnershipNext]_Ownership!ownershipVars
<1> USE DEF Ownership!OwnershipNext
<1>0. BrokerTypeOK  BY DEF BrokerInv
<1>1. ASSUME NEW Given \in SUBSET Buffers, \A b \in Given : bufState[b] = "AVAILABLE",
             bufState' = [b \in Buffers |-> IF b \in Given THEN "QUEUED"
                                            ELSE bufState[b]],
             live' = live
      PROVE  Ownership!HandOver(Given)
  <2>1. \A b \in Given : OwnerOf(b) = "idle"  BY <1>0, <1>1, OwnersAndReaders
  <2>2. \A b \in Buffers : OwnerOf(b)' = IF b \in Given THEN "driver" ELSE OwnerOf(b)
    <3>1. \A b \in Buffers : bufState'[b] = IF b \in Given THEN "QUEUED" ELSE bufState[b]
      BY <1>1
    <3> QED BY <1>0, <3>1 DEF OwnerOf, BrokerTypeOK
  <2>3. \A b \in Buffers : ReadersOf(b)' = ReadersOf(b)  BY <1>1 DEF ReadersOf
  <2> QED BY <2>1, <2>2, <2>3 DEF Ownership!HandOver
<1>2. ASSUME CameraStart PROVE Ownership!OwnershipNext
  <2>1. \A b \in Buffers : bufState[b] = "AVAILABLE"
    BY <1>0, <1>2 DEF BrokerInv, CameraConsistent, Dequeued, CameraStart, BrokerTypeOK
  <2>2. Ownership!HandOver(Buffers)  BY <1>1, <1>2, <2>1 DEF CameraStart, leaseVars
  <2> QED BY <2>2
<1>3. ASSUME NEW Queued \in SUBSET Buffers, CameraStartFails(Queued)
      PROVE  Ownership!OwnershipNext
  <2> DEFINE Given == {b \in Queued : bufState[b] = "AVAILABLE"}
  <2>1. \A b \in Buffers : bufState[b] \in {"AVAILABLE", "QUEUED"}
    BY <1>0, <1>3 DEF BrokerInv, CameraConsistent, Dequeued, CameraStartFails,
       BrokerTypeOK
  <2>2. bufState' = [b \in Buffers |-> IF b \in Given THEN "QUEUED" ELSE bufState[b]]
    BY <1>3, <2>1 DEF CameraStartFails
  <2>3. Ownership!HandOver(Given)  BY <1>1, <1>3, <2>2 DEF CameraStartFails, leaseVars
  <2> QED BY <2>3
<1>4. ASSUME NEW b \in Buffers, bufState[b] = "QUEUED", live' = live,
             bufState' = [bufState EXCEPT ![b] = "DEQUEUED"]
      PROVE  Ownership!OwnershipNext
  <2>1. OwnerOf(b) = "driver" /\ OwnerOf(b)' = "application"
    BY <1>0, <1>4 DEF OwnerOf, BrokerTypeOK
  <2>2. Ownership!Dequeue(b)  BY <1>0, <1>4, <2>1, OneOwnerMoves DEF Ownership!Dequeue
  <2> QED BY <2>2
<1>5. ASSUME NEW b \in Buffers, CaptureFrame(b) PROVE Ownership!OwnershipNext
  BY <1>4, <1>5 DEF CaptureFrame, leaseVars
<1>6. ASSUME NEW b \in Buffers, NEW ok \in BOOLEAN, CaptureDropped(b, ok)
      PROVE  [Ownership!OwnershipNext]_Ownership!ownershipVars
  <2>1. CASE ok  BY <1>6, <2>1, Stutters DEF CaptureDropped, leaseVars
  <2>2. CASE ~ok  BY <1>4, <1>6, <2>2 DEF CaptureDropped, leaseVars
  <2> QED BY <2>1, <2>2
<1>7. ASSUME NEW r \in toQueue, RequeueDone(r) PROVE Ownership!OwnershipNext
  <2>1. /\ r.buf \in Buffers /\ bufState[r.buf] = "DEQUEUED"
        /\ ~slot[r.buf].occupied
    BY RequestMatches DEF RequeueMatches, BrokerInv, HandsConsistent
  <2>2. bufState' = [bufState EXCEPT ![r.buf] = "QUEUED"] /\ live' = live
    BY <1>7 DEF RequeueDone, leaseVars
  <2>3. OwnerOf(r.buf) = "application" /\ OwnerOf(r.buf)' = "driver"
    BY <1>0, <2>1, <2>2 DEF OwnerOf, BrokerTypeOK
  <2>4. ReadersOf(r.buf) = {}  BY <2>1, NoReaders
  <2>5. Ownership!Return(r.buf)
    BY <1>0, <2>1, <2>2, <2>3, <2>4, OneOwnerMoves DEF Ownership!Return
  <2> QED BY <2>1, <2>5
<1>8. ASSUME Quiet, CameraStop PROVE Ownership!OwnershipNext
  <2>1. \A b \in Buffers : OwnerOf(b)' = "idle"  BY <1>8 DEF CameraStop, OwnerOf
  <2>2. \A b \in Buffers : ReadersOf(b) = {} /\ ReadersOf(b)' = {}
    BY <1>8 DEF Quiet, CameraStop, leaseVars, ReadersOf
  <2>3. Ownership!Withdraw  BY <2>1, <2>2 DEF Ownership!Withdraw
  <2> QED BY <2>3
<1> QED BY <1>2, <1>3, <1>5, <1>6, <1>7, <1>8

\* Publish shares a buffer with its consumers; a release is one of them letting go.
LEMMA LeasesRefine ==
    ASSUME BrokerInv
    PROVE  /\ \A r \in hand, C \in SUBSET Consumers : PublishAccepted(r, C)
                  => Ownership!OwnershipNext
           /\ \A t \in Threads, l \in live, kept \in BOOLEAN : Release(t, l, kept)
                  => Ownership!OwnershipNext
<1> USE DEF Ownership!OwnershipNext
<1>0. BrokerTypeOK /\ LeasesConsistent  BY DEF BrokerInv
<1>1. ASSUME NEW r \in hand, NEW C \in SUBSET Consumers, PublishAccepted(r, C)
      PROVE  Ownership!OwnershipNext
  <2>1. /\ r.buf \in Buffers /\ bufState[r.buf] = "DEQUEUED"
        /\ ~slot[r.buf].occupied
    BY <1>0, <1>1 DEF BrokerInv, HandsConsistent, BrokerTypeOK, Requests
  <2>2. /\ live' = live \cup [buf : {r.buf}, key : {r.key}, consumer : C]
        /\ bufState' = bufState
    BY <1>1 DEF PublishAccepted, cameraVars
  <2>3. ReadersOf(r.buf) = {} /\ OwnerOf(r.buf) = "application"
    BY <1>0, <2>1, NoReaders, OwnersAndReaders
  <2>4. \A l \in live : l.buf # r.buf  BY <2>1, LiveLease
  <2>5. ReadersOf(r.buf)' = C
    <3>1. \A c \in C : /\ [buf |-> r.buf, key |-> r.key, consumer |-> c] \in live'
                       /\ [buf |-> r.buf, key |-> r.key, consumer |-> c].buf = r.buf
                       /\ [buf |-> r.buf, key |-> r.key, consumer |-> c].consumer = c
      BY <2>2
    <3>2. \A l \in live' : l.buf = r.buf => l.consumer \in C  BY <2>2, <2>4
    <3>3. \A c \in C : c \in ReadersOf(r.buf)'
      <4> SUFFICES ASSUME NEW c \in C PROVE c \in ReadersOf(r.buf)'  OBVIOUS
      <4> DEFINE l == [buf |-> r.buf, key |-> r.key, consumer |-> c]
      <4>1. l \in live' /\ l.buf = r.buf /\ l.consumer = c  BY <3>1
      <4> HIDE DEF l
      <4> QED BY <4>1 DEF ReadersOf
    <3> QED BY <3>2, <3>3 DEF ReadersOf
  <2>6. \A b \in Buffers : b # r.buf => ReadersOf(b)' = ReadersOf(b)
    <3> SUFFICES ASSUME NEW b \in Buffers, b # r.buf
                 PROVE  ReadersOf(b)' = ReadersOf(b)
      OBVIOUS
    <3>1. {m \in live' : m.buf = b} = {m \in live : m.buf = b}  BY <2>2
    <3> QED BY <3>1 DEF ReadersOf
  <2>7. \A b \in Buffers : OwnerOf(b)' = OwnerOf(b)  BY <2>2 DEF OwnerOf
  <2>8. Ownership!Share(r.buf, C)  BY <2>1, <2>3, <2>5, <2>6, <2>7 DEF Ownership!Share
  <2> QED BY <2>1, <2>8
<1>2. ASSUME NEW t \in Threads, NEW l \in live, NEW kept \in BOOLEAN,
             Release(t, l, kept)
      PROVE  Ownership!OwnershipNext
  <2>1. l.buf \in Buffers /\ l.consumer \in Consumers /\ l \in Leases  BY LiveLease
  <2>2. live' = live \ {l} /\ bufState' = bufState  BY <1>2 DEF Release, cameraVars
  <2>3. l.consumer \in ReadersOf(l.buf)  BY DEF ReadersOf
  <2>4. \A m \in live : m.buf = l.buf /\ m.consumer = l.consumer => m = l
    <3> SUFFICES ASSUME NEW m \in live, m.buf = l.buf, m.consumer = l.consumer
                 PROVE  m = l
      OBVIOUS
    <3>1. m \in Leases /\ m.key = slot[m.buf].key /\ l.key = slot[l.buf].key
      BY LiveLease
    <3> QED BY <2>1, <3>1 DEF Leases
  <2>5. ReadersOf(l.buf)' = ReadersOf(l.buf) \ {l.consumer}
    <3>1. \A m \in live' : m.buf = l.buf =>
              m.consumer \in ReadersOf(l.buf) \ {l.consumer}
      BY <2>2, <2>4 DEF ReadersOf
    <3>2. \A m \in live : m.buf = l.buf /\ m.consumer # l.consumer =>
              m.consumer \in ReadersOf(l.buf)'
      BY <2>2 DEF ReadersOf
    <3>3. ReadersOf(l.buf)' \subseteq ReadersOf(l.buf) \ {l.consumer}
      BY <3>1 DEF ReadersOf
    <3>4. ReadersOf(l.buf) \ {l.consumer} \subseteq ReadersOf(l.buf)'
      BY <3>2 DEF ReadersOf
    <3> QED BY <3>3, <3>4
  <2>6. \A b \in Buffers : b # l.buf => ReadersOf(b)' = ReadersOf(b)
    <3> SUFFICES ASSUME NEW b \in Buffers, b # l.buf
                 PROVE  ReadersOf(b)' = ReadersOf(b)
      OBVIOUS
    <3>1. {m \in live' : m.buf = b} = {m \in live : m.buf = b}  BY <2>2
    <3> QED BY <3>1 DEF ReadersOf
  <2>7. \A b \in Buffers : OwnerOf(b)' = OwnerOf(b)  BY <2>2 DEF OwnerOf
  <2>8. Ownership!LetGo(l.buf, l.consumer)
    BY <2>1, <2>3, <2>5, <2>6, <2>7 DEF Ownership!LetGo
  <2> QED BY <2>1, <2>8
<1> QED BY <1>1, <1>2

\* Every step of the capture path is a step of BufferOwnership or a stutter.
LEMMA StepRefines ==
    BrokerInv /\ [BrokerNext]_brokerVars
        => [Ownership!OwnershipNext]_Ownership!ownershipVars
<1> SUFFICES ASSUME BrokerInv, [BrokerNext]_brokerVars
             PROVE  [Ownership!OwnershipNext]_Ownership!ownershipVars
  OBVIOUS
<1> USE DEF cameraVars, leaseVars
<1>1. CASE CameraStart  BY <1>1, CameraRefines
<1>2. CASE \E Queued \in SUBSET Buffers : CameraStartFails(Queued)
  BY <1>2, CameraRefines
<1>3. CASE RequestStop \/ Wake \/ CaptureWake
  BY <1>3, Stutters DEF RequestStop, Wake, CaptureWake
<1>4. CASE HandsFree /\ \E b \in Buffers : CaptureFrame(b)  BY <1>4, CameraRefines
<1>5. CASE HandsFree /\ \E b \in Buffers, ok \in BOOLEAN : CaptureDropped(b, ok)
  BY <1>5, CameraRefines
<1>6. CASE \E r \in hand, C \in (SUBSET Consumers) \ {{}} : PublishAccepted(r, C)
  BY <1>6, LeasesRefine
<1>7. CASE \E r \in hand : PublishRejected(r)  BY <1>7, Stutters DEF PublishRejected
<1>8. CASE \E t \in Threads, l \in live, kept \in BOOLEAN : Release(t, l, kept)
  BY <1>8, LeasesRefine
<1>9. CASE \E t \in Threads, l \in spent : ReleaseAgain(t, l)
  BY <1>9, Stutters DEF ReleaseAgain
<1>10. CASE \E t \in Threads : Notify(t) \/ Close(t)
  BY <1>10, Stutters DEF Notify, Close
<1>11. CASE HandsFree /\ PopRequeue  BY <1>11, Stutters DEF PopRequeue
<1>12. CASE \E r \in toQueue : RequeueFails(r)  BY <1>12, Stutters DEF RequeueFails
<1>13. CASE \E r \in toQueue : RequeueDone(r)  BY <1>13, CameraRefines
<1>14. CASE Quiet /\ CameraStop  BY <1>14, CameraRefines
<1>15. CASE UNCHANGED brokerVars  BY <1>15, Stutters DEF brokerVars
<1> QED BY <1>1, <1>2, <1>3, <1>4, <1>5, <1>6, <1>7, <1>8, <1>9, <1>10, <1>11,
           <1>12, <1>13, <1>14, <1>15 DEF BrokerNext

\* The README's ownership contract: the capture path implements BufferOwnership,
\* so a buffer is requeued only after the last lease on its frame is released.
THEOREM OwnershipRefined == BrokerSpec => OwnershipKept
BY InitRefines, StepRefines, BrokerInvariant, PTL
   DEF BrokerSpec, OwnershipKept, Ownership!OwnershipSpec

================================================================================
