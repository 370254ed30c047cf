------------------------------ MODULE QueueProofs ------------------------------
(***************************************************************************)
(* Proofs about the bounded queue, about the media threads that two of     *)
(* them connect, and about the times of the sound that passes through.     *)
(* BoundedQueue, for any number of callers, any capacity and any bound on  *)
(* the pushes: its types, that no wakeup is lost, and that the ring        *)
(* implements the first-in first-out LatestQueue.                          *)
(* MediaPath, for any capacities, any number of chunks, any fragments of   *)
(* the access units and any failures: nothing that was accepted is lost in *)
(* silence, and a file or a stream is closed only after everything that    *)
(* writes to it has ended.                                                 *)
(* AudioTimeline, for any sample rate, frame size, reads and overruns: the *)
(* sound stays whole, in order and at its time.                            *)
(***************************************************************************)
EXTENDS BoundedQueue, MediaPath, AudioTimeline, FiniteSetTheorems, SequenceTheorems,
        WellFoundedInduction, TLAPS

--------------------------------------------------------------------------------
(* Lemmas about the ring's indices                                          *)

\* The index after one in the ring is in the ring, and wraps round once.
LEMMA NextIndexWraps ==
    ASSUME NEW i \in Indices
    PROVE  /\ NextIndex(i) \in Indices
           /\ NextIndex(i) = IF i + 1 = Capacity THEN 0 ELSE i + 1
BY RingNotEmpty, SMT DEF Indices, NextIndex

\* The index that lies k places after i.
LEMMA IndexWraps ==
    ASSUME NEW i \in Indices, NEW k \in 0..Capacity
    PROVE  (i + k) % Capacity = IF i + k < Capacity THEN i + k ELSE i + k - Capacity
<1>1. CASE i + k < Capacity  BY <1>1, RingNotEmpty, SMT DEF Indices
<1>2. CASE i + k >= Capacity  BY <1>2, RingNotEmpty, SMT DEF Indices
<1> QED BY <1>1, <1>2, RingNotEmpty DEF Indices

--------------------------------------------------------------------------------
(* Types                                                                    *)

\* Pushing into a queue with room and popping from one with items keep the
\* types of the ring and of its books.
LEMMA RingTypes ==
    ASSUME TypeOK
    PROVE  /\ \A x \in Items : ~Full /\ PushUnlocked(x) =>
               /\ slots' \in [Indices -> Items \cup {NoItem}]
               /\ head' \in Indices /\ tail' \in Indices /\ size' \in 0..Capacity
               /\ pushed' \in Nat /\ popped' \in Nat /\ replaced' \in Nat
               /\ watermark' \in 0..Capacity
           /\ size > 0 /\ PopUnlocked =>
               /\ slots' \in [Indices -> Items \cup {NoItem}]
               /\ head' \in Indices /\ tail' \in Indices /\ size' \in 0..Capacity
               /\ pushed' \in Nat /\ popped' \in Nat /\ replaced' \in Nat
               /\ watermark' \in 0..Capacity
<1>1. \A i \in Indices : NextIndex(i) \in Indices  BY NextIndexWraps
<1>2. ASSUME NEW x \in Items, ~Full, PushUnlocked(x)
      PROVE  size' \in 0..Capacity /\ watermark' \in 0..Capacity
  BY <1>2, RingNotEmpty DEF TypeOK, Full, PushUnlocked, Larger
<1>3. ASSUME size > 0, PopUnlocked PROVE size' \in 0..Capacity
  BY <1>3, RingNotEmpty DEF TypeOK, PopUnlocked
<1> QED BY <1>1, <1>2, <1>3 DEF TypeOK, PushUnlocked, PopUnlocked

\* A notification puts every thread at a known place.
LEMMA NotifyTypes ==
    ASSUME at \in [Threads -> Places], NEW t \in Threads, NEW asleep,
           NEW woken \in Places, NEW place \in Places
    PROVE  /\ NotifyOne(asleep, woken, t, place) => at' \in [Threads -> Places]
           /\ NotifyAll(asleep, woken, t, place) => at' \in [Threads -> Places]
BY DEF NotifyOne, NotifyAll, Are

\* Every variable keeps its type.
LEMMA TypeStep == TypeOK /\ [Next]_vars => TypeOK'
<1> SUFFICES ASSUME TypeOK, [Next]_vars PROVE TypeOK'  OBVIOUS
<1> USE DEF ring, books
<1>1. ASSUME NEW t \in Threads, NEW x \in Items, TryPush(t, x) PROVE TypeOK'
  BY <1>1, RingTypes, NotifyTypes DEF TypeOK, TryPush, Places
<1>2. ASSUME NEW t \in Threads, NEW x \in Items, PushLatest(t, x) PROVE TypeOK'
  <2>1. at' \in [Threads -> Places]  BY <1>2, NotifyTypes DEF TypeOK, PushLatest, Places
  <2>2. CASE Full
    <3>1. head' \in Indices /\ tail' \in Indices
      BY <1>2, <2>2, NextIndexWraps DEF TypeOK, PushLatest
    <3>3. slots' \in [Indices -> Items \cup {NoItem}]
      <4>1. slots' = [slots EXCEPT ![head] = NoItem, ![tail] = x]
        BY <1>2, <2>2 DEF PushLatest
      <4> QED BY <4>1 DEF TypeOK
    <3>2. pushed' \in Nat /\ replaced' \in Nat
      <4>1. pushed' = pushed + 1 /\ replaced' = replaced + 1
        BY <1>2, <2>2 DEF PushLatest
      <4> QED BY <4>1 DEF TypeOK
    <3> QED BY <1>2, <2>1, <2>2, <3>1, <3>2, <3>3 DEF TypeOK, PushLatest
  <2>3. CASE ~Full  BY <1>2, <2>1, <2>3, RingTypes DEF TypeOK, PushLatest
  <2> QED BY <2>2, <2>3
<1>3. ASSUME NEW t \in Threads, NEW x \in Items, WaitPush(t, x) PROVE TypeOK'
  <2>1. CASE WaitPushBlocks(t, x)  BY <2>1 DEF TypeOK, WaitPushBlocks, Places
  <2>2. CASE WaitPushReturns(t, x)
    BY <2>2, RingTypes DEF TypeOK, WaitPushReturns, Places
  <2> QED BY <1>3, <2>1, <2>2 DEF WaitPush
<1>4. ASSUME NEW t \in Threads, TryPop(t) PROVE TypeOK'
  BY <1>4, RingTypes, NotifyTypes DEF TypeOK, TryPop, Places
<1>5. ASSUME NEW t \in Threads, WaitPop(t) PROVE TypeOK'
  BY <1>5, RingTypes DEF TypeOK, WaitPop, Places
<1>6. ASSUME NEW t \in Threads, NotifyPop(t) \/ NotifyPush(t) PROVE TypeOK'
  BY <1>6, NotifyTypes DEF TypeOK, NotifyPop, NotifyPush, Places
<1>7. ASSUME NEW t \in Threads, StopNotifies(t) PROVE TypeOK'
  BY <1>7, NotifyTypes DEF TypeOK, StopNotifies, Places
<1>8. ASSUME NEW t \in Threads, Stop(t) \/ SpuriousWake(t) PROVE TypeOK'
  BY <1>8 DEF TypeOK, Stop, SpuriousWake, Places
<1>9. CASE UNCHANGED vars  BY <1>9 DEF vars, TypeOK
<1> QED BY <1>1, <1>2, <1>3, <1>4, <1>5, <1>6, <1>7, <1>8, <1>9 DEF Next

\* The constructor's ring and counters have their types.
LEMMA InitTypes == Init => TypeOK
<1> SUFFICES ASSUME Init PROVE TypeOK  OBVIOUS
<1>1. 0 \in Indices /\ 0 \in 0..Capacity /\ 0 \in Nat  BY RingNotEmpty DEF Indices
<1>2. slots \in [Indices -> Items \cup {NoItem}]  BY DEF Init, Indices
<1> QED BY <1>1, <1>2 DEF Init, TypeOK, Places

\* No operation of the queue leaves its ring, its books or a caller in a state
\* that the code has no name for (bounded_queue.h:18-181).
THEOREM TypeCorrect == Spec => []TypeOK
BY InitTypes, TypeStep, PTL DEF Spec

--------------------------------------------------------------------------------
(* No wakeup is lost                                                        *)

\* How many threads f puts at place p.
HowMany(f, p) == Cardinality({t \in Threads : f[t] = p})

\* Any number of threads at a place is a natural number.
LEMMA CountTypes ==
    ASSUME NEW f, NEW p
    PROVE  /\ IsFiniteSet({t \in Threads : f[t] = p})
           /\ HowMany(f, p) \in Nat
           /\ HowMany(f, p) = 0 <=> {t \in Threads : f[t] = p} = {}
BY ThreadsFinite, FS_Subset, FS_CardinalityType, FS_EmptySet DEF HowMany

\* One thread moves, to place p.
Moved(f, g, t, p) == g = [f EXCEPT ![t] = p]

\* A thread that moves to another place is one more there and one less where
\* it was; the other places keep their threads.
LEMMA MoveCounts ==
    ASSUME NEW f \in [Threads -> Places], NEW t \in Threads, NEW p, NEW q,
           NEW g, Moved(f, g, t, p)
    PROVE  /\ p = f[t] => HowMany(g, q) = HowMany(f, q)
           /\ p # f[t] /\ q = p => HowMany(g, q) = HowMany(f, q) + 1
           /\ p # f[t] /\ q = f[t] => HowMany(g, q) = HowMany(f, q) - 1
           /\ q # p /\ q # f[t] => HowMany(g, q) = HowMany(f, q)
<1> DEFINE S == {u \in Threads : f[u] = q}
           T == {u \in Threads : g[u] = q}
<1>1. p = q => T = S \cup {t}  BY DEF Moved
<1>2. p # q => T = S \ {t}  BY DEF Moved
<1>3. t \in S <=> f[t] = q  OBVIOUS
<1>4. IsFiniteSet(S) /\ Cardinality(S) \in Nat  BY CountTypes DEF HowMany
<1> HIDE DEF S, T
<1>5. p = q => Cardinality(T) = IF t \in S THEN Cardinality(S) ELSE Cardinality(S) + 1
  BY <1>1, <1>4, FS_AddElement
<1>6. p # q => Cardinality(T) = IF t \in S THEN Cardinality(S) - 1 ELSE Cardinality(S)
  BY <1>2, <1>4, FS_RemoveElement
<1> QED BY <1>3, <1>5, <1>6 DEF HowMany, S, T

\* A notify_one wakes one of those asleep, when there are any, and the caller
\* goes on from its own place.
LEMMA NotifyOneCounts ==
    ASSUME TypeOK, NEW t \in Threads, NEW asleep, NEW woken \in Places,
           asleep # woken, at[t] # asleep, at[t] # woken,
           NotifyOne(asleep, woken, t, "idle"), "idle" # asleep, "idle" # woken
    PROVE  /\ \A q : q \notin {asleep, woken, "idle", at[t]}
                       => HowMany(at', q) = HowMany(at, q)
           /\ at[t] # "idle" => HowMany(at', at[t]) = HowMany(at, at[t]) - 1
           /\ \/ /\ HowMany(at, asleep) = 0
                 /\ HowMany(at', asleep) = 0
              \/ /\ HowMany(at, asleep) > 0
                 /\ HowMany(at', woken) = HowMany(at, woken) + 1
<1>0. at \in [Threads -> Places] /\ \A q : HowMany(at, q) \in Nat
  BY CountTypes DEF TypeOK
<1>1. CASE Are(asleep) = {} /\ at' = [at EXCEPT ![t] = "idle"]
  <2>1. HowMany(at, asleep) = 0  BY <1>1, CountTypes DEF Are
  <2>2. Moved(at, at', t, "idle")  BY <1>1 DEF Moved
  <2> QED BY <1>0, <2>1, <2>2, MoveCounts
<1>2. ASSUME NEW w \in Are(asleep), at' = [at EXCEPT ![w] = woken, ![t] = "idle"]
      PROVE  /\ \A q : q \notin {asleep, woken, "idle", at[t]}
                         => HowMany(at', q) = HowMany(at, q)
             /\ at[t] # "idle" => HowMany(at', at[t]) = HowMany(at, at[t]) - 1
             /\ HowMany(at, asleep) > 0
             /\ HowMany(at', woken) = HowMany(at, woken) + 1
  <2> DEFINE f == [at EXCEPT ![w] = woken]
  <2>1. w \in Threads /\ at[w] = asleep /\ w # t  BY <1>2 DEF Are
  <2>2. f \in [Threads -> Places] /\ f[t] = at[t]  BY <1>0, <2>1
  <2>3. Moved(at, f, w, woken) /\ Moved(f, at', t, "idle")  BY <1>2 DEF Moved
  <2> HIDE DEF f
  <2>4. /\ HowMany(f, woken) = HowMany(at, woken) + 1
        /\ \A q : q # woken /\ q # asleep => HowMany(f, q) = HowMany(at, q)
    BY <1>0, <2>1, <2>3, MoveCounts
  <2>5. /\ \A q : q # "idle" /\ q # at[t] => HowMany(at', q) = HowMany(f, q)
        /\ at[t] # "idle" => HowMany(at', at[t]) = HowMany(f, at[t]) - 1
    BY <2>2, <2>3, MoveCounts
  <2>6. HowMany(at, asleep) # 0  BY <2>1, CountTypes
  <2> QED BY <1>0, <2>4, <2>5, <2>6
<1> QED BY <1>1, <1>2 DEF NotifyOne

\* A notify_all leaves nobody asleep and does not touch the other sleepers.
LEMMA NotifyAllCounts ==
    ASSUME TypeOK, NEW t \in Threads, NEW asleep, NEW woken, NEW place,
           asleep # woken, asleep # place, NotifyAll(asleep, woken, t, place)
    PROVE  /\ HowMany(at', asleep) = 0
           /\ \A q : q \notin {asleep, woken, place, at[t]}
                => HowMany(at', q) = HowMany(at, q)
<1>1. {u \in Threads : at'[u] = asleep} = {}  BY DEF NotifyAll
<1>2. ASSUME NEW q, q \notin {asleep, woken, place, at[t]}
      PROVE  {u \in Threads : at'[u] = q} = {u \in Threads : at[u] = q}
  BY <1>2 DEF NotifyAll
<1> QED BY <1>1, <1>2, CountTypes DEF HowMany

\* The announcements, said with the counts.
ItemsCounted(f, n) ==
    HowMany(f, "pop_asleep") # 0
        => n <= HowMany(f, "pop_woken") + HowMany(f, "notify_pop")
SpaceCounted(f, n, s) ==
    HowMany(f, "push_asleep") # 0 /\ ~s
        => Capacity - n <= HowMany(f, "push_woken") + HowMany(f, "notify_push")

\* WaitersAnnounced in terms of how many threads are at each place.
LEMMA AnnouncedIsCounted ==
    /\ WaitersAnnounced <=> ItemsCounted(at, size) /\ SpaceCounted(at, size, stopped)
    /\ WaitersAnnounced' <=> ItemsCounted(at', size') /\ SpaceCounted(at', size', stopped')
BY CountTypes DEF WaitersAnnounced, ItemsAnnounced, SpaceAnnounced, ItemsCounted,
   SpaceCounted, HowMany, Are

\* A push into a queue with room adds one item, a pop takes one.
LEMMA SizeSteps ==
    ASSUME TypeOK
    PROVE  /\ \A x : PushUnlocked(x) => size' = size + 1
           /\ PopUnlocked => size' = size - 1
           /\ UNCHANGED ring => size' = size
           /\ size \in Nat /\ Capacity \in Nat /\ size <= Capacity
BY RingNotEmpty DEF TypeOK, PushUnlocked, PopUnlocked, ring

\* The announcements survive a notify_one to the poppers made by a thread that
\* added at most one item, or that owed the notification it makes.
LEMMA PopperNotified ==
    ASSUME TypeOK, NEW t \in Threads, at[t] \in {"idle", "notify_pop"},
           ItemsCounted(at, size), SpaceCounted(at, size, stopped),
           NotifyOne("pop_asleep", "pop_woken", t, "idle"), stopped' = stopped,
           size' = size \/ (at[t] = "idle" /\ size' = size + 1)
    PROVE  ItemsCounted(at', size') /\ SpaceCounted(at', size', stopped')
<1>1. \A q : HowMany(at, q) \in Nat  BY CountTypes
<1>2. "pop_woken" \in Places /\ size \in Nat /\ Capacity \in Nat
  BY SizeSteps DEF Places
<1>3. /\ \A q : q \notin {"pop_asleep", "pop_woken", "idle", at[t]}
                  => HowMany(at', q) = HowMany(at, q)
      /\ at[t] # "idle" => HowMany(at', at[t]) = HowMany(at, at[t]) - 1
      /\ \/ /\ HowMany(at, "pop_asleep") = 0
            /\ HowMany(at', "pop_asleep") = 0
         \/ /\ HowMany(at, "pop_asleep") > 0
            /\ HowMany(at', "pop_woken") = HowMany(at, "pop_woken") + 1
  BY <1>2, NotifyOneCounts
<1>4. ItemsCounted(at', size')  BY <1>1, <1>2, <1>3 DEF ItemsCounted
<1>5. SpaceCounted(at', size', stopped')  BY <1>1, <1>2, <1>3 DEF SpaceCounted
<1> QED BY <1>4, <1>5

\* The same of a notify_one to the pushers and a slot that was freed.
LEMMA PusherNotified ==
    ASSUME TypeOK, NEW t \in Threads, at[t] \in {"idle", "notify_push"},
           ItemsCounted(at, size), SpaceCounted(at, size, stopped),
           NotifyOne("push_asleep", "push_woken", t, "idle"), stopped' = stopped,
           size' = size \/ (at[t] = "idle" /\ size' = size - 1)
    PROVE  ItemsCounted(at', size') /\ SpaceCounted(at', size', stopped')
<1>1. \A q : HowMany(at, q) \in Nat  BY CountTypes
<1>2. "push_woken" \in Places /\ size \in Nat /\ Capacity \in Nat
  BY SizeSteps DEF Places
<1>3. /\ \A q : q \notin {"push_asleep", "push_woken", "idle", at[t]}
                  => HowMany(at', q) = HowMany(at, q)
      /\ at[t] # "idle" => HowMany(at', at[t]) = HowMany(at, at[t]) - 1
      /\ \/ /\ HowMany(at, "push_asleep") = 0
            /\ HowMany(at', "push_asleep") = 0
         \/ /\ HowMany(at, "push_asleep") > 0
            /\ HowMany(at', "push_woken") = HowMany(at, "push_woken") + 1
  BY <1>2, NotifyOneCounts
<1>4. ItemsCounted(at', size')  BY <1>1, <1>2, <1>3 DEF ItemsCounted
<1>5. SpaceCounted(at', size', stopped')  BY <1>1, <1>2, <1>3 DEF SpaceCounted
<1> QED BY <1>4, <1>5

\* The announcements survive a thread's own move when it adds an item and owes
\* the notification, takes one and owes it, sleeps only where there is nothing
\* to wait for but what is not there, or wakes.
LEMMA ThreadMoved ==
    ASSUME TypeOK, NEW t \in Threads, NEW p, Moved(at, at', t, p),
           ItemsCounted(at, size), SpaceCounted(at, size, stopped),
           stopped => stopped', stopped' \in BOOLEAN,
           \/ /\ at[t] \in {"idle", "push_woken"} /\ p = "push_asleep"
              /\ size' = size /\ size = Capacity
           \/ /\ at[t] \in {"idle", "push_woken"} /\ p = "idle"
              /\ size' = size /\ stopped
           \/ /\ at[t] \in {"idle", "push_woken"} /\ p = "notify_pop"
              /\ size' = size + 1 /\ size < Capacity
           \/ /\ at[t] \in {"idle", "pop_woken"} /\ p = "notify_push"
              /\ size' = size - 1 /\ size > 0
           \/ /\ at[t] \in {"idle", "pop_woken"} /\ p \in {"idle", "pop_asleep"}
              /\ size' = size /\ size = 0
           \/ at[t] = "idle" /\ p = "wake_poppers" /\ size' = size
           \/ at[t] = "pop_asleep" /\ p = "pop_woken" /\ size' = size
           \/ at[t] = "push_asleep" /\ p = "push_woken" /\ size' = size
    PROVE  ItemsCounted(at', size') /\ SpaceCounted(at', size', stopped')
<1>1. \A q : HowMany(at, q) \in Nat /\ HowMany(at', q) \in Nat  BY CountTypes
<1>2. at \in [Threads -> Places]  BY DEF TypeOK
<1>3. /\ p = at[t] => \A q : HowMany(at', q) = HowMany(at, q)
      /\ p # at[t] => HowMany(at', p) = HowMany(at, p) + 1
      /\ p # at[t] => HowMany(at', at[t]) = HowMany(at, at[t]) - 1
      /\ \A q : q # p /\ q # at[t] => HowMany(at', q) = HowMany(at, q)
  BY <1>2, MoveCounts
<1>4. size \in Nat /\ Capacity \in Nat /\ size <= Capacity  BY SizeSteps
<1>5. ItemsCounted(at', size')  BY <1>1, <1>3, <1>4 DEF ItemsCounted
<1>6. SpaceCounted(at', size', stopped')  BY <1>1, <1>3, <1>4 DEF SpaceCounted
<1> QED BY <1>5, <1>6

\* No step of the queue loses a wakeup.
LEMMA AnnouncedStep ==
    TypeOK /\ WaitersAnnounced /\ [Next]_vars => WaitersAnnounced'
<1> SUFFICES ASSUME TypeOK, WaitersAnnounced, [Next]_vars
             PROVE  ItemsCounted(at', size') /\ SpaceCounted(at', size', stopped')
  BY AnnouncedIsCounted
<1> DEFINE Goal == ItemsCounted(at', size') /\ SpaceCounted(at', size', stopped')
<1>0. ItemsCounted(at, size) /\ SpaceCounted(at, size, stopped)  BY AnnouncedIsCounted
<1> HIDE DEF Goal
<1>1. ASSUME NEW t \in Threads, NEW x \in Items, TryPush(t, x) PROVE Goal
  <2>1. size' = size + 1 /\ stopped' = stopped  BY <1>1, SizeSteps DEF TryPush
  <2> QED BY <1>0, <1>1, <2>1, PopperNotified DEF TryPush, Goal
<1>2. ASSUME NEW t \in Threads, NEW x \in Items, PushLatest(t, x) PROVE Goal
  <2>1. size' = size \/ size' = size + 1  BY <1>2, SizeSteps DEF PushLatest
  <2>2. stopped' = stopped  BY <1>2 DEF PushLatest
  <2> QED BY <1>0, <1>2, <2>1, <2>2, PopperNotified DEF PushLatest, Goal
<1>3. ASSUME NEW t \in Threads, NEW x \in Items, WaitPush(t, x) PROVE Goal
  <2>1. at[t] \in {"idle", "push_woken"} /\ stopped \in BOOLEAN
    BY <1>3 DEF WaitPush, TypeOK
  <2>2. CASE WaitPushBlocks(t, x)
    <3>1. Moved(at, at', t, "push_asleep") /\ size' = size /\ size = Capacity
          /\ stopped' = stopped
      BY <2>2, SizeSteps DEF WaitPushBlocks, Moved, Full
    <3> QED BY <1>0, <2>1, <3>1, ThreadMoved DEF Goal
  <2>3. CASE WaitPushReturns(t, x) /\ stopped
    <3>1. Moved(at, at', t, "idle") /\ size' = size /\ stopped' = stopped
      BY <2>3, SizeSteps DEF WaitPushReturns, Moved
    <3> QED BY <1>0, <2>1, <2>3, <3>1, ThreadMoved DEF Goal
  <2>4. CASE WaitPushReturns(t, x) /\ ~stopped
    <3>1. Moved(at, at', t, "notify_pop") /\ size' = size + 1 /\ stopped' = stopped
      BY <2>4, SizeSteps DEF WaitPushReturns, Moved
    <3>2. size < Capacity  BY <2>4, SizeSteps DEF WaitPushReturns, Full
    <3> QED BY <1>0, <2>1, <3>1, <3>2, ThreadMoved DEF Goal
  <2> QED BY <1>3, <2>2, <2>3, <2>4 DEF WaitPush
<1>4. ASSUME NEW t \in Threads, TryPop(t) PROVE Goal
  <2>1. size' = size - 1 /\ stopped' = stopped  BY <1>4, SizeSteps DEF TryPop
  <2> QED BY <1>0, <1>4, <2>1, PusherNotified DEF TryPop, Goal
<1>5. ASSUME NEW t \in Threads, WaitPop(t) PROVE Goal
  <2>1. at[t] \in {"idle", "pop_woken"} /\ stopped' = stopped /\ stopped \in BOOLEAN
    BY <1>5 DEF WaitPop, TypeOK
  <2>2. CASE size > 0
    <3>1. Moved(at, at', t, "notify_push") /\ size' = size - 1
      BY <1>5, <2>2, SizeSteps DEF WaitPop, Moved
    <3> QED BY <1>0, <2>1, <2>2, <3>1, ThreadMoved DEF Goal
  <2>3. CASE ~(size > 0)
    <3>1. /\ \E p \in {"idle", "pop_asleep"} : Moved(at, at', t, p)
          /\ size' = size /\ size = 0
      BY <1>5, <2>3, SizeSteps DEF WaitPop, Moved
    <3> QED BY <1>0, <2>1, <3>1, ThreadMoved DEF Goal
  <2> QED BY <2>2, <2>3
<1>6. ASSUME NEW t \in Threads, NotifyPop(t) PROVE Goal
  <2>1. size' = size /\ stopped' = stopped  BY <1>6 DEF NotifyPop, ring
  <2> QED BY <1>0, <1>6, <2>1, PopperNotified DEF NotifyPop, Goal
<1>7. ASSUME NEW t \in Threads, NotifyPush(t) PROVE Goal
  <2>1. size' = size /\ stopped' = stopped  BY <1>7 DEF NotifyPush, ring
  <2> QED BY <1>0, <1>7, <2>1, PusherNotified DEF NotifyPush, Goal
<1>8. ASSUME NEW t \in Threads, Stop(t) PROVE Goal
  <2>1. Moved(at, at', t, "wake_poppers") /\ size' = size /\ stopped' = TRUE
    BY <1>8 DEF Stop, ring, Moved
  <2> QED BY <1>0, <1>8, <2>1, ThreadMoved DEF Stop, Goal
<1>9. ASSUME NEW t \in Threads, StopNotifies(t) PROVE Goal
  <2>1. size' = size /\ stopped' = stopped  BY <1>9 DEF StopNotifies, ring
  <2>2. CASE at[t] = "wake_poppers"
    <3>1. NotifyAll("pop_asleep", "pop_woken", t, "wake_pushers")
      BY <1>9, <2>2 DEF StopNotifies
    <3>2. /\ HowMany(at', "pop_asleep") = 0
          /\ \A q : q \notin {"pop_asleep", "pop_woken", "wake_pushers", at[t]}
               => HowMany(at', q) = HowMany(at, q)
      BY <3>1, NotifyAllCounts
    <3>3. /\ HowMany(at', "push_asleep") = HowMany(at, "push_asleep")
          /\ HowMany(at', "push_woken") = HowMany(at, "push_woken")
          /\ HowMany(at', "notify_push") = HowMany(at, "notify_push")
      BY <2>2, <3>2
    <3> QED BY <1>0, <2>1, <3>2, <3>3 DEF Goal, ItemsCounted, SpaceCounted
  <2>3. CASE at[t] = "wake_pushers"
    <3>1. NotifyAll("push_asleep", "push_woken", t, "idle")
      BY <1>9, <2>3 DEF StopNotifies
    <3>2. /\ HowMany(at', "push_asleep") = 0
          /\ \A q : q \notin {"push_asleep", "push_woken", "idle", at[t]}
               => HowMany(at', q) = HowMany(at, q)
      BY <3>1, NotifyAllCounts
    <3>3. /\ HowMany(at', "pop_asleep") = HowMany(at, "pop_asleep")
          /\ HowMany(at', "pop_woken") = HowMany(at, "pop_woken")
          /\ HowMany(at', "notify_pop") = HowMany(at, "notify_pop")
      BY <2>3, <3>2
    <3> QED BY <1>0, <2>1, <3>2, <3>3 DEF Goal, ItemsCounted, SpaceCounted
  <2> QED BY <1>9, <2>2, <2>3 DEF StopNotifies
<1>10. ASSUME NEW t \in Threads, SpuriousWake(t) PROVE Goal
  <2>1. size' = size /\ stopped' = stopped /\ stopped \in BOOLEAN
    BY <1>10 DEF SpuriousWake, ring, TypeOK
  <2>2. \/ at[t] = "pop_asleep" /\ Moved(at, at', t, "pop_woken")
        \/ at[t] = "push_asleep" /\ Moved(at, at', t, "push_woken")
    BY <1>10 DEF SpuriousWake, Moved
  <2> QED BY <1>0, <2>1, <2>2, ThreadMoved DEF Goal
<1>11. CASE UNCHANGED vars  BY <1>0, <1>11 DEF Goal, vars, ring
<1> QED
  BY <1>1, <1>2, <1>3, <1>4, <1>5, <1>6, <1>7, <1>8, <1>9, <1>10, <1>11 DEF Next, Goal

\* At first nobody sleeps.
LEMMA InitAnnounced == Init => WaitersAnnounced
<1> SUFFICES ASSUME Init PROVE WaitersAnnounced  OBVIOUS
<1>1. Are("pop_asleep") = {} /\ Are("push_asleep") = {}  BY DEF Init, Are
<1> QED BY <1>1 DEF WaitersAnnounced, ItemsAnnounced, SpaceAnnounced

\* No lost wakeup: a popper that sleeps while items are queued, or a pusher that
\* sleeps while slots are free, always has another thread awake for each of them
\* or a notification under way, for any number of callers and any capacity
\* (bounded_queue.h, the notify_one and notify_all of each operation).
THEOREM NoWakeupLost == Spec => []WaitersAnnounced
BY InitTypes, TypeStep, InitAnnounced, AnnouncedStep, PTL DEF Spec

--------------------------------------------------------------------------------
(* The ring is a first-in first-out queue                                   *)

Values == Items \cup {NoItem}

\* What n items read from index h of the slots sl are, and the index of the i-th.
ReadFrom(sl, h, n) == [i \in 1..n |-> sl[(h + i - 1) % Capacity]]
Nth(h, i) == IF h + i - 1 < Capacity THEN h + i - 1 ELSE h + i - 1 - Capacity

\* The i-th index is a slot of the ring, and i can be told from it.
LEMMA NthIndex ==
    ASSUME NEW h \in Indices, NEW i \in 1..Capacity
    PROVE  /\ (h + i - 1) % Capacity = Nth(h, i)
           /\ Nth(h, i) \in Indices
           /\ \A j \in 1..Capacity : Nth(h, i) = Nth(h, j) => i = j
<1>1. i - 1 \in 0..Capacity /\ h + (i - 1) = h + i - 1  BY RingNotEmpty DEF Indices
<1>2. (h + (i - 1)) % Capacity
        = IF h + (i - 1) < Capacity THEN h + (i - 1) ELSE h + (i - 1) - Capacity
  BY <1>1, IndexWraps
<1>3. (h + i - 1) % Capacity = Nth(h, i)  BY <1>1, <1>2 DEF Nth
<1>4. Nth(h, i) \in Indices /\ \A j \in 1..Capacity : Nth(h, i) = Nth(h, j) => i = j
  BY RingNotEmpty DEF Nth, Indices
<1> QED BY <1>3, <1>4

\* Reading n slots gives a sequence of n values, the i-th from the i-th index.
LEMMA ReadIsSeq ==
    ASSUME NEW sl \in [Indices -> Values], NEW h \in Indices, NEW n \in 0..Capacity
    PROVE  /\ ReadFrom(sl, h, n) \in Seq(Values)
           /\ Len(ReadFrom(sl, h, n)) = n
           /\ \A i \in 1..n : ReadFrom(sl, h, n)[i] = sl[Nth(h, i)]
<1> DEFINE f == [i \in 1..n |-> sl[Nth(h, i)]]
<1>1. n \in Nat /\ \A i \in 1..n : i \in 1..Capacity  BY RingNotEmpty
<1>2. ReadFrom(sl, h, n) = f  BY <1>1, NthIndex DEF ReadFrom
<1>3. \A i \in 1..n : sl[Nth(h, i)] \in Values  BY <1>1, NthIndex
<1>4. f \in Seq(Values) /\ Len(f) = n /\ \A i \in 1..n : f[i] = sl[Nth(h, i)]
  BY <1>1, <1>3
<1> QED BY <1>2, <1>4

\* A value written at the index after the last is appended.
LEMMA WriteAppends ==
    ASSUME NEW sl \in [Indices -> Values], NEW h \in Indices,
           NEW n \in 0..(Capacity - 1), NEW x \in Values
    PROVE  ReadFrom([sl EXCEPT ![Nth(h, n + 1)] = x], h, n + 1)
               = Append(ReadFrom(sl, h, n), x)
<1> DEFINE k == Nth(h, n + 1)
           new == [sl EXCEPT ![k] = x]
           old == ReadFrom(sl, h, n)
<1>1. n \in 0..Capacity /\ n + 1 \in 0..Capacity /\ n + 1 \in 1..Capacity
  BY RingNotEmpty
<1>2. k \in Indices /\ \A i \in 1..n : Nth(h, i) \in Indices /\ Nth(h, i) # k
  <2>1. k \in Indices  BY <1>1, NthIndex
  <2>2. ASSUME NEW i \in 1..n PROVE Nth(h, i) \in Indices /\ Nth(h, i) # k
    <3>1. i \in 1..Capacity /\ i # n + 1  BY <1>1, <2>2, RingNotEmpty
    <3>2. Nth(h, i) \in Indices  BY <3>1, NthIndex
    <3>3. \A j \in 1..Capacity : Nth(h, i) = Nth(h, j) => i = j  BY <3>1, NthIndex
    <3> QED BY <1>1, <3>1, <3>2, <3>3
  <2> QED BY <2>1, <2>2
<1>3. new \in [Indices -> Values] /\ new[k] = x  BY <1>2
<1>4. \A i \in 1..n : Nth(h, i) \in Indices /\ new[Nth(h, i)] = sl[Nth(h, i)]  BY <1>2
<1>5. /\ old \in Seq(Values) /\ Len(old) = n
      /\ \A i \in 1..n : old[i] = sl[Nth(h, i)]
  BY <1>1, ReadIsSeq
<1> HIDE DEF new, old
<1>6. /\ ReadFrom(new, h, n + 1) \in Seq(Values) /\ Len(ReadFrom(new, h, n + 1)) = n + 1
      /\ \A i \in 1..(n + 1) : ReadFrom(new, h, n + 1)[i] = new[Nth(h, i)]
  BY <1>1, <1>3, ReadIsSeq
<1> HIDE DEF k
<1>7. /\ Append(old, x) \in Seq(Values) /\ Len(Append(old, x)) = n + 1
      /\ \A i \in 1..n : Append(old, x)[i] = old[i]
      /\ Append(old, x)[n + 1] = x
  BY <1>5, AppendProperties
<1>8. \A i \in 1..(n + 1) : ReadFrom(new, h, n + 1)[i] = Append(old, x)[i]
  <2> SUFFICES ASSUME NEW i \in 1..(n + 1)
               PROVE  ReadFrom(new, h, n + 1)[i] = Append(old, x)[i]
    OBVIOUS
  <2>1. CASE i = n + 1  BY <1>3, <1>6, <1>7, <2>1 DEF k
  <2>2. CASE i # n + 1
    <3>1. i \in 1..n  BY <1>1, <2>2
    <3> QED BY <1>4, <1>5, <1>6, <1>7, <3>1
  <2> QED BY <2>1, <2>2
<1>9. ReadFrom(new, h, n + 1) = Append(old, x)  BY <1>6, <1>7, <1>8, SeqEqual
<1> QED BY <1>9 DEF new, old, k

\* Reading from the next index gives the rest, whatever is at the first one.
LEMMA SkipIsTail ==
    ASSUME NEW sl \in [Indices -> Values], NEW h \in Indices, NEW n \in 1..Capacity,
           NEW x \in Values
    PROVE  ReadFrom([sl EXCEPT ![h] = x], NextIndex(h), n - 1)
               = Tail(ReadFrom(sl, h, n))
<1> DEFINE new == [sl EXCEPT ![h] = x]
           all == ReadFrom(sl, h, n)
           rest == ReadFrom(new, NextIndex(h), n - 1)
<1>1. n \in 0..Capacity /\ n - 1 \in 0..Capacity /\ NextIndex(h) \in Indices
  BY RingNotEmpty, NextIndexWraps
<1>2. /\ Nth(h, 1) = h
      /\ \A i \in 1..(n - 1) : /\ Nth(NextIndex(h), i) = Nth(h, i + 1)
                               /\ i + 1 \in 1..n /\ i + 1 \in 1..Capacity
  <2>1. Nth(h, 1) = h  BY RingNotEmpty DEF Nth, Indices
  <2>2. ASSUME NEW i \in 1..(n - 1)
        PROVE  /\ Nth(NextIndex(h), i) = Nth(h, i + 1)
               /\ i + 1 \in 1..n /\ i + 1 \in 1..Capacity
    <3>1. NextIndex(h) = IF h + 1 = Capacity THEN 0 ELSE h + 1  BY NextIndexWraps
    <3>2. i \in Nat /\ i + 1 \in 1..n /\ i + 1 \in 1..Capacity  BY <2>2, RingNotEmpty
    <3> QED BY <3>1, <3>2, RingNotEmpty DEF Nth, Indices
  <2> QED BY <2>1, <2>2
<1>3. new \in [Indices -> Values]  OBVIOUS
<1>4. \A i \in 1..(n - 1) : new[Nth(h, i + 1)] = sl[Nth(h, i + 1)]
  <2> SUFFICES ASSUME NEW i \in 1..(n - 1)
               PROVE  new[Nth(h, i + 1)] = sl[Nth(h, i + 1)]
    OBVIOUS
  <2>1. i + 1 \in 1..Capacity /\ 1 \in 1..Capacity /\ i + 1 # 1  BY <1>2, RingNotEmpty
  <2>2. Nth(h, i + 1) # h /\ Nth(h, i + 1) \in Indices  BY <1>2, <2>1, NthIndex
  <2> QED BY <2>2
<1>5. all \in Seq(Values) /\ Len(all) = n /\ \A i \in 1..n : all[i] = sl[Nth(h, i)]
  BY <1>1, ReadIsSeq
<1> HIDE DEF all, new
<1>6. /\ rest \in Seq(Values) /\ Len(rest) = n - 1
      /\ \A i \in 1..(n - 1) : rest[i] = new[Nth(NextIndex(h), i)]
  BY <1>1, <1>3, ReadIsSeq
<1> HIDE DEF rest
<1>7. all # <<>>  BY <1>5, EmptySeq
<1>8. /\ Tail(all) \in Seq(Values) /\ Len(Tail(all)) = n - 1
      /\ \A i \in 1..(n - 1) : Tail(all)[i] = all[i + 1]
  BY <1>5, <1>7, HeadTailProperties
<1>9. \A i \in 1..(n - 1) : rest[i] = Tail(all)[i]  BY <1>2, <1>4, <1>5, <1>6, <1>8
<1>10. rest = Tail(all)  BY <1>6, <1>8, <1>9, SeqEqual
<1> QED BY <1>10 DEF all, new, rest

\* The next free slot lies size places after the head; in a full ring it is the
\* head itself.
TailFollows ==
    tail = IF head + size < Capacity THEN head + size ELSE head + size - Capacity
RingInv == TypeOK /\ TailFollows

\* What PushLatest does to the ring of a full queue.
ReplaceOldest(x) ==
    /\ slots' = [slots EXCEPT ![head] = NoItem, ![tail] = x]
    /\ head' = NextIndex(head)
    /\ tail' = NextIndex(tail)
    /\ size' = size

\* Every step adds an item, takes one, replaces the oldest or leaves the ring.
LEMMA RingSteps ==
    ASSUME TypeOK, [Next]_vars
    PROVE  \/ UNCHANGED ring /\ (stopped' = stopped \/ stopped' = TRUE)
           \/ \E x \in Items : /\ ~stopped /\ ~Full /\ PushUnlocked(x)
                               /\ UNCHANGED stopped
           \/ \E x \in Items : /\ ~stopped /\ Full /\ ReplaceOldest(x)
                               /\ UNCHANGED stopped
           \/ size > 0 /\ PopUnlocked /\ UNCHANGED stopped
<1>1. ASSUME NEW t \in Threads, NEW x \in Items, TryPush(t, x) \/ PushLatest(t, x)
      PROVE  /\ ~stopped /\ UNCHANGED stopped
             /\ (~Full /\ PushUnlocked(x)) \/ (Full /\ ReplaceOldest(x))
  BY <1>1 DEF TryPush, PushLatest, ReplaceOldest
<1>2. ASSUME NEW t \in Threads, NEW x \in Items, WaitPush(t, x)
      PROVE  /\ UNCHANGED stopped
             /\ UNCHANGED ring \/ (~stopped /\ ~Full /\ PushUnlocked(x))
  BY <1>2 DEF WaitPush, WaitPushBlocks, WaitPushReturns
<1>3. ASSUME NEW t \in Threads, TryPop(t) \/ WaitPop(t)
      PROVE  UNCHANGED stopped /\ (UNCHANGED ring \/ (size > 0 /\ PopUnlocked))
  BY <1>3 DEF TryPop, WaitPop
<1>4. ASSUME NEW t \in Threads, NotifyPop(t) \/ NotifyPush(t) \/ StopNotifies(t)
                                \/ SpuriousWake(t) \/ Stop(t)
      PROVE  UNCHANGED ring /\ (stopped' = stopped \/ stopped' = TRUE)
  BY <1>4 DEF NotifyPop, NotifyPush, StopNotifies, SpuriousWake, Stop
<1>5. CASE UNCHANGED vars  BY <1>5 DEF vars
<1> QED BY <1>1, <1>2, <1>3, <1>4, <1>5 DEF Next

\* A push moves the tail and the size, a pop the head and the size: the tail
\* stays size places after the head, modulo the capacity.
LEMMA TailStep == RingInv /\ [Next]_vars => TailFollows'
<1> SUFFICES ASSUME TypeOK, TailFollows, [Next]_vars PROVE TailFollows'  BY DEF RingInv
<1>1. /\ head \in Nat /\ head < Capacity /\ size \in Nat /\ size <= Capacity
      /\ Capacity \in Nat /\ Capacity > 0 /\ tail \in Indices /\ head \in Indices
  BY RingNotEmpty DEF TypeOK, Indices
<1>2. /\ NextIndex(head) = IF head + 1 = Capacity THEN 0 ELSE head + 1
      /\ NextIndex(tail) = IF tail + 1 = Capacity THEN 0 ELSE tail + 1
  BY <1>1, NextIndexWraps
<1>3. CASE UNCHANGED ring  BY <1>3 DEF ring, TailFollows
<1>4. ASSUME NEW x, ~Full, PushUnlocked(x) PROVE TailFollows'
  BY <1>1, <1>2, <1>4 DEF Full, PushUnlocked, TailFollows
<1>5. ASSUME NEW x, Full, ReplaceOldest(x) PROVE TailFollows'
  BY <1>1, <1>2, <1>5 DEF Full, ReplaceOldest, TailFollows
<1>6. CASE size > 0 /\ PopUnlocked  BY <1>1, <1>2, <1>6 DEF PopUnlocked, TailFollows
<1> QED BY <1>3, <1>4, <1>5, <1>6, RingSteps

\* The ring's indices always fit: its tail is the slot after its last item.
THEOREM RingInvariant == Spec => []RingInv
<1>1. Init => RingInv  BY InitTypes, RingNotEmpty DEF RingInv, Init, TailFollows
<1>2. RingInv /\ [Next]_vars => RingInv'  BY TypeStep, TailStep DEF RingInv
<1> QED BY <1>1, <1>2, PTL DEF Spec

\* What the ring holds, read from its head, is a sequence of size items.
LEMMA ContentsIsRead ==
    /\ Contents = ReadFrom(slots, head, size)
    /\ Contents' = ReadFrom(slots', head', size')
BY DEF Contents, ReadFrom

\* The empty ring is the empty queue.
LEMMA InitIsQueue == Init => Queue!QueueInit
<1> SUFFICES ASSUME Init PROVE Contents = <<>> /\ stopped = FALSE
  BY DEF Queue!QueueInit
<1>1. /\ slots \in [Indices -> Values] /\ head \in Indices /\ size = 0
      /\ size \in 0..Capacity
  BY InitTypes, RingNotEmpty DEF TypeOK, Values, Init
<1>2. Contents \in Seq(Values) /\ Len(Contents) = 0  BY <1>1, ReadIsSeq, ContentsIsRead
<1>3. Contents = <<>>  BY <1>2, EmptySeq
<1> QED BY <1>3 DEF Init

\* Every critical section is one operation of LatestQueue or leaves its queue alone.
LEMMA StepIsQueue == RingInv /\ [Next]_vars => [Queue!QueueNext]_Queue!queueVars
<1> SUFFICES ASSUME TypeOK, TailFollows, [Next]_vars
             PROVE  [Queue!QueueNext]_Queue!queueVars
  BY DEF RingInv
<1>1. /\ slots \in [Indices -> Values] /\ head \in Indices /\ size \in 0..Capacity
      /\ tail \in Indices /\ Capacity \in Nat \ {0}
      /\ NoItem \in Values /\ \A x \in Items : x \in Values
  BY RingNotEmpty DEF TypeOK, Values
<1>2. Contents \in Seq(Values) /\ Len(Contents) = size
  BY <1>1, ReadIsSeq, ContentsIsRead
<1>3. CASE UNCHANGED ring /\ (stopped' = stopped \/ stopped' = TRUE)
  <2>1. Contents' = Contents  BY <1>3, ContentsIsRead DEF ring
  <2> QED BY <1>3, <2>1 DEF Queue!QueueNext, Queue!Halt, Queue!queueVars
<1>4. ASSUME NEW x \in Items, ~stopped, ~Full, PushUnlocked(x), UNCHANGED stopped
      PROVE  Queue!Put(x)
  <2>1. size \in 0..(Capacity - 1) /\ size < Capacity  BY <1>1, <1>4 DEF Full
  <2>2. tail = Nth(head, size + 1)  BY <1>1, <2>1 DEF TailFollows, Nth, Indices
  <2>3. Contents' = ReadFrom([slots EXCEPT ![Nth(head, size + 1)] = x], head, size + 1)
    BY <1>4, <2>2, ContentsIsRead DEF PushUnlocked
  <2>4. Contents' = Append(Contents, x)
    BY <1>1, <2>1, <2>3, WriteAppends, ContentsIsRead
  <2> QED BY <1>2, <1>4, <2>1, <2>4 DEF Queue!Put
<1>5. ASSUME NEW x \in Items, ~stopped, Full, ReplaceOldest(x), UNCHANGED stopped
      PROVE  Queue!Replace(x)
  <2> DEFINE rest == [slots EXCEPT ![head] = NoItem]
             next == NextIndex(head)
  <2>1. size = Capacity /\ size \in 1..Capacity /\ size - 1 \in 0..(Capacity - 1)
    BY <1>1, <1>5 DEF Full
  <2>2. tail = head /\ next \in Indices /\ next = IF head + 1 = Capacity THEN 0 ELSE head + 1
    BY <1>1, <2>1, NextIndexWraps DEF TailFollows, Indices
  <2>3. Nth(next, (size - 1) + 1) = tail  BY <1>1, <2>1, <2>2 DEF Nth, Indices
  <2>4. rest \in [Indices -> Values] /\ ReadFrom(rest, next, size - 1) = Tail(Contents)
    BY <1>1, <2>1, SkipIsTail, ContentsIsRead
  <2>5. slots' = [rest EXCEPT ![tail] = x] /\ head' = next /\ size' = (size - 1) + 1
    BY <1>1, <1>5, <2>1 DEF ReplaceOldest
  <2> HIDE DEF rest, next
  <2>6. ReadFrom([rest EXCEPT ![Nth(next, (size - 1) + 1)] = x], next, (size - 1) + 1)
          = Append(ReadFrom(rest, next, size - 1), x)
    BY <1>1, <2>1, <2>2, <2>4, WriteAppends
  <2>7. Contents' = Append(Tail(Contents), x)  BY <2>3, <2>4, <2>5, <2>6, ContentsIsRead
  <2> QED BY <1>2, <1>5, <2>1, <2>7 DEF Queue!Replace
<1>6. CASE size > 0 /\ PopUnlocked /\ UNCHANGED stopped
  <2>1. size \in 1..Capacity  BY <1>1, <1>6
  <2>2. Contents' = Tail(Contents)
    BY <1>1, <1>6, <2>1, SkipIsTail, ContentsIsRead DEF PopUnlocked
  <2>3. Contents # <<>>  BY <1>2, <2>1, EmptySeq
  <2> QED BY <1>6, <2>2, <2>3 DEF Queue!QueueNext, Queue!Take
<1> QED BY <1>3, <1>4, <1>5, <1>6, RingSteps DEF Queue!QueueNext

\* The ring with its wrapping indices gives its items out in the order they were
\* put in, drops only the oldest of a full queue and only for PushLatest, takes
\* nothing once stopped, and still gives out what it holds
\* (bounded_queue.h, PushUnlocked, PopUnlocked and PushLatest).
THEOREM QueueRefined == Spec => ActsAsLatestQueue
BY InitIsQueue, StepIsQueue, RingInvariant, PTL
   DEF Spec, ActsAsLatestQueue, Queue!QueueSpec

--------------------------------------------------------------------------------
(* The media path: types                                                    *)

Packets == {"audio", "video"} \X Nat

PathQueue == [items : Seq(Nat), stopped : BOOLEAN]
CaptureRecord ==
    [at : {"read", "push", "ended"}, item : Nat, stop : BOOLEAN, fatal : BOOLEAN]
EncodeRecord ==
    [at : {"pop", "push", "ended"}, inside : Seq(Nat), out : Seq(Nat), tail : BOOLEAN,
     fatal : BOOLEAN]
SinkRecord ==
    [at : {"pop", "mp4", "net_test", "net_push", "ended"}, item : Nat, ok : BOOLEAN,
     fatal : BOOLEAN]
VideoRecord ==
    [at : {"pop", "mp4", "net_test", "net_push", "ended"}, unit : Nat \ {0}, part : Nat,
     ok : BOOLEAN, failed : BOOLEAN]
Mp4Record ==
    [opened : BOOLEAN, fatal : BOOLEAN, finalized : BOOLEAN, pending : Nat,
     audio : Seq(Nat), video : Seq(Nat)]
NetRecord ==
    [accepting : BOOLEAN, fatal : BOOLEAN, finalized : BOOLEAN, pending : Nat,
     items : Seq(Packets), stopped : BOOLEAN, audio : Seq(Nat), video : Seq(Nat),
     queued : Nat]

QueueTypes == pcmQueue \in PathQueue /\ aacQueue \in PathQueue
AudioTypes == capture \in CaptureRecord /\ encode \in EncodeRecord /\ sinkWorker \in SinkRecord
VideoTypes == video \in VideoRecord
MuxerTypes ==
    /\ mp4 \in Mp4Record /\ net \in NetRecord
    /\ netWorker \in {"pop", "finish", "trailer", "ended"}

RuntimeTypes ==
    /\ runtime \in {"run", "pipeline", "capture", "encode", "sink", "finalized", "net",
                    "done"}
    /\ chunks \in Nat /\ accepted \in Seq(Nat)

MediaTypes == QueueTypes /\ AudioTypes /\ VideoTypes /\ MuxerTypes /\ RuntimeTypes

--------------------------------------------------------------------------------
(* The inductive invariant                                                  *)

\* Who may still run at each stage of the shutdown.
StopsInOrder ==
    /\ video.at # "ended" => runtime \in {"run", "pipeline"}
    /\ capture.at # "ended" => runtime \in {"run", "pipeline", "capture"}
    /\ encode.at # "ended" => runtime \in {"run", "pipeline", "capture", "encode"}
    /\ sinkWorker.at # "ended" =>
           runtime \in {"run", "pipeline", "capture", "encode", "sink"}
    /\ netWorker # "ended" => runtime # "done"

\* A worker that ended well has left nothing behind it: its queue is stopped and
\* empty, and so is the codec.
EndsDrained ==
    /\ encode.at = "pop" => encode.out = <<>> /\ ~encode.tail
    /\ encode.tail => encode.inside = <<>> /\ pcmQueue.items = <<>> /\ pcmQueue.stopped
    /\ encode.at = "ended" => encode.fatal \/ (encode.tail /\ encode.out = <<>>)
    /\ sinkWorker.at = "ended" =>
           sinkWorker.fatal \/ (aacQueue.items = <<>> /\ aacQueue.stopped)
    /\ sinkWorker.fatal => sinkWorker.at = "ended"

\* The state of the muxers follows the shutdown, or a failure.
MuxersFollow ==
    /\ runtime \notin {"finalized", "net", "done"} => mp4.opened /\ ~mp4.finalized
    /\ runtime \in {"finalized", "net", "done"} => mp4.finalized \/ mp4.fatal
    /\ net.stopped => net.fatal \/ runtime \in {"net", "done"}
    /\ netWorker # "pop" => net.stopped /\ (net.fatal \/ net.items = <<>>)
    /\ netWorker = "ended" => net.finalized \/ net.fatal

\* What is on its way to the muxers behind the sink worker, oldest first.
Behind == aacQueue.items \o (encode.out \o (encode.inside \o pcmQueue.items))
InHand(places) == IF sinkWorker.at \in places THEN <<sinkWorker.item>> ELSE <<>>

\* Every chunk that was accepted is in the MP4 output or on its way there, in order.
AudioReachesMp4 ==
    \/ encode.fatal \/ sinkWorker.fatal \/ mp4.fatal
    \/ accepted = mp4.audio \o (InHand({"mp4"}) \o Behind)

\* a is what a queue of packets holds of one kind, in order.
Carries(packets, kind, a) ==
    \E place \in [1 .. Len(a) -> 1 .. Len(packets)] :
        /\ \A i, j \in 1 .. Len(a) : i < j => place[i] < place[j]
        /\ \A i \in 1 .. Len(a) : packets[place[i]] = <<kind, a[i]>>
        /\ \A j \in 1 .. Len(packets) :
               packets[j][1] = kind => \E i \in 1 .. Len(a) : place[i] = j

AudioGoesTo(a) ==
    accepted = net.audio \o (a \o (InHand({"mp4", "net_test", "net_push"}) \o Behind))

\* Likewise for the network stream, through its queue.
AudioReachesNet ==
    \/ encode.fatal \/ sinkWorker.fatal \/ net.fatal
    \/ \E a \in Seq(Nat) : Carries(net.items, "audio", a) /\ AudioGoesTo(a)

\* An access unit whose last fragment the MP4 muxer has had and the network not yet.
Between == video.at \in {"net_test", "net_push"} /\ LastPart
UnitBetween == IF Between THEN <<video.unit>> ELSE <<>>

VideoReachesMp4 ==
    \/ video.failed \/ mp4.fatal
    \/ Len(mp4.video) = video.unit - 1 + Len(UnitBetween)

VideoGoesTo(v) == mp4.video = net.video \o (v \o UnitBetween)

\* The network stream has the access units of the file, or will have.
VideoReachesNet ==
    \/ video.failed \/ net.fatal
    \/ video.at \in {"net_test", "net_push"} /\ ~video.ok
    \/ \E v \in Seq(Nat) : Carries(net.items, "video", v) /\ VideoGoesTo(v)

NetCounts == net.fatal \/ Len(net.audio) + Len(net.video) + Len(net.items) = net.queued

MediaInv ==
    /\ MediaTypes /\ StopsInOrder /\ EndsDrained /\ MuxersFollow
    /\ AudioReachesMp4 /\ AudioReachesNet
    /\ VideoReachesMp4 /\ VideoReachesNet /\ NetCounts

--------------------------------------------------------------------------------
(* Lemmas about sequences                                                   *)

\* The first element in front of the others, and a sequence behind them.
LEMMA HeadMoves ==
    ASSUME NEW S, NEW s \in Seq(S), s # <<>>, NEW r \in Seq(S)
    PROVE  /\ Head(s) \in S /\ Tail(s) \in Seq(S)
           /\ s = <<Head(s)>> \o Tail(s)
           /\ s \o r = <<Head(s)>> \o (Tail(s) \o r)
<1>1. Head(s) \in S /\ Tail(s) \in Seq(S) /\ <<Head(s)>> \in Seq(S)
  BY HeadTailProperties
<1>2. s = <<Head(s)>> \o Tail(s)
  <2>1. Len(s) \in Nat \ {0} /\ Len(s) >= 1  BY EmptySeq
  <2>2. SubSeq(s, 1, Len(s)) = <<s[1]>> \o SubSeq(s, 2, Len(s))
    BY <2>1, SubSeqRecursiveFirst
  <2>3. SubSeq(s, 1, Len(s)) = s /\ SubSeq(s, 2, Len(s)) = Tail(s)
    BY SubSeqFull, TailIsSubSeq
  <2>4. Head(s) = s[1]  BY <2>1
  <2> QED BY <2>2, <2>3, <2>4
<1>3. s \o r = <<Head(s)>> \o (Tail(s) \o r)  BY <1>1, <1>2, ConcatAssociative
<1> QED BY <1>1, <1>2, <1>3

\* What is appended to one sequence stands in front of the one behind it.
LEMMA AppendMoves ==
    ASSUME NEW S, NEW s \in Seq(S), NEW x \in S, NEW r \in Seq(S)
    PROVE  /\ Append(s, x) \in Seq(S) /\ <<x>> \in Seq(S)
           /\ Append(s, x) \o r = s \o (<<x>> \o r)
           /\ s \o Append(r, x) = Append(s \o r, x)
<1>1. Append(s, x) = s \o <<x>> /\ Append(r, x) = r \o <<x>>  BY AppendIsConcat
<1>2. Append(s, x) \in Seq(S) /\ <<x>> \in Seq(S) /\ s \o r \in Seq(S)
  BY AppendProperties, ConcatProperties
<1>3. Append(s \o r, x) = (s \o r) \o <<x>>  BY <1>2, AppendIsConcat
<1> QED BY <1>1, <1>2, <1>3, ConcatAssociative

\* The last element behind the others.
LEMMA LastMoves ==
    ASSUME NEW S, NEW s \in Seq(S), s # <<>>, NEW r \in Seq(S)
    PROVE  /\ Front(s) \in Seq(S) /\ Last(s) \in S
           /\ s = Append(Front(s), Last(s))
           /\ s \o r = Front(s) \o (<<Last(s)>> \o r)
<1>1. Len(s) \in Nat \ {0} /\ Len(s) >= 1  BY EmptySeq
<1>2. Front(s) = SubSeq(s, 1, Len(s) - 1) /\ Last(s) = s[Len(s)] /\ Last(s) \in S
  BY <1>1, ElementOfSeq DEF Front, Last
<1>3. s = Front(s) \o <<Last(s)>>  BY <1>1, <1>2, SubSeqRecursiveSecond, SubSeqFull
<1>4. Front(s) \in Seq(S)  BY <1>1, <1>2, SubSeqProperties, ElementOfSeq
<1>5. s = Append(Front(s), Last(s))  BY <1>2, <1>3, <1>4, AppendIsConcat
<1>6. Append(Front(s), Last(s)) \o r = Front(s) \o (<<Last(s)>> \o r)
  <2> DEFINE f == Front(s)
             x == Last(s)
  <2>1. f \in Seq(S) /\ x \in S  BY <1>2, <1>4
  <2> HIDE DEF f, x
  <2>2. Append(f, x) \o r = f \o (<<x>> \o r)  BY <2>1, AppendMoves
  <2> QED BY <2>2 DEF f, x
<1> QED BY <1>2, <1>4, <1>5, <1>6

\* An element goes from the front of one sequence to the end of the one before it.
LEMMA HeadPassesOn ==
    ASSUME NEW S, NEW q \in Seq(S), NEW x \in S, NEW t \in Seq(S), NEW r \in Seq(S)
    PROVE  Append(q, x) \o (t \o r) = q \o ((<<x>> \o t) \o r)
<1> DEFINE tr == t \o r
<1>1. tr \in Seq(S) /\ <<x>> \in Seq(S)  BY ConcatProperties
<1>2. (<<x>> \o t) \o r = <<x>> \o tr  BY <1>1, ConcatAssociative
<1>3. q \in Seq(S) /\ x \in S /\ tr \in Seq(S)  BY <1>1
<1> HIDE DEF tr
<1>4. Append(q, x) \o tr = q \o (<<x>> \o tr)  BY <1>3, AppendMoves
<1> QED BY <1>2, <1>4 DEF tr

--------------------------------------------------------------------------------
(* Lemmas about what a queue of packets carries                             *)

\* An empty queue carries nothing, and only nothing.
LEMMA CarriesNothing ==
    ASSUME NEW kind
    PROVE  /\ Carries(<<>>, kind, <<>>)
           /\ \A a \in Seq(Nat) : Carries(<<>>, kind, a) => a = <<>>
<1>1. Carries(<<>>, kind, <<>>)
  <2> DEFINE none == [i \in 1 .. 0 |-> 0]
  <2>1. none \in [1 .. Len(<<>>) -> 1 .. Len(<<>>)] /\ 1 .. Len(<<>>) = {}  OBVIOUS
  <2> QED BY <2>1 DEF Carries
<1>2. ASSUME NEW a \in Seq(Nat), Carries(<<>>, kind, a), a # <<>> PROVE FALSE
  <2>1. 1 \in 1 .. Len(a) /\ 1 .. Len(<<>>) = {}  BY <1>2, EmptySeq
  <2> QED BY <1>2, <2>1 DEF Carries
<1> QED BY <1>1, <1>2

\* A packet that comes into the queue.
LEMMA CarriesOneMore ==
    ASSUME NEW s \in Seq(Packets), NEW kind, NEW a \in Seq(Nat), Carries(s, kind, a),
           NEW k \in {"audio", "video"}, NEW n \in Nat
    PROVE  Carries(Append(s, <<k, n>>), kind, IF k = kind THEN Append(a, n) ELSE a)
<1> DEFINE s1 == Append(s, <<k, n>>)
           a1 == Append(a, n)
<1>1. PICK f \in [1 .. Len(a) -> 1 .. Len(s)] :
          /\ \A i, j \in 1 .. Len(a) : i < j => f[i] < f[j]
          /\ \A i \in 1 .. Len(a) : s[f[i]] = <<kind, a[i]>>
          /\ \A j \in 1 .. Len(s) :
                 s[j][1] = kind => \E i \in 1 .. Len(a) : f[i] = j
  BY DEF Carries
<1>2. <<k, n>> \in Packets  BY DEF Packets
<1>3. /\ Len(s1) = Len(s) + 1 /\ Len(s) \in Nat
      /\ \A i \in 1 .. Len(s) : s1[i] = s[i]
      /\ s1[Len(s) + 1] = <<k, n>>
  BY <1>2, AppendProperties, LenProperties
<1>4. /\ Len(a1) = Len(a) + 1 /\ Len(a) \in Nat
      /\ \A i \in 1 .. Len(a) : a1[i] = a[i]
      /\ a1[Len(a) + 1] = n
  BY AppendProperties, LenProperties
<1> HIDE DEF s1, a1
<1>5. CASE k = kind
  <2> DEFINE g == [i \in 1 .. Len(a1) |-> IF i <= Len(a) THEN f[i] ELSE Len(s) + 1]
  <2>1. g \in [1 .. Len(a1) -> 1 .. Len(s1)]  BY <1>3, <1>4
  <2>2. \A i \in 1 .. Len(a) : f[i] \in 1 .. Len(s)  BY <1>1
  <2>3. \A i \in 1 .. Len(a1) : i \in 1 .. Len(a) \/ i = Len(a) + 1  BY <1>4
  <2>4. Len(a) + 1 \in 1 .. Len(a1) /\ \A i \in 1 .. Len(a) : i \in 1 .. Len(a1)
    BY <1>4
  <2>5. g[Len(a) + 1] = Len(s) + 1  BY <1>4, <2>4
  <2>6. \A i \in 1 .. Len(a) : g[i] = f[i]  BY <1>4, <2>4
  <2> HIDE DEF g
  <2>7. \A i, j \in 1 .. Len(a1) : i < j => g[i] < g[j]
    <3> SUFFICES ASSUME NEW i \in 1 .. Len(a1), NEW j \in 1 .. Len(a1), i < j
                 PROVE  g[i] < g[j]
      OBVIOUS
    <3>1. i \in 1 .. Len(a)  BY <1>4
    <3>2. CASE j \in 1 .. Len(a)  BY <1>1, <2>2, <2>6, <3>1, <3>2
    <3>3. CASE j = Len(a) + 1  BY <1>3, <2>2, <2>5, <2>6, <3>1, <3>3
    <3> QED BY <2>3, <3>2, <3>3
  <2>8. \A i \in 1 .. Len(a1) : s1[g[i]] = <<kind, a1[i]>>
    <3>1. s1[g[Len(a) + 1]] = <<kind, a1[Len(a) + 1]>>  BY <1>3, <1>4, <1>5, <2>5
    <3>2. \A i \in 1 .. Len(a) : s1[g[i]] = <<kind, a1[i]>>
      BY <1>1, <1>3, <1>4, <2>2, <2>6
    <3> QED BY <2>3, <3>1, <3>2
  <2>9. ASSUME NEW j \in 1 .. Len(s1), s1[j][1] = kind
        PROVE  \E i \in 1 .. Len(a1) : g[i] = j
    <3>1. CASE j = Len(s) + 1  BY <2>4, <2>5, <3>1
    <3>2. CASE j \in 1 .. Len(s)
      <4>1. PICK i \in 1 .. Len(a) : f[i] = j  BY <1>1, <1>3, <2>9, <3>2
      <4> QED BY <2>4, <2>6, <4>1
    <3> QED BY <1>3, <3>1, <3>2
  <2>10. Carries(s1, kind, a1)  BY <2>1, <2>7, <2>8, <2>9 DEF Carries
  <2> QED BY <1>5, <2>10 DEF s1, a1
<1>6. CASE k # kind
  <2>1. f \in [1 .. Len(a) -> 1 .. Len(s1)]  BY <1>3
  <2>2. \A i \in 1 .. Len(a) : s1[f[i]] = <<kind, a[i]>>  BY <1>1, <1>3
  <2>3. ASSUME NEW j \in 1 .. Len(s1), s1[j][1] = kind
        PROVE  \E i \in 1 .. Len(a) : f[i] = j
    <3>1. j # Len(s) + 1  BY <1>3, <1>6, <2>3
    <3>2. j \in 1 .. Len(s)  BY <1>3, <3>1
    <3> QED BY <1>1, <1>3, <2>3, <3>2
  <2>4. Carries(s1, kind, a)  BY <1>1, <2>1, <2>2, <2>3 DEF Carries
  <2> QED BY <1>6, <2>4 DEF s1
<1> QED BY <1>5, <1>6

\* A packet that leaves the queue is the first of its kind.
LEMMA CarriesOneLess ==
    ASSUME NEW s \in Seq(Packets), s # <<>>, NEW kind, NEW a \in Seq(Nat),
           Carries(s, kind, a)
    PROVE  IF Head(s)[1] = kind
           THEN a # <<>> /\ Head(a) = Head(s)[2] /\ Carries(Tail(s), kind, Tail(a))
           ELSE Carries(Tail(s), kind, a)
<1> DEFINE s1 == Tail(s)
           a1 == Tail(a)
<1>1. PICK f \in [1 .. Len(a) -> 1 .. Len(s)] :
          /\ \A i, j \in 1 .. Len(a) : i < j => f[i] < f[j]
          /\ \A i \in 1 .. Len(a) : s[f[i]] = <<kind, a[i]>>
          /\ \A j \in 1 .. Len(s) :
                 s[j][1] = kind => \E i \in 1 .. Len(a) : f[i] = j
  BY DEF Carries
<1>2. /\ Len(s) \in Nat \ {0} /\ Len(a) \in Nat
      /\ Len(s1) = Len(s) - 1 /\ \A i \in 1 .. Len(s1) : s1[i] = s[i + 1]
      /\ Head(s) = s[1] /\ 1 \in 1 .. Len(s)
  BY HeadTailProperties, EmptySeq, LenProperties
<1>3. CASE Head(s)[1] = kind
  <2>1. PICK i \in 1 .. Len(a) : f[i] = 1  BY <1>1, <1>2, <1>3
  <2>2. 1 \in 1 .. Len(a) /\ f[1] = 1
    <3>1. 1 \in 1 .. Len(a)  BY <1>2
    <3>2. f[1] \in 1 .. Len(s)  BY <1>1, <3>1
    <3>3. i = 1  BY <1>1, <1>2, <2>1, <3>1, <3>2
    <3> QED BY <2>1, <3>1, <3>3
  <2>3. a # <<>>  BY <2>2
  <2>4. /\ Len(a1) = Len(a) - 1 /\ \A j \in 1 .. Len(a1) : a1[j] = a[j + 1]
        /\ Head(a) = a[1]
    BY <2>3, HeadTailProperties
  <2>5. Head(a) = Head(s)[2]
    <3>1. s[1] = <<kind, a[1]>>  BY <1>1, <2>2
    <3> QED BY <1>2, <2>4, <3>1
  <2> HIDE DEF s1, a1
  <2> DEFINE g == [j \in 1 .. Len(a1) |-> f[j + 1] - 1]
  <2>6. \A j \in 1 .. Len(a1) : j + 1 \in 1 .. Len(a) /\ f[j + 1] \in 2 .. Len(s)
    <3>1. \A j \in 1 .. Len(a1) : j + 1 \in 1 .. Len(a) /\ 1 < j + 1  BY <1>2, <2>4
    <3>2. \A j \in 1 .. Len(a1) : f[j + 1] \in 1 .. Len(s) /\ f[1] < f[j + 1]
      BY <1>1, <2>2, <3>1
    <3> QED BY <1>2, <2>2, <3>1, <3>2
  <2>7. g \in [1 .. Len(a1) -> 1 .. Len(s1)]  BY <1>2, <2>6
  <2>8. \A j \in 1 .. Len(a1) : g[j] = f[j + 1] - 1  OBVIOUS
  <2> HIDE DEF g
  <2>9. \A j, k \in 1 .. Len(a1) : j < k => g[j] < g[k]
    <3> SUFFICES ASSUME NEW j \in 1 .. Len(a1), NEW k \in 1 .. Len(a1), j < k
                 PROVE  g[j] < g[k]
      OBVIOUS
    <3>1. j + 1 \in 1 .. Len(a) /\ k + 1 \in 1 .. Len(a) /\ j + 1 < k + 1  BY <1>2, <2>6
    <3>2. f[j + 1] < f[k + 1]  BY <1>1, <3>1
    <3>3. f[j + 1] \in Int /\ f[k + 1] \in Int  BY <2>6
    <3>4. f[j + 1] - 1 < f[k + 1] - 1  BY <3>2, <3>3
    <3> QED BY <2>8, <3>4
  <2>10. \A j \in 1 .. Len(a1) : s1[g[j]] = <<kind, a1[j]>>
    <3> SUFFICES ASSUME NEW j \in 1 .. Len(a1) PROVE s1[g[j]] = <<kind, a1[j]>>  OBVIOUS
    <3>1. s1[g[j]] = s[f[j + 1]]  BY <1>2, <2>6, <2>7, <2>8
    <3>2. s[f[j + 1]] = <<kind, a[j + 1]>>  BY <1>1, <2>6
    <3> QED BY <2>4, <3>1, <3>2
  <2>11. ASSUME NEW k \in 1 .. Len(s1), s1[k][1] = kind
         PROVE  \E j \in 1 .. Len(a1) : g[j] = k
    <3>1. k + 1 \in 1 .. Len(s) /\ s[k + 1][1] = kind  BY <1>2, <2>11
    <3>2. PICK j \in 1 .. Len(a) : f[j] = k + 1  BY <1>1, <3>1
    <3>3. j # 1  BY <2>2, <3>2
    <3>4. j - 1 \in 1 .. Len(a1) /\ g[j - 1] = f[j] - 1  BY <1>2, <2>4, <2>8, <3>3
    <3> QED BY <3>2, <3>4
  <2>12. Carries(s1, kind, a1)  BY <2>7, <2>9, <2>10, <2>11 DEF Carries
  <2> QED BY <1>3, <2>3, <2>5, <2>12 DEF s1, a1
<1>4. CASE Head(s)[1] # kind
  <2> HIDE DEF s1
  <2> DEFINE g == [j \in 1 .. Len(a) |-> f[j] - 1]
  <2>1. \A j \in 1 .. Len(a) : f[j] \in 2 .. Len(s)
    <3> SUFFICES ASSUME NEW j \in 1 .. Len(a) PROVE f[j] \in 2 .. Len(s)  OBVIOUS
    <3>1. f[j] \in 1 .. Len(s) /\ s[f[j]] = <<kind, a[j]>>  BY <1>1
    <3>2. f[j] # 1  BY <1>2, <1>4, <3>1
    <3> QED BY <1>2, <3>1, <3>2
  <2>2. g \in [1 .. Len(a) -> 1 .. Len(s1)] /\ \A j \in 1 .. Len(a) : g[j] = f[j] - 1
    BY <1>2, <2>1
  <2> HIDE DEF g
  <2>3. \A j, k \in 1 .. Len(a) : j < k => g[j] < g[k]
    <3> SUFFICES ASSUME NEW j \in 1 .. Len(a), NEW k \in 1 .. Len(a), j < k
                 PROVE  g[j] < g[k]
      OBVIOUS
    <3>1. f[j] < f[k] /\ f[j] \in Int /\ f[k] \in Int  BY <1>1, <2>1
    <3>2. f[j] - 1 < f[k] - 1  BY <3>1
    <3> QED BY <2>2, <3>2
  <2>4. \A j \in 1 .. Len(a) : s1[g[j]] = <<kind, a[j]>>
    <3> SUFFICES ASSUME NEW j \in 1 .. Len(a) PROVE s1[g[j]] = <<kind, a[j]>>  OBVIOUS
    <3>1. s1[g[j]] = s[f[j]]  BY <1>2, <2>1, <2>2
    <3> QED BY <1>1, <3>1
  <2>5. ASSUME NEW k \in 1 .. Len(s1), s1[k][1] = kind
        PROVE  \E j \in 1 .. Len(a) : g[j] = k
    <3>1. k + 1 \in 1 .. Len(s) /\ s[k + 1][1] = kind  BY <1>2, <2>5
    <3>2. PICK j \in 1 .. Len(a) : f[j] = k + 1  BY <1>1, <3>1
    <3> QED BY <2>2, <3>2
  <2>6. Carries(s1, kind, a)  BY <2>2, <2>3, <2>4, <2>5 DEF Carries
  <2> QED BY <1>4, <2>6 DEF s1
<1> QED BY <1>3, <1>4

--------------------------------------------------------------------------------
(* Types are kept                                                           *)

\* What the operations of a queue do to its fields.
LEMMA QueueOperations ==
    ASSUME NEW q \in PathQueue
    PROVE  /\ q.items \in Seq(Nat) /\ q.stopped \in BOOLEAN
           /\ Stopped(q) \in PathQueue /\ Stopped(q).items = q.items /\ Stopped(q).stopped
           /\ \A x \in Nat : /\ Push(q, x) \in PathQueue
                             /\ Push(q, x).items = Append(q.items, x)
                             /\ Push(q, x).stopped = q.stopped
           /\ q.items # <<>> =>
                  /\ Head(q.items) \in Nat /\ Pop(q) \in PathQueue
                  /\ Pop(q).items = Tail(q.items) /\ Pop(q).stopped = q.stopped
<1>1. \A x \in Nat : Append(q.items, x) \in Seq(Nat)  BY DEF PathQueue
<1>2. q.items # <<>> => Head(q.items) \in Nat /\ Tail(q.items) \in Seq(Nat)
  BY HeadTailProperties DEF PathQueue
<1> QED BY <1>1, <1>2 DEF PathQueue, Stopped, Push, Pop

\* Assignments to the capture worker's fields keep their types.
LEMMA CaptureAssignments ==
    ASSUME NEW r \in CaptureRecord
    PROVE  /\ \A n \in Nat : [r EXCEPT !.at = "push", !.item = n] \in CaptureRecord
           /\ \A n \in Nat : [r EXCEPT !.at = "read", !.item = n] \in CaptureRecord
           /\ \A n \in Nat, b \in BOOLEAN :
                  [r EXCEPT !.at = "ended", !.item = n, !.fatal = b] \in CaptureRecord
           /\ \A b \in BOOLEAN : [r EXCEPT !.stop = b] \in CaptureRecord
BY DEF CaptureRecord

\* Assignments to the encode worker's fields keep their types.
LEMMA EncodeAssignments ==
    ASSUME NEW r \in EncodeRecord
    PROVE  /\ \A s \in Seq(Nat), t \in Seq(Nat) :
                  [r EXCEPT !.at = "push", !.out = s, !.inside = t] \in EncodeRecord
           /\ \A s \in Seq(Nat), t \in Seq(Nat), b \in BOOLEAN :
                  [r EXCEPT !.at = "push", !.out = s, !.inside = t, !.tail = b] \in EncodeRecord
           /\ \A b \in BOOLEAN : [r EXCEPT !.at = "ended", !.fatal = b] \in EncodeRecord
           /\ \A s \in Seq(Nat), b \in BOOLEAN :
                  [r EXCEPT !.at = "ended", !.out = s, !.fatal = b] \in EncodeRecord
           /\ [r EXCEPT !.at = "pop"] \in EncodeRecord
           /\ \A s \in Seq(Nat) : [r EXCEPT !.out = s] \in EncodeRecord
BY DEF EncodeRecord

\* Assignments to the sink worker's fields keep their types.
LEMMA SinkAssignments ==
    ASSUME NEW r \in SinkRecord
    PROVE  /\ \A n \in Nat, b \in BOOLEAN :
                  [r EXCEPT !.at = "mp4", !.item = n, !.ok = b] \in SinkRecord
           /\ \A b \in BOOLEAN : [r EXCEPT !.at = "net_test", !.ok = b] \in SinkRecord
           /\ [r EXCEPT !.at = "net_push"] \in SinkRecord
           /\ [r EXCEPT !.at = "ended"] \in SinkRecord
           /\ \A n \in Nat, b \in BOOLEAN :
                  [r EXCEPT !.at = "ended", !.item = n, !.fatal = b] \in SinkRecord
           /\ \A n \in Nat, b \in BOOLEAN :
                  [r EXCEPT !.at = "pop", !.item = n, !.fatal = b] \in SinkRecord
BY DEF SinkRecord

\* Assignments to the packet thread's fields keep their types.
LEMMA VideoAssignments ==
    ASSUME NEW r \in VideoRecord
    PROVE  /\ \A b \in BOOLEAN : [r EXCEPT !.at = "mp4", !.ok = b] \in VideoRecord
           /\ \A b \in BOOLEAN : [r EXCEPT !.at = "net_test", !.ok = b] \in VideoRecord
           /\ [r EXCEPT !.at = "net_push"] \in VideoRecord
           /\ [r EXCEPT !.at = "ended"] \in VideoRecord
           /\ \A b \in BOOLEAN : [r EXCEPT !.at = "ended", !.failed = b] \in VideoRecord
           /\ \A m \in Nat \ {0}, n \in Nat :
                  [r EXCEPT !.at = "pop", !.unit = m, !.part = n] \in VideoRecord
           /\ \A n \in Nat : [r EXCEPT !.at = "pop", !.part = n] \in VideoRecord
BY DEF VideoRecord

\* Assignments to the MP4 muxer's fields keep their types.
LEMMA Mp4Assignments ==
    ASSUME NEW r \in Mp4Record
    PROVE  /\ \A s \in Seq(Nat) : [r EXCEPT !.audio = s] \in Mp4Record
           /\ \A b \in BOOLEAN : [r EXCEPT !.fatal = b] \in Mp4Record
           /\ \A n \in Nat : [r EXCEPT !.pending = n] \in Mp4Record
           /\ \A n \in Nat, s \in Seq(Nat) :
                  [r EXCEPT !.pending = n, !.video = s] \in Mp4Record
           /\ \A n \in Nat, b \in BOOLEAN : [r EXCEPT !.pending = n, !.fatal = b] \in Mp4Record
           /\ \A b \in BOOLEAN, c \in BOOLEAN, n \in Nat :
                  [r EXCEPT !.fatal = b, !.opened = c, !.pending = n] \in Mp4Record
           /\ \A b \in BOOLEAN, c \in BOOLEAN :
                  [r EXCEPT !.fatal = b, !.opened = c] \in Mp4Record
           /\ \A b \in BOOLEAN, c \in BOOLEAN :
                  [r EXCEPT !.finalized = b, !.opened = c] \in Mp4Record
BY DEF Mp4Record

\* Assignments to the network sink's fields keep their types.
LEMMA NetAssignments ==
    ASSUME NEW r \in NetRecord
    PROVE  /\ \A b \in BOOLEAN, c \in BOOLEAN, d \in BOOLEAN :
                  [r EXCEPT !.fatal = b, !.accepting = c, !.stopped = d] \in NetRecord
           /\ \A b \in BOOLEAN, c \in BOOLEAN :
                  [r EXCEPT !.accepting = b, !.stopped = c] \in NetRecord
           /\ \A p \in Seq(Packets), n \in Nat :
                  [r EXCEPT !.items = p, !.queued = n] \in NetRecord
           /\ \A p \in Seq(Packets) : [r EXCEPT !.items = p] \in NetRecord
           /\ \A n \in Nat : [r EXCEPT !.pending = n] \in NetRecord
           /\ \A s \in Seq(Nat) : [r EXCEPT !.audio = s] \in NetRecord
           /\ \A s \in Seq(Nat) : [r EXCEPT !.video = s] \in NetRecord
           /\ \A b \in BOOLEAN : [r EXCEPT !.finalized = b] \in NetRecord
BY DEF NetRecord

\* A thread that ends keeps its type, and the queues theirs.
LEMMA EndsTyped ==
    ASSUME QueueTypes, AudioTypes, NEW f \in BOOLEAN
    PROVE  /\ CaptureDone(f) => capture' \in CaptureRecord /\ pcmQueue' \in PathQueue
           /\ EncodeDone(f) => encode' \in EncodeRecord /\ pcmQueue' \in PathQueue
                               /\ aacQueue' \in PathQueue
           /\ SinkDone(f) => sinkWorker' \in SinkRecord /\ aacQueue' \in PathQueue
<1> USE QueueOperations DEF QueueTypes, AudioTypes
<1>1. 0 \in Nat /\ <<>> \in Seq(Nat) /\ TRUE \in BOOLEAN /\ FALSE \in BOOLEAN
  BY EmptySeq
<1>2. ASSUME CaptureDone(f) PROVE capture' \in CaptureRecord /\ pcmQueue' \in PathQueue
  <2> DEFINE b == capture.fatal \/ f
  <2>1. b \in BOOLEAN  OBVIOUS
  <2> HIDE DEF b
  <2>2. [capture EXCEPT !.at = "ended", !.item = 0, !.fatal = b] \in CaptureRecord
    BY <1>1, <2>1, CaptureAssignments
  <2> QED BY <1>2, <2>2 DEF CaptureDone, b
<1>3. ASSUME EncodeDone(f)
      PROVE  encode' \in EncodeRecord /\ pcmQueue' \in PathQueue /\ aacQueue' \in PathQueue
  <2> DEFINE b == encode.fatal \/ f
  <2>1. b \in BOOLEAN  OBVIOUS
  <2> HIDE DEF b
  <2>2. [encode EXCEPT !.at = "ended", !.out = <<>>, !.fatal = b] \in EncodeRecord
    BY <1>1, <2>1, EncodeAssignments
  <2> QED BY <1>3, <2>2 DEF EncodeDone, b
<1>4. ASSUME SinkDone(f) PROVE sinkWorker' \in SinkRecord /\ aacQueue' \in PathQueue
  <2>1. CASE f
    <3>1. [sinkWorker EXCEPT !.at = "pop", !.item = 0, !.fatal = FALSE] \in SinkRecord
      BY <1>1, SinkAssignments
    <3>2. sinkWorker' = [sinkWorker EXCEPT !.at = "pop", !.item = 0, !.fatal = FALSE]
      BY <1>4, <2>1 DEF SinkDone
    <3> QED BY <1>4, <2>1, <3>1, <3>2 DEF SinkDone
  <2>2. CASE ~f
    <3>1. [sinkWorker EXCEPT !.at = "ended", !.item = 0, !.fatal = TRUE] \in SinkRecord
      BY <1>1, SinkAssignments
    <3>2. sinkWorker' = [sinkWorker EXCEPT !.at = "ended", !.item = 0, !.fatal = TRUE]
      BY <1>4, <2>2 DEF SinkDone
    <3> QED BY <1>4, <2>2, <3>1, <3>2 DEF SinkDone
  <2> QED BY <2>1, <2>2
<1> QED BY <1>2, <1>3, <1>4

\* The types of the queues, the audio threads and the chunks they take.
LEMMA AudioTypesKept ==
    ASSUME MediaTypes, [MediaNext]_mediaVars
    PROVE  QueueTypes' /\ AudioTypes' /\ chunks' \in Nat /\ accepted' \in Seq(Nat)
<1> DEFINE Goal == QueueTypes' /\ AudioTypes' /\ chunks' \in Nat /\ accepted' \in Seq(Nat)
<1> USE DEF MediaTypes, QueueTypes, AudioTypes, RuntimeTypes
<1>0. <<>> \in Seq(Nat) /\ 0 \in Nat /\ chunks + 1 \in Nat /\ TRUE \in BOOLEAN
  BY EmptySeq
<1>1. UNCHANGED audioVars /\ UNCHANGED inputVars => Goal  BY DEF audioVars, inputVars
<1>2. CASE CaptureRead
  <2>1. \/ CaptureDone(FALSE) \/ CaptureDone(TRUE)
        \/ capture' = [capture EXCEPT !.at = "push", !.item = chunks + 1]
           /\ pcmQueue' = pcmQueue
    BY <1>2 DEF CaptureRead
  <2>2. capture' \in CaptureRecord /\ pcmQueue' \in PathQueue
    BY <1>0, <2>1, CaptureAssignments, EndsTyped
  <2> QED BY <1>0, <1>2, <2>2 DEF CaptureRead
<1>3. CASE CapturePush
  <2>1. capture.item \in Nat  BY DEF CaptureRecord
  <2>2. \/ CaptureDone(FALSE) /\ accepted' = accepted
        \/ /\ capture' = [capture EXCEPT !.at = "read", !.item = 0]
           /\ pcmQueue' = Push(pcmQueue, capture.item)
           /\ accepted' = Append(accepted, capture.item)
    BY <1>3 DEF CapturePush
  <2>3. capture' \in CaptureRecord /\ pcmQueue' \in PathQueue /\ accepted' \in Seq(Nat)
    <3>1. [capture EXCEPT !.at = "read", !.item = 0] \in CaptureRecord
      BY <1>0, CaptureAssignments
    <3>2. Append(accepted, capture.item) \in Seq(Nat) /\ Push(pcmQueue, capture.item) \in PathQueue
      BY <2>1, QueueOperations, AppendProperties
    <3>3. CaptureDone(FALSE) => capture' \in CaptureRecord /\ pcmQueue' \in PathQueue
      BY EndsTyped
    <3> QED BY <2>2, <3>1, <3>2, <3>3
  <2> QED BY <1>3, <2>3 DEF CapturePush
<1>4. CASE EncodeChunk
  <2> DEFINE inside == Append(encode.inside, Head(pcmQueue.items))
  <2>1. inside \in Seq(Nat) /\ inside # <<>> /\ pcmQueue.items # <<>>
    <3>1. encode.inside \in Seq(Nat)  BY DEF EncodeRecord
    <3>2. Head(pcmQueue.items) \in Nat /\ pcmQueue.items # <<>>
      BY <1>4, QueueOperations DEF EncodeChunk
    <3> QED BY <3>1, <3>2, AppendProperties
  <2>2. Front(inside) \in Seq(Nat) /\ <<Last(inside)>> \in Seq(Nat)
    <3>1. Front(inside) \in Seq(Nat) /\ Last(inside) \in Nat
      BY <2>1, LastMoves, EmptySeq
    <3> QED BY <3>1, AppendMoves, EmptySeq
  <2>3. \/ /\ encode' = [encode EXCEPT !.at = "push", !.out = Front(inside),
                                       !.inside = <<Last(inside)>>]
           /\ pcmQueue' = Pop(pcmQueue) /\ aacQueue' = aacQueue
        \/ /\ encode' = [encode EXCEPT !.at = "ended", !.fatal = TRUE]
           /\ pcmQueue' = Stopped(Pop(pcmQueue)) /\ aacQueue' = Stopped(aacQueue)
    BY <1>4 DEF EncodeChunk
  <2> HIDE DEF inside
  <2>4. pcmQueue' \in PathQueue /\ aacQueue' \in PathQueue
    BY <2>1, <2>3, QueueOperations
  <2>5. encode' \in EncodeRecord
    <3>1. /\ [encode EXCEPT !.at = "push", !.out = Front(inside), !.inside = <<Last(inside)>>]
                 \in EncodeRecord
          /\ [encode EXCEPT !.at = "ended", !.fatal = TRUE] \in EncodeRecord
      BY <1>0, <2>2, EncodeAssignments
    <3> QED BY <2>3, <3>1
  <2> QED BY <1>4, <2>4, <2>5 DEF EncodeChunk, inputVars
<1>5. CASE EncodeFlush
  <2>1. encode.inside \in Seq(Nat)  BY DEF EncodeRecord
  <2>2. \/ /\ encode' = [encode EXCEPT !.at = "push", !.out = encode.inside,
                                       !.inside = <<>>, !.tail = TRUE]
           /\ UNCHANGED <<pcmQueue, aacQueue>>
        \/ EncodeDone(TRUE)
    BY <1>5 DEF EncodeFlush
  <2>3. encode' \in EncodeRecord /\ pcmQueue' \in PathQueue /\ aacQueue' \in PathQueue
    <3>1. [encode EXCEPT !.at = "push", !.out = encode.inside, !.inside = <<>>, !.tail = TRUE]
              \in EncodeRecord
      BY <1>0, <2>1, EncodeAssignments
    <3>2. EncodeDone(TRUE) => /\ encode' \in EncodeRecord /\ pcmQueue' \in PathQueue
                              /\ aacQueue' \in PathQueue
      BY EndsTyped
    <3> QED BY <2>2, <3>1, <3>2
  <2> QED BY <1>5, <2>3 DEF EncodeFlush, inputVars
<1>6. CASE EncodePush
  <2>1. encode.out # <<>> => Head(encode.out) \in Nat /\ Tail(encode.out) \in Seq(Nat)
    BY HeadTailProperties DEF EncodeRecord
  <2>2. \/ EncodeDone(FALSE) \/ EncodeDone(TRUE)
        \/ encode' = [encode EXCEPT !.at = "pop"] /\ UNCHANGED <<pcmQueue, aacQueue>>
        \/ /\ encode.out # <<>> /\ encode' = [encode EXCEPT !.out = Tail(@)]
           /\ aacQueue' = Push(aacQueue, Head(encode.out)) /\ pcmQueue' = pcmQueue
    BY <1>6 DEF EncodePush
  <2>3. encode' \in EncodeRecord /\ pcmQueue' \in PathQueue /\ aacQueue' \in PathQueue
    <3>1. /\ [encode EXCEPT !.at = "pop"] \in EncodeRecord
          /\ encode.out # <<>> => [encode EXCEPT !.out = Tail(@)] \in EncodeRecord
      BY <2>1, EncodeAssignments
    <3>2. \A f \in BOOLEAN : EncodeDone(f) => /\ encode' \in EncodeRecord
                                             /\ pcmQueue' \in PathQueue /\ aacQueue' \in PathQueue
      BY EndsTyped
    <3>3. encode.out # <<>> => Push(aacQueue, Head(encode.out)) \in PathQueue
      BY <2>1, QueueOperations
    <3> QED BY <2>2, <3>1, <3>2, <3>3
  <2> QED BY <1>6, <2>3 DEF EncodePush, inputVars
<1>7. CASE SinkStep
  <2>1. CASE SinkTake \/ SinkEnds
    <3>1. sinkWorker' \in SinkRecord /\ aacQueue' \in PathQueue
      <4>1. SinkTake => /\ Head(aacQueue.items) \in Nat /\ aacQueue' \in PathQueue
                        /\ sinkWorker' = [sinkWorker EXCEPT !.at = "mp4",
                               !.item = Head(aacQueue.items), !.ok = TRUE]
        BY QueueOperations DEF SinkTake
      <4>2. /\ \A n \in Nat : [sinkWorker EXCEPT !.at = "mp4", !.item = n, !.ok = TRUE]
                                \in SinkRecord
            /\ [sinkWorker EXCEPT !.at = "ended"] \in SinkRecord
        BY <1>0, SinkAssignments
      <4>3. SinkEnds => sinkWorker' \in SinkRecord /\ aacQueue' \in PathQueue
        BY <4>2 DEF SinkEnds
      <4> QED BY <2>1, <4>1, <4>2, <4>3
    <3> QED BY <2>1, <3>1 DEF SinkTake, SinkEnds, inputVars
  <2>2. CASE SinkMp4
    <3>1. PICK r \in BOOLEAN :
              sinkWorker' = [sinkWorker EXCEPT !.at = "net_test", !.ok = r]
      BY <2>2 DEF SinkMp4
    <3>2. sinkWorker' \in SinkRecord  BY <1>0, <3>1, SinkAssignments
    <3> QED BY <2>2, <3>2 DEF SinkMp4, inputVars
  <2>3. CASE SinkNetTest \/ SinkNetPush
    <3>1. \/ sinkWorker' = [sinkWorker EXCEPT !.at = "net_push"] /\ aacQueue' = aacQueue
          \/ SinkDone(FALSE)
          \/ \E r \in BOOLEAN : SinkDone(sinkWorker.ok /\ r)
      BY <2>3 DEF SinkNetTest, SinkNetPush
    <3>2. ASSUME NEW r \in BOOLEAN, SinkDone(sinkWorker.ok /\ r)
          PROVE  sinkWorker' \in SinkRecord /\ aacQueue' \in PathQueue
      <4>1. (sinkWorker.ok /\ r) \in BOOLEAN  OBVIOUS
      <4> QED BY <3>2, <4>1, EndsTyped
    <3>3. sinkWorker' \in SinkRecord /\ aacQueue' \in PathQueue
      BY <1>0, <3>1, <3>2, SinkAssignments, EndsTyped
    <3> QED BY <2>3, <3>3 DEF SinkNetTest, SinkNetPush, inputVars
  <2> QED BY <1>7, <2>1, <2>2, <2>3 DEF SinkStep
<1>8. CASE VideoStep \/ WorkerStep \/ StopPipeline
  BY <1>1, <1>8 DEF VideoStep, VideoTake, VideoEnds, VideoMp4, VideoNetTest, VideoNetPush,
     WorkerStep, NetSend, NetDrained, NetPendingTest, NetTrailer, StopPipeline
<1>9. CASE StopCapture \/ StopEncode \/ StopSink
  <2>1. [capture EXCEPT !.stop = TRUE] \in CaptureRecord  BY <1>0, CaptureAssignments
  <2>2. Stopped(pcmQueue) \in PathQueue /\ Stopped(aacQueue) \in PathQueue
    BY QueueOperations
  <2>3. pcmQueue' \in PathQueue /\ aacQueue' \in PathQueue /\ UNCHANGED inputVars
    BY <1>9, <2>2 DEF StopCapture, StopEncode, StopSink
  <2>4. capture' \in CaptureRecord /\ UNCHANGED <<encode, sinkWorker>>
    BY <1>9, <2>1 DEF StopCapture, StopEncode, StopSink
  <2> QED BY <2>3, <2>4 DEF inputVars
<1>10. CASE Finalize \/ StopNet \/ Joined  BY <1>1, <1>10 DEF Finalize, StopNet, Joined
<1>11. CASE UNCHANGED mediaVars  BY <1>1, <1>11 DEF mediaVars
<1> QED BY <1>2, <1>3, <1>4, <1>5, <1>6, <1>7, <1>8, <1>9, <1>10, <1>11
        DEF MediaNext, CaptureStep, EncodeStep, MainStep

\* The types of the packet thread, the muxers and RunRuntime.
LEMMA OutputTypesKept ==
    ASSUME MediaTypes, [MediaNext]_mediaVars
    PROVE  VideoTypes' /\ MuxerTypes' /\ runtime' \in
               {"run", "pipeline", "capture", "encode", "sink", "finalized", "net", "done"}
<1> DEFINE stages ==
        {"run", "pipeline", "capture", "encode", "sink", "finalized", "net", "done"}
<1> USE DEF MediaTypes, VideoTypes, MuxerTypes, RuntimeTypes
<1>0. 0 \in Nat /\ TRUE \in BOOLEAN /\ FALSE \in BOOLEAN  OBVIOUS
<1>1. UNCHANGED <<video, muxVars, runtime>> => video' \in VideoRecord /\ MuxerTypes'
                                               /\ runtime' \in stages
  BY DEF muxVars
<1>2. CASE CaptureStep \/ EncodeStep
  BY <1>1, <1>2 DEF CaptureStep, CaptureRead, CapturePush, EncodeStep, EncodeChunk,
     EncodeFlush, EncodePush
<1>3. CASE SinkTake \/ SinkEnds \/ SinkNetTest
  BY <1>1, <1>3 DEF SinkTake, SinkEnds, SinkNetTest
<1>4. CASE SinkMp4
  <2>1. Append(mp4.audio, sinkWorker.item) \in Seq(Nat)
    BY AppendProperties DEF AudioTypes, SinkRecord, Mp4Record
  <2>2. \/ mp4' = mp4 \/ mp4' = [mp4 EXCEPT !.audio = Append(@, sinkWorker.item)]
        \/ mp4' = [mp4 EXCEPT !.fatal = TRUE]
    BY <1>4 DEF SinkMp4, Mp4WriteAudio
  <2>3. mp4' \in Mp4Record
    <3>1. /\ [mp4 EXCEPT !.audio = Append(@, sinkWorker.item)] \in Mp4Record
          /\ [mp4 EXCEPT !.fatal = TRUE] \in Mp4Record
      BY <1>0, <2>1, Mp4Assignments
    <3> QED BY <2>2, <3>1
  <2> QED BY <1>4, <2>3 DEF SinkMp4
<1>5. ASSUME NEW n \in NetRecord, NEW packet \in Packets, NEW result \in BOOLEAN,
             NetPush(n, packet, result) \/ net' = NetError(n)
      PROVE  net' \in NetRecord
  <2>1. Append(n.items, packet) \in Seq(Packets) /\ n.queued + 1 \in Nat
    BY AppendProperties DEF NetRecord
  <2>2. /\ [n EXCEPT !.fatal = TRUE, !.accepting = FALSE, !.stopped = TRUE] \in NetRecord
        /\ [n EXCEPT !.items = Append(@, packet), !.queued = @ + 1] \in NetRecord
    BY <1>0, <2>1, NetAssignments
  <2> QED BY <1>5, <2>2 DEF NetPush, NetError
<1>6. \A k \in {"audio", "video"} : \A n \in Nat : <<k, n>> \in Packets  BY DEF Packets
<1>7. CASE SinkNetPush
  <2>1. <<"audio", sinkWorker.item>> \in Packets  BY <1>6 DEF AudioTypes, SinkRecord
  <2>2. PICK result \in BOOLEAN : NetPush(net, <<"audio", sinkWorker.item>>, result)
    BY <1>7 DEF SinkNetPush
  <2>3. net' \in NetRecord  BY <1>5, <2>1, <2>2
  <2> QED BY <1>7, <2>3 DEF SinkNetPush
<1>8. ASSUME NEW ok, VideoDone(ok) PROVE video' \in VideoRecord
  <2>1. video.unit + 1 \in Nat \ {0} /\ video.part + 1 \in Nat /\ 1 \in Nat
    BY DEF VideoRecord
  <2>2. /\ [video EXCEPT !.at = "ended", !.failed = TRUE] \in VideoRecord
        /\ [video EXCEPT !.at = "pop", !.unit = @ + 1, !.part = 1] \in VideoRecord
        /\ [video EXCEPT !.at = "pop", !.part = @ + 1] \in VideoRecord
    BY <1>0, <2>1, VideoAssignments
  <2> QED BY <1>8, <2>2 DEF VideoDone
<1>9. CASE VideoTake \/ VideoEnds
  <2>1. /\ [video EXCEPT !.at = "mp4", !.ok = TRUE] \in VideoRecord
        /\ [video EXCEPT !.at = "mp4", !.ok = FALSE] \in VideoRecord
        /\ [video EXCEPT !.at = "ended"] \in VideoRecord
    BY <1>0, VideoAssignments
  <2> QED BY <1>9, <2>1 DEF VideoTake, VideoEnds, muxVars
<1>10. CASE VideoNetTest
  <2>1. [video EXCEPT !.at = "net_push"] \in VideoRecord  BY VideoAssignments
  <2>2. video' \in VideoRecord  BY <1>8, <1>10, <2>1 DEF VideoNetTest
  <2> QED BY <1>10, <2>2 DEF VideoNetTest, muxVars
<1>11. CASE VideoMp4
  <2>1. PICK result \in BOOLEAN :
            /\ Mp4Write(video.unit, LastPart, result)
            /\ video' = [video EXCEPT !.at = "net_test", !.ok = @ /\ result]
    BY <1>11 DEF VideoMp4
  <2>2. video' \in VideoRecord
    <3> DEFINE b == video.ok /\ result
    <3>1. b \in BOOLEAN  OBVIOUS
    <3> HIDE DEF b
    <3>2. [video EXCEPT !.at = "net_test", !.ok = b] \in VideoRecord
      BY <3>1, VideoAssignments
    <3> QED BY <2>1, <3>2 DEF b
  <2>3. video.unit \in Nat /\ Append(mp4.video, video.unit) \in Seq(Nat)
    BY AppendProperties DEF VideoRecord, Mp4Record
  <2>4. /\ [mp4 EXCEPT !.pending = video.unit] \in Mp4Record
        /\ [mp4 EXCEPT !.pending = 0, !.video = Append(@, video.unit)] \in Mp4Record
        /\ [mp4 EXCEPT !.pending = video.unit, !.fatal = TRUE] \in Mp4Record
    BY <1>0, <2>3, Mp4Assignments
  <2>5. mp4' \in Mp4Record  BY <2>1, <2>4 DEF Mp4Write
  <2> QED BY <1>11, <2>2, <2>5 DEF VideoMp4
<1>12. CASE VideoNetPush
  <2>1. PICK result \in BOOLEAN :
            NetWrite(video.unit, LastPart, result) /\ VideoDone(video.ok /\ result)
    BY <1>12 DEF VideoNetPush
  <2>2. video' \in VideoRecord  BY <1>8, <2>1
  <2>3. video.unit \in Nat /\ <<"video", video.unit>> \in Packets
    BY <1>6 DEF VideoRecord
  <2>4. [net EXCEPT !.pending = 0] \in NetRecord /\ [net EXCEPT !.pending = video.unit] \in NetRecord
    BY <1>0, <2>3, NetAssignments
  <2>5. net' \in NetRecord  BY <1>5, <2>1, <2>3, <2>4 DEF NetWrite
  <2> QED BY <1>12, <2>2, <2>5 DEF VideoNetPush
<1>13. CASE NetSend
  <2>1. Head(net.items) \in Packets /\ Tail(net.items) \in Seq(Packets)
    BY <1>13, HeadTailProperties DEF NetSend, NetRecord
  <2>2. PICK kind \in {"audio", "video"}, n \in Nat : Head(net.items) = <<kind, n>>
    BY <2>1 DEF Packets
  <2> DEFINE rest == [net EXCEPT !.items = Tail(@)]
  <2>3. rest \in NetRecord  BY <2>1, NetAssignments
  <2>4. \/ net' = [rest EXCEPT ![kind] = Append(@, n)] /\ netWorker' = netWorker
        \/ net' = NetError(rest) /\ netWorker' = "finish"
    <3> DEFINE packet == Head(net.items)
    <3>1. packet[1] = kind /\ packet[2] = n  BY <2>2
    <3>2. \/ /\ net' = [rest EXCEPT ![packet[1]] = Append(@, packet[2])]
             /\ netWorker' = netWorker
          \/ net' = NetError(rest) /\ netWorker' = "finish"
      BY <1>13 DEF NetSend
    <3> HIDE DEF packet, rest
    <3> QED BY <3>1, <3>2
  <2> HIDE DEF rest
  <2>5. Append(rest.audio, n) \in Seq(Nat) /\ Append(rest.video, n) \in Seq(Nat)
    BY <2>3, AppendProperties DEF NetRecord
  <2>6. /\ [rest EXCEPT !.audio = Append(@, n)] \in NetRecord
        /\ [rest EXCEPT !.video = Append(@, n)] \in NetRecord
    BY <2>3, <2>5, NetAssignments
  <2>7. net' \in NetRecord  BY <1>5, <1>6, <2>3, <2>4, <2>6
  <2> QED BY <1>13, <2>4, <2>7 DEF NetSend
<1>14. CASE NetDrained \/ NetPendingTest \/ NetTrailer
  <2>1. [net EXCEPT !.finalized = TRUE] \in NetRecord  BY <1>0, NetAssignments
  <2>2. net' = net \/ net' = NetError(net) \/ net' = [net EXCEPT !.finalized = TRUE]
    BY <1>14 DEF NetDrained, NetPendingTest, NetTrailer
  <2>3. net' \in NetRecord  BY <1>5, <1>6, <2>1, <2>2
  <2> QED BY <1>14, <2>3 DEF NetDrained, NetPendingTest, NetTrailer
<1>15. CASE StopPipeline \/ StopCapture \/ StopEncode \/ StopSink \/ Joined
  BY <1>15 DEF StopPipeline, StopCapture, StopEncode, StopSink, Joined, muxVars
<1>16. CASE Finalize
  <2>1. /\ [mp4 EXCEPT !.fatal = TRUE, !.opened = FALSE, !.pending = 0] \in Mp4Record
        /\ [mp4 EXCEPT !.finalized = TRUE, !.opened = FALSE] \in Mp4Record
        /\ [mp4 EXCEPT !.fatal = TRUE, !.opened = FALSE] \in Mp4Record
    BY <1>0, Mp4Assignments
  <2> QED BY <1>16, <2>1 DEF Finalize, Mp4Finalize
<1>17. CASE StopNet
  <2>1. [net EXCEPT !.accepting = FALSE, !.stopped = TRUE] \in NetRecord
    BY <1>0, NetAssignments
  <2> QED BY <1>17, <2>1 DEF StopNet
<1>18. CASE UNCHANGED mediaVars  BY <1>1, <1>18 DEF mediaVars
<1> QED BY <1>2, <1>3, <1>4, <1>7, <1>9, <1>10, <1>11, <1>12, <1>13, <1>14, <1>15, <1>16,
           <1>17, <1>18 DEF MediaNext, SinkStep, VideoStep, WorkerStep, MainStep

\* Types are kept by every step.
LEMMA TypesStep == ASSUME MediaTypes, [MediaNext]_mediaVars PROVE MediaTypes'
BY AudioTypesKept, OutputTypesKept DEF MediaTypes, RuntimeTypes

--------------------------------------------------------------------------------
(* The order of the shutdown                                                *)

\* Nobody comes back once it has ended, and the stages are passed one by one, each
\* after the thread it waits for.
LEMMA StopsInOrderKept == ASSUME MediaTypes, StopsInOrder, [MediaNext]_mediaVars
                          PROVE  StopsInOrder'
<1> USE DEF StopsInOrder, MediaTypes, AudioTypes, VideoTypes, MuxerTypes, CaptureRecord,
            EncodeRecord, SinkRecord, VideoRecord
<1>1. CASE CaptureStep
  <2>1. capture.at # "ended" /\ UNCHANGED <<encode, sinkWorker, video, netWorker, runtime>>
    BY <1>1 DEF CaptureStep, CaptureRead, CapturePush, muxVars
  <2> QED BY <2>1
<1>2. CASE EncodeStep
  <2>1. encode.at # "ended" /\ UNCHANGED <<capture, sinkWorker, video, netWorker, runtime>>
    BY <1>2 DEF EncodeStep, EncodeChunk, EncodeFlush, EncodePush, muxVars
  <2> QED BY <2>1
<1>3. CASE SinkStep
  <2>1. sinkWorker.at # "ended" /\ UNCHANGED <<capture, encode, video, netWorker, runtime>>
    BY <1>3 DEF SinkStep, SinkTake, SinkEnds, SinkMp4, SinkNetTest, SinkNetPush, muxVars
  <2> QED BY <2>1
<1>4. CASE VideoStep
  <2>1. video.at # "ended" /\ UNCHANGED <<capture, encode, sinkWorker, netWorker, runtime>>
    BY <1>4 DEF VideoStep, VideoTake, VideoEnds, VideoMp4, VideoNetTest, VideoNetPush,
       audioVars, muxVars
  <2> QED BY <2>1
<1>5. CASE WorkerStep
  <2>1. netWorker # "ended" /\ UNCHANGED <<capture, encode, sinkWorker, video, runtime>>
    BY <1>5 DEF WorkerStep, NetSend, NetDrained, NetPendingTest, NetTrailer, audioVars
  <2> QED BY <2>1
<1>6. CASE StopPipeline \/ MainStep
  <2>1. /\ video'.at = video.at /\ capture'.at = capture.at /\ encode'.at = encode.at
        /\ sinkWorker'.at = sinkWorker.at /\ netWorker' = netWorker
    BY <1>6 DEF StopPipeline, MainStep, StopCapture, StopEncode, StopSink, Finalize, StopNet,
       Joined, audioVars, muxVars
  <2>2. \/ runtime = "run" /\ runtime' = "pipeline"
        \/ runtime = "pipeline" /\ video.at = "ended" /\ runtime' = "capture"
        \/ runtime = "capture" /\ capture.at = "ended" /\ runtime' = "encode"
        \/ runtime = "encode" /\ encode.at = "ended" /\ runtime' = "sink"
        \/ runtime = "sink" /\ sinkWorker.at = "ended" /\ runtime' = "finalized"
        \/ runtime = "finalized" /\ runtime' = "net"
        \/ runtime = "net" /\ netWorker = "ended" /\ runtime' = "done"
    BY <1>6 DEF StopPipeline, MainStep, StopCapture, StopEncode, StopSink, Finalize, StopNet,
       Joined
  <2> QED BY <2>1, <2>2
<1>7. CASE UNCHANGED mediaVars  BY <1>7 DEF mediaVars, audioVars, muxVars
<1> QED BY <1>1, <1>2, <1>3, <1>4, <1>5, <1>6, <1>7 DEF MediaNext

\* The threads of the audio chain leave nothing behind them unless they fail.
LEMMA EndsDrainedKept == ASSUME MediaTypes, EndsDrained, [MediaNext]_mediaVars
                         PROVE  EndsDrained'
<1> USE DEF MediaTypes, AudioTypes, QueueTypes
<1>0. /\ pcmQueue.items \in Seq(Nat) /\ aacQueue.items \in Seq(Nat)
      /\ Stopped(pcmQueue).items = pcmQueue.items /\ Stopped(pcmQueue).stopped
      /\ Stopped(aacQueue).items = aacQueue.items /\ Stopped(aacQueue).stopped
  BY QueueOperations
<1> DEFINE Drained(e, s, p, q) ==
        /\ e.at = "pop" => e.out = <<>> /\ ~e.tail
        /\ e.tail => e.inside = <<>> /\ p.items = <<>> /\ p.stopped
        /\ e.at = "ended" => e.fatal \/ (e.tail /\ e.out = <<>>)
        /\ s.at = "ended" => s.fatal \/ (q.items = <<>> /\ q.stopped)
        /\ s.fatal => s.at = "ended"
<1>1. /\ Drained(encode, sinkWorker, pcmQueue, aacQueue)
      /\ Drained(encode', sinkWorker', pcmQueue', aacQueue') => EndsDrained'
  BY DEF EndsDrained
<1>2. CASE CaptureStep
  <2>1. /\ UNCHANGED <<aacQueue, encode, sinkWorker>>
        /\ \/ pcmQueue' = pcmQueue \/ pcmQueue' = Stopped(pcmQueue)
           \/ ~pcmQueue.stopped
    BY <1>2 DEF CaptureStep, CaptureRead, CapturePush, CaptureDone
  <2> QED BY <1>0, <1>1, <2>1
<1>3. CASE EncodeChunk
  <2>1. ~encode.tail /\ encode.out = <<>>  BY <1>1, <1>3 DEF EncodeChunk
  <2>2. /\ encode'.tail = encode.tail /\ encode'.at \in {"push", "ended"}
        /\ encode'.at = "ended" => encode'.fatal
        /\ sinkWorker' = sinkWorker
        /\ aacQueue' = aacQueue \/ aacQueue' = Stopped(aacQueue)
    BY <1>3 DEF EncodeChunk, EncodeRecord
  <2> QED BY <1>0, <1>1, <2>1, <2>2
<1>4. CASE EncodeFlush
  <2>1. pcmQueue.items = <<>> /\ pcmQueue.stopped /\ ~encode.tail
    BY <1>1, <1>4 DEF EncodeFlush
  <2>2. \/ /\ encode'.at = "push" /\ encode'.inside = <<>> /\ pcmQueue' = pcmQueue
           /\ aacQueue' = aacQueue
        \/ /\ encode'.at = "ended" /\ encode'.fatal /\ encode'.tail = encode.tail
           /\ aacQueue' = Stopped(aacQueue)
    BY <1>4 DEF EncodeFlush, EncodeDone, EncodeRecord
  <2>3. sinkWorker' = sinkWorker  BY <1>4 DEF EncodeFlush
  <2> QED BY <1>0, <1>1, <2>1, <2>2, <2>3
<1>5. CASE EncodePush
  <2>1. /\ encode'.tail = encode.tail /\ encode'.inside = encode.inside
        /\ sinkWorker' = sinkWorker
        /\ pcmQueue' = pcmQueue \/ pcmQueue' = Stopped(pcmQueue)
        /\ \/ aacQueue' = aacQueue \/ aacQueue' = Stopped(aacQueue)
           \/ ~aacQueue.stopped
        /\ \/ encode'.at = "pop" /\ encode'.out = <<>> /\ ~encode.tail
           \/ encode'.at = "push"
           \/ encode'.at = "ended" /\ encode'.fatal
           \/ encode'.at = "ended" /\ encode'.out = <<>> /\ encode.tail
    BY <1>5 DEF EncodePush, EncodeDone, EncodeRecord
  <2> QED BY <1>0, <1>1, <2>1
<1>6. CASE SinkStep
  <2>1. encode' = encode /\ pcmQueue' = pcmQueue
    BY <1>6 DEF SinkStep, SinkTake, SinkEnds, SinkMp4, SinkNetTest, SinkNetPush
  <2>2. sinkWorker.at # "ended"
    BY <1>6 DEF SinkStep, SinkTake, SinkEnds, SinkMp4, SinkNetTest, SinkNetPush
  <2>3. /\ sinkWorker'.at = "ended" =>
               sinkWorker'.fatal \/ (aacQueue'.items = <<>> /\ aacQueue'.stopped)
        /\ sinkWorker'.fatal => sinkWorker'.at = "ended" \/ sinkWorker.fatal
    BY <1>6 DEF SinkStep, SinkTake, SinkEnds, SinkMp4, SinkNetTest, SinkNetPush, SinkDone,
       SinkRecord
  <2> QED BY <1>1, <2>1, <2>2, <2>3
<1>7. CASE VideoStep \/ WorkerStep \/ StopPipeline \/ Finalize \/ StopNet \/ Joined
  <2>1. UNCHANGED audioVars
    BY <1>7 DEF VideoStep, VideoTake, VideoEnds, VideoMp4, VideoNetTest, VideoNetPush,
       WorkerStep, NetSend, NetDrained, NetPendingTest, NetTrailer, StopPipeline, Finalize,
       StopNet, Joined
  <2> QED BY <1>1, <2>1 DEF audioVars
<1>8. CASE StopCapture \/ StopEncode \/ StopSink
  <2>1. /\ UNCHANGED <<encode, sinkWorker>>
        /\ pcmQueue' = pcmQueue \/ pcmQueue' = Stopped(pcmQueue)
        /\ aacQueue' = aacQueue \/ aacQueue' = Stopped(aacQueue)
    BY <1>8 DEF StopCapture, StopEncode, StopSink
  <2> QED BY <1>0, <1>1, <2>1
<1>9. CASE UNCHANGED mediaVars  BY <1>1, <1>9 DEF mediaVars, audioVars
<1> QED BY <1>2, <1>3, <1>4, <1>5, <1>6, <1>7, <1>8, <1>9
        DEF MediaNext, CaptureStep, EncodeStep, MainStep

\* What a push into the network's queue and an error of it do.
LEMMA NetOperations ==
    ASSUME NEW n \in NetRecord
    PROVE  /\ \A packet \in Packets, result \in BOOLEAN : NetPush(n, packet, result) =>
                  \/ net' = NetError(n) /\ ~result
                  \/ /\ ~n.stopped /\ result /\ net' \in NetRecord
                     /\ net'.items = Append(n.items, packet) /\ net'.queued = n.queued + 1
                     /\ net'.stopped = n.stopped /\ net'.fatal = n.fatal
                     /\ net'.finalized = n.finalized
                     /\ net'.audio = n.audio /\ net'.video = n.video
           /\ NetError(n).fatal /\ NetError(n).stopped
           /\ NetError(n).finalized = n.finalized
<1>1. NetError(n).fatal /\ NetError(n).stopped /\ NetError(n).finalized = n.finalized
  BY DEF NetRecord, NetError
<1>2. ASSUME NEW packet \in Packets, NEW result \in BOOLEAN, NetPush(n, packet, result),
             ~(net' = NetError(n) /\ ~result)
      PROVE  /\ ~n.stopped /\ result /\ net' \in NetRecord
             /\ net'.items = Append(n.items, packet) /\ net'.queued = n.queued + 1
             /\ net'.stopped = n.stopped /\ net'.fatal = n.fatal
             /\ net'.finalized = n.finalized
             /\ net'.audio = n.audio /\ net'.video = n.video
  <2>1. /\ ~n.stopped /\ result
        /\ net' = [n EXCEPT !.items = Append(@, packet), !.queued = @ + 1]
    BY <1>2 DEF NetPush
  <2>2. Append(n.items, packet) \in Seq(Packets) /\ n.queued + 1 \in Nat
    BY AppendProperties DEF NetRecord
  <2>3. net' \in NetRecord
    <3>1. [n EXCEPT !.items = Append(@, packet), !.queued = @ + 1] \in NetRecord
      BY <2>2, NetAssignments
    <3> QED BY <2>1, <3>1
  <2> QED BY <2>1, <2>3 DEF NetRecord
<1> QED BY <1>1, <1>2

\* A packet that a producer hands to the network sink.
LEMMA NetTakes ==
    ASSUME MediaTypes, SinkNetPush \/ VideoNetPush
    PROVE  \/ net'.fatal /\ net'.stopped
           \/ /\ net'.fatal = net.fatal /\ net'.stopped = net.stopped
              /\ net'.audio = net.audio /\ net'.video = net.video
              /\ net'.finalized = net.finalized
              /\ \/ net'.items = net.items /\ net'.queued = net.queued
                 \/ /\ ~net.stopped /\ net'.queued = net.queued + 1
                    /\ \E packet \in Packets : net'.items = Append(net.items, packet)
<1> USE DEF MediaTypes, AudioTypes, VideoTypes, MuxerTypes
<1>1. \A n \in Nat : <<"audio", n>> \in Packets /\ <<"video", n>> \in Packets
  BY DEF Packets
<1>2. sinkWorker.item \in Nat /\ video.unit \in Nat  BY DEF SinkRecord, VideoRecord
<1>3. CASE SinkNetPush
  <2> DEFINE packet == <<"audio", sinkWorker.item>>
  <2>1. packet \in Packets /\ net \in NetRecord  BY <1>1, <1>2
  <2>2. PICK result \in BOOLEAN : NetPush(net, packet, result)  BY <1>3 DEF SinkNetPush
  <2> HIDE DEF packet
  <2> QED BY <2>1, <2>2, NetOperations
<1>4. CASE VideoNetPush
  <2>1. PICK result \in BOOLEAN : NetWrite(video.unit, LastPart, result)
    BY <1>4 DEF VideoNetPush
  <2> DEFINE clear == [net EXCEPT !.pending = 0]
  <2>2. CASE LastPart
    <3>1. /\ clear \in NetRecord /\ clear.items = net.items /\ clear.queued = net.queued
          /\ clear.stopped = net.stopped /\ clear.fatal = net.fatal
          /\ clear.finalized = net.finalized
          /\ clear.audio = net.audio /\ clear.video = net.video
      <4>1. clear \in NetRecord  BY NetAssignments
      <4> QED BY <4>1 DEF NetRecord
    <3> DEFINE packet == <<"video", video.unit>>
    <3>2. packet \in Packets /\ NetPush(clear, packet, result)
      BY <1>1, <1>2, <2>1, <2>2 DEF NetWrite
    <3> HIDE DEF clear, packet
    <3> QED BY <3>1, <3>2, NetOperations
  <2>3. CASE ~LastPart  BY <2>1, <2>3 DEF NetWrite, NetRecord
  <2> QED BY <2>2, <2>3
<1> QED BY <1>3, <1>4

\* The muxers are finalized in their turn and the network stream only when stopped.
LEMMA MuxersFollowKept ==
    ASSUME MediaTypes, StopsInOrder, MuxersFollow, [MediaNext]_mediaVars
    PROVE  MuxersFollow'
<1> USE DEF MediaTypes, MuxerTypes
<1> DEFINE Follow(m, n, w, r) ==
        /\ r \notin {"finalized", "net", "done"} => m.opened /\ ~m.finalized
        /\ r \in {"finalized", "net", "done"} => m.finalized \/ m.fatal
        /\ n.stopped => n.fatal \/ r \in {"net", "done"}
        /\ w # "pop" => n.stopped /\ (n.fatal \/ n.items = <<>>)
        /\ w = "ended" => n.finalized \/ n.fatal
<1>1. /\ Follow(mp4, net, netWorker, runtime)
      /\ Follow(mp4', net', netWorker', runtime') => MuxersFollow'
  BY DEF MuxersFollow
<1>2. CASE CaptureStep \/ EncodeStep \/ SinkTake \/ SinkEnds \/ SinkNetTest \/ VideoTake
           \/ VideoEnds \/ VideoNetTest
  <2>1. UNCHANGED <<mp4, net, netWorker, runtime>>
    BY <1>2 DEF CaptureStep, CaptureRead, CapturePush, EncodeStep, EncodeChunk, EncodeFlush,
       EncodePush, SinkTake, SinkEnds, SinkNetTest, VideoTake, VideoEnds, VideoNetTest, muxVars
  <2> QED BY <1>1, <2>1
<1>3. CASE SinkMp4 \/ VideoMp4
  <2>1. UNCHANGED <<net, netWorker, runtime>>  BY <1>3 DEF SinkMp4, VideoMp4
  <2>2. runtime \notin {"finalized", "net", "done"}
    BY <1>3 DEF SinkMp4, VideoMp4, StopsInOrder
  <2>3. mp4'.opened = mp4.opened /\ mp4'.finalized = mp4.finalized
    BY <1>3 DEF SinkMp4, VideoMp4, Mp4WriteAudio, Mp4Write, Mp4Record
  <2> QED BY <1>1, <2>1, <2>2, <2>3
<1>4. CASE SinkNetPush \/ VideoNetPush
  <2>1. UNCHANGED <<mp4, netWorker, runtime>>  BY <1>4 DEF SinkNetPush, VideoNetPush
  <2> QED BY <1>1, <1>4, <2>1, NetTakes
<1>5. CASE NetSend
  <2>1. UNCHANGED <<mp4, runtime>> /\ netWorker = "pop"  BY <1>5 DEF NetSend
  <2> DEFINE rest == [net EXCEPT !.items = Tail(@)]
  <2>2. \/ /\ net' = [rest EXCEPT ![Head(net.items)[1]] = Append(@, Head(net.items)[2])]
           /\ netWorker' = "pop"
        \/ net' = NetError(rest) /\ netWorker' = "finish"
    BY <1>5 DEF NetSend
  <2>3. /\ rest.stopped = net.stopped /\ rest.fatal = net.fatal /\ rest \in NetRecord
    <3>1. Tail(net.items) \in Seq(Packets)
      BY <1>5, HeadTailProperties DEF NetSend, NetRecord
    <3>2. rest \in NetRecord  BY <3>1, NetAssignments
    <3> QED BY <3>2 DEF NetRecord
  <2>4. Head(net.items)[1] \in {"audio", "video"}
    <3>1. Head(net.items) \in Packets
      BY <1>5, HeadTailProperties DEF NetSend, NetRecord
    <3> QED BY <3>1 DEF Packets
  <2> HIDE DEF rest
  <2>5. netWorker' = "pop" => net'.stopped = net.stopped /\ net'.fatal = net.fatal
    BY <2>2, <2>3, <2>4 DEF NetRecord
  <2>6. netWorker' = "finish" => net'.stopped /\ net'.fatal
    BY <2>2, <2>3, NetOperations
  <2> QED BY <1>1, <2>1, <2>2, <2>5, <2>6
<1>6. CASE NetDrained \/ NetPendingTest \/ NetTrailer
  <2>1. UNCHANGED <<mp4, runtime>>  BY <1>6 DEF NetDrained, NetPendingTest, NetTrailer
  <2>2. \/ /\ netWorker = "pop" /\ net.items = <<>> /\ net.stopped /\ net' = net
           /\ netWorker' = "finish"
        \/ /\ netWorker = "finish" /\ netWorker' = "trailer"
           /\ net' = net \/ net' = NetError(net)
        \/ /\ netWorker = "trailer" /\ netWorker' = "ended"
           /\ \/ net.fatal /\ net' = net
              \/ net' = [net EXCEPT !.finalized = TRUE]
              \/ net' = NetError(net)
    BY <1>6 DEF NetDrained, NetPendingTest, NetTrailer
  <2>3. net' = [net EXCEPT !.finalized = TRUE] =>
            /\ net'.finalized /\ net'.stopped = net.stopped /\ net'.fatal = net.fatal
            /\ net'.items = net.items
    BY DEF NetRecord
  <2> QED BY <1>1, <2>1, <2>2, <2>3, NetOperations
<1>7. CASE StopPipeline \/ StopCapture \/ StopEncode \/ StopSink \/ Joined
  <2>1. UNCHANGED <<mp4, net, netWorker>>
    BY <1>7 DEF StopPipeline, StopCapture, StopEncode, StopSink, Joined, muxVars
  <2>2. \/ runtime \notin {"finalized", "net", "done"}
           /\ runtime' \in {"pipeline", "capture", "encode", "sink"}
        \/ runtime = "net" /\ runtime' = "done"
    BY <1>7 DEF StopPipeline, StopCapture, StopEncode, StopSink, Joined
  <2> QED BY <1>1, <2>1, <2>2
<1>8. CASE Finalize
  <2>1. UNCHANGED <<net, netWorker>> /\ runtime = "sink" /\ runtime' = "finalized"
    BY <1>8 DEF Finalize
  <2>2. mp4'.finalized \/ mp4'.fatal  BY <1>8 DEF Finalize, Mp4Finalize, Mp4Record
  <2> QED BY <1>1, <2>1, <2>2
<1>9. CASE StopNet
  <2>1. UNCHANGED <<mp4, netWorker>> /\ runtime = "finalized" /\ runtime' = "net"
    BY <1>9 DEF StopNet
  <2>2. /\ net'.stopped /\ net'.fatal = net.fatal /\ net'.items = net.items
        /\ net'.finalized = net.finalized
    BY <1>9 DEF StopNet, NetRecord
  <2> QED BY <1>1, <2>1, <2>2
<1>10. CASE UNCHANGED mediaVars  BY <1>1, <1>10 DEF mediaVars, muxVars
<1> QED BY <1>2, <1>3, <1>4, <1>5, <1>6, <1>7, <1>8, <1>9, <1>10
        DEF MediaNext, SinkStep, VideoStep, WorkerStep, MainStep

--------------------------------------------------------------------------------
(* The audio on its way                                                     *)

\* The four places behind the sink worker, and all that lies there.
LEMMA BehindTyped ==
    ASSUME MediaTypes
    PROVE  /\ aacQueue.items \in Seq(Nat) /\ encode.out \in Seq(Nat)
           /\ encode.inside \in Seq(Nat) /\ pcmQueue.items \in Seq(Nat)
           /\ encode.inside \o pcmQueue.items \in Seq(Nat)
           /\ encode.out \o (encode.inside \o pcmQueue.items) \in Seq(Nat)
           /\ Behind \in Seq(Nat)
BY ConcatProperties DEF MediaTypes, QueueTypes, AudioTypes, PathQueue, EncodeRecord, Behind

\* A chunk that is captured comes in last, unless the queue is stopped.
LEMMA ChunkComesIn ==
    ASSUME MediaTypes, CapturePush
    PROVE  \/ accepted' = accepted /\ Behind' = Behind
           \/ \E x \in Nat : accepted' = Append(accepted, x) /\ Behind' = Append(Behind, x)
<1> USE DEF MediaTypes, QueueTypes, AudioTypes
<1>1. CASE pcmQueue.stopped
  <2>1. pcmQueue'.items = pcmQueue.items
    BY <1>1, QueueOperations DEF CapturePush, CaptureDone
  <2> QED BY <1>1, <2>1 DEF CapturePush, Behind
<1>2. CASE ~pcmQueue.stopped
  <2> DEFINE q == aacQueue.items
             out == encode.out
             codec == encode.inside
             p == pcmQueue.items
             x == capture.item
  <2>1. x \in Nat  BY DEF CaptureRecord
  <2>2. /\ pcmQueue'.items = Append(p, x) /\ accepted' = Append(accepted, x)
        /\ aacQueue' = aacQueue /\ encode' = encode
    BY <1>2, <2>1, QueueOperations DEF CapturePush
  <2>3. /\ q \in Seq(Nat) /\ out \in Seq(Nat) /\ codec \in Seq(Nat) /\ p \in Seq(Nat)
        /\ codec \o p \in Seq(Nat) /\ out \o (codec \o p) \in Seq(Nat)
    BY BehindTyped
  <2>4. Behind = q \o (out \o (codec \o p)) /\ Behind' = q \o (out \o (codec \o Append(p, x)))
    BY <2>2 DEF Behind
  <2> HIDE DEF q, out, codec, p, x
  <2>5. codec \o Append(p, x) = Append(codec \o p, x)  BY <2>1, <2>3, AppendMoves
  <2>6. out \o Append(codec \o p, x) = Append(out \o (codec \o p), x)
    BY <2>1, <2>3, AppendMoves
  <2>7. q \o Append(out \o (codec \o p), x) = Append(q \o (out \o (codec \o p)), x)
    BY <2>1, <2>3, AppendMoves
  <2> QED BY <2>1, <2>2, <2>4, <2>5, <2>6, <2>7
<1> QED BY <1>1, <1>2

\* The sink worker takes what came in first.
LEMMA PacketTaken ==
    ASSUME MediaTypes, SinkTake
    PROVE  /\ Head(aacQueue.items) \in Nat /\ Behind' \in Seq(Nat) /\ accepted' = accepted
           /\ Behind = <<Head(aacQueue.items)>> \o Behind'
<1> DEFINE q == aacQueue.items
           rest == encode.out \o (encode.inside \o pcmQueue.items)
<1>1. /\ q \in Seq(Nat) /\ q # <<>> /\ rest \in Seq(Nat)  BY BehindTyped DEF SinkTake
<1>2. aacQueue'.items = Tail(q) /\ encode' = encode /\ pcmQueue' = pcmQueue
      /\ accepted' = accepted
  BY QueueOperations DEF MediaTypes, QueueTypes, SinkTake, inputVars
<1>3. Behind = q \o rest /\ Behind' = Tail(q) \o rest  BY <1>2 DEF Behind
<1> HIDE DEF q, rest
<1>4. Head(q) \in Nat /\ Tail(q) \in Seq(Nat) /\ q \o rest = <<Head(q)>> \o (Tail(q) \o rest)
  BY <1>1, HeadMoves
<1>5. Tail(q) \o rest \in Seq(Nat)  BY <1>1, <1>4, ConcatProperties
<1> QED BY <1>2, <1>3, <1>4, <1>5 DEF q

\* The encoder hands on what it has, in order, as long as it does not fail.
LEMMA EncoderPassesOn ==
    ASSUME MediaTypes, EndsDrained, EncodeStep, ~encode'.fatal
    PROVE  accepted' = accepted /\ Behind' = Behind
<1> DEFINE q == aacQueue.items
           out == encode.out
           codec == encode.inside
           p == pcmQueue.items
<1>1. /\ q \in Seq(Nat) /\ out \in Seq(Nat) /\ codec \in Seq(Nat) /\ p \in Seq(Nat)
      /\ codec \o p \in Seq(Nat) /\ Behind = q \o (out \o (codec \o p))
  BY BehindTyped DEF Behind
<1>2. pcmQueue \in PathQueue /\ aacQueue \in PathQueue /\ encode \in EncodeRecord
  BY DEF MediaTypes, QueueTypes, AudioTypes
<1>3. accepted' = accepted
  BY DEF EncodeStep, EncodeChunk, EncodeFlush, EncodePush, inputVars
<1>4. CASE EncodeChunk
  <2> DEFINE inside == Append(codec, Head(p))
  <2>1. p # <<>> /\ out = <<>>  BY <1>4 DEF EncodeChunk, EndsDrained
  <2>2. /\ encode' = [encode EXCEPT !.at = "push", !.out = Front(inside),
                                    !.inside = <<Last(inside)>>]
        /\ pcmQueue' = Pop(pcmQueue) /\ aacQueue' = aacQueue
    <3>1. \/ /\ encode' = [encode EXCEPT !.at = "push", !.out = Front(inside),
                                         !.inside = <<Last(inside)>>]
             /\ pcmQueue' = Pop(pcmQueue) /\ aacQueue' = aacQueue
          \/ encode' = [encode EXCEPT !.at = "ended", !.fatal = TRUE]
      BY <1>4 DEF EncodeChunk
    <3> QED BY <1>2, <3>1 DEF EncodeRecord
  <2>3. /\ aacQueue'.items = q /\ pcmQueue'.items = Tail(p)
        /\ encode'.out = Front(inside) /\ encode'.inside = <<Last(inside)>>
    BY <1>2, <2>1, <2>2, QueueOperations DEF EncodeRecord
  <2>4. Head(p) \in Nat /\ Tail(p) \in Seq(Nat) /\ p = <<Head(p)>> \o Tail(p)
    BY <1>1, <2>1, HeadMoves
  <2>5. Behind' = q \o (Front(inside) \o (<<Last(inside)>> \o Tail(p)))
    BY <2>3 DEF Behind
  <2> HIDE DEF q, out, codec, p
  <2>6. inside \in Seq(Nat) /\ inside # <<>>  BY <1>1, <2>4, AppendProperties
  <2>7. inside \o Tail(p) = codec \o p
    <3> DEFINE x == Head(p)
               rest == Tail(p)
    <3>1. codec \in Seq(Nat) /\ x \in Nat /\ rest \in Seq(Nat)  BY <1>1, <2>4
    <3>2. p = <<x>> \o rest  BY <2>4
    <3> HIDE DEF x, rest
    <3>3. Append(codec, x) \o rest = codec \o (<<x>> \o rest)  BY <3>1, AppendMoves
    <3>4. Append(codec, x) \o rest = codec \o p  BY <3>2, <3>3
    <3> QED BY <3>4 DEF x, rest
  <2> HIDE DEF inside
  <2>8. inside \o Tail(p) = Front(inside) \o (<<Last(inside)>> \o Tail(p))
    BY <2>4, <2>6, LastMoves
  <2>9. <<>> \o (codec \o p) = codec \o p  BY <1>1, ConcatEmptySeq
  <2> QED BY <1>1, <1>3, <2>1, <2>5, <2>7, <2>8, <2>9
<1>5. CASE EncodeFlush
  <2>1. out = <<>>  BY <1>5 DEF EncodeFlush, EndsDrained
  <2>2. /\ encode' = [encode EXCEPT !.at = "push", !.out = encode.inside, !.inside = <<>>,
                                    !.tail = TRUE]
        /\ pcmQueue' = pcmQueue /\ aacQueue' = aacQueue
    <3>1. \/ /\ encode' = [encode EXCEPT !.at = "push", !.out = encode.inside,
                                         !.inside = <<>>, !.tail = TRUE]
             /\ pcmQueue' = pcmQueue /\ aacQueue' = aacQueue
          \/ EncodeDone(TRUE)
      BY <1>5 DEF EncodeFlush
    <3> QED BY <1>2, <3>1 DEF EncodeRecord, EncodeDone
  <2>3. Behind' = q \o (codec \o (<<>> \o p))  BY <1>2, <2>2 DEF EncodeRecord, Behind
  <2>4. <<>> \o p = p /\ <<>> \o (codec \o p) = codec \o p  BY <1>1, ConcatEmptySeq
  <2> QED BY <1>1, <1>3, <2>1, <2>3, <2>4
<1>6. CASE EncodePush
  <2>1. CASE out = <<>>
    <3>1. encode.tail => codec = <<>> /\ p = <<>>  BY DEF EndsDrained
    <3>2. \/ EncodeDone(FALSE)
          \/ encode' = [encode EXCEPT !.at = "pop"] /\ UNCHANGED <<pcmQueue, aacQueue>>
      BY <1>6, <2>1 DEF EncodePush
    <3>3. EncodeDone(FALSE) => /\ encode'.out = <<>> /\ encode'.inside = encode.inside
                               /\ pcmQueue' = pcmQueue /\ aacQueue' = Stopped(aacQueue)
      BY <1>2 DEF EncodeDone, EncodeRecord
    <3>4. /\ encode'.out = encode.out /\ encode'.inside = encode.inside
          /\ pcmQueue' = pcmQueue
          /\ aacQueue' = aacQueue \/ aacQueue' = Stopped(aacQueue)
      BY <1>2, <2>1, <3>2, <3>3 DEF EncodeRecord
    <3>5. aacQueue'.items = aacQueue.items  BY <1>2, <3>4, QueueOperations
    <3> QED BY <1>3, <3>4, <3>5 DEF Behind
  <2>2. CASE out # <<>>
    <3>1. \/ EncodeDone(TRUE)
          \/ /\ aacQueue' = Push(aacQueue, Head(out))
             /\ encode' = [encode EXCEPT !.out = Tail(@)] /\ pcmQueue' = pcmQueue
      BY <1>6, <2>2 DEF EncodePush
    <3>2. ~EncodeDone(TRUE)  BY <1>2 DEF EncodeDone, EncodeRecord
    <3>3. Head(out) \in Nat /\ Tail(out) \in Seq(Nat)  BY <1>1, <2>2, HeadTailProperties
    <3>4. /\ aacQueue'.items = Append(q, Head(out)) /\ pcmQueue'.items = p
          /\ encode'.out = Tail(out) /\ encode'.inside = codec
      <4>1. \A x \in Nat : Push(aacQueue, x).items = Append(aacQueue.items, x)
        BY <1>2, QueueOperations
      <4> QED BY <1>2, <3>1, <3>2, <3>3, <4>1 DEF EncodeRecord
    <3>5. Behind' = Append(q, Head(out)) \o (Tail(out) \o (codec \o p))
      BY <3>4 DEF Behind
    <3>6. Append(q, Head(out)) \o (Tail(out) \o (codec \o p)) = q \o (out \o (codec \o p))
      <4> DEFINE r == codec \o p
                 x == Head(out)
                 t == Tail(out)
      <4>1. q \in Seq(Nat) /\ x \in Nat /\ t \in Seq(Nat) /\ r \in Seq(Nat)
        BY <1>1, <2>2, HeadMoves
      <4>2. out = <<x>> \o t  BY <1>1, <2>2, HeadMoves
      <4> HIDE DEF q, out, r, x, t
      <4>3. Append(q, x) \o (t \o r) = q \o ((<<x>> \o t) \o r)  BY <4>1, HeadPassesOn
      <4>4. Append(q, x) \o (t \o r) = q \o (out \o r)  BY <4>2, <4>3
      <4> QED BY <4>4 DEF r, x, t
    <3> QED BY <1>1, <1>3, <3>5, <3>6
  <2> QED BY <2>1, <2>2
<1> QED BY <1>4, <1>5, <1>6 DEF EncodeStep

\* Nobody else touches what is on its way.
LEMMA BehindLeftAlone ==
    ASSUME MediaTypes,
           \/ CaptureRead \/ SinkEnds \/ SinkMp4 \/ SinkNetTest \/ SinkNetPush
           \/ VideoStep \/ WorkerStep \/ StopPipeline \/ MainStep \/ UNCHANGED mediaVars
    PROVE  accepted' = accepted /\ Behind' = Behind
<1>1. pcmQueue \in PathQueue /\ aacQueue \in PathQueue  BY DEF MediaTypes, QueueTypes
<1>2. accepted' = accepted /\ encode' = encode
  BY DEF CaptureRead, SinkEnds, SinkMp4, SinkNetTest, SinkNetPush, VideoStep, VideoTake,
     VideoEnds, VideoMp4, VideoNetTest, VideoNetPush, WorkerStep, NetSend, NetDrained,
     NetPendingTest, NetTrailer, StopPipeline, MainStep, StopCapture, StopEncode, StopSink,
     Finalize, StopNet, Joined, mediaVars, audioVars, inputVars
<1>3. pcmQueue' = pcmQueue \/ pcmQueue' = Stopped(pcmQueue)
  BY DEF CaptureRead, CaptureDone, SinkEnds, SinkMp4, SinkNetTest, SinkNetPush, VideoStep,
     VideoTake, VideoEnds, VideoMp4, VideoNetTest, VideoNetPush, WorkerStep, NetSend,
     NetDrained, NetPendingTest, NetTrailer, StopPipeline, MainStep, StopCapture, StopEncode,
     StopSink, Finalize, StopNet, Joined, mediaVars, audioVars
<1>4. aacQueue' = aacQueue \/ aacQueue' = Stopped(aacQueue)
  BY DEF CaptureRead, SinkEnds, SinkMp4, SinkNetTest, SinkNetPush, SinkDone, VideoStep,
     VideoTake, VideoEnds, VideoMp4, VideoNetTest, VideoNetPush, WorkerStep, NetSend,
     NetDrained, NetPendingTest, NetTrailer, StopPipeline, MainStep, StopCapture, StopEncode,
     StopSink, Finalize, StopNet, Joined, mediaVars, audioVars
<1>5. pcmQueue'.items = pcmQueue.items /\ aacQueue'.items = aacQueue.items
  BY <1>1, <1>3, <1>4, QueueOperations
<1> QED BY <1>2, <1>5 DEF Behind

\* A failure that was reported stays reported.
LEMMA FailuresStay ==
    ASSUME MediaTypes, EndsDrained, [MediaNext]_mediaVars
    PROVE  /\ encode.fatal => encode'.fatal
           /\ sinkWorker.fatal => sinkWorker'.fatal
           /\ mp4.fatal => mp4'.fatal
           /\ net.fatal => net'.fatal
           /\ video.failed => video'.failed
<1> USE DEF MediaTypes, QueueTypes, AudioTypes, VideoTypes, MuxerTypes
<1>1. CASE CaptureStep \/ SinkTake \/ SinkEnds \/ SinkNetTest \/ VideoTake \/ VideoEnds
           \/ VideoNetTest \/ NetDrained \/ StopPipeline \/ StopCapture \/ StopEncode \/ StopSink
           \/ StopNet \/ Joined \/ UNCHANGED mediaVars
  <2>1. encode' = encode /\ mp4' = mp4 /\ net'.fatal = net.fatal
    BY <1>1 DEF CaptureStep, CaptureRead, CapturePush, SinkTake, SinkEnds, SinkNetTest,
       VideoTake, VideoEnds, VideoNetTest, NetDrained, StopPipeline, StopCapture, StopEncode,
       StopSink, StopNet, Joined, mediaVars, audioVars, muxVars, NetRecord
  <2>2. sinkWorker.fatal => sinkWorker'.fatal
    BY <1>1 DEF CaptureStep, CaptureRead, CapturePush, SinkTake, SinkEnds, SinkNetTest,
       VideoTake, VideoEnds, VideoNetTest, NetDrained, StopPipeline, StopCapture, StopEncode,
       StopSink, StopNet, Joined, mediaVars, audioVars, EndsDrained
  <2>3. video.failed => video'.failed
    BY <1>1 DEF CaptureStep, CaptureRead, CapturePush, SinkTake, SinkEnds, SinkNetTest,
       VideoTake, VideoEnds, VideoNetTest, VideoDone, NetDrained, StopPipeline, StopCapture,
       StopEncode, StopSink, StopNet, Joined, mediaVars, VideoRecord
  <2> QED BY <2>1, <2>2, <2>3
<1>2. CASE EncodeStep
  <2>1. sinkWorker' = sinkWorker /\ mp4' = mp4 /\ net' = net /\ video' = video
    BY <1>2 DEF EncodeStep, EncodeChunk, EncodeFlush, EncodePush, muxVars
  <2>2. encode.fatal => encode'.fatal
    BY <1>2 DEF EncodeStep, EncodeChunk, EncodeFlush, EncodePush, EncodeDone, EncodeRecord
  <2> QED BY <2>1, <2>2
<1>3. CASE SinkMp4
  <2>1. encode' = encode /\ net' = net /\ video' = video  BY <1>3 DEF SinkMp4
  <2>2. sinkWorker.fatal => sinkWorker'.fatal  BY <1>3 DEF SinkMp4, EndsDrained
  <2>3. mp4.fatal => mp4'.fatal  BY <1>3 DEF SinkMp4, Mp4WriteAudio, Mp4Refuses
  <2> QED BY <2>1, <2>2, <2>3
<1>4. CASE VideoMp4
  <2>1. encode' = encode /\ net' = net /\ sinkWorker' = sinkWorker
    BY <1>4 DEF VideoMp4, audioVars
  <2>2. mp4.fatal => mp4'.fatal  BY <1>4 DEF VideoMp4, Mp4Write, Mp4Refuses
  <2>3. video.failed => video'.failed  BY <1>4 DEF VideoMp4, VideoRecord
  <2> QED BY <2>1, <2>2, <2>3
<1>5. CASE SinkNetPush \/ VideoNetPush
  <2>1. encode' = encode /\ mp4' = mp4  BY <1>5 DEF SinkNetPush, VideoNetPush, audioVars
  <2>2. sinkWorker.fatal => sinkWorker'.fatal
    BY <1>5 DEF SinkNetPush, VideoNetPush, audioVars, EndsDrained
  <2>3. video.failed => video'.failed
    BY <1>5 DEF SinkNetPush, VideoNetPush, VideoDone, VideoRecord
  <2>4. net.fatal => net'.fatal  BY <1>5, NetTakes
  <2> QED BY <2>1, <2>2, <2>3, <2>4
<1>6. CASE NetSend \/ NetPendingTest \/ NetTrailer
  <2>1. encode' = encode /\ mp4' = mp4 /\ sinkWorker' = sinkWorker /\ video' = video
    BY <1>6 DEF NetSend, NetPendingTest, NetTrailer, audioVars
  <2>2. CASE NetSend
    <3> DEFINE rest == [net EXCEPT !.items = Tail(@)]
               packet == Head(net.items)
    <3>1. rest.fatal = net.fatal /\ NetError(rest).fatal  BY DEF NetRecord, NetError
    <3>2. packet[1] \in {"audio", "video"}
      BY <2>2, HeadTailProperties DEF NetSend, NetRecord, Packets
    <3>3. [rest EXCEPT ![packet[1]] = Append(@, packet[2])].fatal = rest.fatal
      BY <3>2 DEF NetRecord
    <3>4. \/ net' = [rest EXCEPT ![packet[1]] = Append(@, packet[2])]
          \/ net' = NetError(rest)
      BY <2>2 DEF NetSend
    <3> HIDE DEF rest, packet
    <3> QED BY <2>1, <3>1, <3>3, <3>4
  <2>3. CASE NetPendingTest \/ NetTrailer
    <3>1. net.fatal => net'.fatal
      BY <2>3 DEF NetPendingTest, NetTrailer, NetError, NetRecord
    <3> QED BY <2>1, <3>1
  <2> QED BY <1>6, <2>2, <2>3
<1>7. CASE Finalize  BY <1>7 DEF Finalize, Mp4Finalize, Mp4Record, audioVars
<1> QED
  BY <1>1, <1>2, <1>3, <1>4, <1>5, <1>6, <1>7
  DEF MediaNext, SinkStep, VideoStep, WorkerStep, MainStep

--------------------------------------------------------------------------------
(* The audio in the MP4 file                                                *)

\* Only the sink worker's calls change what the muxer has and what is in hand for it.
LEMMA Mp4AudioLeftAlone ==
    ASSUME MediaTypes,
           \/ CaptureStep \/ EncodeStep \/ SinkEnds \/ SinkNetTest \/ SinkNetPush
           \/ VideoStep \/ WorkerStep \/ StopPipeline \/ MainStep \/ UNCHANGED mediaVars
    PROVE  mp4'.audio = mp4.audio /\ InHand({"mp4"})' = InHand({"mp4"})
<1> USE DEF MediaTypes, AudioTypes, MuxerTypes
<1>1. mp4'.audio = mp4.audio
  <2>1. CASE VideoMp4 \/ Finalize
    BY <2>1 DEF VideoMp4, Mp4Write, Finalize, Mp4Finalize, Mp4Record
  <2>2. CASE ~(VideoMp4 \/ Finalize)
    <3>1. mp4' = mp4
      BY <2>2 DEF CaptureStep, CaptureRead, CapturePush, EncodeStep, EncodeChunk, EncodeFlush,
         EncodePush, SinkEnds, SinkNetTest, SinkNetPush, VideoStep, VideoTake, VideoEnds,
         VideoNetTest, VideoNetPush, WorkerStep, NetSend, NetDrained, NetPendingTest,
         NetTrailer, StopPipeline, MainStep, StopCapture, StopEncode, StopSink, StopNet,
         Joined, mediaVars, muxVars
    <3> QED BY <3>1
  <2> QED BY <2>1, <2>2
<1>2. \/ sinkWorker' = sinkWorker
      \/ sinkWorker.at # "mp4" /\ sinkWorker'.at # "mp4"
  BY DEF CaptureStep, CaptureRead, CapturePush, EncodeStep, EncodeChunk, EncodeFlush,
     EncodePush, SinkEnds, SinkNetTest, SinkNetPush, SinkDone, VideoStep, VideoTake, VideoEnds,
     VideoMp4, VideoNetTest, VideoNetPush, WorkerStep, NetSend, NetDrained, NetPendingTest,
     NetTrailer, StopPipeline, MainStep, StopCapture, StopEncode, StopSink, Finalize, StopNet,
     Joined, mediaVars, audioVars, SinkRecord
<1> QED BY <1>1, <1>2 DEF InHand

\* The chunks reach the MP4 output in order.
LEMMA AudioReachesMp4Kept ==
    ASSUME MediaTypes, StopsInOrder, EndsDrained, MuxersFollow, AudioReachesMp4,
           [MediaNext]_mediaVars
    PROVE  AudioReachesMp4'
<1> DEFINE Failed == encode.fatal \/ sinkWorker.fatal \/ mp4.fatal
           hand == InHand({"mp4"})
<1>1. Failed => Failed'  BY FailuresStay
<1>2. CASE Failed  BY <1>1, <1>2 DEF AudioReachesMp4
<1>3. CASE Failed'  BY <1>3 DEF AudioReachesMp4
<1>4. CASE ~Failed /\ ~Failed'
  <2>1. accepted = mp4.audio \o (hand \o Behind)  BY <1>4 DEF AudioReachesMp4
  <2>2. mp4.audio \in Seq(Nat) /\ hand \in Seq(Nat) /\ Behind \in Seq(Nat)
        /\ hand \o Behind \in Seq(Nat)
    BY BehindTyped, ConcatProperties
    DEF MediaTypes, MuxerTypes, Mp4Record, AudioTypes, SinkRecord, InHand
  <2>3. SUFFICES accepted' = mp4'.audio \o (hand' \o Behind')  BY DEF AudioReachesMp4
  <2>4. CASE CapturePush
    <3>1. mp4'.audio = mp4.audio /\ hand' = hand
      BY <2>4, Mp4AudioLeftAlone DEF CaptureStep
    <3> HIDE DEF hand
    <3> DEFINE m == mp4.audio
               rest == hand \o Behind
    <3>2. m \in Seq(Nat) /\ hand \in Seq(Nat) /\ Behind \in Seq(Nat) /\ rest \in Seq(Nat)
      BY <2>2
    <3>3. \A x \in Nat : hand \o Append(Behind, x) = Append(rest, x)
      BY <2>2, AppendMoves
    <3>4. accepted = m \o rest  BY <2>1
    <3> HIDE DEF m, rest, hand
    <3>5. \A x \in Nat : m \o Append(rest, x) = Append(m \o rest, x)
      BY <3>2, AppendMoves
    <3>6. CASE accepted' = accepted /\ Behind' = Behind  BY <2>1, <3>1, <3>6
    <3>7. ASSUME NEW x \in Nat, accepted' = Append(accepted, x),
                 hand' \o Behind' = Append(rest, x)
          PROVE  accepted' = mp4'.audio \o (hand' \o Behind')
      <4>1. mp4'.audio = m  BY <3>1 DEF m
      <4> QED BY <3>4, <3>5, <3>7, <4>1
    <3>8. \/ accepted' = accepted /\ Behind' = Behind
          \/ \E x \in Nat : accepted' = Append(accepted, x)
                             /\ Behind' = Append(Behind, x)
      BY <2>4, ChunkComesIn
    <3> QED BY <3>1, <3>3, <3>6, <3>7, <3>8
  <2>5. CASE SinkTake
    <3> DEFINE x == Head(aacQueue.items)
    <3>1. x \in Nat /\ Behind' \in Seq(Nat) /\ accepted' = accepted
          /\ Behind = <<x>> \o Behind'
      BY <2>5, PacketTaken
    <3>2. mp4'.audio = mp4.audio  BY <2>5 DEF SinkTake, muxVars
    <3>3. hand = <<>> /\ hand' = <<x>>
      BY <2>5 DEF SinkTake, InHand, MediaTypes, AudioTypes, SinkRecord
    <3> HIDE DEF x, hand
    <3>4. <<>> \o Behind = Behind  BY <2>2, ConcatEmptySeq
    <3> QED BY <2>1, <3>1, <3>2, <3>3, <3>4
  <2>6. CASE SinkMp4
    <3> DEFINE x == sinkWorker.item
    <3>1. x \in Nat /\ hand = <<x>> /\ hand' = <<>>
      BY <2>6 DEF SinkMp4, InHand, MediaTypes, AudioTypes, SinkRecord
    <3>2. accepted' = accepted /\ Behind' = Behind  BY <2>6, BehindLeftAlone
    <3>3. ~Mp4Refuses
      <4>1. sinkWorker.at # "ended"  BY <2>6 DEF SinkMp4
      <4> QED BY <1>4, <4>1 DEF Mp4Refuses, MuxersFollow, StopsInOrder
    <3>4. mp4'.audio = Append(mp4.audio, x)
      BY <1>4, <2>6, <3>3 DEF SinkMp4, Mp4WriteAudio, MediaTypes, MuxerTypes, Mp4Record
    <3> DEFINE m == mp4.audio
    <3>5. m \in Seq(Nat) /\ x \in Nat /\ Behind \in Seq(Nat)  BY <2>2, <3>1
    <3> HIDE DEF m, x, hand
    <3>6. Append(m, x) \o Behind = m \o (<<x>> \o Behind)  BY <3>5, AppendMoves
    <3>7. <<>> \o Behind = Behind  BY <2>2, ConcatEmptySeq
    <3> QED BY <2>1, <3>1, <3>2, <3>4, <3>6, <3>7 DEF m
  <2>7. CASE EncodeStep  BY <1>4, <2>1, <2>7, EncoderPassesOn, Mp4AudioLeftAlone
  <2>8. CASE CaptureRead \/ SinkEnds \/ SinkNetTest \/ SinkNetPush \/ VideoStep
             \/ WorkerStep \/ StopPipeline \/ MainStep \/ UNCHANGED mediaVars
    BY <2>1, <2>8, BehindLeftAlone, Mp4AudioLeftAlone DEF CaptureStep
  <2> QED  BY <2>4, <2>5, <2>6, <2>7, <2>8 DEF MediaNext, CaptureStep, SinkStep
<1> QED BY <1>2, <1>3, <1>4

--------------------------------------------------------------------------------
(* The network stream and its queue                                         *)

\* Only the two pushes and the worker's send change what the stream carries.
LEMMA StreamLeftAlone ==
    ASSUME MediaTypes,
           \/ CaptureStep \/ EncodeStep \/ SinkTake \/ SinkEnds \/ SinkMp4 \/ SinkNetTest
           \/ VideoTake \/ VideoEnds \/ VideoMp4 \/ VideoNetTest \/ NetDrained
           \/ NetPendingTest \/ NetTrailer \/ StopPipeline \/ MainStep \/ UNCHANGED mediaVars
    PROVE  /\ net'.items = net.items /\ net'.queued = net.queued
           /\ net'.audio = net.audio /\ net'.video = net.video
<1>1. net \in NetRecord  BY DEF MediaTypes, MuxerTypes
<1>2. CASE NetPendingTest \/ NetTrailer \/ StopNet
  BY <1>1, <1>2 DEF NetPendingTest, NetTrailer, StopNet, NetError, NetRecord
<1>3. CASE ~(NetPendingTest \/ NetTrailer \/ StopNet)
  <2>1. net' = net
    BY <1>3 DEF CaptureStep, CaptureRead, CapturePush, EncodeStep, EncodeChunk, EncodeFlush,
       EncodePush, SinkTake, SinkEnds, SinkMp4, SinkNetTest, VideoTake, VideoEnds, VideoMp4,
       VideoNetTest, NetDrained, StopPipeline, MainStep, StopCapture, StopEncode, StopSink,
       Finalize, Joined, mediaVars, muxVars
  <2> QED BY <2>1
<1> QED BY <1>2, <1>3

\* The sink worker hands its packet to the stream.
LEMMA AudioPushed ==
    ASSUME MediaTypes, SinkNetPush
    PROVE  \/ net'.fatal
           \/ /\ net'.items = Append(net.items, <<"audio", sinkWorker.item>>)
              /\ net'.queued = net.queued + 1
              /\ net'.audio = net.audio /\ net'.video = net.video
<1> DEFINE packet == <<"audio", sinkWorker.item>>
<1>1. net \in NetRecord /\ packet \in Packets
  BY DEF MediaTypes, MuxerTypes, AudioTypes, SinkRecord, Packets
<1>2. PICK result \in BOOLEAN : NetPush(net, packet, result)  BY DEF SinkNetPush
<1> HIDE DEF packet
<1>3. \/ net' = NetError(net)
      \/ /\ net'.items = Append(net.items, packet) /\ net'.queued = net.queued + 1
         /\ net'.audio = net.audio /\ net'.video = net.video
  BY <1>1, <1>2, NetOperations
<1> QED BY <1>1, <1>3, NetOperations DEF packet

\* The packet thread hands an access unit to the stream with its last fragment.
LEMMA VideoPushed ==
    ASSUME MediaTypes, VideoNetPush
    PROVE  \/ net'.fatal
           \/ /\ ~LastPart /\ net'.items = net.items /\ net'.queued = net.queued
              /\ net'.audio = net.audio /\ net'.video = net.video
           \/ /\ LastPart /\ net'.items = Append(net.items, <<"video", video.unit>>)
              /\ net'.queued = net.queued + 1
              /\ net'.audio = net.audio /\ net'.video = net.video
<1> DEFINE packet == <<"video", video.unit>>
           n == [net EXCEPT !.pending = 0]
<1>1. net \in NetRecord /\ packet \in Packets
  BY DEF MediaTypes, MuxerTypes, VideoTypes, VideoRecord, Packets
<1>2. n \in NetRecord  BY <1>1, NetAssignments
<1>3. /\ n.items = net.items /\ n.queued = net.queued
      /\ n.audio = net.audio /\ n.video = net.video
  BY <1>1 DEF NetRecord
<1>4. PICK result \in BOOLEAN : NetWrite(video.unit, LastPart, result)
  BY DEF VideoNetPush
<1>5. CASE LastPart
  <2>1. NetPush(n, packet, result)  BY <1>4, <1>5 DEF NetWrite
  <2> HIDE DEF packet, n
  <2>2. \/ net' = NetError(n)
        \/ /\ net'.items = Append(n.items, packet) /\ net'.queued = n.queued + 1
           /\ net'.audio = n.audio /\ net'.video = n.video
    BY <1>1, <1>2, <2>1, NetOperations
  <2> QED BY <1>2, <1>3, <1>5, <2>2, NetOperations DEF packet
<1>6. CASE ~LastPart
  <2>1. net' = [net EXCEPT !.pending = video.unit]  BY <1>4, <1>6 DEF NetWrite
  <2> QED BY <1>1, <1>6, <2>1 DEF NetRecord
<1> QED BY <1>5, <1>6

\* The worker sends the first packet of the queue.
LEMMA PacketSent ==
    ASSUME MediaTypes, NetSend
    PROVE  /\ net.items \in Seq(Packets) /\ net.items # <<>>
           /\ \/ net'.fatal
              \/ \E n \in Nat :
                    /\ Head(net.items) = <<"audio", n>>
                    /\ net'.items = Tail(net.items) /\ net'.queued = net.queued
                    /\ net'.audio = Append(net.audio, n) /\ net'.video = net.video
              \/ \E n \in Nat :
                    /\ Head(net.items) = <<"video", n>>
                    /\ net'.items = Tail(net.items) /\ net'.queued = net.queued
                    /\ net'.video = Append(net.video, n) /\ net'.audio = net.audio
<1> DEFINE packet == Head(net.items)
           rest == [net EXCEPT !.items = Tail(@)]
<1>1. net \in NetRecord /\ net.items \in Seq(Packets) /\ net.items # <<>>
  BY DEF MediaTypes, MuxerTypes, NetRecord, NetSend
<1>2. packet \in Packets /\ Tail(net.items) \in Seq(Packets)
  BY <1>1, HeadTailProperties
<1>3. /\ rest \in NetRecord /\ rest.items = Tail(net.items) /\ rest.queued = net.queued
      /\ rest.audio = net.audio /\ rest.video = net.video
  <2> DEFINE t == Tail(net.items)
  <2>1. t \in Seq(Packets)  BY <1>2
  <2> HIDE DEF t
  <2>2. [net EXCEPT !.items = t] \in NetRecord  BY <1>1, <2>1, NetAssignments
  <2>3. /\ [net EXCEPT !.items = t].items = t /\ [net EXCEPT !.items = t].queued = net.queued
        /\ [net EXCEPT !.items = t].audio = net.audio
        /\ [net EXCEPT !.items = t].video = net.video
    BY <1>1 DEF NetRecord
  <2> QED BY <2>2, <2>3 DEF t
<1>4. \/ net' = [rest EXCEPT ![packet[1]] = Append(@, packet[2])]
      \/ net' = NetError(rest)
  BY DEF NetSend
<1>5. PICK kind \in {"audio", "video"}, n \in Nat : packet = <<kind, n>>
  BY <1>2 DEF Packets
<1>6. packet[1] = kind /\ packet[2] = n  BY <1>5
<1>7. CASE net' = NetError(rest)  BY <1>1, <1>3, <1>7, NetOperations
<1>8. CASE net' = [rest EXCEPT ![packet[1]] = Append(@, packet[2])]
  <2>1. net' = [rest EXCEPT ![kind] = Append(@, n)]  BY <1>6, <1>8
  <2> HIDE DEF rest
  <2>2. CASE kind = "audio"
    <3>1. net' = [rest EXCEPT !.audio = Append(@, n)]  BY <2>1, <2>2
    <3>2. /\ net'.items = rest.items /\ net'.queued = rest.queued
          /\ net'.audio = Append(rest.audio, n) /\ net'.video = rest.video
      BY <1>3, <3>1 DEF NetRecord
    <3> QED BY <1>1, <1>3, <1>5, <2>2, <3>2
  <2>3. CASE kind = "video"
    <3>1. net' = [rest EXCEPT !.video = Append(@, n)]  BY <2>1, <2>3
    <3>2. /\ net'.items = rest.items /\ net'.queued = rest.queued
          /\ net'.video = Append(rest.video, n) /\ net'.audio = rest.audio
      BY <1>3, <3>1 DEF NetRecord
    <3> QED BY <1>1, <1>3, <1>5, <2>3, <3>2
  <2> QED BY <2>2, <2>3
<1> QED BY <1>4, <1>7, <1>8

\* Every packet that came into the queue was sent or is still there.
LEMMA NetCountsKept ==
    ASSUME MediaTypes, EndsDrained, NetCounts, [MediaNext]_mediaVars
    PROVE  NetCounts'
<1> DEFINE a == net.audio
           v == net.video
           items == net.items
<1>1. net.fatal => net'.fatal  BY FailuresStay
<1>2. CASE net.fatal  BY <1>1, <1>2 DEF NetCounts
<1>3. CASE net'.fatal  BY <1>3 DEF NetCounts
<1>4. CASE ~net.fatal /\ ~net'.fatal
  <2>1. /\ a \in Seq(Nat) /\ v \in Seq(Nat) /\ items \in Seq(Packets) /\ net.queued \in Nat
        /\ Len(a) + Len(v) + Len(items) = net.queued
    BY <1>4 DEF NetCounts, MediaTypes, MuxerTypes, NetRecord
  <2>2. /\ \A n \in Nat : Len(Append(a, n)) = Len(a) + 1 /\ Len(Append(v, n)) = Len(v) + 1
        /\ \A p : Len(Append(items, p)) = Len(items) + 1
        /\ items # <<>> => Len(Tail(items)) = Len(items) - 1
    BY <2>1, AppendProperties, HeadTailProperties
  <2>3. Len(a) \in Nat /\ Len(v) \in Nat /\ Len(items) \in Nat  BY <2>1
  <2> DEFINE one == Append(items, <<"audio", sinkWorker.item>>)
             two == Append(items, <<"video", video.unit>>)
  <2>4. CASE SinkNetPush
    <3>1. /\ net'.items = one /\ net'.queued = net.queued + 1
          /\ net'.audio = a /\ net'.video = v
      BY <1>4, <2>4, AudioPushed
    <3>2. Len(one) = Len(items) + 1  BY <2>2
    <3> HIDE DEF a, v, items, one
    <3> QED BY <2>1, <2>3, <3>1, <3>2 DEF NetCounts
  <2>5. CASE VideoNetPush
    <3>1. /\ net'.audio = a /\ net'.video = v
          /\ \/ net'.items = items /\ net'.queued = net.queued
             \/ net'.items = two /\ net'.queued = net.queued + 1
      BY <1>4, <2>5, VideoPushed
    <3>2. Len(two) = Len(items) + 1  BY <2>2
    <3> HIDE DEF a, v, items, two
    <3>3. CASE net'.items = items /\ net'.queued = net.queued
      BY <2>1, <3>1, <3>3 DEF NetCounts
    <3>4. CASE net'.items = two /\ net'.queued = net.queued + 1
      <4>1. /\ Len(net'.items) = Len(items) + 1 /\ net'.queued = net.queued + 1
            /\ net'.audio = a /\ net'.video = v
        BY <3>1, <3>2, <3>4
      <4>2. Len(a) + Len(v) + Len(items) = net.queued  BY <2>1
      <4> QED BY <2>3, <4>1, <4>2 DEF NetCounts
    <3> QED BY <3>1, <3>3, <3>4
  <2>6. CASE NetSend
    <3>1. /\ items # <<>> /\ net'.items = Tail(items) /\ net'.queued = net.queued
          /\ \E n \in Nat : \/ net'.audio = Append(a, n) /\ net'.video = v
                            \/ net'.video = Append(v, n) /\ net'.audio = a
      BY <1>4, <2>6, PacketSent
    <3>2. Len(net'.items) = Len(items) - 1  BY <2>2, <3>1
    <3>3. \/ Len(net'.audio) = Len(a) + 1 /\ Len(net'.video) = Len(v)
          \/ Len(net'.video) = Len(v) + 1 /\ Len(net'.audio) = Len(a)
      BY <2>2, <3>1
    <3>4. net'.queued = Len(a) + Len(v) + Len(items)  BY <2>1, <3>1
    <3> HIDE DEF a, v, items
    <3>5. CASE Len(net'.audio) = Len(a) + 1 /\ Len(net'.video) = Len(v)
      BY <2>3, <3>2, <3>4, <3>5 DEF NetCounts
    <3>6. CASE Len(net'.video) = Len(v) + 1 /\ Len(net'.audio) = Len(a)
      BY <2>3, <3>2, <3>4, <3>6 DEF NetCounts
    <3> QED BY <3>3, <3>5, <3>6
  <2>7. CASE \/ CaptureStep \/ EncodeStep \/ SinkTake \/ SinkEnds \/ SinkMp4 \/ SinkNetTest
             \/ VideoTake \/ VideoEnds \/ VideoMp4 \/ VideoNetTest \/ NetDrained
             \/ NetPendingTest \/ NetTrailer \/ StopPipeline \/ MainStep
             \/ UNCHANGED mediaVars
    BY <2>1, <2>7, StreamLeftAlone DEF NetCounts
  <2> QED  BY <2>4, <2>5, <2>6, <2>7 DEF MediaNext, SinkStep, VideoStep, WorkerStep
<1> QED BY <1>2, <1>3, <1>4

--------------------------------------------------------------------------------
(* The audio in the network stream                                          *)

\* The packet in the sink worker's hands until the network sink has had it.
OnItsWay == InHand({"mp4", "net_test", "net_push"})

\* It stays there through everybody else's steps and through the MP4 muxer's.
LEMMA HandLeftAlone ==
    ASSUME MediaTypes, ~sinkWorker'.fatal,
           \/ CaptureStep \/ EncodeStep \/ SinkEnds \/ SinkMp4 \/ SinkNetTest
           \/ VideoStep \/ WorkerStep \/ StopPipeline \/ MainStep \/ UNCHANGED mediaVars
    PROVE  OnItsWay' = OnItsWay
<1>1. sinkWorker \in SinkRecord  BY DEF MediaTypes, AudioTypes
<1>2. CASE SinkEnds \/ SinkMp4 \/ SinkNetTest
  BY <1>1, <1>2 DEF SinkEnds, SinkMp4, SinkNetTest, SinkDone, SinkRecord, OnItsWay, InHand
<1>3. CASE ~(SinkEnds \/ SinkMp4 \/ SinkNetTest)
  <2>1. sinkWorker' = sinkWorker
    BY <1>3 DEF CaptureStep, CaptureRead, CapturePush, EncodeStep, EncodeChunk, EncodeFlush,
       EncodePush, VideoStep, VideoTake, VideoEnds, VideoMp4, VideoNetTest, VideoNetPush,
       WorkerStep, NetSend, NetDrained, NetPendingTest, NetTrailer, StopPipeline, MainStep,
       StopCapture, StopEncode, StopSink, Finalize, StopNet, Joined, mediaVars, audioVars
  <2> QED BY <2>1 DEF OnItsWay, InHand
<1> QED BY <1>2, <1>3

\* The chunks reach the network stream in order.
LEMMA AudioReachesNetKept ==
    ASSUME MediaTypes, EndsDrained, AudioReachesNet, [MediaNext]_mediaVars
    PROVE  AudioReachesNet'
<1> DEFINE Failed == encode.fatal \/ sinkWorker.fatal \/ net.fatal
<1>1. Failed => Failed'  BY FailuresStay
<1>2. CASE Failed  BY <1>1, <1>2 DEF AudioReachesNet
<1>3. CASE Failed'  BY <1>3 DEF AudioReachesNet
<1>4. CASE ~Failed /\ ~Failed'
  <2> DEFINE sent == net.audio
             items == net.items
             hand == OnItsWay
  <2>1. PICK a \in Seq(Nat) :
            Carries(items, "audio", a) /\ accepted = sent \o (a \o (hand \o Behind))
    BY <1>4 DEF AudioReachesNet, AudioGoesTo, OnItsWay
  <2>2. /\ sent \in Seq(Nat) /\ a \in Seq(Nat) /\ hand \in Seq(Nat) /\ Behind \in Seq(Nat)
        /\ items \in Seq(Packets)
    BY BehindTyped DEF MediaTypes, MuxerTypes, NetRecord, AudioTypes, SinkRecord, InHand, OnItsWay
  <2>3. hand \o Behind \in Seq(Nat) /\ a \o (hand \o Behind) \in Seq(Nat)
    BY <2>2, ConcatProperties
  <2>4. ASSUME NEW b \in Seq(Nat), Carries(net'.items, "audio", b),
               accepted' = net'.audio \o (b \o (OnItsWay' \o Behind'))
        PROVE  AudioReachesNet'
    BY <2>4 DEF AudioReachesNet, AudioGoesTo, OnItsWay
  <2>5. ASSUME net'.items = items, net'.audio = sent, OnItsWay' = hand,
               accepted' = accepted, Behind' = Behind
        PROVE  AudioReachesNet'
    BY <2>1, <2>4, <2>5
  <2>6. CASE CapturePush
    <3>1. net'.items = items /\ net'.audio = sent /\ OnItsWay' = hand
      BY <1>4, <2>6, StreamLeftAlone, HandLeftAlone DEF CaptureStep
    <3>2. CASE accepted' = accepted /\ Behind' = Behind  BY <2>5, <3>1, <3>2
    <3>3. ASSUME NEW x \in Nat, accepted' = Append(accepted, x), Behind' = Append(Behind, x)
          PROVE  AudioReachesNet'
      <4> DEFINE r == hand \o Behind
                 ar == a \o r
      <4>1. hand \o Append(Behind, x) = Append(r, x)
        <5>1. hand \in Seq(Nat) /\ Behind \in Seq(Nat) /\ x \in Nat  BY <2>2
        <5> HIDE DEF hand
        <5> QED BY <5>1, AppendMoves
      <4>2. r \in Seq(Nat) /\ ar \in Seq(Nat) /\ sent \in Seq(Nat) /\ a \in Seq(Nat)
        BY <2>2, <2>3
      <4>3. a \o Append(r, x) = Append(ar, x)
        <5> HIDE DEF r
        <5> QED BY <4>2, AppendMoves
      <4>4. sent \o Append(ar, x) = Append(sent \o ar, x)
        <5> HIDE DEF sent, ar
        <5> QED BY <4>2, AppendMoves
      <4>5. accepted' = net'.audio \o (a \o (OnItsWay' \o Behind'))
        BY <2>1, <3>1, <3>3, <4>1, <4>3, <4>4
      <4>6. Carries(net'.items, "audio", a)  BY <2>1, <3>1
      <4> HIDE DEF hand, sent, items
      <4> QED BY <2>4, <4>5, <4>6
    <3> QED BY <2>6, <3>2, <3>3, ChunkComesIn
  <2>7. CASE SinkTake
    <3> DEFINE x == Head(aacQueue.items)
    <3>1. x \in Nat /\ Behind' \in Seq(Nat) /\ accepted' = accepted
          /\ Behind = <<x>> \o Behind'
      BY <2>7, PacketTaken
    <3>2. net'.items = items /\ net'.audio = sent  BY <2>7, StreamLeftAlone
    <3>3. hand = <<>> /\ OnItsWay' = <<x>>
      BY <2>7 DEF SinkTake, OnItsWay, InHand, MediaTypes, AudioTypes, SinkRecord
    <3>4. <<>> \o Behind = Behind  BY <2>2, ConcatEmptySeq
    <3>5. hand \o Behind = OnItsWay' \o Behind'  BY <3>1, <3>3, <3>4
    <3>6. accepted' = net'.audio \o (a \o (OnItsWay' \o Behind'))
      BY <2>1, <3>1, <3>2, <3>5
    <3>7. Carries(net'.items, "audio", a)  BY <2>1, <3>2
    <3> QED BY <2>4, <3>6, <3>7
  <2>8. CASE SinkNetPush
    <3> DEFINE x == sinkWorker.item
    <3>1. x \in Nat /\ hand = <<x>> /\ OnItsWay' = <<>>
      <4>1. x \in Nat /\ hand = <<x>>
        BY <2>8 DEF SinkNetPush, OnItsWay, InHand, MediaTypes, AudioTypes, SinkRecord
      <4>2. sinkWorker'.at \in {"pop", "ended"}
        BY <2>8 DEF SinkNetPush, SinkDone, MediaTypes, AudioTypes, SinkRecord
      <4> QED BY <4>1, <4>2 DEF OnItsWay, InHand
    <3>2. accepted' = accepted /\ Behind' = Behind  BY <2>8, BehindLeftAlone
    <3>3. net'.items = Append(items, <<"audio", x>>) /\ net'.audio = sent
      BY <1>4, <2>8, AudioPushed
    <3> HIDE DEF x
    <3>4. Carries(net'.items, "audio", Append(a, x)) /\ Append(a, x) \in Seq(Nat)
      <4>1. items \in Seq(Packets) /\ a \in Seq(Nat) /\ x \in Nat /\ Carries(items, "audio", a)
        BY <2>1, <2>2, <3>1
      <4> HIDE DEF items
      <4>2. Carries(Append(items, <<"audio", x>>), "audio", Append(a, x))
        BY <4>1, CarriesOneMore
      <4> QED BY <3>3, <4>1, <4>2, AppendProperties
    <3>5. Append(a, x) \o Behind = a \o (<<x>> \o Behind)  BY <2>2, <3>1, AppendMoves
    <3>6. <<>> \o Behind = Behind  BY <2>2, ConcatEmptySeq
    <3>7. accepted' = net'.audio \o (Append(a, x) \o (OnItsWay' \o Behind'))
      BY <2>1, <3>1, <3>2, <3>3, <3>5, <3>6
    <3> QED BY <2>4, <3>4, <3>7
  <2>9. CASE VideoNetPush
    <3>1. accepted' = accepted /\ Behind' = Behind /\ OnItsWay' = hand
      BY <1>4, <2>9, BehindLeftAlone, HandLeftAlone DEF VideoStep
    <3>2. /\ net'.audio = sent
          /\ net'.items = items \/ net'.items = Append(items, <<"video", video.unit>>)
      BY <1>4, <2>9, VideoPushed
    <3>3. Carries(Append(items, <<"video", video.unit>>), "audio", a)
      <4> DEFINE u == video.unit
      <4>1. items \in Seq(Packets) /\ a \in Seq(Nat) /\ u \in Nat /\ Carries(items, "audio", a)
        BY <2>1, <2>2 DEF MediaTypes, VideoTypes, VideoRecord
      <4> HIDE DEF items, u
      <4>2. Carries(Append(items, <<"video", u>>), "audio", a)  BY <4>1, CarriesOneMore
      <4> QED BY <4>2 DEF u
    <3>4. Carries(net'.items, "audio", a)  BY <2>1, <3>2, <3>3
    <3>5. accepted' = net'.audio \o (a \o (OnItsWay' \o Behind'))  BY <2>1, <3>1, <3>2
    <3> QED BY <2>4, <3>4, <3>5
  <2>10. CASE NetSend
    <3>1. accepted' = accepted /\ Behind' = Behind /\ OnItsWay' = hand
      BY <1>4, <2>10, BehindLeftAlone, HandLeftAlone DEF WorkerStep
    <3>2. items # <<>> /\ items \in Seq(Packets) /\ Carries(items, "audio", a)
      BY <2>1, <2>10, PacketSent
    <3>3. IF Head(items)[1] = "audio"
          THEN a # <<>> /\ Head(a) = Head(items)[2] /\ Carries(Tail(items), "audio", Tail(a))
          ELSE Carries(Tail(items), "audio", a)
      <4> HIDE DEF items
      <4> QED BY <2>2, <3>2, CarriesOneLess
    <3>4. \E n \in Nat :
             \/ /\ Head(items) = <<"audio", n>>
                /\ net'.items = Tail(items) /\ net'.audio = Append(sent, n)
             \/ /\ Head(items) = <<"video", n>>
                /\ net'.items = Tail(items) /\ net'.audio = sent
      BY <1>4, <2>10, PacketSent
    <3>5. PICK n \in Nat :
             \/ /\ Head(items) = <<"audio", n>>
                /\ net'.items = Tail(items) /\ net'.audio = Append(sent, n)
             \/ /\ Head(items) = <<"video", n>>
                /\ net'.items = Tail(items) /\ net'.audio = sent
      BY <3>4
    <3>6. CASE Head(items) = <<"video", n>> /\ net'.items = Tail(items) /\ net'.audio = sent
      <4>1. Head(items)[1] = "video"  BY <3>6
      <4>2. Carries(net'.items, "audio", a)  BY <3>3, <3>6, <4>1
      <4>3. accepted' = net'.audio \o (a \o (OnItsWay' \o Behind'))  BY <2>1, <3>1, <3>6
      <4> QED BY <2>4, <4>2, <4>3
    <3>7. CASE Head(items) = <<"audio", n>> /\ net'.items = Tail(items)
               /\ net'.audio = Append(sent, n)
      <4>1. Head(items)[1] = "audio" /\ Head(items)[2] = n  BY <3>7
      <4>2. a # <<>> /\ Head(a) = n /\ Carries(net'.items, "audio", Tail(a))
        BY <3>3, <3>7, <4>1
      <4> DEFINE r == hand \o Behind
                 t == Tail(a)
      <4>3. sent \in Seq(Nat) /\ n \in Nat /\ t \in Seq(Nat) /\ r \in Seq(Nat)
        BY <2>2, <2>3, <4>2, HeadTailProperties
      <4>4. a = <<n>> \o t  BY <2>2, <4>2, HeadMoves
      <4>5. Append(sent, n) \o (t \o r) = sent \o ((<<n>> \o t) \o r)
        <5> HIDE DEF sent, r, t
        <5> DEFINE tr == t \o r
        <5>1. <<n>> \in Seq(Nat) /\ tr \in Seq(Nat)  BY <4>3, ConcatProperties
        <5>2. (<<n>> \o t) \o r = <<n>> \o tr
          <6>1. <<n>> \in Seq(Nat) /\ t \in Seq(Nat) /\ r \in Seq(Nat)  BY <4>3, <5>1
          <6> QED BY <6>1, ConcatAssociative
        <5>3. sent \in Seq(Nat) /\ n \in Nat /\ tr \in Seq(Nat)  BY <4>3, <5>1
        <5> HIDE DEF tr
        <5>4. Append(sent, n) \o tr = sent \o (<<n>> \o tr)  BY <5>3, AppendMoves
        <5> QED BY <5>2, <5>4 DEF tr
      <4>6. accepted' = net'.audio \o (t \o (OnItsWay' \o Behind'))
        BY <2>1, <3>1, <3>7, <4>4, <4>5
      <4>7. Carries(net'.items, "audio", t) /\ t \in Seq(Nat)  BY <4>2, <4>3
      <4> HIDE DEF t
      <4> QED BY <2>4, <4>6, <4>7
    <3> QED BY <3>5, <3>6, <3>7
  <2>11. CASE EncodeStep
    <3>1. net'.items = items /\ net'.audio = sent /\ OnItsWay' = hand
      BY <1>4, <2>11, StreamLeftAlone, HandLeftAlone
    <3>2. accepted' = accepted /\ Behind' = Behind  BY <1>4, <2>11, EncoderPassesOn
    <3> QED BY <2>5, <3>1, <3>2
  <2>12. CASE \/ CaptureRead \/ SinkEnds \/ SinkMp4 \/ SinkNetTest \/ VideoTake \/ VideoEnds
              \/ VideoMp4 \/ VideoNetTest \/ NetDrained \/ NetPendingTest \/ NetTrailer
              \/ StopPipeline \/ MainStep \/ UNCHANGED mediaVars
    <3>1. net'.items = items /\ net'.audio = sent
      BY <2>12, StreamLeftAlone DEF CaptureStep
    <3>2. OnItsWay' = hand
      BY <1>4, <2>12, HandLeftAlone DEF CaptureStep, VideoStep, WorkerStep
    <3>3. accepted' = accepted /\ Behind' = Behind
      BY <2>12, BehindLeftAlone DEF VideoStep, WorkerStep
    <3> QED BY <2>5, <3>1, <3>2, <3>3
  <2> QED
    BY <2>6, <2>7, <2>8, <2>9, <2>10, <2>11, <2>12
    DEF MediaNext, CaptureStep, SinkStep, VideoStep, WorkerStep
<1> QED BY <1>2, <1>3, <1>4

--------------------------------------------------------------------------------
(* The video in the MP4 file and in the network stream                      *)

\* Only the packet thread touches its access unit, and only it writes video.
LEMMA VideoLeftAlone ==
    ASSUME MediaTypes,
           \/ CaptureStep \/ EncodeStep \/ SinkStep \/ WorkerStep \/ StopPipeline
           \/ MainStep \/ UNCHANGED mediaVars
    PROVE  video' = video /\ mp4'.video = mp4.video /\ UnitBetween' = UnitBetween
<1>1. video' = video
  BY DEF CaptureStep, CaptureRead, CapturePush, EncodeStep, EncodeChunk, EncodeFlush,
     EncodePush, SinkStep, SinkTake, SinkEnds, SinkMp4, SinkNetTest, SinkNetPush, WorkerStep,
     NetSend, NetDrained, NetPendingTest, NetTrailer, StopPipeline, MainStep, StopCapture,
     StopEncode, StopSink, Finalize, StopNet, Joined, mediaVars
<1>2. UnitBetween' = UnitBetween  BY <1>1 DEF UnitBetween, Between, LastPart
<1>3. mp4'.video = mp4.video
  <2>1. mp4 \in Mp4Record  BY DEF MediaTypes, MuxerTypes
  <2>2. CASE SinkMp4  BY <2>1, <2>2 DEF SinkMp4, Mp4WriteAudio, Mp4Record
  <2>3. CASE Finalize  BY <2>1, <2>3 DEF Finalize, Mp4Finalize, Mp4Record
  <2>4. CASE ~(SinkMp4 \/ Finalize)
    <3>1. mp4' = mp4
      BY <2>4 DEF CaptureStep, CaptureRead, CapturePush, EncodeStep, EncodeChunk, EncodeFlush,
         EncodePush, SinkStep, SinkTake, SinkEnds, SinkNetTest, SinkNetPush, WorkerStep,
         NetSend, NetDrained, NetPendingTest, NetTrailer, StopPipeline, MainStep, StopCapture,
         StopEncode, StopSink, StopNet, Joined, mediaVars, muxVars
    <3> QED BY <3>1
  <2> QED BY <2>2, <2>3, <2>4
<1> QED BY <1>1, <1>2, <1>3

\* What the packet thread does to the file and to its access unit.
LEMMA UnitsMove ==
    ASSUME MediaTypes, StopsInOrder, MuxersFollow, VideoStep, ~video'.failed,
           \/ ~mp4.fatal /\ ~mp4'.fatal
           \/ ~(video'.at \in {"net_test", "net_push"} /\ ~video'.ok)
    PROVE  \/ /\ VideoMp4 /\ LastPart /\ mp4'.video = Append(mp4.video, video.unit)
              /\ video'.unit = video.unit /\ UnitBetween = <<>>
              /\ UnitBetween' = <<video.unit>>
           \/ /\ VideoNetPush /\ LastPart /\ mp4'.video = mp4.video /\ video.ok
              /\ video'.unit = video.unit + 1 /\ UnitBetween = <<video.unit>>
              /\ UnitBetween' = <<>>
           \/ /\ VideoNetPush /\ ~LastPart /\ mp4'.video = mp4.video /\ video.ok
              /\ video'.unit = video.unit /\ UnitBetween = <<>> /\ UnitBetween' = <<>>
           \/ /\ VideoTake \/ VideoEnds \/ VideoNetTest \/ (VideoMp4 /\ ~LastPart)
              /\ mp4'.video = mp4.video /\ video'.unit = video.unit
              /\ UnitBetween' = UnitBetween
<1>1. video \in VideoRecord /\ mp4 \in Mp4Record
  BY DEF MediaTypes, VideoTypes, MuxerTypes
<1>2. CASE VideoTake \/ VideoEnds
  <2>1. video.at = "pop" /\ video'.at \notin {"net_test", "net_push"}
        /\ video'.unit = video.unit /\ mp4' = mp4
    <3>1. CASE VideoTake
      <4>1. /\ video.at = "pop" /\ mp4' = mp4
            /\ \/ video' = [video EXCEPT !.at = "mp4", !.ok = TRUE]
               \/ video' = [video EXCEPT !.at = "mp4", !.ok = FALSE]
        BY <3>1 DEF VideoTake, muxVars
      <4>2. video'.at = "mp4" /\ video'.unit = video.unit  BY <1>1, <4>1 DEF VideoRecord
      <4> QED BY <4>1, <4>2
    <3>2. CASE VideoEnds  BY <1>1, <3>2 DEF VideoEnds, VideoRecord, muxVars
    <3> QED BY <1>2, <3>1, <3>2
  <2> QED BY <1>2, <2>1 DEF UnitBetween, Between
<1>3. CASE VideoNetTest
  <2>1. video.at = "net_test" /\ video'.at = "net_push" /\ video'.unit = video.unit
        /\ video'.part = video.part /\ mp4' = mp4
    BY <1>1, <1>3 DEF VideoNetTest, VideoDone, VideoRecord, muxVars
  <2> QED BY <1>3, <2>1 DEF UnitBetween, Between, LastPart
<1>4. CASE VideoMp4
  <2>1. PICK result \in BOOLEAN :
            /\ Mp4Write(video.unit, LastPart, result)
            /\ video' = [video EXCEPT !.at = "net_test", !.ok = @ /\ result]
    BY <1>4 DEF VideoMp4
  <2>2. video.at = "mp4" /\ video'.at = "net_test" /\ video'.unit = video.unit
        /\ video'.part = video.part /\ (video'.ok => result)
    BY <1>1, <1>4, <2>1 DEF VideoMp4, VideoRecord
  <2>3. ~Mp4Refuses /\ result
    <3>1. ~mp4.fatal => ~Mp4Refuses  BY <2>2 DEF Mp4Refuses, StopsInOrder, MuxersFollow
    <3>2. CASE ~mp4.fatal /\ ~mp4'.fatal
      BY <1>1, <2>1, <3>1, <3>2 DEF Mp4Write, Mp4Record
    <3>3. CASE video'.ok  BY <2>1, <2>2, <3>3 DEF Mp4Write
    <3> QED BY <2>2, <3>2, <3>3
  <2>4. mp4' = IF LastPart THEN [mp4 EXCEPT !.pending = 0, !.video = Append(@, video.unit)]
                           ELSE [mp4 EXCEPT !.pending = video.unit]
    BY <2>1, <2>3 DEF Mp4Write
  <2>5. CASE LastPart
    <3>1. mp4'.video = Append(mp4.video, video.unit)  BY <1>1, <2>4, <2>5 DEF Mp4Record
    <3> QED BY <1>4, <2>2, <2>5, <3>1 DEF UnitBetween, Between, LastPart
  <2>6. CASE ~LastPart
    <3>1. mp4'.video = mp4.video  BY <1>1, <2>4, <2>6 DEF Mp4Record
    <3> QED BY <1>4, <2>2, <2>6, <3>1 DEF UnitBetween, Between, LastPart
  <2> QED BY <2>5, <2>6
<1>5. CASE VideoNetPush
  <2>1. mp4' = mp4 /\ video.at = "net_push" /\ VideoDone(TRUE) /\ video.ok
    <3>1. PICK result \in BOOLEAN : VideoDone(video.ok /\ result)
      BY <1>5 DEF VideoNetPush
    <3>2. video.ok /\ result  BY <1>1, <3>1 DEF VideoDone, VideoRecord
    <3> QED BY <1>5, <3>1, <3>2 DEF VideoNetPush
  <2>2. CASE LastPart
    <3>1. video'.at = "pop" /\ video'.unit = video.unit + 1
      BY <1>1, <2>1, <2>2 DEF VideoDone, VideoRecord
    <3> QED BY <1>5, <2>1, <2>2, <3>1 DEF UnitBetween, Between
  <2>3. CASE ~LastPart
    <3>1. video'.at = "pop" /\ video'.unit = video.unit
      BY <1>1, <2>1, <2>3 DEF VideoDone, VideoRecord
    <3> QED BY <1>5, <2>1, <2>3, <3>1 DEF UnitBetween, Between
  <2> QED BY <2>2, <2>3
<1> QED BY <1>2, <1>3, <1>4, <1>5 DEF VideoStep

\* The access units reach the MP4 output, each once its last fragment has come.
LEMMA VideoReachesMp4Kept ==
    ASSUME MediaTypes, StopsInOrder, EndsDrained, MuxersFollow, VideoReachesMp4,
           [MediaNext]_mediaVars
    PROVE  VideoReachesMp4'
<1> DEFINE Failed == video.failed \/ mp4.fatal
           n == Len(mp4.video)
           u == video.unit
<1>1. Failed => Failed'  BY FailuresStay
<1>2. CASE Failed  BY <1>1, <1>2 DEF VideoReachesMp4
<1>3. CASE Failed'  BY <1>3 DEF VideoReachesMp4
<1>4. CASE ~Failed /\ ~Failed'
  <2>1. n = u - 1 + Len(UnitBetween) /\ u \in Nat /\ n \in Nat /\ mp4.video \in Seq(Nat)
    BY <1>4 DEF VideoReachesMp4, MediaTypes, VideoTypes, VideoRecord, MuxerTypes, Mp4Record
  <2>2. Len(<<>>) = 0 /\ Len(<<u>>) = 1 /\ Len(Append(mp4.video, u)) = n + 1
    BY <2>1, AppendProperties
  <2>3. CASE VideoStep
    <3>1. \/ Len(mp4'.video) = n + 1 /\ video'.unit = u /\ Len(UnitBetween) = 0
             /\ Len(UnitBetween') = 1
          \/ Len(mp4'.video) = n /\ video'.unit = u + 1 /\ Len(UnitBetween) = 1
             /\ Len(UnitBetween') = 0
          \/ Len(mp4'.video) = n /\ video'.unit = u /\ Len(UnitBetween) = 0
             /\ Len(UnitBetween') = 0
          \/ Len(mp4'.video) = n /\ video'.unit = u /\ UnitBetween' = UnitBetween
      BY <1>4, <2>2, <2>3, UnitsMove
    <3> HIDE DEF n, u
    <3>2. Len(mp4'.video) = video'.unit - 1 + Len(UnitBetween')
      <4>1. CASE Len(mp4'.video) = n + 1 /\ video'.unit = u /\ Len(UnitBetween) = 0
                 /\ Len(UnitBetween') = 1
        BY <2>1, <4>1
      <4>2. CASE Len(mp4'.video) = n /\ video'.unit = u + 1 /\ Len(UnitBetween) = 1
                 /\ Len(UnitBetween') = 0
        BY <2>1, <4>2
      <4>3. CASE Len(mp4'.video) = n /\ video'.unit = u /\ Len(UnitBetween) = 0
                 /\ Len(UnitBetween') = 0
        BY <2>1, <4>3
      <4>4. CASE Len(mp4'.video) = n /\ video'.unit = u /\ UnitBetween' = UnitBetween
        BY <2>1, <4>4
      <4> QED BY <3>1, <4>1, <4>2, <4>3, <4>4
    <3> QED BY <3>2 DEF VideoReachesMp4
  <2>4. CASE CaptureStep \/ EncodeStep \/ SinkStep \/ WorkerStep \/ StopPipeline
             \/ MainStep \/ UNCHANGED mediaVars
    BY <2>1, <2>4, VideoLeftAlone DEF VideoReachesMp4
  <2> QED BY <2>3, <2>4 DEF MediaNext
<1> QED BY <1>2, <1>3, <1>4

\* A unit that one of the sinks refused ends the packet thread.
LEMMA RefusalEnds ==
    ASSUME MediaTypes, VideoStep, ~video'.failed,
           ~(video'.at \in {"net_test", "net_push"} /\ ~video'.ok)
    PROVE  ~(video.at \in {"net_test", "net_push"} /\ ~video.ok)
<1>1. video \in VideoRecord  BY DEF MediaTypes, VideoTypes
<1>2. CASE VideoTake \/ VideoEnds \/ VideoMp4
  BY <1>1, <1>2 DEF VideoTake, VideoEnds, VideoMp4, VideoRecord
<1>3. CASE VideoNetTest  BY <1>1, <1>3 DEF VideoNetTest, VideoDone, VideoRecord
<1>4. CASE VideoNetPush
  <2>1. PICK result \in BOOLEAN : VideoDone(video.ok /\ result)
    BY <1>4 DEF VideoNetPush
  <2>2. video.ok  BY <1>1, <2>1 DEF VideoDone, VideoRecord
  <2> QED BY <2>2
<1> QED BY <1>2, <1>3, <1>4 DEF VideoStep

\* The access units reach the network stream in the order of the file.
LEMMA VideoReachesNetKept ==
    ASSUME MediaTypes, StopsInOrder, EndsDrained, MuxersFollow, VideoReachesNet,
           [MediaNext]_mediaVars
    PROVE  VideoReachesNet'
<1> DEFINE Declined == video.at \in {"net_test", "net_push"} /\ ~video.ok
           sent == net.video
           items == net.items
           file == mp4.video
           u == video.unit
<1>1. CASE video.failed \/ net.fatal \/ video'.failed \/ net'.fatal
  <2>1. video'.failed \/ net'.fatal  BY <1>1, FailuresStay
  <2> QED BY <2>1 DEF VideoReachesNet
<1>2. CASE Declined'  BY <1>2 DEF VideoReachesNet
<1>3. CASE ~(video.failed \/ net.fatal \/ video'.failed \/ net'.fatal) /\ ~Declined'
  <2>1. ~Declined
    <3>1. CASE VideoStep  BY <1>3, <3>1, RefusalEnds
    <3>2. CASE CaptureStep \/ EncodeStep \/ SinkStep \/ WorkerStep \/ StopPipeline
               \/ MainStep \/ UNCHANGED mediaVars
      <4>1. video' = video  BY <3>2, VideoLeftAlone
      <4> QED BY <1>3, <4>1
    <3> QED BY <3>1, <3>2 DEF MediaNext
  <2>2. PICK v \in Seq(Nat) : Carries(items, "video", v) /\ file = sent \o (v \o UnitBetween)
    BY <1>3, <2>1 DEF VideoReachesNet, VideoGoesTo
  <2>3. /\ sent \in Seq(Nat) /\ v \in Seq(Nat) /\ items \in Seq(Packets) /\ file \in Seq(Nat)
        /\ u \in Nat
    BY DEF MediaTypes, MuxerTypes, NetRecord, Mp4Record, VideoTypes, VideoRecord
  <2>4. UnitBetween \in Seq(Nat) /\ v \o UnitBetween \in Seq(Nat) /\ v \o <<>> = v
    <3>1. UnitBetween \in Seq(Nat)  BY <2>3 DEF UnitBetween
    <3> QED BY <2>3, <3>1, ConcatProperties, ConcatEmptySeq
  <2>5. ASSUME NEW b \in Seq(Nat), Carries(net'.items, "video", b),
               mp4'.video = net'.video \o (b \o UnitBetween')
        PROVE  VideoReachesNet'
    BY <2>5 DEF VideoReachesNet, VideoGoesTo
  <2>6. ASSUME net'.items = items, net'.video = sent, mp4'.video = file,
               UnitBetween' = UnitBetween
        PROVE  VideoReachesNet'
    BY <2>2, <2>5, <2>6
  <2>7. CASE VideoTake \/ VideoEnds \/ VideoNetTest \/ VideoMp4
    <3>1. net'.items = items /\ net'.video = sent  BY <2>7, StreamLeftAlone
    <3>2. \/ /\ file' = Append(file, u) /\ UnitBetween = <<>> /\ UnitBetween' = <<u>>
          \/ mp4'.video = file /\ UnitBetween' = UnitBetween
          \/ VideoNetPush
      BY <1>3, <2>7, UnitsMove DEF VideoStep
    <3>3. ~VideoNetPush
      BY <2>7 DEF VideoTake, VideoEnds, VideoNetTest, VideoMp4, VideoNetPush
    <3>4. CASE file' = Append(file, u) /\ UnitBetween = <<>> /\ UnitBetween' = <<u>>
      <4>1. file = sent \o v  BY <2>2, <2>4, <3>4
      <4>2. Append(sent \o v, u) = sent \o Append(v, u) /\ Append(v, u) = v \o <<u>>
        <5>1. sent \in Seq(Nat) /\ v \in Seq(Nat) /\ u \in Nat  BY <2>3
        <5> HIDE DEF sent, u
        <5>2. sent \o Append(v, u) = Append(sent \o v, u)  BY <5>1, AppendMoves
        <5>3. Append(v, u) = v \o <<u>>  BY <5>1, AppendIsConcat
        <5> QED BY <5>2, <5>3
      <4>3. mp4'.video = net'.video \o (v \o UnitBetween')  BY <3>1, <3>4, <4>1, <4>2
      <4>4. Carries(net'.items, "video", v)  BY <2>2, <3>1
      <4> QED BY <2>5, <4>3, <4>4
    <3> QED BY <2>6, <3>1, <3>2, <3>3, <3>4
  <2>8. CASE VideoNetPush
    <3>1. \/ /\ LastPart /\ mp4'.video = file /\ UnitBetween = <<u>> /\ UnitBetween' = <<>>
          \/ /\ ~LastPart /\ mp4'.video = file /\ UnitBetween' = UnitBetween
      <4>1. ~VideoMp4 /\ ~VideoTake /\ ~VideoEnds /\ ~VideoNetTest
        BY <2>8 DEF VideoTake, VideoEnds, VideoNetTest, VideoMp4, VideoNetPush
      <4> QED BY <1>3, <2>8, <4>1, UnitsMove DEF VideoStep
    <3>2. \/ ~LastPart /\ net'.items = items /\ net'.video = sent
          \/ LastPart /\ net'.items = Append(items, <<"video", u>>) /\ net'.video = sent
      BY <1>3, <2>8, VideoPushed
    <3>3. CASE ~LastPart  BY <2>6, <3>1, <3>2, <3>3
    <3>4. CASE LastPart
      <4>1. Carries(Append(items, <<"video", u>>), "video", Append(v, u))
        <5>1. items \in Seq(Packets) /\ v \in Seq(Nat) /\ u \in Nat /\ Carries(items, "video", v)
          BY <2>2, <2>3
        <5> HIDE DEF items, u
        <5> QED BY <5>1, CarriesOneMore
      <4>2. Append(v, u) = v \o <<u>> /\ Append(v, u) \in Seq(Nat)
            /\ Append(v, u) \o <<>> = Append(v, u)
        <5>1. v \in Seq(Nat) /\ u \in Nat  BY <2>3
        <5> HIDE DEF u
        <5> QED BY <5>1, AppendIsConcat, AppendProperties, ConcatEmptySeq
      <4>3. mp4'.video = net'.video \o (Append(v, u) \o UnitBetween')
        BY <2>2, <3>1, <3>2, <3>4, <4>2
      <4>4. Carries(net'.items, "video", Append(v, u))  BY <3>2, <3>4, <4>1
      <4> QED BY <2>5, <4>2, <4>3, <4>4
    <3> QED BY <3>3, <3>4
  <2>9. CASE SinkNetPush
    <3>1. mp4'.video = file /\ UnitBetween' = UnitBetween
      BY <2>9, VideoLeftAlone DEF SinkStep
    <3> DEFINE x == sinkWorker.item
    <3>2. net'.items = Append(items, <<"audio", x>>) /\ net'.video = sent
      BY <1>3, <2>9, AudioPushed
    <3>3. Carries(Append(items, <<"audio", x>>), "video", v)
      <4>1. items \in Seq(Packets) /\ v \in Seq(Nat) /\ x \in Nat /\ Carries(items, "video", v)
        BY <2>2, <2>3 DEF MediaTypes, AudioTypes, SinkRecord
      <4> HIDE DEF items, x
      <4>2. Carries(Append(items, <<"audio", x>>), "video",
                    IF "audio" = "video" THEN Append(v, x) ELSE v)
        BY <4>1, CarriesOneMore
      <4> QED BY <4>2
    <3>4. mp4'.video = net'.video \o (v \o UnitBetween')  BY <2>2, <3>1, <3>2
    <3> QED BY <2>5, <3>2, <3>3, <3>4
  <2>10. CASE NetSend
    <3>1. mp4'.video = file /\ UnitBetween' = UnitBetween
      BY <2>10, VideoLeftAlone DEF WorkerStep
    <3>2. items # <<>> /\ items \in Seq(Packets) /\ Carries(items, "video", v)
      BY <2>2, <2>10, PacketSent
    <3>3. IF Head(items)[1] = "video"
          THEN v # <<>> /\ Head(v) = Head(items)[2] /\ Carries(Tail(items), "video", Tail(v))
          ELSE Carries(Tail(items), "video", v)
      <4> HIDE DEF items
      <4> QED BY <2>3, <3>2, CarriesOneLess
    <3>4. \E n \in Nat :
             \/ /\ Head(items) = <<"video", n>>
                /\ net'.items = Tail(items) /\ net'.video = Append(sent, n)
             \/ /\ Head(items) = <<"audio", n>>
                /\ net'.items = Tail(items) /\ net'.video = sent
      BY <1>3, <2>10, PacketSent
    <3>5. PICK n \in Nat :
             \/ /\ Head(items) = <<"video", n>>
                /\ net'.items = Tail(items) /\ net'.video = Append(sent, n)
             \/ /\ Head(items) = <<"audio", n>>
                /\ net'.items = Tail(items) /\ net'.video = sent
      BY <3>4
    <3>6. CASE Head(items) = <<"audio", n>> /\ net'.items = Tail(items) /\ net'.video = sent
      <4>1. Head(items)[1] = "audio"  BY <3>6
      <4>2. Carries(net'.items, "video", v)  BY <3>3, <3>6, <4>1
      <4>3. mp4'.video = net'.video \o (v \o UnitBetween')  BY <2>2, <3>1, <3>6
      <4> QED BY <2>5, <4>2, <4>3
    <3>7. CASE Head(items) = <<"video", n>> /\ net'.items = Tail(items)
               /\ net'.video = Append(sent, n)
      <4>1. Head(items)[1] = "video" /\ Head(items)[2] = n  BY <3>7
      <4>2. v # <<>> /\ Head(v) = n /\ Carries(net'.items, "video", Tail(v))
        BY <3>3, <3>7, <4>1
      <4> DEFINE t == Tail(v)
      <4>3. sent \in Seq(Nat) /\ n \in Nat /\ t \in Seq(Nat) /\ UnitBetween \in Seq(Nat)
        BY <2>3, <2>4, <4>2, HeadTailProperties
      <4>4. v = <<n>> \o t  BY <2>3, <4>2, HeadMoves
      <4>5. Append(sent, n) \o (t \o UnitBetween) = sent \o ((<<n>> \o t) \o UnitBetween)
        <5> HIDE DEF sent, t
        <5> DEFINE tr == t \o UnitBetween
        <5>1. <<n>> \in Seq(Nat) /\ tr \in Seq(Nat)  BY <4>3, ConcatProperties
        <5>2. (<<n>> \o t) \o UnitBetween = <<n>> \o tr
          <6>1. <<n>> \in Seq(Nat) /\ t \in Seq(Nat) /\ UnitBetween \in Seq(Nat)
            BY <4>3, <5>1
          <6> QED BY <6>1, ConcatAssociative
        <5>3. sent \in Seq(Nat) /\ n \in Nat /\ tr \in Seq(Nat)  BY <4>3, <5>1
        <5> HIDE DEF tr
        <5>4. Append(sent, n) \o tr = sent \o (<<n>> \o tr)  BY <5>3, AppendMoves
        <5> QED BY <5>2, <5>4 DEF tr
      <4>6. mp4'.video = net'.video \o (t \o UnitBetween')
        BY <2>2, <3>1, <3>7, <4>4, <4>5
      <4>7. Carries(net'.items, "video", t) /\ t \in Seq(Nat)  BY <4>2, <4>3
      <4> HIDE DEF t
      <4> QED BY <2>5, <4>6, <4>7
    <3> QED BY <3>5, <3>6, <3>7
  <2>11. CASE \/ CaptureStep \/ EncodeStep \/ SinkTake \/ SinkEnds \/ SinkMp4 \/ SinkNetTest
              \/ NetDrained \/ NetPendingTest \/ NetTrailer \/ StopPipeline \/ MainStep
              \/ UNCHANGED mediaVars
    <3>1. net'.items = items /\ net'.video = sent  BY <2>11, StreamLeftAlone
    <3>2. mp4'.video = file /\ UnitBetween' = UnitBetween
      BY <2>11, VideoLeftAlone DEF SinkStep, WorkerStep
    <3> QED BY <2>6, <3>1, <3>2
  <2> QED
    BY <2>7, <2>8, <2>9, <2>10, <2>11 DEF MediaNext, SinkStep, VideoStep, WorkerStep
<1> QED BY <1>1, <1>2, <1>3

--------------------------------------------------------------------------------
(* The invariant, and what it says when all has stopped                     *)

\* It holds when everything starts.
LEMMA MediaStarts == MediaInit => MediaInv
<1> SUFFICES ASSUME MediaInit PROVE MediaInv  OBVIOUS
<1> USE DEF MediaInit
<1>1. MediaTypes
  <2>1. <<>> \in Seq(Nat) /\ <<>> \in Seq(Packets)  OBVIOUS
  <2>2. QueueTypes  BY <2>1 DEF QueueTypes, PathQueue
  <2>3. AudioTypes  BY <2>1 DEF AudioTypes, CaptureRecord, EncodeRecord, SinkRecord
  <2>4. VideoTypes  BY DEF VideoTypes, VideoRecord
  <2>5. MuxerTypes  BY <2>1 DEF MuxerTypes, Mp4Record, NetRecord
  <2>6. RuntimeTypes  BY <2>1 DEF RuntimeTypes
  <2> QED BY <2>2, <2>3, <2>4, <2>5, <2>6 DEF MediaTypes
<1>2. StopsInOrder /\ EndsDrained /\ MuxersFollow
  BY DEF StopsInOrder, EndsDrained, MuxersFollow
<1>3. \A places : "pop" \notin places => InHand(places) = <<>>  BY DEF InHand
<1>4. Behind = <<>> /\ <<>> \o <<>> = <<>>
  <2>1. <<>> \o <<>> = <<>>  OBVIOUS
  <2> QED BY <2>1 DEF Behind
<1>5. AudioReachesMp4  BY <1>3, <1>4 DEF AudioReachesMp4
<1>6. AudioReachesNet
  <2>1. <<>> \in Seq(Nat) /\ Carries(net.items, "audio", <<>>)  BY CarriesNothing
  <2>2. AudioGoesTo(<<>>)  BY <1>3, <1>4 DEF AudioGoesTo
  <2> QED BY <2>1, <2>2 DEF AudioReachesNet
<1>7. UnitBetween = <<>>  BY DEF UnitBetween, Between
<1>8. VideoReachesMp4  BY <1>7 DEF VideoReachesMp4
<1>9. VideoReachesNet
  <2>1. <<>> \in Seq(Nat) /\ Carries(net.items, "video", <<>>)  BY CarriesNothing
  <2>2. VideoGoesTo(<<>>)  BY <1>4, <1>7 DEF VideoGoesTo
  <2> QED BY <2>1, <2>2 DEF VideoReachesNet
<1>10. NetCounts  BY DEF NetCounts
<1> QED BY <1>1, <1>2, <1>5, <1>6, <1>8, <1>9, <1>10 DEF MediaInv

\* Every step keeps it.
LEMMA MediaSteps == MediaInv /\ [MediaNext]_mediaVars => MediaInv'
<1> SUFFICES ASSUME MediaInv, [MediaNext]_mediaVars PROVE MediaInv'  OBVIOUS
<1> USE DEF MediaInv
<1>1. MediaTypes'  BY TypesStep
<1>2. StopsInOrder' /\ EndsDrained' /\ MuxersFollow'
  BY StopsInOrderKept, EndsDrainedKept, MuxersFollowKept
<1>3. AudioReachesMp4' /\ AudioReachesNet'  BY AudioReachesMp4Kept, AudioReachesNetKept
<1>4. VideoReachesMp4' /\ VideoReachesNet' /\ NetCounts'
  BY VideoReachesMp4Kept, VideoReachesNetKept, NetCountsKept
<1> QED BY <1>1, <1>2, <1>3, <1>4

\* When all threads have ended nothing is on its way any more.
LEMMA NothingOnItsWay ==
    ASSUME MediaInv, sinkWorker.at = "ended", encode.at = "ended", video.at = "ended"
    PROVE  /\ \A places : "ended" \notin places => InHand(places) = <<>>
           /\ ~encode.fatal /\ ~sinkWorker.fatal => Behind = <<>>
           /\ UnitBetween = <<>>
<1>1. \A places : "ended" \notin places => InHand(places) = <<>>  BY DEF InHand
<1>2. ASSUME ~encode.fatal, ~sinkWorker.fatal PROVE Behind = <<>>
  <2>1. aacQueue.items = <<>> /\ encode.out = <<>> /\ encode.inside = <<>>
        /\ pcmQueue.items = <<>>
    BY <1>2 DEF MediaInv, EndsDrained
  <2>2. <<>> \o <<>> = <<>>  OBVIOUS
  <2> QED BY <2>1, <2>2 DEF Behind
<1>3. UnitBetween = <<>>  BY DEF UnitBetween, Between
<1> QED BY <1>1, <1>2, <1>3

\* The invariant says what the shutdown promises.
LEMMA InvariantKeepsMedia == MediaInv => MediaKept
<1> SUFFICES ASSUME MediaInv PROVE MediaKept  OBVIOUS
<1>1. NoSilentLoss
  <2> SUFFICES ASSUME runtime = "done"
               PROVE  /\ mp4.audio = accepted \/ encode.fatal \/ sinkWorker.fatal \/ mp4.fatal
                      /\ net.audio = accepted \/ encode.fatal \/ sinkWorker.fatal \/ net.fatal
                      /\ Len(mp4.video) = video.unit - 1 \/ video.failed \/ mp4.fatal
                      /\ mp4.video = net.video \/ video.failed \/ net.fatal
                      /\ Len(net.audio) + Len(net.video) = net.queued \/ net.fatal
                      /\ mp4.finalized \/ mp4.fatal
                      /\ net.finalized \/ net.fatal
    BY DEF NoSilentLoss
  <2>1. /\ sinkWorker.at = "ended" /\ encode.at = "ended" /\ video.at = "ended"
        /\ netWorker = "ended" /\ (net.fatal \/ net.items = <<>>)
        /\ mp4.finalized \/ mp4.fatal
        /\ net.finalized \/ net.fatal
    BY DEF MediaInv, StopsInOrder, MuxersFollow
  <2>2. /\ mp4.audio \in Seq(Nat) /\ mp4.video \in Seq(Nat)
        /\ net.audio \in Seq(Nat) /\ net.video \in Seq(Nat) /\ video.unit \in Nat
    BY DEF MediaInv, MediaTypes, MuxerTypes, Mp4Record, NetRecord, VideoTypes, VideoRecord
  <2>3. <<>> \o <<>> = <<>> /\ mp4.audio \o <<>> = mp4.audio /\ net.audio \o <<>> = net.audio
        /\ net.video \o <<>> = net.video /\ Len(<<>>) = 0
    BY <2>2, ConcatEmptySeq
  <2>4. mp4.audio = accepted \/ encode.fatal \/ sinkWorker.fatal \/ mp4.fatal
    BY <2>1, <2>3, NothingOnItsWay DEF MediaInv, AudioReachesMp4
  <2>5. net.audio = accepted \/ encode.fatal \/ sinkWorker.fatal \/ net.fatal
    <3> SUFFICES ASSUME ~(encode.fatal \/ sinkWorker.fatal \/ net.fatal)
                 PROVE  net.audio = accepted
      OBVIOUS
    <3>1. PICK a \in Seq(Nat) : Carries(net.items, "audio", a) /\ AudioGoesTo(a)
      BY DEF MediaInv, AudioReachesNet
    <3>2. a = <<>>  BY <2>1, <3>1, CarriesNothing
    <3> QED BY <2>1, <2>3, <3>1, <3>2, NothingOnItsWay DEF AudioGoesTo
  <2>6. Len(mp4.video) = video.unit - 1 \/ video.failed \/ mp4.fatal
    BY <2>1, <2>2, <2>3, NothingOnItsWay DEF MediaInv, VideoReachesMp4
  <2>7. mp4.video = net.video \/ video.failed \/ net.fatal
    <3> SUFFICES ASSUME ~(video.failed \/ net.fatal)
                 PROVE  mp4.video = net.video
      OBVIOUS
    <3>1. PICK v \in Seq(Nat) : Carries(net.items, "video", v) /\ VideoGoesTo(v)
      BY <2>1 DEF MediaInv, VideoReachesNet
    <3>2. v = <<>>  BY <2>1, <3>1, CarriesNothing
    <3> QED BY <2>1, <2>3, <3>1, <3>2, NothingOnItsWay DEF VideoGoesTo
  <2>8. Len(net.audio) + Len(net.video) = net.queued \/ net.fatal
    <3>1. CASE net.items = <<>> /\ ~net.fatal
      <4> DEFINE a == Len(net.audio)
                 v == Len(net.video)
                 i == Len(net.items)
                 q == net.queued
      <4>1. a + v + i = q  BY <3>1 DEF MediaInv, NetCounts
      <4>2. a \in Nat /\ v \in Nat /\ i = 0  BY <2>2, <2>3, <3>1
      <4> HIDE DEF a, v, i, q
      <4>3. a + v = q  BY <4>1, <4>2
      <4> QED BY <4>3 DEF a, v, q
    <3> QED BY <2>1, <3>1
  <2> QED BY <2>1, <2>4, <2>5, <2>6, <2>7, <2>8
<1>2. TrailerAfterDrain
  <2> SUFFICES ASSUME mp4.finalized \/ (netWorker \in {"trailer", "ended"} /\ ~net.fatal)
               PROVE  /\ capture.at = "ended" /\ encode.at = "ended"
                      /\ sinkWorker.at = "ended" /\ video.at = "ended"
                      /\ encode.inside = <<>> \/ encode.fatal
                      /\ aacQueue.items = <<>> \/ sinkWorker.fatal
    BY DEF TrailerAfterDrain
  <2>1. runtime \in {"finalized", "net", "done"}  BY DEF MediaInv, MuxersFollow
  <2>2. capture.at = "ended" /\ encode.at = "ended" /\ sinkWorker.at = "ended"
        /\ video.at = "ended"
    BY <2>1 DEF MediaInv, StopsInOrder
  <2> QED BY <2>2 DEF MediaInv, EndsDrained
<1> QED BY <1>1, <1>2 DEF MediaKept

\* The inductive invariant: each chunk that was accepted lies in one of the
\* places between the PCM queue and the muxers, in order, unless a failure was
\* reported, and each access unit of the file in one of those before the network
\* (AudioCaptureWorker, AudioEncodeWorker, EncodedAudioSinkWorker, the packet
\* thread, FfmpegMpegTsUdpSink's worker and RunRuntime's shutdown).
THEOREM MediaInvariant == MediaSpec => []MediaInv
<1>1. MediaInit => MediaInv  BY MediaStarts
<1>2. MediaInv /\ [MediaNext]_mediaVars => MediaInv'  BY MediaSteps
<1> QED BY <1>1, <1>2, PTL DEF MediaSpec

\* Nothing that was accepted is lost in silence by the shutdown, and a trailer is
\* written only when everybody who writes to the file or to the stream has ended.
THEOREM NothingLostInSilence == MediaSpec => []MediaKept
<1>1. MediaInv => MediaKept  BY InvariantKeepsMedia
<1> QED BY <1>1, MediaInvariant, PTL

--------------------------------------------------------------------------------
(* Inductions                                                               *)

\* Every set of natural numbers has a least one.
LEMMA LeastNumber ==
    ASSUME NEW T, T \subseteq Nat, T # {}
    PROVE  \E x \in T : \A y \in T : x <= y
<1> DEFINE R == OpToRel(<, Nat)
<1>1. \E x \in T : \A y \in T : ~(<<y, x>> \in R)
  <2>1. IsWellFoundedOn(R, Nat)  BY NatLessThanWellFounded
  <2> HIDE DEF R
  <2> QED BY <2>1, WFMin
<1>2. \A y, x \in Nat : y < x => <<y, x>> \in R  BY DEF OpToRel
<1> HIDE DEF R
<1>3. PICK x \in T : \A y \in T : ~(<<y, x>> \in R)  BY <1>1
<1>4. \A y \in T : ~(y < x)  BY <1>2, <1>3
<1> QED BY <1>4

\* Induction: a set that holds 1, and with a number the next, holds all from 1 on.
LEMMA CountsUp ==
    ASSUME NEW S, 1 \in S, \A n \in Nat \ {0} : n \in S => n + 1 \in S
    PROVE  \A n \in Nat \ {0} : n \in S
<1> SUFFICES ASSUME \E n \in Nat \ {0} : n \notin S PROVE FALSE  OBVIOUS
<1>1. PICK n \in (Nat \ {0}) \ S : \A m \in (Nat \ {0}) \ S : n <= m  BY LeastNumber
<1>2. n # 1 /\ n - 1 \in Nat \ {0}  OBVIOUS
<1>3. n - 1 \in S  BY <1>1, <1>2
<1> QED BY <1>2, <1>3

\* Induction up to a bound, from 0.
LEMMA CountsTo ==
    ASSUME NEW n \in Nat, NEW S, 0 \in S, \A i \in 1..n : i - 1 \in S => i \in S
    PROVE  \A i \in 0..n : i \in S
<1> SUFFICES ASSUME \E i \in 0..n : i \notin S PROVE FALSE  OBVIOUS
<1>1. PICK i \in (0..n) \ S : \A j \in (0..n) \ S : i <= j
  <2>1. (0..n) \ S \subseteq Nat /\ (0..n) \ S # {}  OBVIOUS
  <2> QED BY <2>1, LeastNumber
<1>2. i # 0 /\ i \in 1..n  BY <1>1
<1>3. i - 1 \in 0..n  BY <1>2
<1>4. i - 1 \in S  BY <1>1, <1>2, <1>3
<1> QED BY <1>1, <1>2, <1>4

Stepwise(g, n, base, step) == g[0] = base /\ \A i \in 1..n : g[i] = step[i][g[i - 1]]

\* A function is defined by its value at 0 and by the step from each value to the next.
LEMMA StepsExist ==
    ASSUME NEW n \in Nat, NEW V, NEW base \in V, NEW step \in [1..n -> [V -> V]]
    PROVE  \E g \in [0..n -> V] : Stepwise(g, n, base, step)
<1> DEFINE Steps(g, m) == Stepwise(g, m, base, step)
           S == {m \in 0..n : \E g \in [0..m -> V] : Steps(g, m)}
<1>1. 0 \in S
  <2>1. [i \in 0..0 |-> base] \in [0..0 -> V] /\ Steps([i \in 0..0 |-> base], 0) /\ 0 \in 0..n
    BY DEF Stepwise
  <2> QED BY <2>1
<1>2. ASSUME NEW m \in 1..n, m - 1 \in S PROVE m \in S
  <2>1. PICK g \in [0..m - 1 -> V] : Steps(g, m - 1)  BY <1>2
  <2> DEFINE h == [i \in 0..m |-> IF i < m THEN g[i] ELSE step[m][g[m - 1]]]
  <2>2. g[m - 1] \in V /\ step[m] \in [V -> V] /\ m - 1 \in 0..m - 1  OBVIOUS
  <2>3. step[m][g[m - 1]] \in V  BY <2>2
  <2>4. h \in [0..m -> V]  BY <2>3
  <2>5. /\ h[0] = g[0] /\ h[m] = step[m][g[m - 1]] /\ h[m - 1] = g[m - 1]
        /\ \A i \in 1..m - 1 : h[i] = g[i] /\ h[i - 1] = g[i - 1]
    OBVIOUS
  <2>6. g[0] = base /\ \A i \in 1..m - 1 : g[i] = step[i][g[i - 1]]
    BY <2>1 DEF Stepwise
  <2> HIDE DEF h
  <2>7. \A i \in 1..m : h[i] = step[i][h[i - 1]]
    <3>1. ASSUME NEW i \in 1..m PROVE h[i] = step[i][h[i - 1]]
      <4>1. CASE i = m  BY <2>5, <4>1
      <4>2. CASE i # m
        <5>1. i \in 1..m - 1  BY <4>2
        <5> QED BY <2>5, <2>6, <5>1
      <4> QED BY <4>1, <4>2
    <3> QED BY <3>1
  <2>8. Steps(h, m)  BY <2>5, <2>6, <2>7 DEF Stepwise
  <2>9. m \in 0..n  OBVIOUS
  <2> QED BY <2>4, <2>8, <2>9
<1>3. n \in S
  <2> HIDE DEF S
  <2>1. \A i \in 0..n : i \in S  BY <1>1, <1>2, CountsTo
  <2>2. n \in 0..n  OBVIOUS
  <2> QED BY <2>1, <2>2
<1> QED BY <1>3

--------------------------------------------------------------------------------
(* The sample clock                                                         *)

\* A quotient of whole numbers and what it leaves.
LEMMA QuotientIs ==
    ASSUME NEW a \in Int, NEW b \in Nat \ {0}
    PROVE  /\ a \div b \in Int /\ a % b \in Int /\ 0 <= a % b /\ a % b < b
           /\ a = b * (a \div b) + (a % b)
  OBVIOUS

\* Of two products with a factor that is the same, the smaller has the smaller other factor.
LEMMA FactorLess ==
    ASSUME NEW d \in Nat \ {0}, NEW x \in Int, NEW y \in Int, d * x < d * y
    PROVE  x < y
<1> SUFFICES ASSUME y <= x PROVE FALSE  OBVIOUS
<1>1. PICK w \in Nat : x = y + w
  <2>1. x - y \in Nat /\ x = y + (x - y)  OBVIOUS
  <2> QED BY <2>1
<1>2. d * x = d * y + d * w  BY <1>1
<1>3. d * w >= 0 /\ d * w \in Int /\ d * x \in Int /\ d * y \in Int  OBVIOUS
<1>4. \A p, q, r \in Int : p = q + r /\ r >= 0 => ~(p < q)  OBVIOUS
<1> QED BY <1>2, <1>3, <1>4

\* A larger number has no smaller quotient.
LEMMA QuotientRises ==
    ASSUME NEW a \in Int, NEW c \in Int, a <= c, NEW b \in Nat \ {0}
    PROVE  a \div b <= c \div b
<1> DEFINE x == a \div b
           y == c \div b
           r == a % b
           s == c % b
<1>1. /\ x \in Int /\ r \in Int /\ 0 <= r /\ a = b * x + r
      /\ y \in Int /\ s \in Int /\ s < b /\ c = b * y + s
  BY QuotientIs
<1> HIDE DEF x, y, r, s
<1>2. b * (y + 1) = b * y + b  BY <1>1
<1>3. b * x \in Int /\ b * y \in Int /\ b \in Int /\ b * (y + 1) \in Int  BY <1>1
<1>4. \A p, q, i, j, k \in Int :
          /\ 0 <= r /\ s < b /\ p = i + r /\ q = j + s /\ p <= q /\ k = j + b => i < k
  BY <1>1
<1>5. b * x < b * (y + 1)  BY <1>1, <1>2, <1>3, <1>4
<1>6. x < y + 1  BY <1>1, <1>5, FactorLess
<1>7. x <= y  BY <1>1, <1>6
<1> QED BY <1>7 DEF x, y

\* The rate of the samples.
LEMMA RateIs ==
    /\ NsNum \in Nat \ {0} /\ NsDen \in Nat \ {0} /\ NsNum >= 2 * NsDen
    /\ FrameSize \in Nat /\ FrameSize > 1
  BY TimelineAssumption

\* What rounding to the nearest is off by, and that it keeps the order.
LEMMA RoundedQuotientIs ==
    ASSUME NEW a \in Int, NEW b \in Nat \ {0}
    PROVE  /\ RoundedQuotient(a, b) \in Int
           /\ 2 * (b * RoundedQuotient(a, b)) <= 2 * a + b
           /\ 2 * a - b <= 2 * (b * RoundedQuotient(a, b))
           /\ a >= 0 => 2 * a - b < 2 * (b * RoundedQuotient(a, b))
<1>1. 2 * b \in Nat \ {0}  OBVIOUS
<1>2. CASE a >= 0
  <2> DEFINE k == (2 * a + b) \div (2 * b)
             r == (2 * a + b) % (2 * b)
  <2>1. k \in Int /\ r \in Int /\ 0 <= r /\ r < 2 * b /\ 2 * a + b = (2 * b) * k + r
    <3>1. 2 * a + b \in Int  OBVIOUS
    <3> QED BY <1>1, <3>1, QuotientIs
  <2>2. RoundedQuotient(a, b) = k  BY <1>2 DEF RoundedQuotient
  <2> HIDE DEF k, r
  <2>3. (2 * b) * k = 2 * (b * k) /\ b * k \in Int  BY <2>1
  <2> QED BY <2>1, <2>2, <2>3
<1>3. CASE a < 0
  <2> DEFINE k == (b - 2 * a) \div (2 * b)
             r == (b - 2 * a) % (2 * b)
  <2>1. k \in Int /\ r \in Int /\ 0 <= r /\ r < 2 * b /\ b - 2 * a = (2 * b) * k + r
    <3>1. b - 2 * a \in Int  OBVIOUS
    <3> QED BY <1>1, <3>1, QuotientIs
  <2>2. RoundedQuotient(a, b) = -k  BY <1>3 DEF RoundedQuotient
  <2> HIDE DEF k, r
  <2>3. (2 * b) * k = 2 * (b * k) /\ b * k \in Int /\ b * (-k) = -(b * k) /\ -k \in Int
    BY <2>1
  <2> QED BY <1>3, <2>1, <2>2, <2>3
<1> QED BY <1>2, <1>3

LEMMA RoundedQuotientRises ==
    ASSUME NEW a \in Int, NEW c \in Int, a <= c, NEW b \in Nat \ {0}
    PROVE  RoundedQuotient(a, b) <= RoundedQuotient(c, b)
<1>1. 2 * b \in Nat \ {0}  OBVIOUS
<1>2. /\ 2 * a + b \in Int /\ 2 * c + b \in Int /\ 2 * a + b <= 2 * c + b
      /\ b - 2 * a \in Int /\ b - 2 * c \in Int /\ b - 2 * c <= b - 2 * a
  OBVIOUS
<1>3. /\ (2 * a + b) \div (2 * b) <= (2 * c + b) \div (2 * b)
      /\ (b - 2 * c) \div (2 * b) <= (b - 2 * a) \div (2 * b)
  BY <1>1, <1>2, QuotientRises
<1>4. ASSUME NEW y \in Int, y >= 0 PROVE y \div (2 * b) >= 0
  <2>1. 0 \div (2 * b) = 0  BY <1>1
  <2>2. 0 \div (2 * b) <= y \div (2 * b)  BY <1>1, <1>4, QuotientRises
  <2> QED BY <2>1, <2>2
<1>5. \A y \in Int : y \div (2 * b) \in Int  BY <1>1, QuotientIs
<1>6. CASE a >= 0  BY <1>3, <1>6 DEF RoundedQuotient
<1>7. CASE a < 0 /\ c < 0  BY <1>2, <1>3, <1>5, <1>7 DEF RoundedQuotient
<1>8. CASE a < 0 /\ c >= 0
  <2>1. (b - 2 * a) \div (2 * b) >= 0 /\ (2 * c + b) \div (2 * b) >= 0
    BY <1>2, <1>4, <1>8
  <2> QED BY <1>2, <1>5, <1>8, <2>1 DEF RoundedQuotient
<1> QED BY <1>6, <1>7, <1>8

\* The times of samples and of ticks.
LEMMA ClockTypes ==
    /\ \A n \in Nat : FramesToNs(n) \in Nat
    /\ FramesToNs(0) = 0
    /\ \A t \in Int : NsToTicks(t) \in Int /\ TicksToNs(t) \in Int
<1>1. ASSUME NEW n \in Nat PROVE FramesToNs(n) \in Nat
  <2>1. n * NsNum \in Int /\ 0 <= n * NsNum  BY RateIs
  <2>2. 0 \div NsDen = 0 /\ 0 \div NsDen <= (n * NsNum) \div NsDen
    BY <2>1, RateIs, QuotientRises
  <2>3. (n * NsNum) \div NsDen \in Int  BY <2>1, RateIs, QuotientIs
  <2> QED BY <2>2, <2>3 DEF FramesToNs
<1>2. FramesToNs(0) = 0  BY RateIs DEF FramesToNs
<1>3. ASSUME NEW t \in Int PROVE NsToTicks(t) \in Int /\ TicksToNs(t) \in Int
  <2>1. t * NsDen \in Int /\ t * NsNum \in Int  BY RateIs
  <2> QED BY <2>1, RateIs, RoundedQuotientIs DEF NsToTicks, TicksToNs
<1> QED BY <1>1, <1>2, <1>3

\* A later time has no earlier tick, and a later tick no earlier time.
LEMMA ClockRises ==
    ASSUME NEW s \in Int, NEW t \in Int, s <= t
    PROVE  NsToTicks(s) <= NsToTicks(t) /\ TicksToNs(s) <= TicksToNs(t)
<1>1. PICK d \in Nat : t = s + d
  <2>1. t - s \in Nat /\ t = s + (t - s)  OBVIOUS
  <2> QED BY <2>1
<1>2. ASSUME NEW c \in Nat PROVE s * c \in Int /\ t * c \in Int /\ s * c <= t * c
  <2>1. t * c = s * c + d * c /\ d * c >= 0 /\ d * c \in Int /\ s * c \in Int /\ t * c \in Int
    BY <1>1
  <2> QED BY <2>1
<1> QED BY <1>2, RateIs, RoundedQuotientRises DEF NsToTicks, TicksToNs

\* The tick of a sample that follows an anchor, however its offset is split.
LEMMA TickOfSample ==
    ASSUME NEW anchor \in Nat, NEW m \in Nat, NEW u \in Nat
    PROVE  NsToTicks(anchor + FramesToNs(m) + FramesToNs(u)) - NsToTicks(anchor)
               \in {m + u - 1, m + u}
<1> DEFINE p == NsNum
           q == NsDen
           f == FramesToNs(m)
           g == FramesToNs(u)
           y == anchor + f + g
           k == NsToTicks(y)
           j == NsToTicks(anchor)
           r == (m * p) % q
           s == (u * p) % q
<1>1. p \in Nat \ {0} /\ q \in Nat \ {0} /\ p >= 2 * q  BY RateIs
<1>2. f \in Nat /\ g \in Nat  BY ClockTypes
<1>3. y \in Nat  BY <1>2
<1>4. k \in Int /\ j \in Int  BY <1>3, ClockTypes
<1>5. m * p \in Int /\ u * p \in Int  BY <1>1
<1>6. /\ r \in Int /\ 0 <= r /\ r < q /\ m * p = q * f + r
      /\ s \in Int /\ 0 <= s /\ s < q /\ u * p = q * g + s
  BY <1>1, <1>5, QuotientIs DEF FramesToNs
<1>7. y * q \in Int /\ anchor * q \in Int /\ y * q >= 0 /\ anchor * q >= 0
  BY <1>1, <1>3
<1>8. /\ 2 * (p * k) <= 2 * (y * q) + p /\ 2 * (y * q) - p < 2 * (p * k)
      /\ 2 * (p * j) <= 2 * (anchor * q) + p /\ 2 * (anchor * q) - p < 2 * (p * j)
  BY <1>1, <1>7, RoundedQuotientIs DEF NsToTicks
<1>9. y * q = anchor * q + q * f + q * g  BY <1>1, <1>2
<1> HIDE DEF f, g, y, k, j, r, s, p, q
<1>10. m * p = p * m /\ u * p = p * u /\ p * (k - j - m - u) = p * k - p * j - p * m - p * u
  BY <1>1, <1>4
<1>11. p * k \in Int /\ p * j \in Int /\ p * m \in Int /\ p * u \in Int /\ q * f \in Int
       /\ q * g \in Int
  BY <1>1, <1>2, <1>4
<1>12. \A a, b, c, d, e, h, v, w \in Int :
          /\ 2 * a <= 2 * v + p /\ 2 * v - p < 2 * a
          /\ 2 * b <= 2 * w + p /\ 2 * w - p < 2 * b
          /\ c = e + r /\ d = h + s /\ v = w + e + h
          => a - b - c - d < p /\ -(2 * p) < a - b - c - d
  BY <1>1, <1>6
<1>13. p * (k - j - m - u) < p /\ -(2 * p) < p * (k - j - m - u)
  <2>1. p * m = q * f + r /\ p * u = q * g + s  BY <1>6, <1>10
  <2>2. /\ p * k - p * j - p * m - p * u < p
        /\ -(2 * p) < p * k - p * j - p * m - p * u
    BY <2>1, <1>7, <1>8, <1>9, <1>11, <1>12
  <2> QED BY <2>2, <1>10
<1>14. k - j - m - u \in Int /\ p * (k - j - m - u) < p * 1 /\ p * (-2) < p * (k - j - m - u)
  BY <1>1, <1>4, <1>13
<1>15. k - j - m - u < 1 /\ -2 < k - j - m - u  BY <1>1, <1>14, FactorLess
<1>16. k - j \in {m + u - 1, m + u}  BY <1>4, <1>15
<1> QED BY <1>16 DEF k, j, y, f, g

\* A time behind that of a sample has no earlier tick than the one counted from the
\* sample's anchor.
LEMMA TickBehind ==
    ASSUME NEW anchor \in Nat, NEW m \in Nat, NEW x \in Int, anchor + FramesToNs(m) < x
    PROVE  NsToTicks(anchor) + m <= NsToTicks(x)
<1> DEFINE p == NsNum
           q == NsDen
           f == FramesToNs(m)
           k == NsToTicks(x)
           j == NsToTicks(anchor)
           r == (m * p) % q
<1>1. p \in Nat \ {0} /\ q \in Nat \ {0}  BY RateIs
<1>2. f \in Nat /\ k \in Int /\ j \in Int  BY ClockTypes
<1>3. /\ m * p \in Int /\ x * q \in Int /\ anchor * q \in Int
      /\ x * q >= 0 /\ anchor * q >= 0
  <2>1. x \in Nat  BY <1>2
  <2> QED BY <1>1, <2>1
<1>4. r \in Int /\ 0 <= r /\ r < q /\ m * p = q * f + r
  BY <1>1, <1>3, QuotientIs DEF FramesToNs
<1>5. 2 * (x * q) - p < 2 * (p * k) /\ 2 * (p * j) <= 2 * (anchor * q) + p
  <2>1. k = RoundedQuotient(x * q, p) /\ j = RoundedQuotient(anchor * q, p)
    BY DEF NsToTicks
  <2>2. ASSUME NEW y \in Int, y >= 0, NEW t, t = RoundedQuotient(y, p)
        PROVE  2 * y - p < 2 * (p * t) /\ 2 * (p * t) <= 2 * y + p
    <3> HIDE DEF p
    <3> QED BY <1>1, <2>2, RoundedQuotientIs
  <2> HIDE DEF k, j, p, q
  <2> QED BY <1>3, <2>1, <2>2
<1>6. anchor + f < x  OBVIOUS
<1> HIDE DEF f, k, j, r, p, q
<1>7. x * q >= anchor * q + q * f + q /\ q * f \in Int
  <2>1. PICK d \in Nat : x = anchor + f + 1 + d
    <3>1. x - (anchor + f + 1) \in Nat /\ x = anchor + f + 1 + (x - (anchor + f + 1))
      BY <1>2, <1>6
    <3> QED BY <3>1
  <2>2. x * q = anchor * q + q * f + q + d * q /\ d * q >= 0 /\ d * q \in Int /\ q * f \in Int
    BY <1>1, <1>2, <2>1
  <2> QED BY <1>1, <1>3, <2>2
<1>8. /\ p * (j + m) = p * j + m * p /\ p * ((j + m) - 1) = p * j + m * p - p
      /\ p * j \in Int /\ p * k \in Int
  BY <1>1, <1>2
<1>9. \A u, v, w, y, z, o \in Int :
         /\ 2 * u - p < 2 * v /\ 2 * w <= 2 * y + p /\ z = o + r /\ u >= y + o + q
         => w + z - p < v
  BY <1>1, <1>4
<1>10. p * j + m * p - p < p * k  BY <1>3, <1>4, <1>5, <1>7, <1>8, <1>9
<1>11. (j + m) - 1 < k
  <2>1. (j + m) - 1 \in Int /\ p * ((j + m) - 1) < p * k  BY <1>2, <1>8, <1>10
  <2> QED BY <1>1, <1>2, <2>1, FactorLess
<1>12. j + m <= k  BY <1>2, <1>11
<1> QED BY <1>12 DEF j, k

--------------------------------------------------------------------------------
(* The encoder's lists                                                      *)

Chunks == [frame : Nat, frames : Nat, pts : Int, discontinuity : BOOLEAN, used : Nat]
Spans == [start : Int, end : Int]
Encoders == [pending : Seq(Chunks), pendingFrames : Nat, intervals : Seq(Spans),
             held : Seq(Spans), haveInput : BOOLEAN, expected : Nat, accepted : Nat,
             represented : Nat, lastDts : Int, refused : BOOLEAN, skews : SUBSET Int]

\* The pending chunks are the samples from next to end, each at the time that the
\* anchor gives it, and only the first chunk is begun.
ChunksPlaced(p, anchor, from, next, end) ==
    /\ \A k \in 1 .. Len(p) :
          /\ p[k].used < p[k].frames /\ p[k].frame >= from
          /\ p[k].pts = anchor + FramesToNs(p[k].frame - from)
          /\ k > 1 => p[k].used = 0 /\ p[k].frame = p[k - 1].frame + p[k - 1].frames
    /\ Len(p) > 0 => /\ p[1].frame + p[1].used = next
                     /\ p[Len(p)].frame + p[Len(p)].frames = end
    /\ Len(p) = 0 => next = end

\* The sample at which what is left of a chunk begins, or the pending samples end.
Place(p, k, end) == IF k <= Len(p) THEN p[k].frame + p[k].used ELSE end

\* Lists of up to three elements are given by their elements.
LEMMA ShortLists ==
    ASSUME NEW S, NEW s \in Seq(S)
    PROVE  /\ Len(s) = 0 => s = <<>>
           /\ Len(s) = 1 => s = <<s[1]>>
           /\ Len(s) = 2 => s = <<s[1], s[2]>>
           /\ Len(s) = 3 => s = <<s[1], s[2], s[3]>>
  OBVIOUS

\* What Append and SubSeq make of them.
LEMMA ShortListsGrow ==
    ASSUME NEW S, NEW a \in S, NEW b \in S, NEW f \in S
    PROVE  Append(<<a, b>>, f) = <<a, b, f>> /\ Append(<<a>>, b) = <<a, b>>
<1>1. ASSUME NEW s \in Seq(S), NEW e \in S
      PROVE  /\ Append(s, e) \in Seq(S) /\ Len(Append(s, e)) = Len(s) + 1
             /\ \A i \in 1 .. Len(s) : Append(s, e)[i] = s[i]
             /\ Append(s, e)[Len(s) + 1] = e
  BY AppendProperties
<1>2. ASSUME NEW s \in Seq(S), Len(s) = 2, s[1] = a, s[2] = b
      PROVE  Append(s, f) = <<a, b, f>>
  <2>1. 1 \in 1 .. Len(s) /\ 2 \in 1 .. Len(s) /\ Len(s) + 1 = 3  BY <1>2
  <2>2. /\ Append(s, f) \in Seq(S) /\ Len(Append(s, f)) = 3 /\ Append(s, f)[3] = f
        /\ Append(s, f)[1] = a /\ Append(s, f)[2] = b
    <3> DEFINE r == Append(s, f)
    <3>1. /\ r \in Seq(S) /\ Len(r) = Len(s) + 1 /\ r[Len(s) + 1] = f
          /\ \A i \in 1 .. Len(s) : r[i] = s[i]
      BY <1>1
    <3> HIDE DEF r
    <3>2. Len(r) = 3 /\ r[3] = f /\ r[1] = a /\ r[2] = b  BY <1>2, <2>1, <3>1
    <3> QED BY <3>1, <3>2 DEF r
  <2> QED BY <2>2, ShortLists
<1>3. <<a, b>> \in Seq(S) /\ Len(<<a, b>>) = 2 /\ <<a, b>>[1] = a /\ <<a, b>>[2] = b
  OBVIOUS
<1>4. Append(<<a, b>>, f) = <<a, b, f>>  BY <1>2, <1>3
<1>5. ASSUME NEW s \in Seq(S), Len(s) = 1, s[1] = a PROVE Append(s, b) = <<a, b>>
  <2>1. 1 \in 1 .. Len(s) /\ Len(s) + 1 = 2  BY <1>5
  <2>2. /\ Append(s, b) \in Seq(S) /\ Len(Append(s, b)) = 2 /\ Append(s, b)[2] = b
        /\ Append(s, b)[1] = a
    <3> DEFINE r == Append(s, b)
    <3>1. /\ r \in Seq(S) /\ Len(r) = Len(s) + 1 /\ r[Len(s) + 1] = b
          /\ \A i \in 1 .. Len(s) : r[i] = s[i]
      BY <1>1
    <3> HIDE DEF r
    <3>2. Len(r) = 2 /\ r[2] = b /\ r[1] = a  BY <1>5, <2>1, <3>1
    <3> QED BY <3>1, <3>2 DEF r
  <2> QED BY <2>2, ShortLists
<1>6. <<a>> \in Seq(S) /\ Len(<<a>>) = 1 /\ <<a>>[1] = a  OBVIOUS
<1>7. Append(<<a>>, b) = <<a, b>>  BY <1>5, <1>6
<1> QED BY <1>4, <1>7

\* The back of a list, from one of its places on.
LEMMA BackOf ==
    ASSUME NEW S, NEW s \in Seq(S), NEW i \in 1 .. Len(s) + 1
    PROVE  /\ SubSeq(s, i, Len(s)) \in Seq(S)
           /\ Len(SubSeq(s, i, Len(s))) = Len(s) + 1 - i
           /\ \A j \in 1 .. Len(s) + 1 - i : SubSeq(s, i, Len(s))[j] = s[i + j - 1]
  OBVIOUS

LEMMA LastTwo ==
    ASSUME NEW S, NEW s \in Seq(S), Len(s) = 3
    PROVE  SubSeq(s, 2, 3) = <<s[2], s[3]>>
<1>2. 2 \in 1 .. Len(s) + 1 /\ 1 \in 1 .. Len(s) + 1 - 2 /\ 2 \in 1 .. Len(s) + 1 - 2
  OBVIOUS
<1> DEFINE r == SubSeq(s, 2, Len(s))
<1>3. /\ r \in Seq(S) /\ Len(r) = Len(s) + 1 - 2
      /\ \A j \in 1 .. Len(s) + 1 - 2 : r[j] = s[2 + j - 1]
  BY <1>2, BackOf
<1> HIDE DEF r
<1>4. r[1] = s[2] /\ r[2] = s[3]  BY <1>2, <1>3
<1>5. r = <<s[2], s[3]>>  BY <1>3, <1>4, ShortLists
<1> QED BY <1>5 DEF r

LEMMA ShortListsShrink ==
    ASSUME NEW S, NEW a \in S, NEW b \in S
    PROVE  /\ SubSeq(<<a, b>>, 1, 2) = <<a, b>> /\ SubSeq(<<a, b>>, 2, 2) = <<b>>
           /\ SubSeq(<<a, b>>, 3, 2) = <<>>
           /\ SubSeq(<<a>>, 1, 1) = <<a>> /\ SubSeq(<<a>>, 2, 1) = <<>>
<1>1. ASSUME NEW s \in Seq(S), NEW i \in 1 .. Len(s) + 1
      PROVE  /\ SubSeq(s, i, Len(s)) \in Seq(S)
             /\ Len(SubSeq(s, i, Len(s))) = Len(s) + 1 - i
             /\ \A j \in 1 .. Len(s) + 1 - i : SubSeq(s, i, Len(s))[j] = s[i + j - 1]
  BY BackOf
<1>3. ASSUME NEW s \in Seq(S), Len(s) = 2, s[1] = a, s[2] = b
      PROVE  SubSeq(s, 1, 2) = <<a, b>> /\ SubSeq(s, 2, 2) = <<b>> /\ SubSeq(s, 3, 2) = <<>>
  <2>1. /\ 1 \in 1 .. Len(s) + 1 /\ 2 \in 1 .. Len(s) + 1 /\ 3 \in 1 .. Len(s) + 1
        /\ 1 \in 1 .. Len(s) + 1 - 1 /\ 2 \in 1 .. Len(s) + 1 - 1 /\ 1 \in 1 .. Len(s) + 1 - 2
    BY <1>3
  <2>2. /\ SubSeq(s, 1, Len(s)) \in Seq(S) /\ Len(SubSeq(s, 1, Len(s))) = 2
        /\ SubSeq(s, 1, Len(s))[1] = a /\ SubSeq(s, 1, Len(s))[2] = b
    BY <1>1, <1>3, <2>1
  <2>3. /\ SubSeq(s, 2, Len(s)) \in Seq(S) /\ Len(SubSeq(s, 2, Len(s))) = 1
        /\ SubSeq(s, 2, Len(s))[1] = b
    BY <1>1, <1>3, <2>1
  <2>4. SubSeq(s, 3, Len(s)) \in Seq(S) /\ Len(SubSeq(s, 3, Len(s))) = 0
    BY <1>1, <1>3, <2>1
  <2> QED BY <1>3, <2>2, <2>3, <2>4, ShortLists
<1>4. ASSUME NEW s \in Seq(S), Len(s) = 1, s[1] = a
      PROVE  SubSeq(s, 1, 1) = <<a>> /\ SubSeq(s, 2, 1) = <<>>
  <2>1. 1 \in 1 .. Len(s) + 1 /\ 2 \in 1 .. Len(s) + 1 /\ 1 \in 1 .. Len(s) + 1 - 1
    BY <1>4
  <2>2. /\ SubSeq(s, 1, Len(s)) \in Seq(S) /\ Len(SubSeq(s, 1, Len(s))) = 1
        /\ SubSeq(s, 1, Len(s))[1] = a
    BY <1>1, <1>4, <2>1
  <2>3. SubSeq(s, 2, Len(s)) \in Seq(S) /\ Len(SubSeq(s, 2, Len(s))) = 0
    BY <1>1, <1>4, <2>1
  <2> QED BY <1>4, <2>2, <2>3, ShortLists
<1>6. <<a, b>> \in Seq(S) /\ Len(<<a, b>>) = 2 /\ <<a, b>>[1] = a /\ <<a, b>>[2] = b
  OBVIOUS
<1>7. <<a>> \in Seq(S) /\ Len(<<a>>) = 1 /\ <<a>>[1] = a  OBVIOUS
<1> QED BY <1>3, <1>4, <1>6, <1>7

LEMMA OverlapIs ==
    ASSUME NEW i \in Spans, NEW pkt \in Spans
    PROVE  Overlap(i, pkt) \in Nat
  BY DEF Overlap, Greater, Smaller, Spans

\* What a packet covers of up to three intervals.
LEMMA CoveredIs ==
    ASSUME NEW s \in Seq(Spans), NEW pkt \in Spans
    PROVE  /\ Len(s) = 0 => Covered(s, pkt) = 0
           /\ Len(s) = 1 => Covered(s, pkt) = Overlap(s[1], pkt)
           /\ Len(s) = 2 => Covered(s, pkt) = Overlap(s[1], pkt) + Overlap(s[2], pkt)
           /\ Len(s) = 3 => Covered(s, pkt) = Overlap(s[1], pkt) + Overlap(s[2], pkt)
                                                 + Overlap(s[3], pkt)
<1> DEFINE n == Len(s)
           O(i) == Overlap(s[i], pkt)
           Body(h) == [i \in 0..n |-> IF i = 0 THEN 0 ELSE h[i - 1] + O(i)]
           F == CHOOSE h : h = Body(h)
<1>1. n \in Nat  OBVIOUS
<1>2. \A i \in 1..n : O(i) \in Nat  BY OverlapIs
<1>3. Covered(s, pkt) = F[n]  BY DEF Covered
<1>4. Len(s) = n /\ \A i \in Nat : O(i) = Overlap(s[i], pkt)  OBVIOUS
<1> HIDE DEF n, O
<1>5. F = Body(F)
  <2> DEFINE step == [i \in 1..n |-> [v \in Int |-> v + O(i)]]
  <2>1. step \in [1..n -> [Int -> Int]]  BY <1>2
  <2>2. \A i \in 1..n : \A v \in Int : step[i][v] = v + O(i)  OBVIOUS
  <2> HIDE DEF step, Body
  <2>3. PICK g \in [0..n -> Int] : Stepwise(g, n, 0, step)
    <3>1. 0 \in Int  OBVIOUS
    <3> QED BY <1>1, <2>1, <3>1, StepsExist
  <2>4. ASSUME NEW i \in 0..n PROVE g[i] = Body(g)[i]
    <3>1. CASE i = 0  BY <1>1, <2>3, <3>1 DEF Body, Stepwise
    <3>2. CASE i # 0
      <4>1. i \in 1..n /\ i - 1 \in 0..n  BY <1>1, <3>2
      <4>2. g[i] = g[i - 1] + O(i)  BY <2>2, <2>3, <4>1 DEF Stepwise
      <4> QED BY <3>2, <4>2 DEF Body
    <3> QED BY <3>1, <3>2
  <2>5. g = [i \in 0..n |-> g[i]] /\ Body(g) = [i \in 0..n |-> Body(g)[i]]  BY DEF Body
  <2>6. g = Body(g)  BY <2>4, <2>5
  <2> QED BY <2>6
<1> HIDE DEF F
<1>6. \A i \in 0..n : F[i] = IF i = 0 THEN 0 ELSE F[i - 1] + O(i)  BY <1>5
<1> HIDE DEF Body
<1>7. F[0] = 0  BY <1>1, <1>6
<1>8. n > 0 => F[1] = O(1) /\ O(1) \in Nat  BY <1>1, <1>2, <1>6, <1>7
<1>9. n > 1 => F[2] = O(1) + O(2) /\ O(2) \in Nat  BY <1>1, <1>2, <1>6, <1>8
<1>10. n > 2 => F[3] = O(1) + O(2) + O(3)  BY <1>1, <1>2, <1>6, <1>9
<1> QED BY <1>3, <1>4, <1>7, <1>8, <1>9, <1>10

\* The chunks follow each other, and each has samples left.
LEMMA PlaceSteps ==
    ASSUME NEW p \in Seq(Chunks), NEW anchor \in Nat, NEW from \in Nat, NEW next \in Nat,
           NEW end \in Nat, ChunksPlaced(p, anchor, from, next, end)
    PROVE  \A k \in 2 .. Len(p) + 1 :
              /\ Place(p, k, end) = Place(p, k - 1, end) + (p[k - 1].frames - p[k - 1].used)
              /\ Place(p, k, end) \in Nat /\ Place(p, k - 1, end) \in Nat
              /\ Place(p, k, end) > Place(p, k - 1, end)
<1> DEFINE n == Len(p)
<1>1. n \in Nat /\ \A k \in 1..n : p[k] \in Chunks  OBVIOUS
<1>2. \A k \in 1..n : p[k].frames \in Nat /\ p[k].used \in Nat /\ p[k].frame \in Nat
  BY <1>1 DEF Chunks
<1>3. SUFFICES ASSUME NEW k \in 2..n + 1
               PROVE  /\ Place(p, k, end) = Place(p, k - 1, end)
                                            + (p[k - 1].frames - p[k - 1].used)
                      /\ Place(p, k, end) \in Nat /\ Place(p, k - 1, end) \in Nat
                      /\ Place(p, k, end) > Place(p, k - 1, end)
  OBVIOUS
<1>4. k - 1 \in 1..n /\ Place(p, k - 1, end) = p[k - 1].frame + p[k - 1].used
  BY <1>1 DEF Place
<1>5. Place(p, k, end) = p[k - 1].frame + p[k - 1].frames
  <2>1. CASE k <= n
    <3>1. k \in 1..n /\ k > 1  BY <1>1, <2>1
    <3>2. p[k].used = 0 /\ p[k].frame = p[k - 1].frame + p[k - 1].frames
      BY <3>1 DEF ChunksPlaced
    <3> QED BY <1>2, <3>1, <3>2 DEF Place
  <2>2. CASE k = n + 1  BY <1>1, <2>2 DEF Place, ChunksPlaced
  <2> QED BY <1>1, <2>1, <2>2
<1>6. p[k - 1].used < p[k - 1].frames  BY <1>4 DEF ChunksPlaced
<1>7. p[k - 1].frames \in Nat /\ p[k - 1].used \in Nat /\ p[k - 1].frame \in Nat
  BY <1>2, <1>4
<1>9. /\ p[k - 1].frame + p[k - 1].frames
            = (p[k - 1].frame + p[k - 1].used) + (p[k - 1].frames - p[k - 1].used)
      /\ p[k - 1].frame + p[k - 1].frames > p[k - 1].frame + p[k - 1].used
      /\ p[k - 1].frame + p[k - 1].frames \in Nat /\ p[k - 1].frame + p[k - 1].used \in Nat
  <2> DEFINE x == p[k - 1].frame
             y == p[k - 1].used
             z == p[k - 1].frames
  <2>1. x \in Nat /\ y \in Nat /\ z \in Nat /\ y < z  BY <1>6, <1>7
  <2> HIDE DEF x, y, z
  <2>2. x + z = (x + y) + (z - y) /\ x + z > x + y /\ x + y \in Nat /\ x + z \in Nat
    BY <2>1
  <2> QED BY <2>2 DEF x, y, z
<1> QED BY <1>4, <1>5, <1>9

\* Chunks that are pending have samples.
LEMMA PendingSamples ==
    ASSUME NEW p \in Seq(Chunks), NEW anchor \in Nat, NEW from \in Nat, NEW next \in Nat,
           NEW end \in Nat, ChunksPlaced(p, anchor, from, next, end), next = end
    PROVE  p = <<>>
<1> DEFINE n == Len(p)
           S == {i \in 0..n : i > 0 => Place(p, i + 1, end) > next}
<1>1. n \in Nat  OBVIOUS
<1>2. 0 \in S  BY <1>1
<1>3. ASSUME NEW i \in 1..n, i - 1 \in S PROVE i \in S
  <2>1. i + 1 \in 2..n + 1 /\ (i + 1) - 1 = i /\ i \in 0..n /\ (i - 1) + 1 = i  BY <1>1
  <2>2. Place(p, i + 1, end) > Place(p, i, end)
        /\ Place(p, i + 1, end) \in Nat /\ Place(p, i, end) \in Nat
    BY <2>1, PlaceSteps
  <2>3. Place(p, i, end) >= next
    <3>1. CASE i = 1
      <4>1. Len(p) > 0  BY <1>1
      <4>2. Place(p, 1, end) = next  BY <4>1 DEF Place, ChunksPlaced
      <4> QED BY <3>1, <4>2
    <3>2. CASE i # 1
      <4>1. i - 1 > 0  BY <3>2
      <4>2. Place(p, (i - 1) + 1, end) > next  BY <1>3, <4>1
      <4> QED BY <2>1, <2>2, <4>2
    <3> QED BY <3>1, <3>2
  <2>4. Place(p, i + 1, end) > next  BY <2>2, <2>3
  <2> QED BY <2>1, <2>4
<1>4. \A i \in 0..n : i \in S
  <2> HIDE DEF S, n
  <2> QED BY <1>1, <1>2, <1>3, CountsTo
<1>5. ASSUME n > 0 PROVE FALSE
  <2>1. n \in 0..n /\ n \in S  BY <1>1, <1>4
  <2>2. Place(p, n + 1, end) > next  BY <1>5, <2>1
  <2>3. Place(p, n + 1, end) = end  BY <1>1 DEF Place
  <2> QED BY <2>2, <2>3
<1> QED BY <1>1, <1>5

\* How many frames are pending before each chunk.
LEMMA BeforeIs ==
    ASSUME NEW p \in Seq(Chunks), NEW anchor \in Nat, NEW from \in Nat, NEW next \in Nat,
           NEW end \in Nat, ChunksPlaced(p, anchor, from, next, end)
    PROVE  \A k \in 1 .. Len(p) + 1 : Before(p)[k] = Place(p, k, end) - next
<1> DEFINE n == Len(p)
           Body(h) == [k \in 1..n + 1 |->
                          IF k = 1 THEN 0 ELSE h[k - 1] + (p[k - 1].frames - p[k - 1].used)]
           F == CHOOSE h : h = Body(h)
           g == [k \in 1..n + 1 |-> Place(p, k, end) - next]
<1>1. n \in Nat /\ \A k \in 1..n : p[k] \in Chunks  OBVIOUS
<1>2. Before(p) = F  BY DEF Before
<1>3. \A k \in 1..n : p[k].frames \in Nat /\ p[k].used \in Nat /\ p[k].frame \in Nat
  BY <1>1 DEF Chunks
<1>4. Place(p, 1, end) = next  BY <1>1 DEF Place, ChunksPlaced
<1>5. \A k \in 2..n + 1 :
         Place(p, k, end) = Place(p, k - 1, end) + (p[k - 1].frames - p[k - 1].used)
  BY PlaceSteps
<1>6. \A k \in 1..n + 1 : Place(p, k, end) \in Nat  BY <1>1, <1>3 DEF Place
<1> HIDE DEF n
<1>7. g = Body(g)
  <2>1. ASSUME NEW k \in 1..n + 1 PROVE g[k] = Body(g)[k]
    <3>1. CASE k = 1  BY <1>4, <3>1
    <3>2. CASE k # 1
      <4>1. k \in 2..n + 1 /\ k - 1 \in 1..n + 1 /\ k - 1 \in 1..n  BY <1>1, <3>2
      <4>2. g[k - 1] = Place(p, k - 1, end) - next  BY <4>1
      <4>3. g[k] = g[k - 1] + (p[k - 1].frames - p[k - 1].used)
        <5>1. Place(p, k, end) = Place(p, k - 1, end) + (p[k - 1].frames - p[k - 1].used)
          BY <1>5, <4>1
        <5>2. /\ Place(p, k, end) \in Int /\ Place(p, k - 1, end) \in Int
              /\ p[k - 1].frames \in Int /\ p[k - 1].used \in Int
          BY <1>3, <1>6, <4>1
        <5>3. \A w, x, y, z \in Int : w = x + (y - z) => w - next = (x - next) + (y - z)
          OBVIOUS
        <5>4. g[k] = Place(p, k, end) - next  OBVIOUS
        <5> QED BY <4>2, <5>1, <5>2, <5>3, <5>4
      <4> QED BY <3>2, <4>3
    <3> QED BY <3>1, <3>2
  <2> QED BY <2>1
<1>8. F = Body(F)
  <2> HIDE DEF g, Body
  <2> QED BY <1>7
<1> HIDE DEF F
<1>9. \A k \in 1..n + 1 :
         F[k] = IF k = 1 THEN 0 ELSE F[k - 1] + (p[k - 1].frames - p[k - 1].used)
  BY <1>8
<1>10. \A k \in 1..n + 1 : g[k] = Place(p, k, end) - next  OBVIOUS
<1> HIDE DEF g, Body
<1> DEFINE S == {i \in 0..n : F[i + 1] = Place(p, i + 1, end) - next}
<1>11. 0 \in S
  <2>1. 0 \in 0..n /\ 1 \in 1..n + 1  BY <1>1
  <2>2. F[1] = 0  BY <1>9, <2>1
  <2> QED BY <1>4, <2>1, <2>2
<1>12. ASSUME NEW i \in 1..n, i - 1 \in S PROVE i \in S
  <2>1. i + 1 \in 1..n + 1 /\ i + 1 # 1 /\ (i + 1) - 1 = i /\ (i - 1) + 1 = i
        /\ i + 1 \in 2..n + 1 /\ i \in 1..n + 1 /\ i \in 0..n
    BY <1>1
  <2>2. F[i] = Place(p, i, end) - next  BY <1>12, <2>1
  <2>3. F[i + 1] = F[i] + (p[i].frames - p[i].used)  BY <1>9, <2>1
  <2>4. Place(p, i + 1, end) = Place(p, i, end) + (p[i].frames - p[i].used)
    BY <1>5, <2>1
  <2>5. F[i + 1] = Place(p, i + 1, end) - next
    <3>1. \A x, y, z \in Int : (x - z) + y = (x + y) - z  OBVIOUS
    <3>2. Place(p, i, end) \in Int /\ p[i].frames - p[i].used \in Int /\ next \in Int
      BY <1>3, <1>6, <2>1
    <3> QED BY <2>2, <2>3, <2>4, <3>1, <3>2
  <2> QED BY <2>1, <2>5
<1>13. \A i \in 0..n : i \in S
  <2> HIDE DEF S
  <2> QED BY <1>1, <1>11, <1>12, CountsTo
<1>14. ASSUME NEW k \in 1..n + 1 PROVE F[k] = Place(p, k, end) - next
  <2>1. k - 1 \in 0..n /\ (k - 1) + 1 = k  BY <1>1
  <2> QED BY <1>13, <2>1
<1> QED BY <1>2, <1>14 DEF n

\* The tick of a pending chunk.
LEMMA StampIs ==
    ASSUME NEW p \in Seq(Chunks), NEW anchor \in Nat, NEW from \in Nat, NEW next \in Nat,
           NEW end \in Nat, ChunksPlaced(p, anchor, from, next, end), NEW k \in 1 .. Len(p)
    PROVE  /\ Place(p, k, end) \in Nat /\ Stamp(p[k]) \in Int /\ NsToTicks(anchor) \in Int
           /\ Stamp(p[k]) - NsToTicks(anchor)
                 \in {Place(p, k, end) - from - 1, Place(p, k, end) - from}
           /\ Place(p, k, end) = from => Stamp(p[k]) = NsToTicks(anchor)
<1> DEFINE m == p[k].frame - from
           u == p[k].used
<1>1. p[k] \in Chunks  OBVIOUS
<1>2. p[k].frame \in Nat /\ u \in Nat /\ p[k].frame >= from /\ p[k].pts = anchor + FramesToNs(m)
  BY <1>1 DEF Chunks, ChunksPlaced
<1>3. m \in Nat  BY <1>2
<1>4. Place(p, k, end) = p[k].frame + u /\ Place(p, k, end) - from = m + u
  BY <1>2 DEF Place
<1>5. Stamp(p[k]) = NsToTicks(anchor + FramesToNs(m) + FramesToNs(u))  BY <1>2 DEF Stamp
<1> HIDE DEF m, u
<1>6. NsToTicks(anchor + FramesToNs(m) + FramesToNs(u)) - NsToTicks(anchor)
         \in {m + u - 1, m + u}
  BY <1>2, <1>3, TickOfSample
<1>7. Stamp(p[k]) \in Int /\ NsToTicks(anchor) \in Int
  <2>1. FramesToNs(m) \in Nat /\ FramesToNs(u) \in Nat  BY <1>2, <1>3, ClockTypes
  <2>2. anchor + FramesToNs(m) + FramesToNs(u) \in Int /\ anchor \in Int  BY <2>1
  <2> QED BY <1>5, <2>2, ClockTypes
<1>8. Place(p, k, end) \in Nat  BY <1>2, <1>4
<1>9. Place(p, k, end) = from => Stamp(p[k]) = NsToTicks(anchor)
  <2>1. m + u = 0 => m = 0 /\ u = 0  BY <1>2, <1>3
  <2>2. anchor + FramesToNs(0) + FramesToNs(0) = anchor  BY ClockTypes
  <2>3. Place(p, k, end) = from => m + u = 0  BY <1>4, <1>8
  <2> QED BY <1>5, <2>1, <2>2, <2>3
<1> QED BY <1>2, <1>3, <1>4, <1>5, <1>6, <1>7, <1>8, <1>9

\* No sample is more than one from the time the clock gave it.
LEMMA SkewsAre ==
    ASSUME NEW p \in Seq(Chunks), NEW anchor \in Nat, NEW from \in Nat, NEW next \in Nat,
           NEW end \in Nat, ChunksPlaced(p, anchor, from, next, end), NEW n \in Nat
    PROVE  Skews(p, n) \subseteq -1..1
<1> SUFFICES ASSUME NEW k \in 1 .. Len(p)
             PROVE  Stamp(p[1]) + Before(p)[k] - Stamp(p[k]) \in -1..1
  BY DEF Skews
<1>1. 1 \in 1 .. Len(p) /\ k \in 1 .. Len(p) + 1 /\ Len(p) > 0  OBVIOUS
<1>2. Before(p)[k] = Place(p, k, end) - next  BY <1>1, BeforeIs
<1>3. /\ Place(p, k, end) \in Nat /\ Stamp(p[k]) \in Int /\ NsToTicks(anchor) \in Int
      /\ Stamp(p[k]) - NsToTicks(anchor)
            \in {Place(p, k, end) - from - 1, Place(p, k, end) - from}
  BY StampIs
<1>4. /\ Place(p, 1, end) \in Nat /\ Stamp(p[1]) \in Int
      /\ Stamp(p[1]) - NsToTicks(anchor)
            \in {Place(p, 1, end) - from - 1, Place(p, 1, end) - from}
  BY <1>1, StampIs
<1>5. Place(p, 1, end) = next  BY <1>1 DEF Place, ChunksPlaced
<1>6. \A a, b, c, t \in Int :
         a - t \in {next - from - 1, next - from} /\ b - t \in {c - from - 1, c - from}
            => a + (c - next) - b \in -1..1
  OBVIOUS
<1>7. Place(p, k, end) \in Int  BY <1>3
<1>8. /\ Stamp(p[1]) - NsToTicks(anchor) \in {next - from - 1, next - from}
      /\ Stamp(p[1]) \in Int
  BY <1>4, <1>5
<1>9. Stamp(p[1]) + (Place(p, k, end) - next) - Stamp(p[k]) \in -1..1
  BY <1>3, <1>6, <1>7, <1>8
<1> QED BY <1>2, <1>9

\* What ConsumePending leaves of the chunks is what is behind the frame's samples.
LEMMA ConsumeIs ==
    ASSUME NEW p \in Seq(Chunks), NEW anchor \in Nat, NEW from \in Nat, NEW next \in Nat,
           NEW end \in Nat, ChunksPlaced(p, anchor, from, next, end),
           NEW n \in Nat, n <= end - next
    PROVE  /\ ConsumePending(p, n) \in Seq(Chunks)
           /\ ChunksPlaced(ConsumePending(p, n), anchor, from, next + n, end)
<1> DEFINE before == Before(p)
           Fits(k) == /\ before[k + 1] <= n
                      /\ k < Len(p) => n < before[k + 2]
           spent == CHOOSE k \in 0 .. Len(p) : Fits(k)
           q == ConsumePending(p, n)
<1>1. Len(p) \in Nat /\ \A k \in 1 .. Len(p) : p[k] \in Chunks  OBVIOUS
<1>2. \A k \in 1 .. Len(p) : p[k].frame \in Nat /\ p[k].used \in Nat /\ p[k].frames \in Nat
  BY <1>1 DEF Chunks
<1>3. \A k \in 1 .. Len(p) + 1 : before[k] = Place(p, k, end) - next /\ Place(p, k, end) \in Nat
  <2>1. \A k \in 1 .. Len(p) + 1 : Place(p, k, end) \in Nat  BY <1>1, <1>2 DEF Place
  <2>2. \A k \in 1 .. Len(p) + 1 : Before(p)[k] = Place(p, k, end) - next  BY BeforeIs
  <2> QED BY <2>1, <2>2
<1>4. q = [i \in 1 .. Len(p) - spent |->
             IF i = 1 THEN [p[spent + 1] EXCEPT !.used = @ + (n - before[spent + 1])]
             ELSE p[spent + i]]
  BY DEF ConsumePending
<1>5. before[1] = 0
  <2>1. 1 \in 1 .. Len(p) + 1  BY <1>1
  <2>2. Place(p, 1, end) = next  BY <1>1 DEF Place, ChunksPlaced
  <2> QED BY <1>3, <2>1, <2>2
<1> HIDE DEF before
<1>6. \E k \in 0 .. Len(p) : Fits(k)
  <2> DEFINE T == {k \in 0 .. Len(p) : k < Len(p) => n < before[k + 2]}
  <2>1. T \subseteq Nat /\ Len(p) \in T  BY <1>1
  <2>2. PICK k \in T : \A j \in T : k <= j
    <3> HIDE DEF T
    <3> QED BY <2>1, LeastNumber
  <2>3. k \in 0 .. Len(p) /\ (k < Len(p) => n < before[k + 2])  BY <2>2
  <2>4. before[k + 1] <= n
    <3>1. CASE k = 0  BY <1>5, <3>1
    <3>2. CASE k # 0
      <4>1. k - 1 \in 0 .. Len(p) /\ k - 1 < Len(p) /\ (k - 1) + 2 = k + 1 /\ k - 1 < k
            /\ k + 1 \in 1 .. Len(p) + 1
        BY <1>1, <2>3, <3>2
      <4>2. k - 1 \notin T
        <5> HIDE DEF T
        <5> QED BY <2>2, <2>3, <4>1
      <4>3. ~(n < before[(k - 1) + 2])  BY <4>1, <4>2
      <4>4. ~(n < before[k + 1]) /\ before[k + 1] \in Int  BY <1>3, <4>1, <4>3
      <4> QED BY <4>4
    <3> QED BY <3>1, <3>2
  <2> QED BY <2>3, <2>4
<1>7. spent \in 0 .. Len(p) /\ Fits(spent)
  <2> HIDE DEF Fits
  <2> QED BY <1>6
<1>8. before[spent + 1] <= n /\ (spent < Len(p) => n < before[spent + 2])  BY <1>7
<1> HIDE DEF spent, Fits
<1>9. CASE spent = Len(p)
  <2>1. spent + 1 \in 1 .. Len(p) + 1 /\ Place(p, spent + 1, end) = end
    BY <1>1, <1>9 DEF Place
  <2>2. end - next <= n  BY <1>3, <1>8, <2>1
  <2>3. q = <<>>  BY <1>1, <1>4, <1>9
  <2>4. next + n = end  BY <2>2
  <2>5. q \in Seq(Chunks) /\ Len(q) = 0  BY <2>3
  <2> HIDE DEF q
  <2>6. ChunksPlaced(q, anchor, from, next + n, end)  BY <2>4, <2>5 DEF ChunksPlaced
  <2> QED BY <2>5, <2>6 DEF q
<1>10. CASE spent < Len(p)
  <2> DEFINE c == p[spent + 1]
             d == [c EXCEPT !.used = @ + (n - before[spent + 1])]
  <2>1. /\ spent \in Nat /\ spent + 1 \in 1 .. Len(p) /\ spent + 1 \in 1 .. Len(p) + 1
        /\ spent + 2 \in 1 .. Len(p) + 1
        /\ Len(p) - spent \in Nat /\ Len(p) - spent > 0
        /\ \A i \in 1 .. Len(p) - spent : spent + i \in 1 .. Len(p)
    BY <1>1, <1>7, <1>10
  <2>2. c \in Chunks /\ c.used < c.frames /\ c.frame >= from
        /\ c.pts = anchor + FramesToNs(c.frame - from)
    BY <1>1, <2>1 DEF ChunksPlaced
  <2>3. c.frame \in Nat /\ c.used \in Nat /\ c.frames \in Nat  BY <1>2, <2>1
  <2>4. Place(p, spent + 1, end) = c.frame + c.used  BY <2>1 DEF Place
  <2>5. Place(p, spent + 2, end) = c.frame + c.frames
    <3>1. CASE spent + 2 <= Len(p)
      <4>1. spent + 2 \in 1 .. Len(p) /\ spent + 2 > 1 /\ (spent + 2) - 1 = spent + 1
        BY <2>1, <3>1
      <4>2. p[spent + 2].used = 0 /\ p[spent + 2].frame = c.frame + c.frames
        BY <4>1 DEF ChunksPlaced
      <4>3. Place(p, spent + 2, end) = p[spent + 2].frame + p[spent + 2].used
        BY <3>1 DEF Place
      <4> QED BY <2>3, <4>2, <4>3
    <3>2. CASE spent + 2 > Len(p)
      <4>1. spent + 1 = Len(p) /\ ~(spent + 2 <= Len(p))  BY <2>1, <3>2
      <4>2. p[Len(p)].frame + p[Len(p)].frames = end  BY <1>1, <2>1 DEF ChunksPlaced
      <4> QED BY <4>1, <4>2 DEF Place
    <3> QED BY <2>1, <3>1, <3>2
  <2>6. n - before[spent + 1] = next + n - (c.frame + c.used)
    <3>1. before[spent + 1] = Place(p, spent + 1, end) - next  BY <1>3, <2>1
    <3>2. before[spent + 1] = (c.frame + c.used) - next  BY <2>4, <3>1
    <3>3. c.frame \in Int /\ c.used \in Int  BY <2>3
    <3> HIDE DEF c
    <3> QED BY <3>2, <3>3
  <2>7. /\ n - before[spent + 1] \in Nat
        /\ c.used + (n - before[spent + 1]) < c.frames
        /\ c.frame + (c.used + (n - before[spent + 1])) = next + n
    <3>1. before[spent + 1] = Place(p, spent + 1, end) - next
          /\ before[spent + 2] = Place(p, spent + 2, end) - next
      BY <1>3, <2>1
    <3>2. /\ before[spent + 1] = (c.frame + c.used) - next
          /\ before[spent + 2] = (c.frame + c.frames) - next
      BY <2>4, <2>5, <3>1
    <3>3. before[spent + 1] <= n /\ n < before[spent + 2]  BY <1>8, <1>10
    <3>4. \A b, x, y, z, w \in Int :
             b = (x + y) - next /\ w = (x + z) - next /\ b <= n /\ n < w =>
                n - b \in Nat /\ y + (n - b) < z /\ x + (y + (n - b)) = next + n
      OBVIOUS
    <3>5. c.frame \in Int /\ c.used \in Int /\ c.frames \in Int  BY <2>3
    <3> HIDE DEF c
    <3>6. before[spent + 1] \in Int /\ before[spent + 2] \in Int  BY <3>2, <3>5
    <3> DEFINE b == before[spent + 1]
               w == before[spent + 2]
    <3>7. b \in Int /\ w \in Int /\ b <= n /\ n < w
          /\ b = (c.frame + c.used) - next /\ w = (c.frame + c.frames) - next
      BY <3>2, <3>3, <3>6
    <3> HIDE DEF b, w
    <3>8. /\ n - b \in Nat /\ c.used + (n - b) < c.frames
          /\ c.frame + (c.used + (n - b)) = next + n
      BY <3>4, <3>5, <3>7
    <3> QED BY <3>8 DEF b
  <2>8. /\ d \in Chunks /\ d.used = c.used + (n - before[spent + 1]) /\ d.frames = c.frames
        /\ d.frame = c.frame /\ d.pts = c.pts
    <3>1. c.used + (n - before[spent + 1]) \in Nat
      <4>1. \A x, y \in Nat : x + y \in Nat  OBVIOUS
      <4>2. c.used \in Nat /\ n - before[spent + 1] \in Nat  BY <2>3, <2>7
      <4> HIDE DEF c
      <4> QED BY <4>1, <4>2
    <3> HIDE DEF c
    <3> QED BY <2>2, <3>1 DEF Chunks
  <2>9. q = [i \in 1 .. Len(p) - spent |-> IF i = 1 THEN d ELSE p[spent + i]]  BY <1>4
  <2> HIDE DEF q, d
  <2>10. \A i \in 1 .. Len(p) - spent : p[spent + i] \in Chunks  BY <1>1, <2>1
  <2>11. q \in Seq(Chunks) /\ Len(q) = Len(p) - spent  BY <2>1, <2>8, <2>9, <2>10
  <2>12. q[1] = d /\ \A i \in 2 .. Len(q) : q[i] = p[spent + i]  BY <2>1, <2>9, <2>11
  <2>13. ASSUME NEW k \in 1 .. Len(q)
         PROVE  /\ q[k].used < q[k].frames /\ q[k].frame >= from
                /\ q[k].pts = anchor + FramesToNs(q[k].frame - from)
                /\ k > 1 => q[k].used = 0 /\ q[k].frame = q[k - 1].frame + q[k - 1].frames
    <3>1. CASE k = 1  BY <2>2, <2>3, <2>7, <2>8, <2>12, <3>1
    <3>2. CASE k # 1
      <4>1. /\ k \in 2 .. Len(q) /\ spent + k \in 1 .. Len(p) /\ spent + k > 1
            /\ k - 1 \in 1 .. Len(q) /\ (spent + k) - 1 = spent + (k - 1)
        BY <2>1, <2>11, <3>2
      <4>2. /\ p[spent + k].used < p[spent + k].frames /\ p[spent + k].frame >= from
            /\ p[spent + k].pts = anchor + FramesToNs(p[spent + k].frame - from)
            /\ p[spent + k].used = 0
            /\ p[spent + k].frame = p[spent + (k - 1)].frame + p[spent + (k - 1)].frames
        BY <4>1 DEF ChunksPlaced
      <4>3. /\ q[k - 1].frame = p[spent + (k - 1)].frame
            /\ q[k - 1].frames = p[spent + (k - 1)].frames
        <5>1. CASE k = 2  BY <2>8, <2>12, <5>1
        <5>2. CASE k # 2
          <6>1. k - 1 \in 2 .. Len(q)  BY <4>1, <5>2
          <6> QED BY <2>12, <6>1
        <5> QED BY <5>1, <5>2
      <4>4. q[k] = p[spent + k]  BY <2>12, <4>1
      <4> QED BY <4>2, <4>3, <4>4
    <3> QED BY <3>1, <3>2
  <2>14. q[1].frame + q[1].used = next + n  BY <2>7, <2>8, <2>12
  <2>15. q[Len(q)].frame + q[Len(q)].frames = end
    <3>1. p[Len(p)].frame + p[Len(p)].frames = end  BY <1>1, <2>1 DEF ChunksPlaced
    <3>2. CASE Len(q) = 1
      <4>1. spent + 1 = Len(p)
        <5>1. \A x, y \in Int : y - x = 1 => x + 1 = y  OBVIOUS
        <5>2. spent \in Int /\ Len(p) \in Int  BY <1>1, <2>1
        <5>3. Len(p) - spent = 1  BY <2>11, <3>2
        <5> QED BY <5>1, <5>2, <5>3
      <4> QED BY <2>8, <2>12, <3>1, <3>2, <4>1
    <3>3. CASE Len(q) # 1
      <4>1. Len(q) \in 2 .. Len(q) /\ spent + Len(q) = Len(p)
        BY <1>1, <2>1, <2>11, <3>3
      <4> QED BY <2>12, <3>1, <4>1
    <3> QED BY <3>2, <3>3
  <2>16. Len(q) > 0 /\ Len(q) # 0  BY <2>1, <2>11
  <2>17. ChunksPlaced(q, anchor, from, next + n, end)
    BY <2>13, <2>14, <2>15, <2>16 DEF ChunksPlaced
  <2> QED BY <2>11, <2>17 DEF q
<1> QED BY <1>1, <1>7, <1>9, <1>10

--------------------------------------------------------------------------------
(* Packets                                                                  *)

LEMMA OverlapAt ==
    ASSUME NEW i \in Spans, NEW pkt \in Spans, pkt.start < pkt.end
    PROVE  /\ i = pkt => Overlap(i, pkt) = pkt.end - pkt.start
           /\ i.start >= pkt.end => Overlap(i, pkt) = 0
           /\ i.start = pkt.end - 1 /\ i.end > i.start => Overlap(i, pkt) = 1
  BY DEF Overlap, Greater, Smaller, Spans

\* The intervals that a packet completes.
LEMMA CompleteIs ==
    ASSUME NEW s \in Seq(Spans), NEW pkt \in Spans, NEW k \in 0 .. Len(s),
           \A i \in 1..k : s[i].end <= pkt.end,
           k < Len(s) => s[k + 1].end > pkt.end
    PROVE  Complete(s, pkt) = k
<1> DEFINE Fits(j) == /\ \A i \in 1..j : s[i].end <= pkt.end
                      /\ j < Len(s) => s[j + 1].end > pkt.end
           c == CHOOSE j \in 0 .. Len(s) : Fits(j)
<1>1. Fits(k)  OBVIOUS
<1>2. Len(s) \in Nat /\ pkt.end \in Int /\ \A i \in 1 .. Len(s) : s[i].end \in Int
  <2>1. \A i \in 1 .. Len(s) : s[i] \in Spans  OBVIOUS
  <2> QED BY <2>1 DEF Spans
<1>3. c \in 0 .. Len(s) /\ Fits(c)
  <2> HIDE DEF Fits
  <2> QED BY <1>1
<1>4. ASSUME NEW i \in 0 .. Len(s), NEW j \in 0 .. Len(s), Fits(i), Fits(j), i < j
      PROVE  FALSE
  <2>1. i + 1 \in 1..j /\ i < Len(s) /\ i + 1 \in 1 .. Len(s)  BY <1>2, <1>4
  <2>2. s[i + 1].end <= pkt.end /\ s[i + 1].end > pkt.end  BY <1>4, <2>1
  <2> QED BY <1>2, <2>1, <2>2
<1>5. Complete(s, pkt) = c  BY DEF Complete
<1> HIDE DEF c, Fits
<1>6. ~(c < k) /\ ~(k < c)  BY <1>1, <1>3, <1>4
<1>7. c = k  BY <1>2, <1>3, <1>6
<1> QED BY <1>5, <1>7

\* The muxer does not take the packet.
TooLate(e, pkt) == e.refused \/ (e.lastDts >= 0 /\ TicksToNs(pkt.start) < e.lastDts)

\* What EmitPacket changes.
LEMMA EmitIs ==
    ASSUME NEW e \in Encoders, NEW pkt \in Spans, NEW k \in 0 .. Len(e.intervals),
           Complete(e.intervals, pkt) = k, Covered(e.intervals, pkt) \in Nat
    PROVE  /\ EmitPacket(e, pkt) \in Encoders
           /\ EmitPacket(e, pkt).pending = e.pending
           /\ EmitPacket(e, pkt).pendingFrames = e.pendingFrames
           /\ EmitPacket(e, pkt).held = e.held
           /\ EmitPacket(e, pkt).haveInput = e.haveInput
           /\ EmitPacket(e, pkt).expected = e.expected
           /\ EmitPacket(e, pkt).accepted = e.accepted
           /\ EmitPacket(e, pkt).skews = e.skews
           /\ EmitPacket(e, pkt).intervals = SubSeq(e.intervals, k + 1, Len(e.intervals))
           /\ EmitPacket(e, pkt).refused = TooLate(e, pkt)
           /\ ~TooLate(e, pkt) =>
                 /\ EmitPacket(e, pkt).represented = e.represented + Covered(e.intervals, pkt)
                 /\ EmitPacket(e, pkt).lastDts = TicksToNs(pkt.start)
<1> DEFINE s == SubSeq(e.intervals, k + 1, Len(e.intervals))
           r == e.represented + Covered(e.intervals, pkt)
           dts == TicksToNs(pkt.start)
           d == [e EXCEPT !.intervals = s]
<1>1. /\ e.intervals \in Seq(Spans) /\ e.represented \in Nat /\ e.lastDts \in Int
      /\ e.refused \in BOOLEAN /\ pkt.start \in Int
  BY DEF Encoders, Spans
<1>2. s \in Seq(Spans)  BY <1>1
<1>3. r \in Nat  BY <1>1
<1>4. dts \in Int  BY <1>1, ClockTypes
<1>5. EmitPacket(e, pkt) = WriteAudio(d, dts, Covered(e.intervals, pkt))
  BY DEF EmitPacket
<1>6. TooLate(e, pkt) = (e.refused \/ (e.lastDts >= 0 /\ dts < e.lastDts))
  BY DEF TooLate
<1> HIDE DEF s, dts
<1>7. e = [pending |-> e.pending, pendingFrames |-> e.pendingFrames,
           intervals |-> e.intervals, held |-> e.held, haveInput |-> e.haveInput,
           expected |-> e.expected, accepted |-> e.accepted,
           represented |-> e.represented, lastDts |-> e.lastDts, refused |-> e.refused,
           skews |-> e.skews]
  BY DEF Encoders
<1>8. d = [pending |-> e.pending, pendingFrames |-> e.pendingFrames,
           intervals |-> s, held |-> e.held, haveInput |-> e.haveInput,
           expected |-> e.expected, accepted |-> e.accepted,
           represented |-> e.represented, lastDts |-> e.lastDts, refused |-> e.refused,
           skews |-> e.skews]
  BY <1>7
<1> HIDE DEF d
<1>9. d.refused = e.refused /\ d.lastDts = e.lastDts /\ d.represented = e.represented
  BY <1>8
<1>10. CASE TooLate(e, pkt)
  <2>1. EmitPacket(e, pkt) = [d EXCEPT !.refused = TRUE]
    BY <1>5, <1>6, <1>9, <1>10 DEF WriteAudio
  <2>2. EmitPacket(e, pkt) =
           [pending |-> e.pending, pendingFrames |-> e.pendingFrames,
            intervals |-> s, held |-> e.held, haveInput |-> e.haveInput,
            expected |-> e.expected, accepted |-> e.accepted,
            represented |-> e.represented, lastDts |-> e.lastDts, refused |-> TRUE,
            skews |-> e.skews]
    BY <1>8, <2>1
  <2>3. EmitPacket(e, pkt) \in Encoders  BY <1>2, <2>2 DEF Encoders
  <2> QED BY <1>10, <2>2, <2>3 DEF s
<1>11. CASE ~TooLate(e, pkt)
  <2>1. EmitPacket(e, pkt) = [d EXCEPT !.lastDts = dts,
                                !.represented = e.represented + Covered(e.intervals, pkt)]
    BY <1>5, <1>6, <1>9, <1>11 DEF WriteAudio
  <2>2. EmitPacket(e, pkt) = [d EXCEPT !.lastDts = dts, !.represented = r]  BY <2>1
  <2> HIDE DEF r
  <2>3. EmitPacket(e, pkt) =
           [pending |-> e.pending, pendingFrames |-> e.pendingFrames,
            intervals |-> s, held |-> e.held, haveInput |-> e.haveInput,
            expected |-> e.expected, accepted |-> e.accepted,
            represented |-> r, lastDts |-> dts, refused |-> e.refused,
            skews |-> e.skews]
    BY <1>8, <2>2
  <2>4. EmitPacket(e, pkt) \in Encoders  BY <1>2, <1>3, <1>4, <2>3 DEF Encoders
  <2>5. e.refused = TooLate(e, pkt)  BY <1>1, <1>6, <1>11
  <2>6. /\ EmitPacket(e, pkt).refused = e.refused /\ EmitPacket(e, pkt).intervals = s
        /\ EmitPacket(e, pkt).represented = r /\ EmitPacket(e, pkt).lastDts = dts
        /\ EmitPacket(e, pkt).pending = e.pending
        /\ EmitPacket(e, pkt).pendingFrames = e.pendingFrames
        /\ EmitPacket(e, pkt).held = e.held /\ EmitPacket(e, pkt).haveInput = e.haveInput
        /\ EmitPacket(e, pkt).expected = e.expected
        /\ EmitPacket(e, pkt).accepted = e.accepted /\ EmitPacket(e, pkt).skews = e.skews
    BY <2>3
  <2> QED BY <2>4, <2>5, <2>6 DEF s, r, dts
<1> QED BY <1>10, <1>11

--------------------------------------------------------------------------------
(* What the encoder holds                                                   *)

\* Of the samples that have passed, none is missing, and at most one is counted twice
\* for each whole frame.
CountedOnce(passed, represented) ==
    passed <= represented /\ FrameSize * (represented - passed) <= passed

\* The samples in the frames that the codec holds, of which the last has len.
Standing(e, len) ==
    IF e.held = <<>> THEN 0 ELSE IF Len(e.intervals) = 2 THEN FrameSize + len ELSE len

\* The tick at which the next frame begins, or the one after that.
Due(e, anchor, from) == NsToTicks(anchor) + (e.expected - e.pendingFrames - from)

EmptyCodec(e) == e.held = <<>> /\ e.intervals = <<>>

HeldAt(e, t, len) ==
    \E a, b \in Spans :
       /\ e.held = <<a, b>>
       /\ a.end = a.start + FrameSize /\ b.end = b.start + len
       /\ b.start \in {t - len - 1, t - len}
       /\ a.start \in {t - len - FrameSize - 1, t - len - FrameSize}
       /\ e.intervals = <<a, b>> \/ (e.intervals = <<b>> /\ a.end = b.start)

\* The encoder since its anchor: what is pending is placed, what the codec holds stands
\* before it, and nothing that has passed is lost, unless the muxer took nothing any more.
EncoderAt(e, anchor, from, len) ==
    /\ e.pendingFrames + from <= e.expected
    /\ ChunksPlaced(e.pending, anchor, from, e.expected - e.pendingFrames, e.expected)
    /\ e.skews \subseteq -1..1
    /\ ~e.refused =>
          CountedOnce(e.accepted - e.pendingFrames - Standing(e, len), e.represented)
    /\ \/ EmptyCodec(e) /\ e.expected - e.pendingFrames = from
       \/ HeldAt(e, Due(e, anchor, from), len)

\* The DTS of the next packet: the one that the codec holds back longest, or the priming
\* before the frame that is due.
NextDts(e, t) == TicksToNs(IF e.held = <<>> THEN t - FrameSize ELSE e.held[1].start)

\* The muxer has refused nothing, and will take the next packet.
Rising(e, anchor, from) ==
    ~e.refused /\ (e.lastDts >= 0 => e.lastDts <= NextDts(e, Due(e, anchor, from)))

\* The counting of a packet that stands for its frame and a sample more at most.
LEMMA CountKept ==
    ASSUME NEW passed \in Int, NEW r \in Nat, CountedOnce(passed, r)
    PROVE  /\ CountedOnce(passed + FrameSize, r + FrameSize)
           /\ CountedOnce(passed + FrameSize, r + FrameSize + 1)
           /\ \A n \in Nat : CountedOnce(passed + n, r + n)
<1>1. FrameSize \in Nat  BY RateIs
<1>2. /\ FrameSize * ((r + FrameSize) - (passed + FrameSize)) = FrameSize * (r - passed)
      /\ FrameSize * ((r + FrameSize + 1) - (passed + FrameSize))
            = FrameSize * (r - passed) + FrameSize
      /\ FrameSize * (r - passed) \in Int
  BY <1>1
<1>3. ASSUME NEW n \in Nat PROVE CountedOnce(passed + n, r + n)
  <2>1. (r + n) - (passed + n) = r - passed  OBVIOUS
  <2> QED BY <1>1, <1>2, <2>1 DEF CountedOnce
<1> QED BY <1>1, <1>2, <1>3 DEF CountedOnce

\* A frame that is submitted begins where it is due; it may push out a pkt.
LEMMA SubmitIs ==
    ASSUME NEW e \in Encoders, NEW anchor \in Nat, NEW from \in Nat,
           EncoderAt(e, anchor, from, FrameSize),
           NEW n \in 1 .. FrameSize, n <= e.pendingFrames
    PROVE  /\ SubmitFrame(e, n) \in Encoders
           /\ EncoderAt(SubmitFrame(e, n), anchor, from, n)
           /\ SubmitFrame(e, n).pendingFrames = e.pendingFrames - n
           /\ SubmitFrame(e, n).haveInput = e.haveInput
           /\ SubmitFrame(e, n).expected = e.expected
           /\ SubmitFrame(e, n).accepted = e.accepted
           /\ Rising(e, anchor, from) => Rising(SubmitFrame(e, n), anchor, from)
<1> DEFINE p == e.pending
           next == e.expected - e.pendingFrames
           start == Stamp(p[1])
           f == [start |-> start, end |-> start + n]
           q == ConsumePending(p, n)
           sk == e.skews \cup Skews(p, n)
           left == e.pendingFrames - n
           t == Due(e, anchor, from)
           e1 == [e EXCEPT !.intervals = Append(@, f), !.pending = q,
                           !.pendingFrames = left, !.skews = sk]
           d == SubmitFrame(e, n)
<1>1. /\ p \in Seq(Chunks) /\ e.pendingFrames \in Nat /\ e.intervals \in Seq(Spans)
      /\ e.held \in Seq(Spans) /\ e.expected \in Nat /\ e.accepted \in Nat
      /\ e.represented \in Nat /\ e.lastDts \in Int /\ e.refused \in BOOLEAN
      /\ e.skews \subseteq Int /\ e.haveInput \in BOOLEAN /\ FrameSize \in Nat
      /\ FrameSize > 1 /\ n \in Nat /\ n > 0 /\ n <= FrameSize
  BY RateIs DEF Encoders
<1>2. e = [pending |-> p, pendingFrames |-> e.pendingFrames,
           intervals |-> e.intervals, held |-> e.held, haveInput |-> e.haveInput,
           expected |-> e.expected, accepted |-> e.accepted,
           represented |-> e.represented, lastDts |-> e.lastDts, refused |-> e.refused,
           skews |-> e.skews]
  BY DEF Encoders
<1>3. /\ e.pendingFrames + from <= e.expected
      /\ ChunksPlaced(p, anchor, from, next, e.expected)
      /\ e.skews \subseteq -1..1
      /\ ~e.refused =>
            CountedOnce(e.accepted - e.pendingFrames - Standing(e, FrameSize), e.represented)
      /\ \/ EmptyCodec(e) /\ next = from
         \/ HeldAt(e, t, FrameSize)
  BY DEF EncoderAt
<1>4. next \in Nat /\ from <= next /\ n <= e.expected - next /\ e.expected - next = e.pendingFrames
      /\ left \in Nat /\ e.expected - left = next + n /\ left + from <= e.expected
  <2>1. \A x, y \in Nat :
           y + from <= x /\ n <= y =>
              /\ x - y \in Nat /\ from <= x - y /\ n <= x - (x - y) /\ x - (x - y) = y
              /\ y - n \in Nat /\ x - (y - n) = (x - y) + n /\ (y - n) + from <= x
    OBVIOUS
  <2> QED BY <1>1, <1>3, <2>1
<1>5. NsToTicks(anchor) \in Int /\ t = NsToTicks(anchor) + (next - from) /\ t \in Int
  BY <1>4, ClockTypes DEF Due
<1> HIDE DEF t, left, next
<1>6. Len(p) \in Nat /\ Len(p) > 0
  <2>1. next # e.expected  BY <1>1, <1>4
  <2> QED BY <1>1, <1>3, <2>1 DEF ChunksPlaced
<1>7. start \in Int /\ start \in {t - 1, t} /\ (next = from => start = t)
  <2>1. 1 \in 1 .. Len(p)  BY <1>6
  <2>2. Place(p, 1, e.expected) = next  BY <1>3, <1>6 DEF Place, ChunksPlaced
  <2>3. /\ start \in Int
        /\ start - NsToTicks(anchor) \in {next - from - 1, next - from}
        /\ next = from => start = NsToTicks(anchor)
    <3> HIDE DEF p
    <3>1. /\ start \in Int
          /\ start - NsToTicks(anchor) \in {Place(p, 1, e.expected) - from - 1,
                                           Place(p, 1, e.expected) - from}
          /\ Place(p, 1, e.expected) = from => start = NsToTicks(anchor)
      <4>1. /\ p \in Seq(Chunks) /\ next \in Nat /\ e.expected \in Nat
            /\ ChunksPlaced(p, anchor, from, next, e.expected)
        BY <1>1, <1>3, <1>4
      <4> QED BY <2>1, <4>1, StampIs
    <3> QED BY <2>2, <3>1
  <2> HIDE DEF start
  <2> QED BY <1>4, <1>5, <2>3
<1>8. q \in Seq(Chunks) /\ ChunksPlaced(q, anchor, from, next + n, e.expected)
  BY <1>1, <1>3, <1>4, ConsumeIs
<1>9. sk \subseteq -1..1 /\ sk \in SUBSET Int
  <2>1. Skews(p, n) \subseteq -1..1  BY <1>1, <1>3, <1>4, SkewsAre
  <2> QED BY <1>3, <2>1
<1>10. d = AvSendFrame(e1, start, n)  BY DEF SubmitFrame, left
<1> HIDE DEF d, q, sk, p, start
<1>11. f \in Spans /\ f.start = start /\ f.end = start + n  BY <1>1, <1>7 DEF Spans
<1>12. [start |-> start, end |-> start + n] = f  OBVIOUS
<1> HIDE DEF f
<1>13. e1 = [pending |-> q, pendingFrames |-> left,
             intervals |-> Append(e.intervals, f), held |-> e.held,
             haveInput |-> e.haveInput, expected |-> e.expected, accepted |-> e.accepted,
             represented |-> e.represented, lastDts |-> e.lastDts, refused |-> e.refused,
             skews |-> sk]
  <2>1. e1 = [e EXCEPT !.intervals = Append(e.intervals, f), !.pending = q,
                       !.pendingFrames = left, !.skews = sk]
    OBVIOUS
  <2> HIDE DEF e1
  <2> QED BY <1>2, <2>1
<1> HIDE DEF e1
<1>14. CASE EmptyCodec(e) /\ next = from
  <2> DEFINE a == [start |-> start - FrameSize, end |-> start]
  <2>1. e.held = <<>> /\ e.intervals = <<>>  BY <1>14 DEF EmptyCodec
  <2>2. d = [e1 EXCEPT !.held = <<a, f>>]  BY <1>10, <1>13, <1>12, <2>1 DEF AvSendFrame
  <2>3. a \in Spans /\ a.start = start - FrameSize /\ a.end = start
    BY <1>1, <1>7 DEF Spans
  <2> HIDE DEF a
  <2>4. d = [pending |-> q, pendingFrames |-> left,
             intervals |-> <<f>>, held |-> <<a, f>>,
             haveInput |-> e.haveInput, expected |-> e.expected, accepted |-> e.accepted,
             represented |-> e.represented, lastDts |-> e.lastDts, refused |-> e.refused,
             skews |-> sk]
    BY <1>13, <2>1, <2>2
  <2>5. <<f>> \in Seq(Spans) /\ <<a, f>> \in Seq(Spans) /\ <<a, f>> # <<>> /\ Len(<<f>>) = 1
    BY <1>11, <2>3
  <2>6. d \in Encoders  BY <1>1, <1>4, <1>8, <1>9, <2>4, <2>5 DEF Encoders
  <2>7. Standing(d, n) = n /\ Standing(e, FrameSize) = 0
    <3>1. d.held # <<>> /\ Len(d.intervals) = 1  BY <2>4, <2>5
    <3> QED BY <2>1, <3>1 DEF Standing
  <2>8. e.accepted - left - n = e.accepted - e.pendingFrames - 0
    <3>1. \A x, y, z \in Int : x - (y - z) - z = x - y - 0  OBVIOUS
    <3>2. e.accepted \in Int /\ e.pendingFrames \in Int /\ n \in Int  BY <1>1
    <3>3. left = e.pendingFrames - n  BY DEF left
    <3> QED BY <3>1, <3>2, <3>3
  <2>9. ~d.refused => CountedOnce(d.accepted - d.pendingFrames - Standing(d, n), d.represented)
    BY <1>3, <2>4, <2>7, <2>8
  <2>10. Due(d, anchor, from) = t + n
    <3>1. d.expected - d.pendingFrames = next + n  BY <1>4, <2>4
    <3> QED BY <1>1, <1>4, <1>5, <3>1 DEF Due
  <2>11. HeldAt(d, t + n, n)
    <3>1. start = t  BY <1>7, <1>14
    <3>2. f.start \in {(t + n) - n - 1, (t + n) - n}
          /\ a.start \in {(t + n) - n - FrameSize - 1, (t + n) - n - FrameSize}
          /\ a.end = a.start + FrameSize /\ f.end = f.start + n /\ a.end = f.start
      BY <1>1, <1>5, <1>11, <2>3, <3>1
    <3>3. d.held = <<a, f>> /\ d.intervals = <<f>>  BY <2>4
    <3> QED BY <1>11, <2>3, <3>2, <3>3 DEF HeldAt
  <2>12. EncoderAt(d, anchor, from, n)
    BY <1>3, <1>4, <1>8, <1>9, <2>4, <2>9, <2>10, <2>11 DEF EncoderAt
  <2>13. Rising(e, anchor, from) => Rising(d, anchor, from)
    <3>1. NextDts(e, t) = TicksToNs(t - FrameSize)  BY <2>1 DEF NextDts
    <3>2. a.start = t - FrameSize  BY <1>7, <1>14, <2>3
    <3>3. d.held # <<>> /\ d.held[1] = a /\ d.lastDts = e.lastDts /\ d.refused = e.refused
      BY <2>4
    <3>4. NextDts(d, Due(d, anchor, from)) = TicksToNs(t - FrameSize)
      BY <3>2, <3>3 DEF NextDts
    <3>5. Due(e, anchor, from) = t  BY DEF t
    <3> QED BY <3>1, <3>3, <3>4, <3>5 DEF Rising
  <2> QED BY <2>4, <2>6, <2>12, <2>13 DEF d, left
<1>15. CASE HeldAt(e, t, FrameSize)
  <2>1. PICK a, b \in Spans :
           /\ e.held = <<a, b>>
           /\ a.end = a.start + FrameSize /\ b.end = b.start + FrameSize
           /\ b.start \in {t - FrameSize - 1, t - FrameSize}
           /\ a.start \in {t - FrameSize - FrameSize - 1, t - FrameSize - FrameSize}
           /\ e.intervals = <<a, b>> \/ (e.intervals = <<b>> /\ a.end = b.start)
    BY <1>15 DEF HeldAt
  <2> DEFINE e2 == [e1 EXCEPT !.held = <<b, f>>]
             s == Append(e.intervals, f)
  <2>2. d = EmitPacket(e2, a)
    <3>1. e1.held = <<a, b>>  BY <1>13, <2>1
    <3>2. e1.held # <<>> /\ e1.held[1] = a /\ e1.held[2] = b  BY <3>1
    <3>3. AvSendFrame(e1, start, n) = EmitPacket([e1 EXCEPT !.held = <<e1.held[2], f>>], e1.held[1])
      BY <1>12, <3>2 DEF AvSendFrame
    <3> QED BY <1>10, <3>2, <3>3
  <2>3. e2 = [pending |-> q, pendingFrames |-> left,
              intervals |-> s, held |-> <<b, f>>,
              haveInput |-> e.haveInput, expected |-> e.expected, accepted |-> e.accepted,
              represented |-> e.represented, lastDts |-> e.lastDts, refused |-> e.refused,
              skews |-> sk]
    <3> HIDE DEF s
    <3>1. e2 = [e1 EXCEPT !.held = <<b, f>>]  OBVIOUS
    <3>2. Append(e.intervals, f) = s  BY DEF s
    <3> HIDE DEF e2
    <3> QED BY <1>13, <3>1, <3>2
  <2>4. s \in Seq(Spans) /\ <<b, f>> \in Seq(Spans) /\ <<b, f>> # <<>> /\ Len(<<b, f>>) = 2
    BY <1>1, <1>11
  <2> HIDE DEF e2, s
  <2>5. e2 \in Encoders  BY <1>1, <1>4, <1>8, <1>9, <2>3, <2>4 DEF Encoders
  <2>6. a.start \in Int /\ a.end \in Int /\ b.start \in Int /\ b.end \in Int
    BY DEF Spans
  <2>7. /\ a.start < a.end /\ b.start < b.end /\ f.start < f.end
        /\ f.start >= a.end /\ b.end > a.end /\ f.end > a.end
        /\ b.start >= a.end \/ b.start = a.end - 1
        /\ a.start <= b.start
    <3>1. \A F, u, v, w, x \in Int :
             /\ F > 1 /\ n > 0
             /\ v \in {u - F - 1, u - F} /\ w \in {u - F - F - 1, u - F - F}
             /\ x \in {u - 1, u}
             => /\ w < w + F /\ v < v + F /\ x < x + n
                /\ x >= w + F /\ v + F > w + F /\ x + n > w + F
                /\ v >= w + F \/ v = (w + F) - 1
                /\ w <= v
      OBVIOUS
    <3>2. FrameSize \in Int /\ FrameSize > 1 /\ n > 0  BY <1>1
    <3> QED BY <1>5, <1>7, <1>11, <2>1, <2>6, <3>1, <3>2
  <2>8. Overlap(a, a) = FrameSize /\ Overlap(f, a) = 0 /\ Overlap(b, a) \in {0, 1}
        /\ (a.end = b.start => Overlap(b, a) = 0)
    <3>1. Overlap(a, a) = a.end - a.start  BY <2>7, OverlapAt
    <3>2. Overlap(f, a) = 0  BY <1>11, <2>7, OverlapAt
    <3>3. /\ b.start >= a.end => Overlap(b, a) = 0
          /\ b.start = a.end - 1 => Overlap(b, a) = 1
      BY <2>7, OverlapAt
    <3>4. a.end - a.start = FrameSize  BY <1>1, <2>1, <2>6
    <3>5. a.end = b.start => b.start >= a.end  BY <2>6
    <3> QED BY <2>7, <3>1, <3>2, <3>3, <3>4, <3>5
  <2>9. /\ \/ Covered(s, a) = Overlap(b, a) /\ e.intervals = <<b>> /\ a.end = b.start
           \/ Covered(s, a) = FrameSize + Overlap(b, a) /\ e.intervals = <<a, b>>
        /\ \E k \in 0 .. Len(s) : Complete(s, a) = k /\ SubSeq(s, k + 1, Len(s)) = <<b, f>>
    <3>1. CASE e.intervals = <<a, b>>
      <4>1. s = <<a, b, f>>  BY <1>11, <3>1, ShortListsGrow DEF s
      <4>2. Len(s) = 3 /\ s[1] = a /\ s[2] = b /\ s[3] = f  BY <4>1
      <4>7. SubSeq(s, 2, 3) = <<b, f>>
        <5>1. SubSeq(s, 2, 3) = <<s[2], s[3]>>  BY <2>4, <4>2, LastTwo
        <5> QED BY <4>2, <5>1
      <4>3. Covered(s, a) = Overlap(a, a) + Overlap(b, a) + Overlap(f, a)
        BY <2>4, <4>2, CoveredIs
      <4>4. Complete(s, a) = 1
        <5>1. 1 \in 0 .. Len(s) /\ \A i \in 1..1 : s[i].end <= a.end  BY <2>6, <4>2
        <5>2. s[1 + 1].end > a.end  BY <2>7, <4>2
        <5> QED BY <2>4, <5>1, <5>2, CompleteIs
      <4>5. Covered(s, a) = FrameSize + Overlap(b, a)  BY <1>1, <2>8, <4>3
      <4>6. 1 \in 0 .. Len(s) /\ SubSeq(s, 1 + 1, Len(s)) = <<b, f>>  BY <4>2, <4>7
      <4> QED BY <3>1, <4>4, <4>5, <4>6
    <3>2. CASE e.intervals = <<b>> /\ a.end = b.start
      <4>1. s = <<b, f>>  BY <1>11, <3>2, ShortListsGrow DEF s
      <4>2. Len(s) = 2 /\ s[1] = b /\ s[2] = f  BY <4>1
      <4>7. SubSeq(s, 1, 2) = <<b, f>>  BY <1>11, <4>1, ShortListsShrink
      <4>3. Covered(s, a) = Overlap(b, a) + Overlap(f, a)  BY <2>4, <4>2, CoveredIs
      <4>4. Complete(s, a) = 0
        <5>1. 0 \in 0 .. Len(s) /\ \A i \in 1..0 : s[i].end <= a.end  BY <4>2
        <5>2. s[0 + 1].end > a.end  BY <2>7, <4>2
        <5> QED BY <2>4, <5>1, <5>2, CompleteIs
      <4>5. Covered(s, a) = Overlap(b, a)  BY <2>8, <4>3
      <4>6. 0 \in 0 .. Len(s) /\ SubSeq(s, 0 + 1, Len(s)) = <<b, f>>  BY <4>2, <4>7
      <4> QED BY <3>2, <4>4, <4>5, <4>6
    <3> QED BY <2>1, <3>1, <3>2
  <2>10. PICK k \in 0 .. Len(s) : Complete(s, a) = k /\ SubSeq(s, k + 1, Len(s)) = <<b, f>>
    BY <2>9
  <2>11. Covered(s, a) \in Nat  BY <1>1, <2>8, <2>9
  <2>12. e2.intervals = s  BY <2>3
  <2> DEFINE dts == TicksToNs(a.start)
  <2>13. /\ d \in Encoders
         /\ d.pending = q /\ d.pendingFrames = left /\ d.held = <<b, f>>
         /\ d.haveInput = e.haveInput /\ d.expected = e.expected /\ d.accepted = e.accepted
         /\ d.skews = sk /\ d.intervals = <<b, f>> /\ d.refused = TooLate(e, a)
         /\ ~TooLate(e, a) =>
               d.represented = e.represented + Covered(s, a) /\ d.lastDts = dts
    <3>1. /\ e2.pending = q /\ e2.pendingFrames = left /\ e2.held = <<b, f>>
          /\ e2.haveInput = e.haveInput /\ e2.expected = e.expected
          /\ e2.accepted = e.accepted /\ e2.skews = sk /\ e2.represented = e.represented
          /\ e2.lastDts = e.lastDts /\ e2.refused = e.refused
      BY <2>3
    <3>2. k \in 0 .. Len(e2.intervals) /\ Complete(e2.intervals, a) = k
          /\ Covered(e2.intervals, a) \in Nat
      BY <2>10, <2>11, <2>12
    <3>3. /\ d \in Encoders
          /\ d.pending = e2.pending /\ d.pendingFrames = e2.pendingFrames
          /\ d.held = e2.held /\ d.haveInput = e2.haveInput /\ d.expected = e2.expected
          /\ d.accepted = e2.accepted /\ d.skews = e2.skews
          /\ d.intervals = SubSeq(e2.intervals, k + 1, Len(e2.intervals))
          /\ d.refused = TooLate(e2, a)
          /\ ~TooLate(e2, a) =>
                d.represented = e2.represented + Covered(e2.intervals, a) /\ d.lastDts = dts
      BY <2>2, <2>5, <3>2, EmitIs
    <3>4. TooLate(e2, a) = TooLate(e, a)  BY <3>1 DEF TooLate
    <3> HIDE DEF dts
    <3> QED BY <2>10, <2>12, <3>1, <3>3, <3>4
  <2> HIDE DEF dts
  <2>14. Rising(e, anchor, from) => Rising(d, anchor, from)
    <3>1. SUFFICES ASSUME Rising(e, anchor, from) PROVE Rising(d, anchor, from)  OBVIOUS
    <3>2. e.held # <<>> /\ e.held[1] = a  BY <2>1
    <3>3. ~e.refused /\ (e.lastDts >= 0 => e.lastDts <= TicksToNs(a.start))
      BY <3>1, <3>2 DEF Rising, NextDts
    <3>4. TicksToNs(a.start) \in Int /\ TicksToNs(b.start) \in Int
          /\ TicksToNs(a.start) <= TicksToNs(b.start)
      BY <2>6, <2>7, ClockTypes, ClockRises
    <3>5. ~TooLate(e, a)  BY <1>1, <3>3, <3>4 DEF TooLate
    <3>6. d.held # <<>> /\ d.held[1] = b /\ ~d.refused /\ d.lastDts = TicksToNs(a.start)
      BY <2>13, <3>5 DEF dts
    <3> QED BY <3>4, <3>6 DEF Rising, NextDts
  <2>15. Due(d, anchor, from) = t + n
    <3>1. d.expected - d.pendingFrames = next + n  BY <1>4, <2>13
    <3> QED BY <1>1, <1>4, <1>5, <3>1 DEF Due
  <2>16. HeldAt(d, t + n, n)
    <3>1. /\ f.start \in {(t + n) - n - 1, (t + n) - n} /\ f.end = f.start + n
          /\ b.start \in {(t + n) - n - FrameSize - 1, (t + n) - n - FrameSize}
      <4>1. \A F, u, v, x \in Int :
               v \in {u - F - 1, u - F} /\ x \in {u - 1, u} =>
                  /\ x \in {(u + n) - n - 1, (u + n) - n}
                  /\ v \in {(u + n) - n - F - 1, (u + n) - n - F}
        OBVIOUS
      <4>2. FrameSize \in Int  BY <1>1
      <4> QED BY <1>5, <1>7, <1>11, <2>1, <2>6, <4>1, <4>2
    <3> QED BY <1>11, <2>1, <2>13, <3>1 DEF HeldAt
  <2>17. ASSUME ~d.refused
         PROVE  CountedOnce(d.accepted - d.pendingFrames - Standing(d, n), d.represented)
    <3>0. /\ d.represented = e.represented + Covered(s, a)
          /\ CountedOnce(e.accepted - e.pendingFrames - Standing(e, FrameSize), e.represented)
      BY <1>3, <2>13, <2>17 DEF TooLate
    <3>1. Standing(d, n) = FrameSize + n  BY <2>4, <2>13 DEF Standing
    <3>2. CASE Covered(s, a) = Overlap(b, a) /\ e.intervals = <<b>> /\ a.end = b.start
      <4>1. Standing(e, FrameSize) = FrameSize  BY <2>1, <3>2 DEF Standing
      <4>2. d.accepted - d.pendingFrames - (FrameSize + n) = e.accepted - e.pendingFrames - FrameSize
        BY <1>1, <2>13 DEF left
      <4>3. d.represented = e.represented  BY <1>1, <2>8, <3>0, <3>2
      <4> QED BY <3>0, <3>1, <4>1, <4>2, <4>3
    <3>3. CASE Covered(s, a) = FrameSize + Overlap(b, a) /\ e.intervals = <<a, b>>
      <4> DEFINE passed == e.accepted - e.pendingFrames - (FrameSize + FrameSize)
      <4>1. Standing(e, FrameSize) = FrameSize + FrameSize  BY <2>1, <3>3 DEF Standing
      <4>2. d.accepted - d.pendingFrames - (FrameSize + n) = passed + FrameSize
        BY <1>1, <2>13 DEF left
      <4>3. \/ d.represented = e.represented + FrameSize
            \/ d.represented = e.represented + FrameSize + 1
        <5>1. d.represented = e.represented + (FrameSize + Overlap(b, a))
          <6>1. d.represented = e.represented + Covered(s, a)  BY <3>0
          <6>2. Covered(s, a) = FrameSize + Overlap(b, a)  BY <3>3
          <6> QED BY ONLY <6>1, <6>2
        <5>2. \A x, y \in Int : x + (y + 0) = x + y /\ x + (y + 1) = x + y + 1  OBVIOUS
        <5>3. e.represented \in Int /\ FrameSize \in Int  BY <1>1
        <5>4. \A o \in {0, 1} : d.represented = e.represented + (FrameSize + o) =>
                 \/ d.represented = e.represented + FrameSize
                 \/ d.represented = e.represented + FrameSize + 1
          BY <5>2, <5>3
        <5>5. Overlap(b, a) \in {0, 1}  BY <2>8
        <5> QED BY ONLY <5>1, <5>4, <5>5
      <4>4. passed \in Int /\ CountedOnce(passed, e.represented)  BY <1>1, <3>0, <4>1
      <4> HIDE DEF passed
      <4> QED BY <1>1, <3>1, <4>2, <4>3, <4>4, CountKept
    <3> QED BY <2>9, <3>2, <3>3
  <2>18. EncoderAt(d, anchor, from, n)
    BY <1>3, <1>4, <1>8, <1>9, <2>13, <2>15, <2>16, <2>17 DEF EncoderAt
  <2> QED BY <2>13, <2>14, <2>18 DEF d, left
<1> QED BY <1>3, <1>14, <1>15

\* Drained, the codec has put out all it held.
LEMMA DrainCodecIs ==
    ASSUME NEW e \in Encoders, NEW anchor \in Nat, NEW from \in Nat, NEW len \in 1 .. FrameSize,
           EncoderAt(e, anchor, from, len)
    PROVE  /\ DrainCodec(e) \in Encoders
           /\ DrainCodec(e).pending = e.pending
           /\ DrainCodec(e).pendingFrames = e.pendingFrames
           /\ DrainCodec(e).haveInput = e.haveInput
           /\ DrainCodec(e).expected = e.expected
           /\ DrainCodec(e).accepted = e.accepted
           /\ DrainCodec(e).held = <<>> /\ DrainCodec(e).intervals = <<>>
           /\ DrainCodec(e).skews \subseteq -1..1
           /\ ~DrainCodec(e).refused =>
                 CountedOnce(e.accepted - e.pendingFrames, DrainCodec(e).represented)
           /\ Rising(e, anchor, from) =>
                 /\ ~DrainCodec(e).refused
                 /\ len = FrameSize /\ DrainCodec(e).lastDts >= 0 =>
                       DrainCodec(e).lastDts <= TicksToNs(Due(e, anchor, from) - FrameSize)
<1> DEFINE d == DrainCodec(e)
           t == Due(e, anchor, from)
<1>1. /\ e.pending \in Seq(Chunks) /\ e.pendingFrames \in Nat /\ e.intervals \in Seq(Spans)
      /\ e.held \in Seq(Spans) /\ e.expected \in Nat /\ e.accepted \in Nat
      /\ e.represented \in Nat /\ e.lastDts \in Int /\ e.refused \in BOOLEAN
      /\ FrameSize \in Nat /\ FrameSize > 1 /\ len \in Nat /\ len > 0 /\ len <= FrameSize
  BY RateIs DEF Encoders
<1>2. /\ e.skews \subseteq -1..1
      /\ ~e.refused =>
            CountedOnce(e.accepted - e.pendingFrames - Standing(e, len), e.represented)
      /\ \/ EmptyCodec(e) /\ e.expected - e.pendingFrames = from
         \/ HeldAt(e, t, len)
  BY DEF EncoderAt
<1>3. t \in Int
  <2>1. NsToTicks(anchor) \in Int  BY ClockTypes
  <2>2. e.expected - e.pendingFrames - from \in Int  BY <1>1
  <2> QED BY <2>1, <2>2 DEF Due
<1> HIDE DEF t
<1>4. CASE EmptyCodec(e) /\ e.expected - e.pendingFrames = from
  <2>1. e.held = <<>> /\ e.intervals = <<>>  BY <1>4 DEF EmptyCodec
  <2>2. d = e /\ Standing(e, len) = 0  BY <2>1 DEF DrainCodec, Standing
  <2>3. e.accepted - e.pendingFrames - 0 = e.accepted - e.pendingFrames  BY <1>1
  <2>4. ~e.refused => CountedOnce(e.accepted - e.pendingFrames, e.represented)
    BY <1>2, <2>2, <2>3
  <2>5. Rising(e, anchor, from) =>
           ~e.refused /\ (e.lastDts >= 0 => e.lastDts <= TicksToNs(t - FrameSize))
    BY <2>1 DEF Rising, NextDts, t
  <2> HIDE DEF d
  <2> QED BY <1>2, <2>1, <2>2, <2>4, <2>5 DEF d, t
<1>5. CASE HeldAt(e, t, len)
  <2>1. PICK a, b \in Spans :
           /\ e.held = <<a, b>>
           /\ a.end = a.start + FrameSize /\ b.end = b.start + len
           /\ b.start \in {t - len - 1, t - len}
           /\ a.start \in {t - len - FrameSize - 1, t - len - FrameSize}
           /\ e.intervals = <<a, b>> \/ (e.intervals = <<b>> /\ a.end = b.start)
    BY <1>5 DEF HeldAt
  <2> DEFINE e0 == [e EXCEPT !.held = <<>>]
             d1 == EmitPacket(e0, a)
             s == e.intervals
             aNs == TicksToNs(a.start)
             bNs == TicksToNs(b.start)
  <2>2. d = EmitPacket(d1, b)
    <3>1. e.held # <<>> /\ e.held[1] = a /\ e.held[2] = b  BY <2>1
    <3> QED BY <3>1 DEF DrainCodec
  <2>3. /\ e0 \in Encoders /\ e0.pending = e.pending /\ e0.pendingFrames = e.pendingFrames
        /\ e0.intervals = s /\ e0.held = <<>> /\ e0.haveInput = e.haveInput
        /\ e0.expected = e.expected /\ e0.accepted = e.accepted
        /\ e0.represented = e.represented /\ e0.lastDts = e.lastDts
        /\ e0.refused = e.refused /\ e0.skews = e.skews
    <3>1. <<>> \in Seq(Spans)  OBVIOUS
    <3> QED BY <3>1 DEF Encoders
  <2> HIDE DEF e0, d1, d
  <2>4. a.start \in Int /\ a.end \in Int /\ b.start \in Int /\ b.end \in Int
    BY DEF Spans
  <2>5. /\ a.start < a.end /\ b.start < b.end
        /\ b.start >= a.end \/ b.start = a.end - 1
        /\ b.end <= a.end => b.start = a.end - 1 /\ len = 1
        /\ a.start <= b.start /\ b.start <= t - len
    <3>1. \A F, u, v, w \in Int :
             /\ F > 1
             /\ v \in {u - len - 1, u - len} /\ w \in {u - len - F - 1, u - len - F}
             => /\ w < w + F /\ v < v + len
                /\ v >= w + F \/ v = (w + F) - 1
                /\ v + len <= w + F => v = (w + F) - 1 /\ len = 1
                /\ w <= v /\ v <= u - len
      BY <1>1
    <3>2. FrameSize \in Int /\ FrameSize > 1  BY <1>1
    <3> QED BY <1>3, <2>1, <2>4, <3>1, <3>2
  <2>6. /\ Overlap(a, a) = FrameSize /\ Overlap(b, b) = len /\ Overlap(b, a) \in {0, 1}
        /\ (b.start >= a.end => Overlap(b, a) = 0) /\ (b.start = a.end - 1 => Overlap(b, a) = 1)
    <3>1. Overlap(a, a) = a.end - a.start /\ Overlap(b, b) = b.end - b.start
      BY <2>5, OverlapAt
    <3>2. /\ b.start >= a.end => Overlap(b, a) = 0
          /\ b.start = a.end - 1 => Overlap(b, a) = 1
      BY <2>5, OverlapAt
    <3>3. a.end - a.start = FrameSize /\ b.end - b.start = len
      <4>1. \A x, y \in Int : (x + y) - x = y  OBVIOUS
      <4>2. FrameSize \in Int /\ len \in Int  BY <1>1
      <4> QED BY <2>1, <2>4, <4>1, <4>2
    <3> QED BY <2>5, <3>1, <3>2, <3>3
  <2>7. <<b>> \in Seq(Spans) /\ Len(<<b>>) = 1 /\ <<b>>[1] = b /\ <<>> \in Seq(Spans)
        /\ Len(<<>>) = 0
    OBVIOUS
  <2>8. Covered(<<b>>, b) = len /\ Complete(<<b>>, b) = 1 /\ Covered(<<>>, b) = 0
        /\ Complete(<<>>, b) = 0
    <3>1. Covered(<<b>>, b) = Overlap(b, b)  BY <2>7, CoveredIs
    <3>2. Covered(<<>>, b) = 0  BY <2>7, CoveredIs
    <3>3. Complete(<<b>>, b) = 1
      <4>1. 1 \in 0 .. Len(<<b>>) /\ (\A i \in 1..1 : <<b>>[i].end <= b.end) /\ ~(1 < Len(<<b>>))
        BY <2>4, <2>7
      <4> QED BY <2>7, <4>1, CompleteIs
    <3>4. Complete(<<>>, b) = 0
      <4>1. 0 \in 0 .. Len(<<>>) /\ (\A i \in 1..0 : <<>>[i].end <= b.end) /\ ~(0 < Len(<<>>))
        BY <2>7
      <4> QED BY <2>7, <4>1, CompleteIs
    <3> QED BY <2>6, <3>1, <3>2, <3>3, <3>4
  <2> DEFINE Went(k) ==
           /\ Complete(s, a) = k
           /\ \/ /\ Covered(s, a) = FrameSize + Overlap(b, a) /\ s = <<a, b>>
                 /\ SubSeq(s, k + 1, Len(s)) = <<b>>
              \/ /\ Covered(s, a) = FrameSize + 1 /\ s = <<a, b>> /\ len = 1
                 /\ SubSeq(s, k + 1, Len(s)) = <<>>
              \/ /\ Covered(s, a) = 0 /\ s = <<b>>
                 /\ SubSeq(s, k + 1, Len(s)) = <<b>>
  <2>9. \E k \in 0 .. Len(s) : Went(k)
    <3>1. CASE s = <<a, b>>
      <4>1. Len(s) = 2 /\ s[1] = a /\ s[2] = b /\ s \in Seq(Spans)  BY <1>1, <3>1
      <4>2. SubSeq(s, 2, 2) = <<b>> /\ SubSeq(s, 3, 2) = <<>>
        <5>1. SubSeq(<<a, b>>, 2, 2) = <<b>> /\ SubSeq(<<a, b>>, 3, 2) = <<>>
          BY ShortListsShrink
        <5> QED BY <3>1, <5>1
      <4>3. Covered(s, a) = FrameSize + Overlap(b, a)
        <5> HIDE DEF s
        <5>1. Covered(s, a) = Overlap(a, a) + Overlap(b, a)  BY <4>1, CoveredIs
        <5> QED BY <2>6, <5>1
      <4>4. CASE b.end > a.end
        <5>1. Complete(s, a) = 1
          <6> HIDE DEF s
          <6>1. 1 \in 0 .. Len(s) /\ (\A i \in 1..1 : s[i].end <= a.end) /\ s[1 + 1].end > a.end
            BY <2>4, <4>1, <4>4
          <6> QED BY <4>1, <6>1, CompleteIs
        <5>2. 1 \in 0 .. Len(s) /\ SubSeq(s, 1 + 1, Len(s)) = <<b>>  BY <4>1, <4>2
        <5> QED BY <3>1, <4>3, <5>1, <5>2
      <4>5. CASE b.end <= a.end
        <5>1. Complete(s, a) = 2
          <6> HIDE DEF s
          <6>1. 2 \in 0 .. Len(s) /\ (\A i \in 1..2 : s[i].end <= a.end) /\ ~(2 < Len(s))
            BY <2>4, <4>1, <4>5
          <6> QED BY <4>1, <6>1, CompleteIs
        <5>2. 2 \in 0 .. Len(s) /\ SubSeq(s, 2 + 1, Len(s)) = <<>>  BY <4>1, <4>2
        <5>3. Overlap(b, a) = 1 /\ len = 1  BY <2>5, <2>6, <4>5
        <5>4. Covered(s, a) = FrameSize + 1  BY <4>3, <5>3
        <5>5. /\ Complete(s, a) = 2
              /\ Covered(s, a) = FrameSize + 1 /\ s = <<a, b>> /\ len = 1
              /\ SubSeq(s, 2 + 1, Len(s)) = <<>>
          BY <3>1, <5>1, <5>2, <5>3, <5>4
        <5>6. Went(2)  BY <5>5
        <5> HIDE DEF Went
        <5> QED BY <5>2, <5>6
      <4>6. b.end > a.end \/ b.end <= a.end  BY <2>4
      <4> QED BY <4>4, <4>5, <4>6
    <3>2. CASE s = <<b>> /\ a.end = b.start
      <4>1. Len(s) = 1 /\ s[1] = b /\ s \in Seq(Spans)  BY <1>1, <3>2
      <4>2. SubSeq(s, 1, 1) = <<b>>  BY <3>2, ShortListsShrink
      <4>3. Covered(s, a) = 0
        <5>1. b.start >= a.end  BY <2>4, <3>2
        <5> HIDE DEF s
        <5>2. Covered(s, a) = Overlap(b, a)  BY <4>1, CoveredIs
        <5> QED BY <2>6, <5>1, <5>2
      <4>4. Complete(s, a) = 0
        <5>1. b.end > a.end  BY <2>4, <2>5, <3>2
        <5> HIDE DEF s
        <5>2. 0 \in 0 .. Len(s) /\ (\A i \in 1..0 : s[i].end <= a.end) /\ s[0 + 1].end > a.end
          BY <4>1, <5>1
        <5> QED BY <4>1, <5>2, CompleteIs
      <4>5. 0 \in 0 .. Len(s) /\ SubSeq(s, 0 + 1, Len(s)) = <<b>>  BY <4>1, <4>2
      <4> QED BY <3>2, <4>3, <4>4, <4>5
    <3> QED BY <2>1, <3>1, <3>2
  <2>10. PICK k \in 0 .. Len(s) : Went(k)  BY <2>9
  <2> HIDE DEF s
  <2>11. Covered(s, a) \in Nat  BY <1>1, <2>6, <2>10
  <2>12. aNs \in Int /\ bNs \in Int /\ aNs <= bNs  BY <2>4, <2>5, ClockTypes, ClockRises
  <2> DEFINE rest == SubSeq(s, k + 1, Len(s))
  <2>13. /\ d1 \in Encoders
         /\ d1.pending = e.pending /\ d1.pendingFrames = e.pendingFrames /\ d1.held = <<>>
         /\ d1.haveInput = e.haveInput /\ d1.expected = e.expected /\ d1.accepted = e.accepted
         /\ d1.skews = e.skews /\ d1.intervals = rest /\ d1.refused = TooLate(e, a)
         /\ ~TooLate(e, a) =>
               d1.represented = e.represented + Covered(s, a) /\ d1.lastDts = aNs
    <3>1. k \in 0 .. Len(e0.intervals) /\ Complete(e0.intervals, a) = k
          /\ Covered(e0.intervals, a) \in Nat
      BY <2>3, <2>10, <2>11
    <3>2. /\ d1 \in Encoders
          /\ d1.pending = e0.pending /\ d1.pendingFrames = e0.pendingFrames
          /\ d1.held = e0.held /\ d1.haveInput = e0.haveInput /\ d1.expected = e0.expected
          /\ d1.accepted = e0.accepted /\ d1.skews = e0.skews
          /\ d1.intervals = SubSeq(e0.intervals, k + 1, Len(e0.intervals))
          /\ d1.refused = TooLate(e0, a)
          /\ ~TooLate(e0, a) =>
                d1.represented = e0.represented + Covered(e0.intervals, a) /\ d1.lastDts = aNs
      BY <2>3, <3>1, EmitIs DEF d1
    <3>3. TooLate(e0, a) = TooLate(e, a)  BY <2>3 DEF TooLate
    <3> HIDE DEF aNs
    <3> QED BY <2>3, <3>2, <3>3
  <2>14. \E j \in 0 .. Len(rest) : Complete(rest, b) = j /\ SubSeq(rest, j + 1, Len(rest)) = <<>>
    <3>1. CASE rest = <<b>>
      <4>1. 1 \in 0 .. Len(<<b>>) /\ SubSeq(<<b>>, 1 + 1, Len(<<b>>)) = <<>>
        BY <2>7, ShortListsShrink
      <4> QED BY <2>8, <3>1, <4>1
    <3>2. CASE rest = <<>>
      <4>1. 0 \in 0 .. Len(<<>>) /\ SubSeq(<<>>, 0 + 1, Len(<<>>)) = <<>>  BY <2>7
      <4> QED BY <2>8, <3>2, <4>1
    <3> QED BY <2>10, <3>1, <3>2
  <2>15. PICK j \in 0 .. Len(rest) :
            Complete(rest, b) = j /\ SubSeq(rest, j + 1, Len(rest)) = <<>>
    BY <2>14
  <2>16. Covered(rest, b) = IF rest = <<>> THEN 0 ELSE len
    <3>1. <<b>> # <<>>  OBVIOUS
    <3> QED BY <2>8, <2>10, <3>1
  <2> HIDE DEF rest
  <2>17. /\ d \in Encoders
         /\ d.pending = e.pending /\ d.pendingFrames = e.pendingFrames /\ d.held = <<>>
         /\ d.haveInput = e.haveInput /\ d.expected = e.expected /\ d.accepted = e.accepted
         /\ d.skews = e.skews /\ d.intervals = <<>> /\ d.refused = TooLate(d1, b)
         /\ ~TooLate(d1, b) =>
               d.represented = d1.represented + Covered(rest, b) /\ d.lastDts = bNs
    <3>1. j \in 0 .. Len(d1.intervals) /\ Complete(d1.intervals, b) = j
          /\ Covered(d1.intervals, b) \in Nat
      BY <1>1, <2>13, <2>15, <2>16
    <3>2. /\ d \in Encoders
          /\ d.pending = d1.pending /\ d.pendingFrames = d1.pendingFrames
          /\ d.held = d1.held /\ d.haveInput = d1.haveInput /\ d.expected = d1.expected
          /\ d.accepted = d1.accepted /\ d.skews = d1.skews
          /\ d.intervals = SubSeq(d1.intervals, j + 1, Len(d1.intervals))
          /\ d.refused = TooLate(d1, b)
          /\ ~TooLate(d1, b) =>
                d.represented = d1.represented + Covered(d1.intervals, b) /\ d.lastDts = bNs
      BY <2>2, <2>13, <3>1, EmitIs
    <3> HIDE DEF aNs, bNs
    <3> QED BY <2>13, <2>15, <3>2
  <2>18. ASSUME ~d.refused
         PROVE  /\ ~e.refused
                /\ d.represented = e.represented + Covered(s, a) + Covered(rest, b)
    <3>1. ~TooLate(d1, b)  BY <2>18, <2>17
    <3>2. ~TooLate(e, a)  BY <2>13, <3>1 DEF TooLate
    <3>3. ~e.refused  BY <3>2 DEF TooLate
    <3> QED BY <2>13, <2>17, <3>1, <3>2, <3>3
  <2>19. ASSUME Rising(e, anchor, from) PROVE ~d.refused /\ d.lastDts = bNs
    <3>1. e.held # <<>> /\ e.held[1] = a  BY <2>1
    <3>2. ~e.refused /\ (e.lastDts >= 0 => e.lastDts <= aNs)
      BY <2>19, <3>1 DEF Rising, NextDts
    <3>3. ~TooLate(e, a)  BY <1>1, <2>12, <3>2 DEF TooLate
    <3>4. ~d1.refused /\ d1.lastDts = aNs  BY <2>13, <3>3
    <3>5. ~TooLate(d1, b)  BY <2>12, <3>4 DEF TooLate
    <3> QED BY <2>17, <3>5
  <2>20. ASSUME ~d.refused PROVE CountedOnce(e.accepted - e.pendingFrames, d.represented)
    <3> DEFINE passed == e.accepted - e.pendingFrames - Standing(e, len)
    <3>1. e.held # <<>>  BY <2>1
    <3>2. CASE s = <<a, b>>
      <4>1. Len(e.intervals) = 2  BY <3>2 DEF s
      <4>2. Standing(e, len) = FrameSize + len  BY <3>1, <4>1 DEF Standing
      <4>3. passed \in Int /\ e.accepted - e.pendingFrames = passed + FrameSize + len
        <5>1. \A x, y, u, v \in Int :
                 x - y - (u + v) \in Int /\ x - y = (x - y - (u + v)) + u + v
          OBVIOUS
        <5>2. /\ e.accepted \in Int /\ e.pendingFrames \in Int /\ FrameSize \in Int
              /\ len \in Int
          BY <1>1
        <5>3. passed = e.accepted - e.pendingFrames - (FrameSize + len)  BY <4>2
        <5> HIDE DEF passed
        <5> QED BY <5>1, <5>2, <5>3
      <4>4. CountedOnce(passed, e.represented)  BY <1>2, <2>18, <2>20
      <4> HIDE DEF passed
      <4>5. /\ CountedOnce(passed + FrameSize, e.represented + FrameSize)
            /\ CountedOnce(passed + FrameSize, e.represented + FrameSize + 1)
            /\ CountedOnce(passed + (FrameSize + 1), e.represented + (FrameSize + 1))
        <5>1. FrameSize + 1 \in Nat  BY <1>1
        <5> QED BY <1>1, <4>3, <4>4, <5>1, CountKept
      <4>6. passed + FrameSize \in Int /\ e.represented + FrameSize \in Nat
            /\ e.represented + FrameSize + 1 \in Nat
        <5>1. passed \in Int /\ FrameSize \in Nat /\ e.represented \in Nat
          BY <1>1, <4>3
        <5> QED BY <5>1
      <4>7. /\ CountedOnce(passed + FrameSize + len, e.represented + FrameSize + len)
            /\ CountedOnce(passed + FrameSize + len, e.represented + FrameSize + 1 + len)
        BY <1>1, <4>5, <4>6, CountKept
      <4>8. \/ d.represented = e.represented + FrameSize + len
            \/ d.represented = e.represented + FrameSize + 1 + len
            \/ len = 1 /\ d.represented = e.represented + (FrameSize + 1)
        <5>1. <<a, b>> # <<b>> /\ <<b>> # <<>>  OBVIOUS
        <5>2. \/ Covered(s, a) = FrameSize + Overlap(b, a) /\ rest = <<b>>
              \/ Covered(s, a) = FrameSize + 1 /\ len = 1 /\ rest = <<>>
          BY <2>10, <3>2, <5>1 DEF rest
        <5>3. CASE Covered(s, a) = FrameSize + Overlap(b, a) /\ rest = <<b>>
          <6>1. d.represented = e.represented + (FrameSize + Overlap(b, a)) + len
            BY <2>18, <2>16, <2>20, <5>1, <5>3
          <6>2. \A x, y, z \in Int : x + (y + 0) + z = x + y + z /\ x + (y + 1) + z = x + y + 1 + z
            OBVIOUS
          <6>3. e.represented \in Int /\ FrameSize \in Int /\ len \in Int  BY <1>1
          <6> QED BY <2>6, <6>1, <6>2, <6>3
        <5>4. CASE Covered(s, a) = FrameSize + 1 /\ len = 1 /\ rest = <<>>
          <6>1. d.represented = e.represented + (FrameSize + 1) + 0
            BY <2>18, <2>16, <2>20, <5>4
          <6> QED BY <1>1, <5>4, <6>1
        <5> QED BY <5>2, <5>3, <5>4
      <4>9. len = 1 => passed + FrameSize + len = passed + (FrameSize + 1)
        BY <1>1, <4>3
      <4> QED BY <4>3, <4>5, <4>7, <4>8, <4>9
    <3>3. CASE s = <<b>>
      <4>1. Len(e.intervals) = 1  BY <3>3 DEF s
      <4>2. Standing(e, len) = len  BY <3>1, <4>1 DEF Standing
      <4>3. passed \in Int /\ e.accepted - e.pendingFrames = passed + len  BY <1>1, <4>2
      <4>4. CountedOnce(passed, e.represented)  BY <1>2, <2>18, <2>20
      <4> HIDE DEF passed
      <4>5. CountedOnce(passed + len, e.represented + len)
        BY <1>1, <4>3, <4>4, CountKept
      <4>6. Covered(s, a) = 0 /\ rest = <<b>> /\ <<b>> # <<>>
        <5>1. <<a, b>> # <<b>> /\ <<b>> # <<>>  OBVIOUS
        <5> QED BY <2>10, <3>3, <5>1 DEF rest
      <4>7. d.represented = e.represented + 0 + len  BY <2>18, <2>16, <2>20, <4>6
      <4> QED BY <1>1, <4>3, <4>5, <4>7
    <3> QED BY <2>10, <3>2, <3>3
  <2>21. Rising(e, anchor, from) /\ len = FrameSize => d.lastDts <= TicksToNs(t - FrameSize)
    <3>1. t - len \in Int /\ b.start <= t - len  BY <1>1, <1>3, <2>5
    <3>2. bNs <= TicksToNs(t - len)  BY <2>4, <3>1, ClockRises
    <3> QED BY <2>19, <3>2
  <2> QED BY <1>2, <2>17, <2>20, <2>21, <2>19 DEF d, t
<1> QED BY <1>2, <1>4, <1>5

--------------------------------------------------------------------------------
(* The steps of the encoder                                                 *)

\* An encoder that is reopened for a chunk after a gap begins anew at that chunk.
LEMMA ReopenIs ==
    ASSUME NEW e \in Encoders, NEW old \in Nat, NEW from \in Nat,
           EncoderAt(e, old, from, FrameSize), e.pendingFrames = 0,
           NEW anchor \in Nat
    PROVE  /\ DrainCodec(e) \in Encoders
           /\ EncoderAt(DrainCodec(e), anchor, e.expected, FrameSize)
           /\ DrainCodec(e).expected = e.expected /\ DrainCodec(e).haveInput = e.haveInput
           /\ DrainCodec(e).pendingFrames = 0
           /\ Rising(e, old, from) /\ old + FramesToNs(e.expected - from) < anchor =>
                 Rising(DrainCodec(e), anchor, e.expected)
<1> DEFINE d == DrainCodec(e)
           x == e.expected - from
           t == Due(e, old, from)
           u == NsToTicks(anchor)
<1>1. /\ e.pending \in Seq(Chunks) /\ e.expected \in Nat /\ e.accepted \in Nat
      /\ FrameSize \in Nat /\ FrameSize \in 1 .. FrameSize
  BY RateIs DEF Encoders
<1>2. from <= e.expected /\ ChunksPlaced(e.pending, old, from, e.expected, e.expected)
  <2>1. e.pendingFrames + from <= e.expected
        /\ ChunksPlaced(e.pending, old, from, e.expected - e.pendingFrames, e.expected)
    BY DEF EncoderAt
  <2>2. 0 + from = from /\ e.expected - 0 = e.expected  BY <1>1
  <2> QED BY <2>1, <2>2
<1>3. x \in Nat /\ e.expected - e.pendingFrames - from = x  BY <1>1, <1>2
<1>4. e.pending = <<>>  BY <1>1, <1>2, PendingSamples
<1>5. t = NsToTicks(old) + x /\ NsToTicks(old) \in Int /\ u \in Int
  BY <1>3, ClockTypes DEF Due
<1>6. /\ d \in Encoders
      /\ d.pending = e.pending /\ d.pendingFrames = e.pendingFrames
      /\ d.haveInput = e.haveInput /\ d.expected = e.expected /\ d.accepted = e.accepted
      /\ d.held = <<>> /\ d.intervals = <<>>
      /\ d.skews \subseteq -1..1
      /\ ~d.refused => CountedOnce(e.accepted - e.pendingFrames, d.represented)
      /\ Rising(e, old, from) =>
            ~d.refused /\ (d.lastDts >= 0 => d.lastDts <= TicksToNs(t - FrameSize))
  <2> HIDE DEF t
  <2> QED BY <1>1, DrainCodecIs DEF t
<1> HIDE DEF d, t, u
<1>7. ASSUME Rising(e, old, from), old + FramesToNs(x) < anchor
      PROVE  ~d.refused /\ (d.lastDts >= 0 => d.lastDts <= TicksToNs(u - FrameSize))
  <2>1. t <= u /\ t \in Int  BY <1>3, <1>5, <1>7, TickBehind DEF u
  <2>2. t - FrameSize \in Int /\ u - FrameSize \in Int /\ t - FrameSize <= u - FrameSize
    BY <1>1, <1>5, <2>1
  <2>3. /\ TicksToNs(t - FrameSize) <= TicksToNs(u - FrameSize)
        /\ TicksToNs(t - FrameSize) \in Int /\ TicksToNs(u - FrameSize) \in Int
    BY <2>2, ClockRises, ClockTypes
  <2>4. d.lastDts \in Int  BY <1>6 DEF Encoders
  <2> QED BY <1>6, <1>7, <2>3, <2>4
<1>8. Due(d, anchor, e.expected) = u
  <2>1. d.expected - d.pendingFrames - e.expected = 0  BY <1>1, <1>6
  <2> QED BY <1>5, <2>1 DEF Due, u
<1>9. EmptyCodec(d)  BY <1>6 DEF EmptyCodec
<1>10. ~d.refused =>
          CountedOnce(d.accepted - d.pendingFrames - Standing(d, FrameSize), d.represented)
  <2>1. Standing(d, FrameSize) = 0  BY <1>6 DEF Standing
  <2>2. d.accepted - d.pendingFrames - 0 = e.accepted - e.pendingFrames  BY <1>1, <1>6
  <2> QED BY <1>6, <2>1, <2>2
<1>11. ChunksPlaced(d.pending, anchor, e.expected, d.expected - d.pendingFrames, d.expected)
  <2>1. d.expected - d.pendingFrames = d.expected /\ Len(d.pending) = 0
    BY <1>1, <1>4, <1>6
  <2> QED BY <2>1 DEF ChunksPlaced
<1>12. d.pendingFrames + e.expected <= d.expected /\ d.expected - d.pendingFrames = e.expected
  BY <1>1, <1>6
<1>13. EncoderAt(d, anchor, e.expected, FrameSize)
  BY <1>6, <1>9, <1>10, <1>11, <1>12 DEF EncoderAt
<1>14. Rising(e, old, from) /\ old + FramesToNs(x) < anchor => Rising(d, anchor, e.expected)
  BY <1>6, <1>7, <1>8 DEF Rising, NextDts
<1> QED BY <1>6, <1>13, <1>14 DEF d

\* The encoder takes the chunk that follows what it has.
LEMMA AcceptIs ==
    ASSUME NEW e \in Encoders, NEW anchor \in Nat, NEW from \in Nat,
           EncoderAt(e, anchor, from, FrameSize),
           pcm # <<>>, Head(pcm) \in Chunks, Head(pcm).used = 0, Head(pcm).frames > 0,
           Head(pcm).frame = e.expected,
           Head(pcm).pts = anchor + FramesToNs(Head(pcm).frame - from)
    PROVE  /\ Accepted(e) \in Encoders /\ EncoderAt(Accepted(e), anchor, from, FrameSize)
           /\ Accepted(e).haveInput = TRUE
           /\ Accepted(e).expected = Head(pcm).frame + Head(pcm).frames
           /\ Rising(e, anchor, from) => Rising(Accepted(e), anchor, from)
<1> DEFINE c == Head(pcm)
           p == e.pending
           q == Append(p, c)
           next == e.expected - e.pendingFrames
           d == Accepted(e)
<1>1. /\ p \in Seq(Chunks) /\ e.pendingFrames \in Nat /\ e.intervals \in Seq(Spans)
      /\ e.held \in Seq(Spans) /\ e.expected \in Nat /\ e.accepted \in Nat
      /\ e.represented \in Nat /\ e.lastDts \in Int /\ e.refused \in BOOLEAN
      /\ e.skews \subseteq Int
  BY DEF Encoders
<1>2. /\ e.pendingFrames + from <= e.expected
      /\ ChunksPlaced(p, anchor, from, next, e.expected)
      /\ e.skews \subseteq -1..1
      /\ ~e.refused =>
            CountedOnce(e.accepted - e.pendingFrames - Standing(e, FrameSize), e.represented)
      /\ \/ EmptyCodec(e) /\ next = from
         \/ HeldAt(e, Due(e, anchor, from), FrameSize)
  BY DEF EncoderAt
<1>3. c \in Chunks /\ c.used = 0 /\ c.frames > 0 /\ c.frame = e.expected
      /\ c.pts = anchor + FramesToNs(c.frame - from)
  OBVIOUS
<1>4. c.frames \in Nat /\ c.frame \in Nat  BY <1>3 DEF Chunks
<1>5. d = [e EXCEPT !.pending = Append(@, c), !.pendingFrames = @ + c.frames,
                    !.haveInput = TRUE, !.expected = c.frame + c.frames,
                    !.accepted = @ + c.frames]
  BY DEF Accepted, chunk
<1> HIDE DEF c
<1>6. q \in Seq(Chunks) /\ Len(q) = Len(p) + 1 /\ q[Len(p) + 1] = c
      /\ \A i \in 1 .. Len(p) : q[i] = p[i]
  BY <1>1, <1>3, AppendProperties
<1>7. Len(p) \in Nat /\ next \in Nat /\ from <= e.expected
  <2>1. \A x, y \in Nat : y + from <= x => x - y \in Nat /\ from <= x  OBVIOUS
  <2>2. e.expected \in Nat /\ e.pendingFrames \in Nat /\ e.pendingFrames + from <= e.expected
    BY <1>1, <1>2
  <2>3. Len(p) \in Nat  BY <1>1
  <2> QED BY <2>1, <2>2, <2>3
<1> HIDE DEF d, q, p, next
<1>8. ChunksPlaced(q, anchor, from, next, c.frame + c.frames)
  <2>1. ASSUME NEW k \in 1 .. Len(q)
        PROVE  /\ q[k].used < q[k].frames /\ q[k].frame >= from
               /\ q[k].pts = anchor + FramesToNs(q[k].frame - from)
               /\ k > 1 => q[k].used = 0 /\ q[k].frame = q[k - 1].frame + q[k - 1].frames
    <3>1. CASE k \in 1 .. Len(p)
      <4>1. q[k] = p[k] /\ (k > 1 => q[k - 1] = p[k - 1])
        <5>1. k > 1 => k - 1 \in 1 .. Len(p)  BY <1>7, <3>1
        <5> QED BY <1>6, <3>1, <5>1
      <4>2. /\ p[k].used < p[k].frames /\ p[k].frame >= from
            /\ p[k].pts = anchor + FramesToNs(p[k].frame - from)
            /\ k > 1 => p[k].used = 0 /\ p[k].frame = p[k - 1].frame + p[k - 1].frames
        BY <1>2, <3>1 DEF ChunksPlaced
      <4> QED BY <4>1, <4>2
    <3>2. CASE k = Len(p) + 1
      <4>1. q[k] = c  BY <1>6, <3>2
      <4>2. k > 1 => q[k - 1].frame + q[k - 1].frames = e.expected
        <5>1. k > 1 => Len(p) > 0 /\ k - 1 = Len(p) /\ Len(p) \in 1 .. Len(p)
          BY <1>7, <3>2
        <5>2. Len(p) > 0 => p[Len(p)].frame + p[Len(p)].frames = e.expected
          BY <1>2 DEF ChunksPlaced
        <5>3. Len(p) \in 1 .. Len(p) => q[Len(p)] = p[Len(p)]  BY <1>6
        <5> QED BY <5>1, <5>2, <5>3
      <4> QED BY <1>3, <1>4, <1>7, <4>1, <4>2
    <3>3. k \in 1 .. Len(p) \/ k = Len(p) + 1  BY <1>6, <1>7
    <3> QED BY <3>1, <3>2, <3>3
  <2>2. q[1].frame + q[1].used = next
    <3>1. CASE Len(p) = 0
      <4>1. q[1] = c  BY <1>6, <3>1
      <4>2. next = e.expected  BY <1>2, <3>1 DEF ChunksPlaced
      <4> QED BY <1>3, <1>4, <4>1, <4>2
    <3>2. CASE Len(p) > 0
      <4>1. 1 \in 1 .. Len(p)  BY <1>7, <3>2
      <4>2. p[1].frame + p[1].used = next  BY <1>2, <3>2 DEF ChunksPlaced
      <4> QED BY <1>6, <4>1, <4>2
    <3> QED BY <1>7, <3>1, <3>2
  <2>3. q[Len(q)].frame + q[Len(q)].frames = c.frame + c.frames  BY <1>6
  <2>4. Len(q) > 0 /\ Len(q) # 0  BY <1>6, <1>7
  <2> QED BY <2>1, <2>2, <2>3, <2>4 DEF ChunksPlaced
<1>9. /\ d.pending = q /\ d.pendingFrames = e.pendingFrames + c.frames
      /\ d.haveInput = TRUE /\ d.expected = c.frame + c.frames
      /\ d.accepted = e.accepted + c.frames /\ d.intervals = e.intervals
      /\ d.held = e.held /\ d.represented = e.represented /\ d.lastDts = e.lastDts
      /\ d.refused = e.refused /\ d.skews = e.skews /\ d \in Encoders
  <2>1. e.pendingFrames + c.frames \in Nat /\ c.frame + c.frames \in Nat
        /\ e.accepted + c.frames \in Nat
    <3>1. \A x, y \in Nat : x + y \in Nat  OBVIOUS
    <3> QED BY <1>1, <1>4, <3>1
  <2>2. Append(e.pending, c) = q  BY DEF q, p
  <2>3. d = [e EXCEPT !.pending = q, !.pendingFrames = e.pendingFrames + c.frames,
                      !.haveInput = TRUE, !.expected = c.frame + c.frames,
                      !.accepted = e.accepted + c.frames]
    BY <1>5, <2>2
  <2> HIDE DEF c
  <2> QED BY <1>6, <2>1, <2>3 DEF Encoders
<1>10. /\ d.pendingFrames + from <= d.expected /\ d.expected - d.pendingFrames = next
       /\ d.accepted - d.pendingFrames = e.accepted - e.pendingFrames
  <2>1. \A x, y, z, a \in Int :
           y + from <= x => (y + z) + from <= x + z /\ (x + z) - (y + z) = x - y
                            /\ (a + z) - (y + z) = a - y
    OBVIOUS
  <2>2. e.expected \in Int /\ e.pendingFrames \in Int /\ c.frames \in Int /\ e.accepted \in Int
    BY <1>1, <1>4
  <2> QED BY <1>2, <1>3, <1>9, <2>1, <2>2 DEF next
<1>11. Due(d, anchor, from) = Due(e, anchor, from)  BY <1>10 DEF Due, next
<1>12. Standing(d, FrameSize) = Standing(e, FrameSize)  BY <1>9 DEF Standing
<1>13. /\ EmptyCodec(d) <=> EmptyCodec(e)
       /\ HeldAt(d, Due(e, anchor, from), FrameSize) <=> HeldAt(e, Due(e, anchor, from), FrameSize)
  BY <1>9 DEF EmptyCodec, HeldAt
<1>14. EncoderAt(d, anchor, from, FrameSize)
  BY <1>2, <1>8, <1>9, <1>10, <1>11, <1>12, <1>13 DEF EncoderAt
<1>15. Rising(d, anchor, from) <=> Rising(e, anchor, from)
  BY <1>9, <1>11 DEF Rising, NextDts
<1> QED BY <1>9, <1>14, <1>15 DEF c, d

\* SubmitWhole leaves less than a frame pending.
LEMMA SubmitWholeIs ==
    ASSUME NEW e \in Encoders, NEW anchor \in Nat, NEW from \in Nat,
           EncoderAt(e, anchor, from, FrameSize)
    PROVE  /\ SubmitWhole(e) \in Encoders
           /\ EncoderAt(SubmitWhole(e), anchor, from, FrameSize)
           /\ SubmitWhole(e).pendingFrames < FrameSize
           /\ SubmitWhole(e).haveInput = e.haveInput
           /\ SubmitWhole(e).expected = e.expected
           /\ Rising(e, anchor, from) => Rising(SubmitWhole(e), anchor, from)
<1> DEFINE whole == e.pendingFrames \div FrameSize
           rest == e.pendingFrames % FrameSize
           Body(h) == [k \in 0..whole |->
                          IF k = 0 THEN e ELSE SubmitFrame(h[k - 1], FrameSize)]
           F == CHOOSE h : h = Body(h)
           V == {v \in Encoders :
                    /\ EncoderAt(v, anchor, from, FrameSize)
                    /\ v.haveInput = e.haveInput /\ v.expected = e.expected
                    /\ Rising(e, anchor, from) => Rising(v, anchor, from)}
           Further(v) == IF v.pendingFrames >= FrameSize THEN SubmitFrame(v, FrameSize) ELSE v
           step == [i \in 1..whole |-> [v \in V |-> Further(v)]]
<1>1. SubmitWhole(e) = F[whole]  BY DEF SubmitWhole
<1>2. FrameSize \in Nat \ {0} /\ FrameSize \in 1 .. FrameSize /\ e.pendingFrames \in Nat
  BY RateIs DEF Encoders
<1>3. whole \in Nat /\ rest \in Nat /\ rest < FrameSize
      /\ e.pendingFrames = FrameSize * whole + rest
  <2>1. e.pendingFrames \in Int /\ 0 <= e.pendingFrames  BY <1>2
  <2>2. /\ whole \in Int /\ rest \in Int /\ 0 <= rest /\ rest < FrameSize
        /\ e.pendingFrames = FrameSize * whole + rest
    BY <1>2, <2>1, QuotientIs
  <2>3. 0 \div FrameSize <= whole  BY <1>2, <2>1, QuotientRises
  <2>4. 0 \div FrameSize = 0  BY <1>2
  <2> HIDE DEF whole, rest
  <2> QED BY <2>2, <2>3, <2>4
<1>4. ASSUME NEW v \in V, v.pendingFrames >= FrameSize
      PROVE  /\ SubmitFrame(v, FrameSize) \in V
             /\ SubmitFrame(v, FrameSize).pendingFrames = v.pendingFrames - FrameSize
  <2>1. v \in Encoders /\ EncoderAt(v, anchor, from, FrameSize) /\ v.pendingFrames \in Nat
    BY DEF Encoders
  <2>2. FrameSize <= v.pendingFrames  BY <1>2, <1>4, <2>1
  <2>3. /\ SubmitFrame(v, FrameSize) \in Encoders
        /\ EncoderAt(SubmitFrame(v, FrameSize), anchor, from, FrameSize)
        /\ SubmitFrame(v, FrameSize).pendingFrames = v.pendingFrames - FrameSize
        /\ SubmitFrame(v, FrameSize).haveInput = v.haveInput
        /\ SubmitFrame(v, FrameSize).expected = v.expected
        /\ Rising(v, anchor, from) => Rising(SubmitFrame(v, FrameSize), anchor, from)
    BY <1>2, <2>1, <2>2, SubmitIs
  <2> QED BY <2>3
<1>5. e \in V  OBVIOUS
<1>6. \A v \in V : v.pendingFrames \in Nat  BY DEF Encoders
<1>7. \A v \in V : v \in Encoders /\ EncoderAt(v, anchor, from, FrameSize)
                   /\ v.haveInput = e.haveInput /\ v.expected = e.expected
                   /\ (Rising(e, anchor, from) => Rising(v, anchor, from))
  OBVIOUS
<1> HIDE DEF whole, rest, V
<1>8. step \in [1..whole -> [V -> V]]
  <2>1. \A v \in V : Further(v) \in V  BY <1>4
  <2> HIDE DEF Further
  <2> QED BY <2>1
<1>9. \A i \in 1..whole : \A v \in V :
         v.pendingFrames >= FrameSize => step[i][v] = SubmitFrame(v, FrameSize)
  OBVIOUS
<1> HIDE DEF step, Further
<1>10. PICK g \in [0..whole -> V] : Stepwise(g, whole, e, step)
  BY <1>3, <1>5, <1>8, StepsExist
<1>11. g[0] = e /\ \A i \in 1..whole : g[i] = step[i][g[i - 1]]  BY <1>10 DEF Stepwise
<1> DEFINE S == {i \in 0..whole :
                    g[i].pendingFrames = FrameSize * (whole - i) + rest}
<1>12. ASSUME NEW i \in 1..whole, i - 1 \in S
       PROVE  g[i] = SubmitFrame(g[i - 1], FrameSize) /\ i \in S
  <2>1. i - 1 \in 0..whole /\ i \in 0..whole /\ whole - (i - 1) = (whole - i) + 1
        /\ whole - i \in Nat
    BY <1>3
  <2>2. g[i - 1] \in V /\ g[i - 1].pendingFrames = FrameSize * (whole - (i - 1)) + rest
    BY <1>12, <2>1
  <2>3. FrameSize * (whole - (i - 1)) = FrameSize * (whole - i) + FrameSize
        /\ FrameSize * (whole - i) \in Nat
    <3>1. \A x, y \in Nat : x * (y + 1) = x * y + x /\ x * y \in Nat  OBVIOUS
    <3> QED BY <1>2, <2>1, <3>1
  <2>4. /\ g[i - 1].pendingFrames >= FrameSize
        /\ g[i - 1].pendingFrames - FrameSize = FrameSize * (whole - i) + rest
    <3>1. \A x \in Nat : (x + FrameSize) + rest >= FrameSize
                         /\ ((x + FrameSize) + rest) - FrameSize = x + rest
      BY <1>2, <1>3
    <3> QED BY <2>2, <2>3, <3>1
  <2>5. g[i] = SubmitFrame(g[i - 1], FrameSize)  BY <1>9, <1>11, <2>2, <2>4
  <2>6. g[i].pendingFrames = FrameSize * (whole - i) + rest  BY <1>4, <2>2, <2>4, <2>5
  <2> QED BY <2>1, <2>5, <2>6
<1>13. \A i \in 0..whole : i \in S
  <2>1. 0 \in S
    <3>1. 0 \in 0..whole /\ whole - 0 = whole  BY <1>3
    <3> QED BY <1>3, <1>11, <3>1
  <2>2. \A i \in 1..whole : i - 1 \in S => i \in S  BY <1>12
  <2> HIDE DEF S
  <2> QED BY <1>3, <2>1, <2>2, CountsTo
<1>14. \A i \in 1..whole : g[i] = SubmitFrame(g[i - 1], FrameSize)
  <2>1. \A i \in 1..whole : i - 1 \in 0..whole  BY <1>3
  <2> HIDE DEF S
  <2> QED BY <1>12, <1>13, <2>1
<1>15. g = Body(g)
  <2>1. ASSUME NEW i \in 0..whole PROVE g[i] = Body(g)[i]
    <3>1. CASE i = 0  BY <1>11, <3>1
    <3>2. CASE i # 0
      <4>1. i \in 1..whole  BY <1>3, <3>2
      <4> QED BY <1>14, <3>2, <4>1
    <3> QED BY <3>1, <3>2
  <2>2. g = [i \in 0..whole |-> g[i]] /\ Body(g) = [i \in 0..whole |-> Body(g)[i]]
    OBVIOUS
  <2> QED BY <2>1, <2>2
<1>16. F = Body(F)
  <2> HIDE DEF Body
  <2> QED BY <1>15
<1> HIDE DEF F
<1>17. \A i \in 0..whole : F[i] = IF i = 0 THEN e ELSE SubmitFrame(F[i - 1], FrameSize)
  BY <1>16
<1> HIDE DEF Body
<1>18. \A i \in 0..whole : F[i] = g[i]
  <2> DEFINE T == {i \in 0..whole : F[i] = g[i]}
  <2>1. 0 \in T  BY <1>3, <1>11, <1>17
  <2>2. ASSUME NEW i \in 1..whole, i - 1 \in T PROVE i \in T
    <3>1. i \in 0..whole /\ i # 0  BY <1>3
    <3>2. F[i] = SubmitFrame(F[i - 1], FrameSize)  BY <1>17, <3>1
    <3> QED BY <1>14, <2>2, <3>1, <3>2
  <2>3. \A i \in 0..whole : i \in T
    <3> HIDE DEF T
    <3> QED BY <1>3, <2>1, <2>2, CountsTo
  <2> QED BY <2>3
<1>19. whole \in 0..whole /\ g[whole] \in V  BY <1>3
<1>20. g[whole].pendingFrames = rest
  <2>1. g[whole].pendingFrames = FrameSize * (whole - whole) + rest  BY <1>13, <1>19
  <2>2. FrameSize * (whole - whole) = 0  BY <1>2, <1>3
  <2> QED BY <1>3, <2>1, <2>2
<1>21. SubmitWhole(e) = g[whole]  BY <1>1, <1>18, <1>19
<1> QED BY <1>3, <1>7, <1>19, <1>20, <1>21

\* Nothing is pending, in the codec or uncounted when a stream ends that was taken whole.
Finished(d) ==
    /\ d.pending = <<>> /\ d.intervals = <<>>
    /\ d.represented >= d.accepted
    /\ d.represented <= d.accepted + d.accepted \div FrameSize

LEMMA FinishIs ==
    ASSUME NEW e \in Encoders, NEW anchor \in Nat, NEW from \in Nat, NEW len \in 1 .. FrameSize,
           EncoderAt(e, anchor, from, len), e.pendingFrames = 0
    PROVE  /\ DrainCodec(e) \in Encoders /\ DrainCodec(e).skews \subseteq -1..1
           /\ ~DrainCodec(e).refused => Finished(DrainCodec(e))
           /\ Rising(e, anchor, from) => ~DrainCodec(e).refused
<1> DEFINE d == DrainCodec(e)
<1>1. /\ d \in Encoders /\ d.pending = e.pending /\ d.accepted = e.accepted
      /\ d.intervals = <<>> /\ d.skews \subseteq -1..1
      /\ ~d.refused => CountedOnce(e.accepted - e.pendingFrames, d.represented)
      /\ Rising(e, anchor, from) => ~d.refused
  BY DrainCodecIs
<1>2. /\ e.pending \in Seq(Chunks) /\ e.expected \in Nat /\ e.accepted \in Nat
      /\ FrameSize \in Nat \ {0} /\ d.represented \in Nat
  BY <1>1, RateIs DEF Encoders
<1> HIDE DEF d
<1>3. e.pending = <<>>
  <2>1. ChunksPlaced(e.pending, anchor, from, e.expected - e.pendingFrames, e.expected)
    BY DEF EncoderAt
  <2>2. e.expected - e.pendingFrames = e.expected  BY <1>2
  <2>3. ChunksPlaced(e.pending, anchor, from, e.expected, e.expected)  BY <2>1, <2>2
  <2> QED BY <1>2, <2>3, PendingSamples
<1>4. ASSUME ~d.refused PROVE Finished(d)
  <2> DEFINE a == e.accepted
             q == a \div FrameSize
             r == a % FrameSize
             x == d.represented - a
  <2>1. a <= d.represented /\ FrameSize * x <= a
    <3>1. a - e.pendingFrames = a  BY <1>2
    <3>2. CountedOnce(a, d.represented)  BY <1>1, <1>4, <3>1
    <3> QED BY <3>2 DEF CountedOnce
  <2>2. x \in Int /\ a \in Int  BY <1>2
  <2>3. q \in Int /\ r \in Int /\ r < FrameSize /\ a = FrameSize * q + r
    BY <1>2, <2>2, QuotientIs
  <2>4. d.represented = a + x  BY <1>2
  <2> HIDE DEF q, r, x, a
  <2>5. FrameSize * x < FrameSize * (q + 1)
    <3>1. \A u, v \in Int : u * (v + 1) = u * v + u /\ u * v \in Int  OBVIOUS
    <3>2. FrameSize * (q + 1) = FrameSize * q + FrameSize /\ FrameSize * q \in Int
          /\ FrameSize * x \in Int
      BY <1>2, <2>2, <2>3, <3>1
    <3> QED BY <1>2, <2>1, <2>2, <2>3, <3>2
  <2>6. x < q + 1
    <3>1. q + 1 \in Int  BY <2>3
    <3> QED BY <1>2, <2>2, <2>5, <3>1, FactorLess
  <2>7. d.represented <= a + q  BY <2>2, <2>3, <2>4, <2>6
  <2>8. d.accepted = a /\ d.represented >= a /\ d.represented <= a + a \div FrameSize
    <3>1. a \in Int /\ d.represented \in Int  BY <1>2, <2>2
    <3>2. d.represented >= a  BY <2>1, <3>1
    <3>3. d.represented <= a + a \div FrameSize  BY <2>7 DEF q
    <3>4. d.accepted = a  BY <1>1 DEF a
    <3> QED BY <3>2, <3>3, <3>4
  <2> QED BY <1>1, <1>3, <2>8 DEF Finished
<1> QED BY <1>1, <1>4 DEF d

LEMMA FlushIs ==
    ASSUME NEW e \in Encoders, NEW anchor \in Nat, NEW from \in Nat,
           EncoderAt(e, anchor, from, FrameSize), e.pendingFrames < FrameSize,
           NEW n, n = e.pendingFrames, NEW d,
           d = DrainCodec(IF n = 0 THEN e ELSE SubmitFrame(e, n))
    PROVE  /\ d \in Encoders /\ d.skews \subseteq -1..1
           /\ ~d.refused => Finished(d)
           /\ Rising(e, anchor, from) => ~d.refused
<1>1. n \in Nat /\ FrameSize \in Nat /\ FrameSize \in 1 .. FrameSize
  BY RateIs DEF Encoders
<1>2. CASE n = 0
  <2>1. d = DrainCodec(e)  BY <1>2
  <2> QED BY <1>1, <1>2, <2>1, FinishIs
<1>3. CASE n # 0
  <2> DEFINE s == SubmitFrame(e, n)
  <2>1. n \in 1 .. FrameSize /\ n <= e.pendingFrames  BY <1>1, <1>3
  <2>2. /\ s \in Encoders /\ EncoderAt(s, anchor, from, n)
        /\ s.pendingFrames = e.pendingFrames - n
        /\ Rising(e, anchor, from) => Rising(s, anchor, from)
    BY <1>1, <2>1, SubmitIs
  <2>3. d = DrainCodec(s)  BY <1>3
  <2> HIDE DEF s
  <2>4. s.pendingFrames = 0  BY <1>1, <2>2
  <2> QED BY <2>1, <2>2, <2>3, <2>4, FinishIs
<1> QED BY <1>2, <1>3

--------------------------------------------------------------------------------
(* What holds between the clock and the encoder                             *)

Clocks == [anchored : BOOLEAN, anchorFrame : Nat, anchorNs : Int, stamped : Nat,
           lastEnd : Int, abuts : BOOLEAN]

TimelineTypes ==
    /\ delivered \in Nat /\ lostSync \in BOOLEAN /\ clock \in Clocks
    /\ pcm = <<>> \/ \E c \in Chunks : pcm = <<c>>
    /\ aac \in Encoders

\* Nothing was refused, nor will be, unless a chunk behind an overrun left no gap.
RisingUnlessAbutting(anchor, from) == ~clock.abuts => Rising(aac, anchor, from)

\* Before the first chunk: whatever anchor the clock will take suits the encoder.
Unstarted ==
    /\ delivered = 0 /\ ~clock.anchored
    /\ ~aac.haveInput /\ aac.expected = 0
    /\ \A anchor \in Nat : EncoderAt(aac, anchor, 0, FrameSize) /\ Rising(aac, anchor, 0)

\* Between chunks: the encoder has all that the clock stamped, at the clock's anchor.
InStep ==
    /\ clock.anchored /\ clock.anchorNs \in Nat
    /\ clock.lastEnd = Predict(clock, delivered)
    /\ aac.haveInput /\ aac.expected = delivered
    /\ EncoderAt(aac, clock.anchorNs, clock.anchorFrame, FrameSize)
    /\ RisingUnlessAbutting(clock.anchorNs, clock.anchorFrame)

\* The encoder still stands at an anchor whose time has not reached the one that the
\* clock has just taken, as long as every overrun left a gap.
BehindGap ==
    \E anchor, from \in Nat :
       /\ EncoderAt(aac, anchor, from, FrameSize)
       /\ RisingUnlessAbutting(anchor, from)
       /\ ~clock.abuts => anchor + FramesToNs(aac.expected - from) < clock.anchorNs

\* With a chunk under way: it is what the encoder expects, at the clock's anchor.
Offered(c) ==
    /\ clock.anchored /\ clock.stamped > 0 /\ clock.anchorNs \in Nat /\ ~lostSync
    /\ clock.lastEnd = Predict(clock, delivered)
    /\ c.used = 0 /\ c.frames > 0 /\ c.frame + c.frames = delivered
    /\ c.frame = aac.expected /\ c.pts = Predict(clock, c.frame)
    /\ IF c.discontinuity /\ aac.haveInput
       THEN c.frame = clock.anchorFrame /\ BehindGap
       ELSE /\ EncoderAt(aac, clock.anchorNs, clock.anchorFrame, FrameSize)
            /\ RisingUnlessAbutting(clock.anchorNs, clock.anchorFrame)

CaptureInv ==
    /\ aac.pendingFrames < FrameSize
    /\ pcm = <<>> => IF clock.stamped = 0 THEN Unstarted ELSE InStep
    /\ pcm # <<>> => Offered(Head(pcm))

FlushInv ==
    /\ aac.pendingFrames < FrameSize
    /\ \E anchor, from \in Nat :
          EncoderAt(aac, anchor, from, FrameSize) /\ RisingUnlessAbutting(anchor, from)

TimelineInv ==
    /\ TimelineTypes
    /\ aac.skews \subseteq -1..1
    /\ aac.refused => clock.abuts
    /\ recording = "capture" => CaptureInv
    /\ recording = "flush" => FlushInv
    /\ recording = "drained" => Finished(aac)

LEMMA TimelineInvInit ==
    ASSUME TimelineInit PROVE TimelineInv
<1>1. /\ delivered = 0 /\ lostSync = FALSE /\ pcm = <<>> /\ recording = "capture"
      /\ clock.anchored = FALSE /\ clock.stamped = 0
      /\ aac.pending = <<>> /\ aac.pendingFrames = 0 /\ aac.intervals = <<>>
      /\ aac.held = <<>> /\ aac.haveInput = FALSE /\ aac.expected = 0 /\ aac.accepted = 0
      /\ aac.represented = 0 /\ aac.lastDts = -1 /\ aac.refused = FALSE /\ aac.skews = {}
  BY DEF TimelineInit
<1>2. TimelineTypes
  <2>1. clock \in Clocks  BY DEF TimelineInit, Clocks
  <2>2. aac \in Encoders  BY DEF TimelineInit, Encoders
  <2> QED BY <1>1, <2>1, <2>2 DEF TimelineTypes
<1>3. FrameSize \in Nat /\ FrameSize > 1  BY RateIs
<1>4. ASSUME NEW anchor \in Nat
      PROVE  EncoderAt(aac, anchor, 0, FrameSize) /\ Rising(aac, anchor, 0)
  <2>1. ChunksPlaced(aac.pending, anchor, 0, aac.expected - aac.pendingFrames, aac.expected)
    BY <1>1 DEF ChunksPlaced
  <2>2. EmptyCodec(aac)  BY <1>1 DEF EmptyCodec
  <2>3. Standing(aac, FrameSize) = 0  BY <1>1 DEF Standing
  <2>4. CountedOnce(aac.accepted - aac.pendingFrames - Standing(aac, FrameSize), aac.represented)
    BY <1>1, <1>3, <2>3 DEF CountedOnce
  <2>5. aac.pendingFrames + 0 <= aac.expected /\ aac.expected - aac.pendingFrames = 0
    BY <1>1
  <2>6. Rising(aac, anchor, 0)  BY <1>1 DEF Rising
  <2> QED BY <1>1, <2>1, <2>2, <2>4, <2>5, <2>6 DEF EncoderAt
<1>5. CaptureInv  BY <1>1, <1>3, <1>4 DEF CaptureInv, Unstarted
<1> QED BY <1>1, <1>2, <1>5 DEF TimelineInv

\* What a step that leaves the encoder alone, and ends the capture, keeps.
LEMMA FlushFollows ==
    ASSUME TimelineInv, recording = "capture", pcm = <<>>
    PROVE  FlushInv
<1>1. aac.pendingFrames < FrameSize  BY DEF TimelineInv, CaptureInv
<1>2. CASE clock.stamped = 0
  <2>1. EncoderAt(aac, 0, 0, FrameSize) /\ Rising(aac, 0, 0)
    BY <1>2 DEF TimelineInv, CaptureInv, Unstarted
  <2>2. RisingUnlessAbutting(0, 0)  BY <2>1 DEF RisingUnlessAbutting
  <2> QED BY <1>1, <2>1, <2>2 DEF FlushInv
<1>3. CASE clock.stamped # 0
  <2>1. /\ EncoderAt(aac, clock.anchorNs, clock.anchorFrame, FrameSize)
        /\ RisingUnlessAbutting(clock.anchorNs, clock.anchorFrame)
    BY <1>3 DEF TimelineInv, CaptureInv, InStep
  <2>2. clock.anchorNs \in Nat /\ clock.anchorFrame \in Nat
    BY <1>3 DEF TimelineInv, TimelineTypes, Clocks, CaptureInv, InStep
  <2> QED BY <1>1, <2>1, <2>2 DEF FlushInv
<1> QED BY <1>2, <1>3

LEMMA RecoverKeeps ==
    ASSUME TimelineInv, Recover PROVE TimelineInv'
<1>1. /\ recording = "capture" /\ pcm = <<>> /\ lostSync' = TRUE
      /\ delivered' = delivered /\ clock' = clock /\ pcm' = pcm /\ aac' = aac
      /\ recording' = recording
  BY DEF Recover
<1>2. TimelineTypes'  BY <1>1 DEF TimelineInv, TimelineTypes
<1>3. /\ aac.pendingFrames < FrameSize
      /\ IF clock.stamped = 0 THEN Unstarted ELSE InStep
  BY <1>1 DEF TimelineInv, CaptureInv
<1>4. (IF clock.stamped = 0 THEN Unstarted ELSE InStep)'
  BY <1>1, <1>3 DEF Unstarted, InStep, RisingUnlessAbutting, Predict
<1>5. CaptureInv'  BY <1>1, <1>3, <1>4 DEF CaptureInv
<1>6. (aac.skews \subseteq -1..1 /\ (aac.refused => clock.abuts))'
  BY <1>1 DEF TimelineInv
<1>7. recording' = "capture"  BY <1>1
<1> QED BY <1>2, <1>5, <1>6, <1>7 DEF TimelineInv

LEMMA CaptureEndsKeeps ==
    ASSUME TimelineInv, CaptureEnds PROVE TimelineInv'
<1>1. /\ recording = "capture" /\ pcm = <<>> /\ recording' = "flush"
      /\ delivered' = delivered /\ lostSync' = lostSync /\ clock' = clock /\ pcm' = pcm
      /\ aac' = aac
  BY DEF CaptureEnds
<1>2. TimelineTypes'  BY <1>1 DEF TimelineInv, TimelineTypes
<1>3. FlushInv  BY <1>1, FlushFollows
<1>4. FlushInv'  BY <1>1, <1>3 DEF FlushInv, RisingUnlessAbutting
<1>5. (aac.skews \subseteq -1..1 /\ (aac.refused => clock.abuts))'
  BY <1>1 DEF TimelineInv
<1> QED BY <1>1, <1>2, <1>4, <1>5 DEF TimelineInv

LEMMA AudioFlushKeeps ==
    ASSUME TimelineInv, Flush PROVE TimelineInv'
<1> DEFINE n == aac.pendingFrames
<1>1. /\ recording = "flush"
      /\ recording' = IF aac'.refused THEN "muxer_failed" ELSE "drained"
      /\ delivered' = delivered /\ lostSync' = lostSync /\ clock' = clock /\ pcm' = pcm
      /\ aac' = DrainCodec(IF n = 0 THEN aac ELSE SubmitFrame(aac, n))
  BY DEF Flush, OrMuxerFailed
<1>2. aac \in Encoders /\ FlushInv  BY <1>1 DEF TimelineInv, TimelineTypes
<1>3. PICK anchor, from \in Nat :
         EncoderAt(aac, anchor, from, FrameSize) /\ RisingUnlessAbutting(anchor, from)
  BY <1>2 DEF FlushInv
<1>4. aac.pendingFrames < FrameSize /\ n = aac.pendingFrames  BY <1>2 DEF FlushInv
<1> HIDE DEF n
<1>5. /\ aac' \in Encoders /\ aac'.skews \subseteq -1..1
      /\ ~aac'.refused => Finished(aac')
      /\ Rising(aac, anchor, from) => ~aac'.refused
  BY <1>1, <1>2, <1>3, <1>4, FlushIs
<1>6. aac'.refused => clock'.abuts  BY <1>1, <1>3, <1>5 DEF RisingUnlessAbutting
<1>7. TimelineTypes'  BY <1>1, <1>5 DEF TimelineInv, TimelineTypes
<1>8. recording' # "capture" /\ recording' # "flush"
      /\ (recording' = "drained" => Finished(aac'))
  BY <1>1, <1>5
<1> QED BY <1>5, <1>6, <1>7, <1>8 DEF TimelineInv, Finished

\* A chunk that the clock stamps is what the encoder expects, at the clock's anchor.
LEMMA ReadKeeps ==
    ASSUME TimelineInv, NEW n \in PeriodFrames, NEW observed \in Observations,
           Read(n, observed)
    PROVE  TimelineInv'
<1> DEFINE c == Reanchored(observed)
           first == Predict(c, delivered)
           end == Predict(c, delivered + n)
           r == [frame |-> delivered, frames |-> n, pts |-> first,
                 discontinuity |-> lostSync, used |-> 0]
           fits == MayStamp(c, first)
           abuts == clock.abuts \/ (lostSync /\ clock.stamped > 0 /\ first = clock.lastEnd)
<1>1. /\ recording = "capture" /\ pcm = <<>> /\ delivered' = delivered + n
      /\ lostSync' = FALSE /\ aac' = aac
      /\ fits => /\ clock' = [c EXCEPT !.stamped = @ + 1, !.lastEnd = end, !.abuts = @ \/
                        (lostSync /\ clock.stamped > 0 /\ first = clock.lastEnd)]
                 /\ pcm' = <<r>> /\ recording' = "capture"
      /\ ~fits => clock' = c /\ recording' = "flush" /\ pcm' = pcm
  BY DEF Read
<1>2. /\ delivered \in Nat /\ lostSync \in BOOLEAN /\ clock \in Clocks /\ aac \in Encoders
      /\ aac.skews \subseteq -1..1 /\ (aac.refused => clock.abuts)
      /\ aac.pendingFrames < FrameSize
      /\ clock.stamped = 0 => Unstarted
      /\ clock.stamped # 0 => InStep
  BY <1>1 DEF TimelineInv, TimelineTypes, CaptureInv
<1>3. n \in Nat /\ n > 0 /\ delivered + n \in Nat  BY <1>2, TimelineAssumption
<1>4. observed \in Int
  <2>1. \A x \in Nat : FramesToNs(x) \in Nat  BY ClockTypes
  <2>2. CASE ~clock.anchored  BY <2>2, TimelineAssumption DEF Observations
  <2>3. CASE clock.anchored /\ lostSync
    <3>1. InStep  BY <1>2, <2>3 DEF Unstarted
    <3>2. /\ clock.anchorFrame \in Nat /\ clock.anchorNs \in Int /\ delivered \in Nat
          /\ aac.pendingFrames \in Nat /\ aac.expected \in Nat
      BY <1>2 DEF Clocks, Encoders
    <3>3. clock.anchorFrame <= delivered
      <4>1. aac.pendingFrames + clock.anchorFrame <= aac.expected /\ aac.expected = delivered
        BY <3>1 DEF InStep, EncoderAt
      <4> QED BY <3>2, <4>1
    <3>4. delivered - clock.anchorFrame \in Nat  BY <3>2, <3>3
    <3>5. Predict(clock, delivered) \in Int  BY <2>1, <3>2, <3>4 DEF Predict
    <3>6. PICK d \in Drifts : observed = Predict(clock, delivered) + d
      BY <2>3 DEF Observations
    <3>7. d \in Int  BY TimelineAssumption
    <3> QED BY <3>5, <3>6, <3>7
  <2>4. CASE clock.anchored /\ ~lostSync
    <3>1. InStep  BY <1>2, <2>4 DEF Unstarted
    <3>2. /\ clock.anchorFrame \in Nat /\ clock.anchorNs \in Int /\ delivered \in Nat
          /\ aac.pendingFrames \in Nat /\ aac.expected \in Nat
      BY <1>2 DEF Clocks, Encoders
    <3>3. clock.anchorFrame <= delivered
      <4>1. aac.pendingFrames + clock.anchorFrame <= aac.expected /\ aac.expected = delivered
        BY <3>1 DEF InStep, EncoderAt
      <4> QED BY <3>2, <4>1
    <3>4. delivered - clock.anchorFrame \in Nat  BY <3>2, <3>3
    <3>5. Predict(clock, delivered) \in Int  BY <2>1, <3>2, <3>4 DEF Predict
    <3> QED BY <2>4, <3>5 DEF Observations
  <2> QED BY <2>2, <2>3, <2>4
<1>5. CASE ~fits
  <2>1. FlushInv  BY <1>1, FlushFollows
  <2>2. c \in Clocks  BY <1>2, <1>4 DEF Reanchored, Clocks
  <2>3. TimelineTypes'  BY <1>1, <1>2, <1>3, <1>5, <2>2 DEF TimelineTypes
  <2>4. clock'.abuts = clock.abuts
    <3>1. clock' = c  BY <1>1, <1>5
    <3> QED BY <1>2, <3>1 DEF Reanchored, Clocks
  <2>5. FlushInv'  BY <1>1, <2>1, <2>4 DEF FlushInv, RisingUnlessAbutting
  <2>6. (aac.skews \subseteq -1..1 /\ (aac.refused => clock.abuts))'
    BY <1>1, <1>2, <2>4
  <2> QED BY <1>1, <1>5, <2>3, <2>5, <2>6 DEF TimelineInv
<1>6. CASE fits
  <2>1. /\ first >= 0 /\ (c.stamped > 0 => first >= c.lastEnd)  BY <1>6 DEF MayStamp
  <2>2. first \in Nat /\ c \in Clocks /\ c.anchored /\ c.anchorFrame <= delivered
        /\ c.stamped = clock.stamped /\ c.lastEnd = clock.lastEnd
        /\ c.anchorNs \in Nat /\ end \in Int /\ c.abuts = clock.abuts
        /\ IF lostSync /\ aac.haveInput
           THEN /\ c.anchorFrame = delivered
                /\ \E anchor, from \in Nat :
                      /\ EncoderAt(aac, anchor, from, FrameSize)
                      /\ ~abuts => /\ Rising(aac, anchor, from)
                                   /\ anchor + FramesToNs(aac.expected - from) < c.anchorNs
           ELSE /\ EncoderAt(aac, c.anchorNs, c.anchorFrame, FrameSize)
                /\ ~abuts => Rising(aac, c.anchorNs, c.anchorFrame)
    <3>1. \A x \in Nat : FramesToNs(x) \in Nat  BY ClockTypes
    <3>2. CASE ~clock.anchored \/ lostSync
      <4>1. c = [clock EXCEPT !.anchored = TRUE, !.anchorFrame = delivered,
                              !.anchorNs = observed]
        BY <3>2 DEF Reanchored
      <4>2. /\ c.anchored = TRUE /\ c.anchorFrame = delivered /\ c.anchorNs = observed
            /\ c.stamped = clock.stamped /\ c.lastEnd = clock.lastEnd /\ c \in Clocks
            /\ c.abuts = clock.abuts
        BY <1>2, <1>4, <4>1 DEF Clocks
      <4> HIDE DEF c
      <4>3. first = observed
        <5>1. delivered - c.anchorFrame = 0 /\ FramesToNs(0) = 0
          BY <1>2, <4>2, ClockTypes
        <5> QED BY <1>4, <4>2, <5>1 DEF Predict
      <4>4. observed \in Nat  BY <1>4, <2>1, <4>3
      <4>5. end \in Int
        <5>1. (delivered + n) - c.anchorFrame = n  BY <1>2, <1>3, <4>2
        <5> QED BY <1>3, <3>1, <4>2, <4>4, <5>1 DEF Predict
      <4>6. CASE lostSync /\ aac.haveInput
        <5>1. InStep /\ clock.stamped > 0  BY <1>2, <4>6 DEF Unstarted, Clocks
        <5>2. /\ clock.anchorNs \in Nat /\ clock.anchorFrame \in Nat
              /\ EncoderAt(aac, clock.anchorNs, clock.anchorFrame, FrameSize)
              /\ ~clock.abuts => Rising(aac, clock.anchorNs, clock.anchorFrame)
              /\ clock.lastEnd = clock.anchorNs + FramesToNs(aac.expected - clock.anchorFrame)
          BY <1>2, <5>1 DEF InStep, Predict, Clocks, RisingUnlessAbutting
        <5>3. ~abuts => ~clock.abuts /\ clock.lastEnd < c.anchorNs
          <6>1. first >= clock.lastEnd  BY <2>1, <4>2, <5>1
          <6>2. ~abuts => ~clock.abuts /\ first # clock.lastEnd  BY <4>6, <5>1
          <6> HIDE DEF first, abuts
          <6>3. clock.lastEnd \in Int  BY <1>2 DEF Clocks
          <6> QED BY <4>2, <4>3, <4>4, <6>1, <6>2, <6>3
        <5> HIDE DEF abuts
        <5>4. \E anchor, from \in Nat :
                 /\ EncoderAt(aac, anchor, from, FrameSize)
                 /\ ~abuts => /\ Rising(aac, anchor, from)
                              /\ anchor + FramesToNs(aac.expected - from) < c.anchorNs
          BY <5>2, <5>3
        <5>5. c.anchorFrame <= delivered  BY <1>2, <4>2
        <5> HIDE DEF first, end
        <5> QED BY <4>2, <4>3, <4>4, <4>5, <4>6, <5>4, <5>5
      <4>7. CASE ~(lostSync /\ aac.haveInput)
        <5>1. Unstarted
          <6>1. clock.stamped # 0 => clock.anchored /\ aac.haveInput  BY <1>2 DEF InStep
          <6> QED BY <1>2, <3>2, <4>7, <6>1
        <5>2. /\ EncoderAt(aac, c.anchorNs, c.anchorFrame, FrameSize)
              /\ Rising(aac, c.anchorNs, c.anchorFrame)
          BY <4>2, <4>4, <5>1 DEF Unstarted
        <5>3. c.anchorFrame <= delivered  BY <1>2, <4>2
        <5> HIDE DEF first, end, abuts
        <5> QED BY <4>2, <4>3, <4>4, <4>5, <4>7, <5>2, <5>3
      <4> QED BY <4>6, <4>7
    <3>3. CASE clock.anchored /\ ~lostSync
      <4>1. c = clock  BY <3>3 DEF Reanchored
      <4>2. InStep  BY <1>2, <3>3 DEF Unstarted
      <4> HIDE DEF c
      <4>3. /\ c.anchored /\ c.anchorNs \in Nat /\ aac.expected = delivered
            /\ EncoderAt(aac, c.anchorNs, c.anchorFrame, FrameSize)
            /\ ~clock.abuts => Rising(aac, c.anchorNs, c.anchorFrame)
            /\ c.anchorFrame \in Nat /\ aac.pendingFrames \in Nat
        BY <1>2, <4>1, <4>2 DEF InStep, Clocks, Encoders, RisingUnlessAbutting
      <4>4. c.anchorFrame <= delivered
        <5>1. aac.pendingFrames + c.anchorFrame <= aac.expected  BY <4>3 DEF EncoderAt
        <5> QED BY <1>2, <4>3, <5>1
      <4>5. delivered - c.anchorFrame \in Nat /\ (delivered + n) - c.anchorFrame \in Nat
        BY <1>2, <1>3, <4>3, <4>4
      <4>6. first \in Nat /\ end \in Int  BY <3>1, <4>3, <4>5 DEF Predict
      <4> HIDE DEF first, end
      <4> QED BY <1>2, <3>3, <4>1, <4>3, <4>4, <4>6
    <3> QED BY <3>2, <3>3
  <2>3. abuts \in BOOLEAN /\ (clock.abuts => abuts) /\ c.abuts \in BOOLEAN
    BY <2>2 DEF Clocks
  <2>4. (c.abuts \/ (lostSync /\ clock.stamped > 0 /\ first = clock.lastEnd)) = abuts
    BY <2>2
  <2> HIDE DEF c, first, end, abuts
  <2>5. /\ clock'.anchored = c.anchored /\ clock'.anchorFrame = c.anchorFrame
        /\ clock'.anchorNs = c.anchorNs /\ clock'.stamped = c.stamped + 1
        /\ clock'.lastEnd = end /\ clock'.abuts = abuts /\ clock' \in Clocks
    <3>1. clock' = [c EXCEPT !.stamped = c.stamped + 1, !.lastEnd = end, !.abuts = abuts]
      <4>1. clock' = [c EXCEPT !.stamped = c.stamped + 1, !.lastEnd = end, !.abuts =
                c.abuts \/ (lostSync /\ clock.stamped > 0 /\ first = clock.lastEnd)]
        BY <1>1, <1>6
      <4> QED BY <2>4, <4>1
    <3>2. c.stamped \in Nat /\ c.stamped + 1 \in Nat  BY <2>2 DEF Clocks
    <3> QED BY <2>2, <2>3, <3>1, <3>2 DEF Clocks
  <2>6. /\ r \in Chunks /\ r.frame = delivered /\ r.frames = n /\ r.pts = first
        /\ r.discontinuity = lostSync /\ r.used = 0
    BY <1>2, <1>3, <2>2 DEF Chunks
  <2> HIDE DEF r
  <2>7. pcm' = <<r>> /\ pcm' # <<>> /\ Head(pcm') = r /\ recording' = "capture"
    BY <1>1, <1>6
  <2>8. TimelineTypes'  BY <1>1, <1>2, <1>3, <2>5, <2>6, <2>7 DEF TimelineTypes
  <2>9. aac.expected = delivered  BY <1>2 DEF Unstarted, InStep
  <2>10. /\ Predict(clock', delivered') = end /\ Predict(clock', r.frame) = first
    BY <1>1, <2>5, <2>6 DEF Predict, end, first
  <2>11. clock'.stamped > 0  BY <2>2, <2>5 DEF Clocks
  <2>12. Offered(Head(pcm))'
    <3>1. /\ clock'.anchored /\ clock'.stamped > 0 /\ clock'.anchorNs \in Nat /\ ~lostSync'
          /\ clock'.lastEnd = Predict(clock, delivered)'
          /\ r.used = 0 /\ r.frames > 0 /\ r.frame + r.frames = delivered'
          /\ r.frame = aac'.expected /\ r.pts = Predict(clock', r.frame)
      BY <1>1, <1>3, <2>2, <2>5, <2>6, <2>9, <2>10, <2>11 DEF Predict
    <3>2. IF r.discontinuity /\ aac'.haveInput
          THEN r.frame = clock'.anchorFrame /\ BehindGap'
          ELSE /\ EncoderAt(aac', clock'.anchorNs, clock'.anchorFrame, FrameSize)
               /\ RisingUnlessAbutting(clock.anchorNs, clock.anchorFrame)'
      BY <1>1, <2>2, <2>5, <2>6 DEF BehindGap, RisingUnlessAbutting
    <3>3. Head(pcm)' = r  BY <2>7
    <3> QED BY <3>1, <3>2, <3>3 DEF Offered, Predict, RisingUnlessAbutting
  <2>13. CaptureInv'  BY <1>1, <1>2, <2>7, <2>12 DEF CaptureInv
  <2>14. (aac.skews \subseteq -1..1 /\ (aac.refused => clock.abuts))'
    BY <1>1, <1>2, <2>5, <2>3
  <2> QED BY <2>7, <2>8, <2>13, <2>14 DEF TimelineInv
<1> QED BY <1>5, <1>6

\* The encoder takes what it is offered, at the clock's anchor.
LEMMA EncodeKeeps ==
    ASSUME TimelineInv, Encode PROVE TimelineInv'
<1> DEFINE c == Head(pcm)
           e == IF aac.haveInput /\ c.discontinuity THEN Reopened(aac) ELSE aac
           a == Accepted(e)
<1>1. /\ recording = "capture" /\ pcm # <<>> /\ pcm' = <<>>
      /\ delivered' = delivered /\ lostSync' = lostSync /\ clock' = clock
      /\ Refused => recording' = "encoder_failed" /\ aac' = aac
      /\ ~Refused => /\ aac' = SubmitWhole(a)
                     /\ recording' = IF aac'.refused THEN "muxer_failed" ELSE "capture"
  BY DEF Encode, chunk, OrMuxerFailed
<1>2. /\ aac \in Encoders /\ aac.pendingFrames < FrameSize
      /\ aac.skews \subseteq -1..1 /\ (aac.refused => clock.abuts)
      /\ c \in Chunks /\ Offered(c)
  <2>1. PICK x \in Chunks : pcm = <<x>>  BY <1>1 DEF TimelineInv, TimelineTypes
  <2>2. c = x  BY <2>1
  <2> QED BY <1>1, <2>2 DEF TimelineInv, TimelineTypes, CaptureInv
<1>3. CASE Refused
  <2>1. TimelineTypes'  BY <1>1, <1>3 DEF TimelineInv, TimelineTypes
  <2>2. (aac.skews \subseteq -1..1 /\ (aac.refused => clock.abuts))'
    BY <1>1, <1>2, <1>3
  <2> QED BY <1>1, <1>3, <2>1, <2>2 DEF TimelineInv
<1>4. CASE ~Refused
  <2> DEFINE anchor == clock.anchorNs
             from == clock.anchorFrame
  <2>1. /\ anchor \in Nat /\ from \in Nat /\ clock.stamped # 0
        /\ clock.anchored /\ clock.lastEnd = Predict(clock, delivered)
        /\ c.used = 0 /\ c.frames > 0 /\ c.frame + c.frames = delivered
        /\ c.frame = aac.expected /\ c.pts = anchor + FramesToNs(c.frame - from)
    <3>1. clock \in Clocks  BY DEF TimelineInv, TimelineTypes
    <3> HIDE DEF c
    <3> QED BY <1>2, <3>1 DEF Offered, Predict, Clocks
  <2>2. /\ e \in Encoders /\ EncoderAt(e, anchor, from, FrameSize) /\ e.expected = c.frame
        /\ ~clock.abuts => Rising(e, anchor, from)
    <3>1. CASE aac.haveInput /\ c.discontinuity
      <4>1. aac.pendingFrames = 0  BY <1>4, <3>1 DEF Refused, chunk
      <4>2. c.frame = from  BY <1>2, <3>1 DEF Offered
      <4>3. PICK old, oldFrom \in Nat :
               /\ EncoderAt(aac, old, oldFrom, FrameSize)
               /\ ~clock.abuts => Rising(aac, old, oldFrom)
               /\ ~clock.abuts => old + FramesToNs(aac.expected - oldFrom) < anchor
        BY <1>2, <3>1 DEF Offered, BehindGap, RisingUnlessAbutting
      <4> HIDE DEF c, from, anchor
      <4>4. /\ DrainCodec(aac) \in Encoders
            /\ EncoderAt(DrainCodec(aac), anchor, aac.expected, FrameSize)
            /\ DrainCodec(aac).expected = aac.expected
            /\ ~clock.abuts => Rising(DrainCodec(aac), anchor, aac.expected)
        BY <1>2, <2>1, <4>1, <4>3, ReopenIs
      <4>5. e = DrainCodec(aac)  BY <3>1 DEF Reopened
      <4> QED BY <2>1, <4>2, <4>4, <4>5
    <3>2. CASE ~(aac.haveInput /\ c.discontinuity)
      <4>1. /\ EncoderAt(aac, anchor, from, FrameSize)
            /\ ~clock.abuts => Rising(aac, anchor, from)
        <5>1. ~(c.discontinuity /\ aac.haveInput)  BY <3>2
        <5> HIDE DEF c
        <5> QED BY <1>2, <5>1 DEF Offered, RisingUnlessAbutting
      <4>2. e = aac  BY <3>2
      <4> HIDE DEF e, c, from, anchor
      <4> QED BY <1>2, <2>1, <4>1, <4>2
    <3> QED BY <3>1, <3>2
  <2> HIDE DEF e, from, anchor
  <2>3. /\ a \in Encoders /\ EncoderAt(a, anchor, from, FrameSize)
        /\ a.haveInput = TRUE /\ a.expected = c.frame + c.frames
        /\ ~clock.abuts => Rising(a, anchor, from)
    BY <1>1, <1>2, <2>1, <2>2, AcceptIs
  <2> HIDE DEF a, c
  <2>4. /\ aac' \in Encoders /\ EncoderAt(aac', anchor, from, FrameSize)
        /\ aac'.pendingFrames < FrameSize
        /\ aac'.haveInput = TRUE /\ aac'.expected = delivered
        /\ ~clock.abuts => Rising(aac', anchor, from)
    BY <1>1, <1>4, <2>1, <2>3, SubmitWholeIs
  <2>5. TimelineTypes'  BY <1>1, <2>4 DEF TimelineInv, TimelineTypes
  <2>6. aac'.skews \subseteq -1..1 /\ (aac'.refused => clock'.abuts)
    BY <1>1, <2>4 DEF EncoderAt, Rising
  <2>7. InStep'
    <3>1. EncoderAt(aac', clock'.anchorNs, clock'.anchorFrame, FrameSize)
          /\ clock'.anchorNs \in Nat /\ clock'.anchored
          /\ RisingUnlessAbutting(clock.anchorNs, clock.anchorFrame)'
      BY <1>1, <2>1, <2>4 DEF anchor, from, RisingUnlessAbutting
    <3>2. clock'.lastEnd = Predict(clock', delivered')  BY <1>1, <2>1 DEF Predict
    <3> QED BY <1>1, <2>4, <3>1, <3>2 DEF InStep, Predict, RisingUnlessAbutting
  <2>8. CaptureInv'  BY <1>1, <2>1, <2>4, <2>7 DEF CaptureInv
  <2>9. recording' # "flush" /\ recording' # "drained"  BY <1>1, <1>4
  <2> QED BY <2>5, <2>6, <2>8, <2>9 DEF TimelineInv
<1> QED BY <1>3, <1>4

LEMMA TimelineInvStep ==
    ASSUME TimelineInv, [TimelineNext]_timelineVars PROVE TimelineInv'
<1>1. CASE Recover  BY <1>1, RecoverKeeps
<1>2. ASSUME NEW n \in PeriodFrames, NEW observed \in Observations, Read(n, observed)
      PROVE  TimelineInv'
  BY <1>2, ReadKeeps
<1>3. CASE CaptureEnds  BY <1>3, CaptureEndsKeeps
<1>4. CASE Encode  BY <1>4, EncodeKeeps
<1>5. CASE Flush  BY <1>5, AudioFlushKeeps
<1>6. CASE UNCHANGED timelineVars
  <2>1. /\ delivered' = delivered /\ lostSync' = lostSync /\ clock' = clock /\ pcm' = pcm
        /\ aac' = aac /\ recording' = recording
    BY <1>6 DEF timelineVars
  <2>2. TimelineTypes'  BY <2>1 DEF TimelineInv, TimelineTypes
  <2>3. (aac.skews \subseteq -1..1 /\ (aac.refused => clock.abuts))'
    BY <2>1 DEF TimelineInv
  <2>4. (recording = "capture" => CaptureInv)'
    <3>1. BehindGap' = BehindGap  BY <2>1 DEF BehindGap, RisingUnlessAbutting
    <3> QED BY <2>1, <3>1 DEF TimelineInv, CaptureInv, Unstarted, InStep, Offered,
               Predict, RisingUnlessAbutting
  <2>5. (recording = "flush" => FlushInv)' /\ (recording = "drained" => Finished(aac))'
    BY <2>1 DEF TimelineInv, FlushInv, RisingUnlessAbutting
  <2> QED BY <2>2, <2>3, <2>4, <2>5 DEF TimelineInv
<1> QED BY <1>1, <1>2, <1>3, <1>4, <1>5, <1>6 DEF TimelineNext

\* Whatever the rates, the frame size, the reads and the times of the anchors: the muxers
\* refuse no packet unless some chunk behind an overrun begins at the very nanosecond at
\* which the one before it ended; no accepted sample is missing from a drained stream,
\* and none is played more than a sample from its time (AlsaCapture::Read,
\* MediaClock::StampAudio, FfmpegAacEncoder and the muxers' WriteAudio).
THEOREM AudioStaysWhole == TimelineSpec => []AudioTimelineKept
<1>1. TimelineInit => TimelineInv  BY TimelineInvInit
<1>2. TimelineInv /\ [TimelineNext]_timelineVars => TimelineInv'  BY TimelineInvStep
<1>3. TimelineInv => AudioTimelineKept
  <2>1. TimelineInv => RefusedOnlyWithoutGap /\ SamplesKeepTheirTime
    BY DEF TimelineInv, RefusedOnlyWithoutGap, SamplesKeepTheirTime
  <2>2. TimelineInv => SamplesRepresented
    BY DEF TimelineInv, SamplesRepresented, Finished
  <2> QED BY <2>1, <2>2 DEF AudioTimelineKept
<1> QED BY <1>1, <1>2, <1>3, PTL DEF TimelineSpec
================================================================================
