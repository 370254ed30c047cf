------------------------------ MODULE BoundedQueue ------------------------------
(***************************************************************************)
(* BoundedQueue<T>: the ring of slots, its two condition variables and the  *)
(* threads that call it.  An action is one critical section of mutex_; the  *)
(* notifications that WaitPush, WaitPop and Stop make after the unlock are  *)
(* actions of their own.                                                    *)
(***************************************************************************)
EXTENDS Naturals, Sequences, FiniteSets

CONSTANTS
    Threads,    \* the callers
    Items,      \* values of T
    NoItem,     \* an empty std::optional
    Capacity,   \* slots_.size()
    MaxPushed   \* bound: how many items are pushed

ASSUME ThreadsFinite == IsFiniteSet(Threads)
ASSUME RingNotEmpty == Capacity \in Nat \ {0}
ASSUME NoItemIsNone == NoItem \notin Items

VARIABLES
    slots, head, tail, size,              \* the ring
    pushed, popped, replaced, watermark,  \* what Snapshot reports
    stopped,
    at,     \* where each thread is in its call
    item    \* the item a thread in WaitPush holds

ring == <<slots, head, tail, size>>
books == <<pushed, popped, replaced, watermark>>
vars == <<ring, books, stopped, at, item>>

\* A thread is asleep in wait, awake again and about to test its predicate, or
\* past the unlock and about to notify.
Places == {"idle", "pop_asleep", "pop_woken", "push_asleep", "push_woken",
           "notify_pop", "notify_push", "wake_poppers", "wake_pushers"}

Init ==
    /\ slots = [i \in 0..(Capacity - 1) |-> NoItem]
    /\ head = 0 /\ tail = 0 /\ size = 0
    /\ pushed = 0 /\ popped = 0 /\ replaced = 0 /\ watermark = 0
    /\ stopped = FALSE
    /\ at = [t \in Threads |-> "idle"]
    /\ item = [t \in Threads |-> NoItem]

\* No slot is free: size_ has reached slots_.size().
Full == size = Capacity
NextIndex(i) == (i + 1) % Capacity
Larger(a, b) == IF a > b THEN a ELSE b
Are(place) == {t \in Threads : at[t] = place}

--------------------------------------------------------------------------------
(* The private helpers and the condition variables                          *)

PushUnlocked(x) ==
    /\ pushed < MaxPushed
    /\ slots' = [slots EXCEPT ![tail] = x]
    /\ tail' = NextIndex(tail)
    /\ size' = size + 1
    /\ pushed' = pushed + 1
    /\ watermark' = Larger(watermark, size + 1)
    /\ UNCHANGED <<head, popped, replaced>>

PopUnlocked ==
    /\ slots' = [slots EXCEPT ![head] = NoItem]
    /\ head' = NextIndex(head)
    /\ size' = size - 1
    /\ popped' = popped + 1
    /\ UNCHANGED <<tail, pushed, replaced, watermark>>

\* notify_one: one of those asleep wakes, if there is one; t goes on at `place`.
NotifyOne(asleep, woken, t, place) ==
    \/ /\ Are(asleep) = {}
       /\ at' = [at EXCEPT ![t] = place]
    \/ \E w \in Are(asleep) : at' = [at EXCEPT ![w] = woken, ![t] = place]

NotifyAll(asleep, woken, t, place) ==
    at' = [u \in Threads |-> IF u = t THEN place
                             ELSE IF at[u] = asleep THEN woken ELSE at[u]]

--------------------------------------------------------------------------------
(* The operations                                                           *)

\* TryPush and TryPop that fail change nothing and are left out.
TryPush(t, x) ==
    /\ at[t] = "idle"
    /\ ~stopped /\ ~Full
    /\ PushUnlocked(x)
    /\ NotifyOne("pop_asleep", "pop_woken", t, "idle")
    /\ UNCHANGED <<stopped, item>>

\* Mutant of PushLatest: the oldest item is dropped and head_ not advanced.
PushLatestKeepsHead(t, x) ==
    /\ at[t] = "idle"
    /\ ~stopped
    /\ IF Full
       THEN /\ pushed < MaxPushed
            /\ slots' = [slots EXCEPT ![head] = NoItem, ![tail] = x]
            /\ tail' = NextIndex(tail)
            /\ replaced' = replaced + 1
            /\ pushed' = pushed + 1
            /\ UNCHANGED <<head, size, popped, watermark>>
       ELSE PushUnlocked(x)
    /\ NotifyOne("pop_asleep", "pop_woken", t, "idle")
    /\ UNCHANGED <<stopped, item>>

\* The oldest item makes room for the newest in a full queue.
PushLatest(t, x) ==
    /\ at[t] = "idle"
    /\ ~stopped
    /\ IF Full
       THEN /\ pushed < MaxPushed
            /\ slots' = [slots EXCEPT ![head] = NoItem, ![tail] = x]
            /\ head' = NextIndex(head)
            /\ tail' = NextIndex(tail)
            /\ replaced' = replaced + 1
            /\ pushed' = pushed + 1
            /\ UNCHANGED <<size, popped, watermark>>
       ELSE PushUnlocked(x)
    /\ NotifyOne("pop_asleep", "pop_woken", t, "idle")
    /\ UNCHANGED <<stopped, item>>

TryPop(t) ==
    /\ at[t] = "idle"
    /\ size > 0
    /\ PopUnlocked
    /\ NotifyOne("push_asleep", "push_woken", t, "idle")
    /\ UNCHANGED <<stopped, item>>

\* WaitPush and WaitPop test their predicate when called and when woken.
WaitPushBlocks(t, x) ==
    /\ ~stopped /\ Full
    /\ at' = [at EXCEPT ![t] = "push_asleep"]
    /\ item' = [item EXCEPT ![t] = x]
    /\ UNCHANGED <<ring, books, stopped>>

WaitPushReturns(t, x) ==
    /\ item' = [item EXCEPT ![t] = NoItem]
    /\ IF stopped
       THEN at' = [at EXCEPT ![t] = "idle"] /\ UNCHANGED <<ring, books>>
       ELSE ~Full /\ PushUnlocked(x) /\ at' = [at EXCEPT ![t] = "notify_pop"]
    /\ UNCHANGED stopped

WaitPush(t, x) ==
    /\ at[t] = "idle" \/ (at[t] = "push_woken" /\ item[t] = x)
    /\ WaitPushBlocks(t, x) \/ WaitPushReturns(t, x)

\* Mutant of WaitPop: it does not notify those that wait for space.
WaitPopSilent(t) ==
    /\ at[t] \in {"idle", "pop_woken"}
    /\ IF size > 0
       THEN PopUnlocked /\ at' = [at EXCEPT ![t] = "idle"]
       ELSE /\ at' = [at EXCEPT ![t] = IF stopped THEN "idle" ELSE "pop_asleep"]
            /\ UNCHANGED <<ring, books>>
    /\ UNCHANGED <<stopped, item>>

\* A stopped queue still gives what it holds, then nothing.
WaitPop(t) ==
    /\ at[t] \in {"idle", "pop_woken"}
    /\ IF size > 0
       THEN PopUnlocked /\ at' = [at EXCEPT ![t] = "notify_push"]
       ELSE /\ at' = [at EXCEPT ![t] = IF stopped THEN "idle" ELSE "pop_asleep"]
            /\ UNCHANGED <<ring, books>>
    /\ UNCHANGED <<stopped, item>>

\* The notify_one of WaitPush and of WaitPop, after their unlock.
NotifyPop(t) ==
    /\ at[t] = "notify_pop"
    /\ NotifyOne("pop_asleep", "pop_woken", t, "idle")
    /\ UNCHANGED <<ring, books, stopped, item>>

NotifyPush(t) ==
    /\ at[t] = "notify_push"
    /\ NotifyOne("push_asleep", "push_woken", t, "idle")
    /\ UNCHANGED <<ring, books, stopped, item>>

Stop(t) ==
    /\ at[t] = "idle"
    /\ stopped' = TRUE
    /\ at' = [at EXCEPT ![t] = "wake_poppers"]
    /\ UNCHANGED <<ring, books, item>>

\* Mutant of StopNotifies: only the poppers are notified.
StopNotifiesPoppers(t) ==
    /\ at[t] = "wake_poppers"
    /\ NotifyAll("pop_asleep", "pop_woken", t, "idle")
    /\ UNCHANGED <<ring, books, stopped, item>>

StopNotifies(t) ==
    /\ \/ at[t] = "wake_poppers" /\ NotifyAll("pop_asleep", "pop_woken", t, "wake_pushers")
       \/ at[t] = "wake_pushers" /\ NotifyAll("push_asleep", "push_woken", t, "idle")
    /\ UNCHANGED <<ring, books, stopped, item>>

\* A condition variable may wake a thread for no reason.
SpuriousWake(t) ==
    /\ \/ at[t] = "pop_asleep" /\ at' = [at EXCEPT ![t] = "pop_woken"]
       \/ at[t] = "push_asleep" /\ at' = [at EXCEPT ![t] = "push_woken"]
    /\ UNCHANGED <<ring, books, stopped, item>>

\* The steps of a call already made; they do not depend on the environment.
Resume(t) ==
    \/ at[t] = "push_woken" /\ WaitPush(t, item[t])
    \/ at[t] = "pop_woken" /\ WaitPop(t)
    \/ NotifyPop(t) \/ NotifyPush(t) \/ StopNotifies(t)

Next ==
    \E t \in Threads :
        \/ \E x \in Items : TryPush(t, x) \/ PushLatest(t, x) \/ WaitPush(t, x)
        \/ TryPop(t) \/ WaitPop(t)
        \/ NotifyPop(t) \/ NotifyPush(t)
        \/ Stop(t) \/ StopNotifies(t)
        \/ SpuriousWake(t)

Spec == Init /\ [][Next]_vars
FairSpec == Spec /\ \A t \in Threads : WF_vars(Resume(t))

--------------------------------------------------------------------------------
(* Properties                                                               *)

Indices == 0..(Capacity - 1)

\* The values each variable may take.
TypeOK ==
    /\ slots \in [Indices -> Items \cup {NoItem}]
    /\ head \in Indices /\ tail \in Indices /\ size \in 0..Capacity
    /\ pushed \in Nat /\ popped \in Nat /\ replaced \in Nat /\ watermark \in 0..Capacity
    /\ stopped \in BOOLEAN
    /\ at \in [Threads -> Places]
    /\ item \in [Threads -> Items \cup {NoItem}]

\* No lost wakeup.  While a popper sleeps, every queued item has a popper that
\* is awake for it or a notification on its way; the same of free slots and
\* pushers, until the queue is stopped.
ItemsAnnounced ==
    Are("pop_asleep") # {} =>
        size <= Cardinality(Are("pop_woken")) + Cardinality(Are("notify_pop"))

SpaceAnnounced ==
    Are("push_asleep") # {} /\ ~stopped =>
        Capacity - size
            <= Cardinality(Are("push_woken")) + Cardinality(Are("notify_push"))

WaitersAnnounced == ItemsAnnounced /\ SpaceAnnounced

\* Stop lets every blocked caller return; the shutdown joins rely on it.
StopReleases ==
    \A t \in Threads :
        stopped /\ at[t] \in {"pop_asleep", "push_asleep"} ~> at[t] = "idle"

\* The ring, read from head_, is the first-in first-out LatestQueue.
Contents == [i \in 1..size |-> slots[(head + i - 1) % Capacity]]
Queue == INSTANCE LatestQueue WITH content <- Contents
ActsAsLatestQueue == Queue!QueueSpec
================================================================================
