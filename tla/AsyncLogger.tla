------------------------------- MODULE AsyncLogger -------------------------------
(***************************************************************************)
(* AsyncLogger::Impl: the producers that call Log, the worker that writes   *)
(* the records, and the main thread that flushes, reads the snapshot for    *)
(* the report and shuts the logger down.  queue_mutex_ is a variable: a     *)
(* producer only tries it, and the worker keeps it between testing its      *)
(* predicate and falling asleep.  A record is counted, not kept: nothing    *)
(* here depends on its text.  Levels are above their threshold.             *)
(***************************************************************************)
EXTENDS Naturals, FiniteSets

CONSTANTS
    Producers,      \* the threads that log
    LogCapacity,    \* queue_capacity_ and critical_queue_capacity_, by queue
    MaxCalls        \* bound: how often Log is called

QueueNames == {"normal", "critical"}

ASSUME ProducersFinite == IsFiniteSet(Producers)
\* The worker, the main thread and "nobody" are not among the producers.
ASSUME ProducersNamed == {"worker", "main", "free"} \cap Producers = {}
ASSUME CapacityKnown == LogCapacity \in [QueueNames -> Nat \ {0}]

VARIABLES
    mutex,      \* the holder of queue_mutex_, or "free"
    logSize,    \* size of queue_ and of critical_queue_
    writing,    \* writing_
    running,    \* running_
    acceptedRecords, emitted,       \* the counters accepted_, emitted_, and
    contention, overflow,           \* the two that dropped_ is the sum of
    logAt,      \* where each thread is
    asked,      \* the queue a producer's record is for
    calls,      \* bound: calls made
    mark,       \* history: accepted when Flush was called
    flushed,    \* history: the last Flush returned true
    late        \* history: the producers past the running_ test at the shutdown

counters == <<acceptedRecords, emitted, contention, overflow>>
loggerHistory == <<calls, mark, flushed, late>>
loggerVars == <<mutex, logSize, writing, running, counters, logAt, asked, loggerHistory>>

LogThreads == Producers \cup {"worker", "main"}

LoggerInit ==
    /\ mutex = "free"
    /\ logSize = [q \in QueueNames |-> 0]
    /\ writing = FALSE
    /\ running = TRUE
    /\ acceptedRecords = 0 /\ emitted = 0 /\ contention = 0 /\ overflow = 0
    /\ logAt = [t \in LogThreads |-> IF t = "worker" THEN "lock" ELSE "idle"]
    /\ asked = [p \in Producers |-> "normal"]
    /\ calls = 0 /\ mark = 0 /\ flushed = FALSE /\ late = {}

Go(t, place) == logAt' = [logAt EXCEPT ![t] = place]
Acquire(t) == mutex = "free" /\ mutex' = t
Queued == logSize["normal"] + logSize["critical"]

\* notify_one and notify_all have one possible sleeper each; a woken thread
\* takes the mutex again and tests its predicate again.
GoNotify(t, place, u) ==
    logAt' = [logAt EXCEPT ![t] = place,
                           ![u] = IF logAt[u] = "asleep" THEN "lock" ELSE logAt[u]]

--------------------------------------------------------------------------------
(* Enqueue                                                                  *)

Call(p, q) ==
    /\ logAt[p] = "idle"
    /\ running
    /\ calls < MaxCalls
    /\ calls' = calls + 1
    /\ asked' = [asked EXCEPT ![p] = q]
    /\ Go(p, "try_lock")
    /\ UNCHANGED <<mutex, logSize, writing, running, counters, mark, flushed, late>>

\* Mutant of TryLock: a record lost to contention is not counted.
TryLockUncounted(p) ==
    /\ logAt[p] = "try_lock"
    /\ IF mutex = "free" THEN mutex' = p /\ Go(p, "insert")
       ELSE Go(p, "idle") /\ UNCHANGED mutex
    /\ UNCHANGED <<logSize, writing, running, counters, asked, loggerHistory>>

TryLock(p) ==
    /\ logAt[p] = "try_lock"
    /\ IF mutex = "free"
       THEN mutex' = p /\ Go(p, "insert") /\ UNCHANGED contention
       ELSE contention' = contention + 1 /\ Go(p, "idle") /\ UNCHANGED mutex
    /\ UNCHANGED <<logSize, writing, running, acceptedRecords, emitted, overflow, asked,
                   loggerHistory>>

\* The queue of the record's severity has no room.
AtCapacity(q) == logSize[q] >= LogCapacity[q]

Insert(p) ==
    LET q == asked[p]
    IN  /\ logAt[p] = "insert"
        /\ mutex' = "free"
        /\ IF AtCapacity(q)
           THEN /\ overflow' = overflow + 1
                /\ Go(p, "idle")
                /\ UNCHANGED <<logSize, acceptedRecords>>
           ELSE /\ logSize' = [logSize EXCEPT ![q] = @ + 1]
                /\ acceptedRecords' = acceptedRecords + 1
                /\ Go(p, "notify")
                /\ UNCHANGED overflow
        /\ UNCHANGED <<writing, running, emitted, contention, asked, loggerHistory>>

\* Mutant of NotifyReady: the worker is not notified.
WorkerNotNotified(p) ==
    /\ logAt[p] = "notify"
    /\ Go(p, "idle")
    /\ UNCHANGED <<mutex, logSize, writing, running, counters, asked, loggerHistory>>

NotifyReady(p) ==
    /\ logAt[p] = "notify"
    /\ GoNotify(p, "idle", "worker")
    /\ UNCHANGED <<mutex, logSize, writing, running, counters, asked, loggerHistory>>

--------------------------------------------------------------------------------
(* WorkerMain                                                               *)

WorkerLock ==
    /\ logAt["worker"] = "lock"
    /\ Acquire("worker")
    /\ Go("worker", "test")
    /\ UNCHANGED <<logSize, writing, running, counters, asked, loggerHistory>>

\* Mutant of WorkerEnds: it ends with records left.
WorkerEndsAtOnce == ~running

\* The worker ends only when it is told to and has nothing left to write.
WorkerEnds == Queued = 0 /\ ~running

\* The predicate of wait, the test for the end, or the next record.
WorkerTest ==
    /\ logAt["worker"] = "test"
    /\ \/ /\ Queued > 0
          /\ LET q == IF logSize["critical"] = 0 THEN "normal" ELSE "critical"
             IN  logSize' = [logSize EXCEPT ![q] = @ - 1]
          /\ writing' = TRUE
          /\ mutex' = "free"
          /\ Go("worker", "write")
       \/ /\ WorkerEnds
          /\ mutex' = "free"
          /\ GoNotify("worker", "returned", "main")
          /\ UNCHANGED <<logSize, writing>>
       \/ /\ Queued = 0 /\ running
          /\ Go("worker", "falling_asleep")
          /\ UNCHANGED <<logSize, writing, mutex>>
    /\ UNCHANGED <<running, counters, asked, loggerHistory>>

WorkerSleeps ==
    /\ logAt["worker"] = "falling_asleep"
    /\ mutex' = "free"
    /\ Go("worker", "asleep")
    /\ UNCHANGED <<logSize, writing, running, counters, asked, loggerHistory>>

\* The record counts as emitted whatever the sink does.
WorkerWrites ==
    /\ logAt["worker"] = "write"
    /\ emitted' = emitted + 1
    /\ Go("worker", "relock")
    /\ UNCHANGED <<mutex, logSize, writing, running, acceptedRecords, contention, overflow,
                   asked, loggerHistory>>

WorkerRelocks ==
    /\ logAt["worker"] = "relock"
    /\ Acquire("worker")
    /\ Go("worker", "finish")
    /\ UNCHANGED <<logSize, writing, running, counters, asked, loggerHistory>>

WorkerFinishes ==
    /\ logAt["worker"] = "finish"
    /\ writing' = FALSE
    /\ mutex' = "free"
    /\ IF Queued = 0 THEN GoNotify("worker", "lock", "main") ELSE Go("worker", "lock")
    /\ UNCHANGED <<logSize, running, counters, asked, loggerHistory>>

WorkerMain ==
    \/ WorkerLock \/ WorkerTest \/ WorkerSleeps
    \/ WorkerWrites \/ WorkerRelocks \/ WorkerFinishes

--------------------------------------------------------------------------------
(* Flush and Shutdown, called by the main thread                            *)

Flush ==
    /\ logAt["main"] = "idle"
    /\ mark' = acceptedRecords
    /\ flushed' = FALSE
    /\ Go("main", "lock")
    /\ UNCHANGED <<mutex, logSize, writing, running, counters, asked, calls, late>>

FlushLock ==
    /\ logAt["main"] = "lock"
    /\ Acquire("main")
    /\ Go("main", "test")
    /\ UNCHANGED <<logSize, writing, running, counters, asked, loggerHistory>>

\* The predicate that Flush waits for.
QueueDrained == Queued = 0 /\ ~writing

\* QueueDrained; or wait; or the timeout has passed and Flush returns false.
FlushTest ==
    /\ logAt["main"] = "test"
    /\ mutex' = "free"
    /\ flushed' = QueueDrained
    /\ \/ Go("main", "idle")
       \/ ~QueueDrained /\ Go("main", "asleep")
    /\ UNCHANGED <<logSize, writing, running, counters, asked, calls, mark, late>>

\* The timeout of wait_for: the predicate is tested once more.
FlushTimeout ==
    /\ logAt["main"] = "asleep"
    /\ Go("main", "lock")
    /\ UNCHANGED <<mutex, logSize, writing, running, counters, asked, loggerHistory>>

\* The exchange on running_ is made without the mutex.
Shutdown ==
    /\ logAt["main"] = "idle"
    /\ running
    /\ running' = FALSE
    /\ late' = {p \in Producers : logAt[p] # "idle"}
    /\ Go("main", "notify_all")
    /\ UNCHANGED <<mutex, logSize, writing, counters, asked, calls, mark, flushed>>

ShutdownNotifies ==
    /\ logAt["main"] = "notify_all"
    /\ GoNotify("main", "join", "worker")
    /\ UNCHANGED <<mutex, logSize, writing, running, counters, asked, loggerHistory>>

ShutdownJoins ==
    /\ logAt["main"] = "join"
    /\ logAt["worker"] = "returned"
    /\ Go("main", "returned")
    /\ UNCHANGED <<mutex, logSize, writing, running, counters, asked, loggerHistory>>

Main ==
    \/ FlushLock \/ FlushTest \/ FlushTimeout
    \/ ShutdownNotifies \/ ShutdownJoins

Enqueue(p) == TryLock(p) \/ Insert(p) \/ NotifyReady(p)

LoggerNext ==
    \/ \E p \in Producers, q \in QueueNames : Call(p, q)
    \/ \E p \in Producers : Enqueue(p)
    \/ WorkerMain
    \/ Flush \/ Shutdown \/ Main

LoggerSpec == LoggerInit /\ [][LoggerNext]_loggerVars

\* Threads keep running.  A lock is taken in the end although others take it
\* again and again, as a mutex that somebody frees is.
LoggerFairSpec ==
    /\ LoggerSpec
    /\ \A p \in Producers : WF_loggerVars(Enqueue(p))
    /\ SF_loggerVars(WorkerMain)
    /\ SF_loggerVars(Main)

--------------------------------------------------------------------------------
(* Properties                                                               *)

\* The values each variable may take.
LoggerTypeOK ==
    /\ mutex \in LogThreads \cup {"free"}
    /\ \A q \in QueueNames : logSize[q] \in 0..LogCapacity[q]
    /\ writing \in BOOLEAN /\ running \in BOOLEAN /\ flushed \in BOOLEAN
    /\ {acceptedRecords, emitted, contention, overflow, calls, mark} \subseteq Nat
    /\ late \subseteq Producers

\* Every call ends in exactly one of accepted and dropped, and every accepted
\* record is queued, in the worker's hands or emitted.
RecordsAccounted ==
    /\ calls = acceptedRecords + contention + overflow
                 + Cardinality({p \in Producers : logAt[p] \in {"try_lock", "insert"}})
    /\ acceptedRecords = emitted + Queued + IF logAt["worker"] = "write" THEN 1 ELSE 0

\* What was accepted is written by those who promise it. PublishRuntimeReport:
\* when Flush has returned true everything accepted before it was called is
\* emitted, and nothing is left if nobody logs meanwhile. The worker returns
\* only after it has written everything; what stays in the queue came from a
\* producer that was past its running_ test at the shutdown.
AcceptedIsWritten ==
    /\ logAt["main"] = "idle" /\ flushed =>
        /\ emitted >= mark
        /\ acceptedRecords = mark => Queued = 0 /\ emitted = acceptedRecords
    /\ logAt["worker"] = "returned" /\ Queued > 0 =>
        late # {} /\ Queued <= Cardinality(late)

\* While the logger runs, a queue that holds records is emptied.
QueueEmptied == (Queued > 0 /\ running) ~> (Queued = 0 \/ ~running)

\* Shutdown notifies, joins the worker and returns: PublishRuntimeReport calls it
\* just before the program ends, and logging "must not change" what it observes.
ShutdownReturns == logAt["main"] = "notify_all" ~> logAt["main"] = "returned"
================================================================================
