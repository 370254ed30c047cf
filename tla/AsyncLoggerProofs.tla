--------------------------- MODULE AsyncLoggerProofs ---------------------------
(***************************************************************************)
(* Proofs about AsyncLogger for any number of producers, any capacities and *)
(* any number of calls: every record is accounted for, a flush that returns *)
(* true has written what it promised, and the worker returns with an empty  *)
(* queue but for the calls that overlapped the shutdown.                    *)
(***************************************************************************)
EXTENDS AsyncLogger, FiniteSetTheorems, TLAPS

\* Where a thread of each kind may be.
ProducerPlaces == {"idle", "try_lock", "insert", "notify"}
WorkerPlaces ==
    {"lock", "test", "falling_asleep", "asleep", "write", "relock", "finish", "returned"}
MainPlaces == {"idle", "lock", "test", "asleep", "notify_all", "join", "returned"}

PlacesOK ==
    /\ logAt \in [LogThreads -> ProducerPlaces \cup WorkerPlaces \cup MainPlaces]
    /\ \A p \in Producers : logAt[p] \in ProducerPlaces
    /\ logAt["worker"] \in WorkerPlaces /\ logAt["main"] \in MainPlaces

CountsOK ==
    /\ acceptedRecords \in Nat /\ emitted \in Nat /\ contention \in Nat /\ overflow \in Nat
    /\ calls \in Nat /\ mark \in Nat

QueuesOK ==
    /\ logSize \in [QueueNames -> Nat] /\ asked \in [Producers -> QueueNames]
    /\ \A q \in QueueNames : logSize[q] <= LogCapacity[q]

OthersOK ==
    /\ mutex \in LogThreads \cup {"free"} /\ writing \in BOOLEAN /\ running \in BOOLEAN
    /\ flushed \in BOOLEAN /\ late \subseteq Producers

LoggerTypes == PlacesOK /\ CountsOK /\ QueuesOK /\ OthersOK

\* The two named threads are threads of their own.
LEMMA ThreadNames ==
    /\ "worker" \in LogThreads /\ "main" \in LogThreads /\ Producers \subseteq LogThreads
    /\ "worker" \notin Producers /\ "main" \notin Producers
BY ProducersNamed DEF LogThreads

\* A thread that goes somewhere, with or without a notification, keeps the places.
LEMMA Goes ==
    ASSUME PlacesOK
    PROVE  /\ \A p \in Producers : \A x \in ProducerPlaces :
                 Go(p, x) \/ GoNotify(p, x, "worker") => PlacesOK' /\ logAt'[p] = x
           /\ \A x \in WorkerPlaces :
                 Go("worker", x) \/ GoNotify("worker", x, "main") => PlacesOK' /\ logAt'["worker"] = x
           /\ \A x \in MainPlaces :
                 Go("main", x) \/ GoNotify("main", x, "worker") => PlacesOK' /\ logAt'["main"] = x
<1> USE ThreadNames DEF PlacesOK, Go, GoNotify
<1>1. "lock" \in WorkerPlaces /\ "lock" \in MainPlaces  BY DEF WorkerPlaces, MainPlaces
<1>2. ASSUME NEW p \in Producers, NEW x \in ProducerPlaces,
             Go(p, x) \/ GoNotify(p, x, "worker")
      PROVE  PlacesOK' /\ logAt'[p] = x
  BY <1>1, <1>2
<1>3. ASSUME NEW x \in WorkerPlaces, Go("worker", x) \/ GoNotify("worker", x, "main")
      PROVE  PlacesOK' /\ logAt'["worker"] = x
  BY <1>1, <1>3
<1>4. ASSUME NEW x \in MainPlaces, Go("main", x) \/ GoNotify("main", x, "worker")
      PROVE  PlacesOK' /\ logAt'["main"] = x
  BY <1>1, <1>4
<1> QED BY <1>2, <1>3, <1>4

\* Which threads a step leaves where they are.
LEMMA Stays ==
    ASSUME PlacesOK
    PROVE  /\ \A p \in Producers : \A x : Go(p, x) \/ GoNotify(p, x, "worker") =>
                 \A r \in Producers : r # p => logAt'[r] = logAt[r]
           /\ \A x : Go("worker", x) \/ GoNotify("worker", x, "main") \/ Go("main", x)
                     \/ GoNotify("main", x, "worker") => \A r \in Producers : logAt'[r] = logAt[r]
           /\ \A t \in LogThreads : \A x : t # "worker" /\ (Go(t, x) \/ GoNotify(t, x, "worker")) =>
                 logAt'["worker"] = logAt["worker"] \/ (logAt["worker"] = "asleep" /\ logAt'["worker"] = "lock")
           /\ \A t \in LogThreads : \A x : t # "main" /\ (Go(t, x) \/ GoNotify(t, x, "main")) =>
                 logAt'["main"] = logAt["main"] \/ (logAt["main"] = "asleep" /\ logAt'["main"] = "lock")
           /\ \A p \in Producers : \A x : Go(p, x) \/ GoNotify(p, x, "worker") =>
                 logAt'["main"] = logAt["main"]
<1> USE ThreadNames DEF PlacesOK, Go, GoNotify
<1>1. \A p \in Producers : \A x : Go(p, x) \/ GoNotify(p, x, "worker") =>
                 (\A r \in Producers : r # p => logAt'[r] = logAt[r]) /\ logAt'["main"] = logAt["main"]
  OBVIOUS
<1>2. \A x : Go("worker", x) \/ GoNotify("worker", x, "main") \/ Go("main", x)
             \/ GoNotify("main", x, "worker") => \A r \in Producers : logAt'[r] = logAt[r]
  OBVIOUS
<1>3. \A t \in LogThreads : \A x : t # "worker" /\ (Go(t, x) \/ GoNotify(t, x, "worker")) =>
         logAt'["worker"] = logAt["worker"] \/ (logAt["worker"] = "asleep" /\ logAt'["worker"] = "lock")
  OBVIOUS
<1>4. \A t \in LogThreads : \A x : t # "main" /\ (Go(t, x) \/ GoNotify(t, x, "main")) =>
         logAt'["main"] = logAt["main"] \/ (logAt["main"] = "asleep" /\ logAt'["main"] = "lock")
  OBVIOUS
<1> QED BY <1>1, <1>2, <1>3, <1>4

\* What is queued grows and shrinks by the record that is put in or taken out.
LEMMA QueuedChanges ==
    ASSUME QueuesOK
    PROVE  /\ Queued \in Nat /\ logSize["normal"] \in Nat /\ logSize["critical"] \in Nat
           /\ \A q \in QueueNames : logSize' = [logSize EXCEPT ![q] = @ + 1] =>
                 logSize' \in [QueueNames -> Nat] /\ Queued' = Queued + 1
           /\ \A q \in QueueNames : logSize[q] > 0 /\ logSize' = [logSize EXCEPT ![q] = @ - 1] =>
                 logSize' \in [QueueNames -> Nat] /\ Queued' = Queued - 1
<1> USE DEF QueuesOK, QueueNames, Queued
<1>1. Queued \in Nat /\ logSize["normal"] \in Nat /\ logSize["critical"] \in Nat
  OBVIOUS
<1>2. ASSUME NEW q \in QueueNames, logSize' = [logSize EXCEPT ![q] = @ + 1]
      PROVE  logSize' \in [QueueNames -> Nat] /\ Queued' = Queued + 1
  BY <1>1, <1>2
<1>3. ASSUME NEW q \in QueueNames, logSize[q] > 0, logSize' = [logSize EXCEPT ![q] = @ - 1]
      PROVE  logSize' \in [QueueNames -> Nat] /\ Queued' = Queued - 1
  BY <1>1, <1>3
<1> QED BY <1>1, <1>2, <1>3

NextQueueName == IF logSize["critical"] = 0 THEN "normal" ELSE "critical"

\* The queue the worker takes its next record from holds one.
LEMMA NextQueue ==
    ASSUME QueuesOK, Queued > 0
    PROVE  NextQueueName \in QueueNames /\ logSize[NextQueueName] > 0
<1>1. logSize["normal"] \in Nat /\ logSize["critical"] \in Nat /\ logSize["normal"] + logSize["critical"] > 0
  BY QueuedChanges DEF Queued
<1>2. CASE logSize["critical"] = 0
  <2>1. logSize["normal"] > 0  BY <1>1, <1>2
  <2> QED BY <1>2, <2>1 DEF QueueNames, NextQueueName
<1>3. CASE logSize["critical"] # 0
  <2>1. logSize["critical"] > 0  BY <1>1, <1>3
  <2> QED BY <1>3, <2>1 DEF QueueNames, NextQueueName
<1> QED BY <1>2, <1>3

\* Every step keeps the types.
LEMMA TypesStep == ASSUME LoggerTypes, [LoggerNext]_loggerVars PROVE LoggerTypes'
<1> USE ThreadNames DEF LoggerTypes, counters, loggerHistory
<1>1. PlacesOK'
  <2>1. ASSUME NEW p \in Producers, NEW q \in QueueNames, Call(p, q) PROVE PlacesOK'
    BY <2>1, Goes DEF Call, ProducerPlaces
  <2>2. ASSUME NEW p \in Producers, Enqueue(p) PROVE PlacesOK'
    BY <2>2, Goes DEF Enqueue, TryLock, Insert, NotifyReady, ProducerPlaces
  <2>3. CASE WorkerMain
    BY <2>3, Goes DEF WorkerMain, WorkerLock, WorkerTest, WorkerSleeps, WorkerWrites,
       WorkerRelocks, WorkerFinishes, WorkerPlaces
  <2>4. CASE Flush \/ Shutdown \/ Main
    BY <2>4, Goes DEF Flush, Shutdown, Main, FlushLock, FlushTest, FlushTimeout,
       ShutdownNotifies, ShutdownJoins, MainPlaces
  <2>5. CASE UNCHANGED loggerVars  BY <2>5 DEF loggerVars, PlacesOK
  <2> QED BY <2>1, <2>2, <2>3, <2>4, <2>5 DEF LoggerNext
<1>2. CountsOK'
  BY DEF CountsOK, LoggerNext, Call, Enqueue, TryLock, Insert, NotifyReady, WorkerMain, WorkerLock,
     WorkerTest, WorkerSleeps, WorkerWrites, WorkerRelocks, WorkerFinishes, Flush, Shutdown, Main,
     FlushLock, FlushTest, FlushTimeout, ShutdownNotifies, ShutdownJoins, loggerVars
<1>3. QueuesOK'
  <2>0. QueuesOK  OBVIOUS
  <2>1. ASSUME NEW p \in Producers, NEW q \in QueueNames, Call(p, q) PROVE QueuesOK'
    BY <2>1 DEF Call, QueuesOK
  <2>2. ASSUME NEW p \in Producers, Insert(p) PROVE QueuesOK'
    <3>1. CASE AtCapacity(asked[p])  BY <2>2, <3>1 DEF Insert, QueuesOK
    <3>2. CASE ~AtCapacity(asked[p])
      <4>1. logSize' = [logSize EXCEPT ![asked[p]] = @ + 1] /\ asked' = asked /\ asked[p] \in QueueNames
        BY <2>0, <2>2, <3>2 DEF Insert, QueuesOK
      <4>2. logSize[asked[p]] < LogCapacity[asked[p]]
        <5>1. logSize[asked[p]] \in Nat /\ LogCapacity[asked[p]] \in Nat
          BY <2>0, <4>1, CapacityKnown DEF QueuesOK
        <5> QED BY <3>2, <5>1 DEF AtCapacity
      <4>3. logSize' \in [QueueNames -> Nat]  BY <2>0, <4>1, QueuedChanges
      <4> QED BY <2>0, <4>1, <4>2, <4>3, CapacityKnown DEF QueuesOK
    <3> QED BY <3>1, <3>2
  <2>3. CASE WorkerTest
    <3>1. CASE Queued > 0
      <4> DEFINE q == NextQueueName
      <4>1. logSize' \in {logSize, [logSize EXCEPT ![q] = @ - 1]} /\ asked' = asked
        BY <2>3 DEF WorkerTest, NextQueueName
      <4>2. q \in QueueNames /\ logSize[q] > 0  BY <2>0, <3>1, NextQueue
      <4> HIDE DEF q
      <4>3. logSize' \in [QueueNames -> Nat]
        BY <2>0, <4>1, <4>2, QueuedChanges DEF QueuesOK
      <4> QED BY <2>0, <4>1, <4>2, <4>3, CapacityKnown DEF QueuesOK
    <3>2. CASE ~(Queued > 0)  BY <2>3, <3>2 DEF WorkerTest, QueuesOK
    <3> QED BY <3>1, <3>2
  <2>4. CASE UNCHANGED <<logSize, asked>>  BY <2>0, <2>4 DEF QueuesOK
  <2>5. \/ \E p \in Producers, q \in QueueNames : Call(p, q)
        \/ \E p \in Producers : Insert(p)
        \/ WorkerTest
        \/ UNCHANGED <<logSize, asked>>
    BY DEF LoggerNext, Enqueue, TryLock, NotifyReady, WorkerMain, WorkerLock,
       WorkerSleeps, WorkerWrites, WorkerRelocks, WorkerFinishes, Flush, Shutdown, Main,
       FlushLock, FlushTest, FlushTimeout, ShutdownNotifies, ShutdownJoins, loggerVars
  <2> QED BY <2>1, <2>2, <2>3, <2>4, <2>5
<1>4. OthersOK'
  <2>1. mutex' \in LogThreads \cup {"free"}
    BY DEF OthersOK, LoggerNext, Call, Enqueue, TryLock, Insert, NotifyReady, WorkerMain, WorkerLock,
       WorkerTest, WorkerSleeps, WorkerWrites, WorkerRelocks, WorkerFinishes, Flush, Shutdown, Main,
       FlushLock, FlushTest, FlushTimeout, ShutdownNotifies, ShutdownJoins, loggerVars, Acquire
  <2>2. writing' \in BOOLEAN /\ running' \in BOOLEAN
    BY DEF OthersOK, LoggerNext, Call, Enqueue, TryLock, Insert, NotifyReady, WorkerMain, WorkerLock,
       WorkerTest, WorkerSleeps, WorkerWrites, WorkerRelocks, WorkerFinishes, Flush, Shutdown, Main,
       FlushLock, FlushTest, FlushTimeout, ShutdownNotifies, ShutdownJoins, loggerVars
  <2>3. flushed' \in BOOLEAN
    BY DEF OthersOK, LoggerNext, Call, Enqueue, TryLock, Insert, NotifyReady, WorkerMain, WorkerLock,
       WorkerTest, WorkerSleeps, WorkerWrites, WorkerRelocks, WorkerFinishes, Flush, Shutdown, Main,
       FlushLock, FlushTest, FlushTimeout, ShutdownNotifies, ShutdownJoins, loggerVars, QueueDrained
  <2>4. late' \subseteq Producers
    BY DEF OthersOK, LoggerNext, Call, Enqueue, TryLock, Insert, NotifyReady, WorkerMain, WorkerLock,
       WorkerTest, WorkerSleeps, WorkerWrites, WorkerRelocks, WorkerFinishes, Flush, Shutdown, Main,
       FlushLock, FlushTest, FlushTimeout, ShutdownNotifies, ShutdownJoins, loggerVars
  <2> QED BY <2>1, <2>2, <2>3, <2>4 DEF OthersOK
<1> QED BY <1>1, <1>2, <1>3, <1>4

--------------------------------------------------------------------------------
(* Every record is accounted for                                            *)

\* The calls that have not decided yet whether their record is kept.
InFlight == {p \in Producers : logAt[p] \in {"try_lock", "insert"}}

BooksBalance ==
    /\ calls = acceptedRecords + contention + overflow + Cardinality(InFlight)
    /\ logAt["worker"] = "write" => acceptedRecords = emitted + Queued + 1
    /\ logAt["worker"] # "write" => acceptedRecords = emitted + Queued

\* InFlight is finite, and one producer's step changes it by that producer at most.
LEMMA InFlightMoves ==
    ASSUME NEW p \in Producers, \A r \in Producers : r # p => logAt'[r] = logAt[r]
    PROVE  /\ Cardinality(InFlight) \in Nat
           /\ p \notin InFlight /\ logAt'[p] \in {"try_lock", "insert"} =>
                 Cardinality(InFlight') = Cardinality(InFlight) + 1
           /\ p \in InFlight /\ logAt'[p] \notin {"try_lock", "insert"} =>
                 Cardinality(InFlight') = Cardinality(InFlight) - 1
           /\ (p \in InFlight <=> logAt'[p] \in {"try_lock", "insert"}) => InFlight' = InFlight
<1>1. IsFiniteSet(InFlight) /\ Cardinality(InFlight) \in Nat
  <2>1. InFlight \subseteq Producers  BY DEF InFlight
  <2> QED BY <2>1, ProducersFinite, FS_Subset, FS_CardinalityType
<1>2. ASSUME p \notin InFlight, logAt'[p] \in {"try_lock", "insert"}
      PROVE  Cardinality(InFlight') = Cardinality(InFlight) + 1
  <2>1. InFlight' = InFlight \cup {p}  BY <1>2 DEF InFlight
  <2> QED BY <1>1, <1>2, <2>1, FS_AddElement
<1>3. ASSUME p \in InFlight, logAt'[p] \notin {"try_lock", "insert"}
      PROVE  Cardinality(InFlight') = Cardinality(InFlight) - 1
  <2>1. InFlight' = InFlight \ {p}  BY <1>3 DEF InFlight
  <2> QED BY <1>1, <1>3, <2>1, FS_RemoveElement
<1>4. (p \in InFlight <=> logAt'[p] \in {"try_lock", "insert"}) => InFlight' = InFlight
  BY DEF InFlight
<1> QED BY <1>1, <1>2, <1>3, <1>4

\* A step that moves no producer leaves the calls under way as they were.
LEMMA InFlightStays ==
    ASSUME \A r \in Producers : logAt'[r] = logAt[r]
    PROVE  InFlight' = InFlight /\ Cardinality(InFlight') = Cardinality(InFlight)
<1>1. InFlight' = InFlight  BY DEF InFlight
<1> QED BY <1>1

\* A producer's call is counted once, on whichever way it ends.
LEMMA ProducerBalances ==
    ASSUME LoggerTypes, BooksBalance, NEW p \in Producers,
           (\E q \in QueueNames : Call(p, q)) \/ Enqueue(p)
    PROVE  BooksBalance'
<1> USE ThreadNames DEF counters, loggerHistory
<1>0. PlacesOK /\ CountsOK /\ QueuesOK /\ Cardinality(InFlight) \in Nat
  <2>1. InFlight \subseteq Producers  BY DEF InFlight
  <2>2. Cardinality(InFlight) \in Nat
    BY <2>1, ProducersFinite, FS_Subset, FS_CardinalityType
  <2> QED BY <2>2 DEF LoggerTypes
<1>1. \E x \in ProducerPlaces : Go(p, x) \/ GoNotify(p, x, "worker")
  BY DEF Call, Enqueue, TryLock, Insert, NotifyReady, ProducerPlaces
<1>2. (\A r \in Producers : r # p => logAt'[r] = logAt[r]) /\ (logAt'["worker"] = "write" <=> logAt["worker"] = "write")
  BY <1>0, <1>1, Stays
<1>3. CASE \E q \in QueueNames : Call(p, q)
  <2>1. p \notin InFlight /\ logAt'[p] = "try_lock" /\ calls' = calls + 1
        /\ UNCHANGED <<counters, logSize>>
    BY <1>0, <1>3, Goes DEF Call, InFlight, ProducerPlaces
  <2>2. Cardinality(InFlight') = Cardinality(InFlight) + 1 /\ Queued' = Queued
    BY <1>2, <2>1, InFlightMoves DEF Queued
  <2> QED BY <1>0, <1>2, <2>1, <2>2 DEF BooksBalance, CountsOK
<1>4. CASE TryLock(p)
  <2>1. logAt[p] = "try_lock" /\ p \in InFlight /\ UNCHANGED <<logSize, acceptedRecords, emitted, overflow, calls>>
    BY <1>4 DEF TryLock, InFlight
  <2>2. Queued' = Queued  BY <2>1 DEF Queued
  <2>3. CASE mutex = "free"
    <3>1. logAt'[p] = "insert" /\ contention' = contention
      BY <1>0, <1>4, <2>3, Goes DEF TryLock, ProducerPlaces
    <3>2. InFlight' = InFlight  BY <1>2, <2>1, <3>1, InFlightMoves
    <3> QED BY <1>0, <1>2, <2>1, <2>2, <3>1, <3>2 DEF BooksBalance
  <2>4. CASE mutex # "free"
    <3>1. logAt'[p] = "idle" /\ contention' = contention + 1
      BY <1>0, <1>4, <2>4, Goes DEF TryLock, ProducerPlaces
    <3>2. Cardinality(InFlight') = Cardinality(InFlight) - 1
      BY <1>2, <2>1, <3>1, InFlightMoves
    <3> QED BY <1>0, <1>2, <2>1, <2>2, <3>1, <3>2 DEF BooksBalance, CountsOK
  <2> QED BY <2>3, <2>4
<1>5. CASE Insert(p)
  <2>1. logAt[p] = "insert" /\ p \in InFlight /\ UNCHANGED <<emitted, contention, calls>>
    BY <1>5 DEF Insert, InFlight
  <2>2. logAt'[p] \in {"idle", "notify"}  BY <1>0, <1>5, Goes DEF Insert, ProducerPlaces
  <2>3. Cardinality(InFlight') = Cardinality(InFlight) - 1
    BY <1>2, <2>1, <2>2, InFlightMoves
  <2>4. CASE AtCapacity(asked[p])
    <3>1. overflow' = overflow + 1 /\ UNCHANGED <<logSize, acceptedRecords>>
      BY <1>5, <2>4 DEF Insert
    <3>2. Queued' = Queued  BY <3>1 DEF Queued
    <3> QED BY <1>0, <1>2, <2>1, <2>3, <3>1, <3>2 DEF BooksBalance, CountsOK
  <2>5. CASE ~AtCapacity(asked[p])
    <3>1. logSize' = [logSize EXCEPT ![asked[p]] = @ + 1] /\ acceptedRecords' = acceptedRecords + 1 /\ overflow' = overflow
      BY <1>5, <2>5 DEF Insert
    <3>2. asked[p] \in QueueNames  BY <1>0 DEF QueuesOK
    <3>3. Queued' = Queued + 1 /\ Queued \in Nat  BY <1>0, <3>1, <3>2, QueuedChanges
    <3> QED BY <1>0, <1>2, <2>1, <2>3, <3>1, <3>3 DEF BooksBalance, CountsOK
  <2> QED BY <2>4, <2>5
<1>6. CASE NotifyReady(p)
  <2>1. logAt[p] = "notify" /\ logAt'[p] = "idle" /\ UNCHANGED <<logSize, counters, calls>>
    BY <1>0, <1>6, Goes DEF NotifyReady, ProducerPlaces
  <2>2. InFlight' = InFlight  BY <1>2, <2>1, InFlightMoves DEF InFlight
  <2>3. Queued' = Queued  BY <2>1 DEF Queued
  <2> QED BY <1>2, <2>1, <2>2, <2>3 DEF BooksBalance
<1> QED BY <1>3, <1>4, <1>5, <1>6 DEF Enqueue

\* A record the worker takes is in its hands until it is emitted.
LEMMA WorkerBalances ==
    ASSUME LoggerTypes, BooksBalance, WorkerMain
    PROVE  BooksBalance'
<1> USE ThreadNames DEF counters, loggerHistory
<1>0. PlacesOK /\ CountsOK /\ QueuesOK  BY DEF LoggerTypes
<1>1. \E x \in WorkerPlaces : Go("worker", x) \/ GoNotify("worker", x, "main")
  BY DEF WorkerMain, WorkerLock, WorkerTest, WorkerSleeps, WorkerWrites, WorkerRelocks,
     WorkerFinishes, WorkerPlaces
<1>2. Cardinality(InFlight') = Cardinality(InFlight)
  BY <1>0, <1>1, Stays, InFlightStays
<1>3. CASE WorkerLock \/ WorkerSleeps \/ WorkerRelocks \/ WorkerFinishes
  <2>1. logAt["worker"] # "write" /\ logAt'["worker"] # "write"
    BY <1>0, <1>3, Goes DEF WorkerLock, WorkerSleeps, WorkerRelocks, WorkerFinishes, WorkerPlaces
  <2>2. UNCHANGED <<logSize, counters, calls>>
    BY <1>3 DEF WorkerLock, WorkerSleeps, WorkerRelocks, WorkerFinishes
  <2>3. Queued' = Queued  BY <2>2 DEF Queued
  <2> QED BY <1>2, <2>1, <2>2, <2>3 DEF BooksBalance
<1>4. CASE WorkerWrites
  <2>1. logAt["worker"] = "write" /\ logAt'["worker"] = "relock" /\ emitted' = emitted + 1
    BY <1>0, <1>4, Goes DEF WorkerWrites, WorkerPlaces
  <2>2. UNCHANGED <<logSize, acceptedRecords, contention, overflow, calls>>
    BY <1>4 DEF WorkerWrites
  <2>3. Queued' = Queued /\ Queued \in Nat  BY <1>0, <2>2, QueuedChanges DEF Queued
  <2> QED BY <1>0, <1>2, <2>1, <2>2, <2>3 DEF BooksBalance, CountsOK
<1>5. CASE WorkerTest
  <2>0. logAt["worker"] = "test" /\ UNCHANGED <<counters, calls>>
    BY <1>5 DEF WorkerTest
  <2>1. CASE Queued > 0 /\ logSize' # logSize
    <3>1. logSize' = [logSize EXCEPT ![NextQueueName] = @ - 1]
      BY <1>5, <2>1 DEF WorkerTest, NextQueueName
    <3>2. logAt'["worker"] = "write"
      BY <1>0, <1>5, <2>1, Goes DEF WorkerTest, WorkerPlaces
    <3>3. Queued' = Queued - 1 /\ Queued \in Nat
      BY <1>0, <2>1, <3>1, NextQueue, QueuedChanges
    <3> QED BY <1>0, <1>2, <2>0, <3>2, <3>3 DEF BooksBalance, CountsOK
  <2>2. CASE logSize' = logSize
    <3>1. ~(Queued > 0)
      <4>1. ASSUME Queued > 0 PROVE FALSE
        <5>1. logSize' = [logSize EXCEPT ![NextQueueName] = @ - 1]
          BY <1>5, <4>1, <1>0, QueuedChanges DEF WorkerTest, NextQueueName, WorkerEnds
        <5>2. Queued' = Queued - 1 /\ Queued \in Nat
          BY <1>0, <4>1, <5>1, NextQueue, QueuedChanges
        <5>3. Queued' = Queued  BY <2>2 DEF Queued
        <5> QED BY <5>2, <5>3
      <4> QED BY <4>1
    <3>2. logAt'["worker"] # "write" /\ Queued' = Queued
      BY <1>0, <1>5, <2>2, <3>1, Goes DEF WorkerTest, WorkerPlaces, Queued
    <3> QED BY <1>2, <2>0, <3>2 DEF BooksBalance
  <2>3. Queued > 0 \/ logSize' = logSize  BY <1>5 DEF WorkerTest
  <2> QED BY <2>1, <2>2, <2>3
<1> QED BY <1>3, <1>4, <1>5 DEF WorkerMain

\* The main thread writes, counts and queues nothing.
LEMMA MainBalances ==
    ASSUME LoggerTypes, BooksBalance, Flush \/ Shutdown \/ Main \/ UNCHANGED loggerVars
    PROVE  BooksBalance'
<1> USE ThreadNames DEF counters, loggerHistory
<1>0. PlacesOK  BY DEF LoggerTypes
<1>1. \/ \E x \in MainPlaces : Go("main", x) \/ GoNotify("main", x, "worker")
      \/ logAt' = logAt
  BY DEF Flush, Shutdown, Main, FlushLock, FlushTest, FlushTimeout, ShutdownNotifies,
     ShutdownJoins, MainPlaces, loggerVars
<1>2. /\ Cardinality(InFlight') = Cardinality(InFlight)
      /\ (logAt'["worker"] = "write" <=> logAt["worker"] = "write")
  BY <1>0, <1>1, Stays, InFlightStays
<1>3. UNCHANGED <<logSize, counters, calls>>
  BY DEF Flush, Shutdown, Main, FlushLock, FlushTest, FlushTimeout, ShutdownNotifies,
     ShutdownJoins, loggerVars
<1>4. Queued' = Queued  BY <1>3 DEF Queued
<1> QED BY <1>2, <1>3, <1>4 DEF BooksBalance

\* At the start nothing was logged.
LEMMA InitBalances ==
    ASSUME LoggerInit
    PROVE  LoggerTypes /\ BooksBalance /\ InFlight = {} /\ Queued = 0 /\ logAt["worker"] = "lock"
<1> USE ThreadNames DEF LoggerInit
<1>1. PlacesOK  BY DEF PlacesOK, ProducerPlaces, WorkerPlaces, MainPlaces
<1>2. \A q \in QueueNames : 0 <= LogCapacity[q]  BY CapacityKnown
<1>3. QueuesOK  BY <1>2 DEF QueuesOK, QueueNames
<1>4. CountsOK /\ OthersOK  BY DEF CountsOK, OthersOK
<1>5. InFlight = {} /\ Queued = 0 /\ logAt["worker"] = "lock"
  BY DEF InFlight, Queued, QueueNames
<1>6. BooksBalance  BY <1>5, FS_EmptySet DEF BooksBalance
<1> QED BY <1>1, <1>3, <1>4, <1>5, <1>6 DEF LoggerTypes

\* Every call ends in exactly one of accepted and dropped, and every accepted record is
\* queued, in the worker's hands or emitted: for any number of producers and calls.
THEOREM EveryRecordAccounted == LoggerSpec => []RecordsAccounted
<1>1. LoggerInit => LoggerTypes /\ BooksBalance  BY InitBalances
<1>2. LoggerTypes /\ BooksBalance /\ [LoggerNext]_loggerVars => LoggerTypes' /\ BooksBalance'
  BY TypesStep, ProducerBalances, WorkerBalances, MainBalances DEF LoggerNext
<1>3. LoggerTypes /\ BooksBalance => RecordsAccounted
  <2> SUFFICES ASSUME LoggerTypes, BooksBalance PROVE RecordsAccounted  OBVIOUS
  <2>1. acceptedRecords \in Nat /\ emitted \in Nat /\ Queued \in Nat
    BY QueuedChanges DEF LoggerTypes, CountsOK
  <2>2. acceptedRecords = emitted + Queued + IF logAt["worker"] = "write" THEN 1 ELSE 0
    BY <2>1 DEF BooksBalance
  <2>3. calls = acceptedRecords + contention + overflow
                 + Cardinality({p \in Producers : logAt[p] \in {"try_lock", "insert"}})
    BY DEF BooksBalance, InFlight
  <2> QED BY <2>2, <2>3 DEF RecordsAccounted
<1> QED BY <1>1, <1>2, <1>3, PTL DEF LoggerSpec

--------------------------------------------------------------------------------
(* What Flush and Shutdown promise                                          *)

\* Flush sees the record that the worker is writing.
WritingTold == logAt["worker"] = "write" => writing

\* A flush that returned true has seen everything that was accepted before it.
FlushHolds == mark <= acceptedRecords /\ (flushed => mark <= emitted)

\* After the shutdown only the producers that were under way are.
LateKnown == ~running => \A p \in Producers : logAt[p] # "idle" => p \in late

\* The worker returned with an empty queue: what is queued came from a late producer.
ReturnedEmpty ==
    logAt["worker"] = "returned" => ~running /\ Queued + Cardinality(InFlight) <= Cardinality(late)

Promises == WritingTold /\ FlushHolds /\ LateKnown /\ ReturnedEmpty

LoggerInv == LoggerTypes /\ BooksBalance /\ Promises

\* The sizes the promises compare are numbers, and a part is no larger than the whole.
LEMMA SizesOf ==
    ASSUME LoggerTypes
    PROVE  /\ Queued \in Nat /\ Cardinality(InFlight) \in Nat /\ Cardinality(late) \in Nat
           /\ IsFiniteSet(late) /\ (late = {} => Cardinality(late) = 0)
           /\ InFlight \subseteq late => Cardinality(InFlight) <= Cardinality(late)
<1>1. InFlight \subseteq Producers /\ late \subseteq Producers
  BY DEF InFlight, LoggerTypes, OthersOK
<1>2. IsFiniteSet(InFlight) /\ IsFiniteSet(late)  BY <1>1, ProducersFinite, FS_Subset
<1>3. Cardinality(InFlight) \in Nat /\ Cardinality(late) \in Nat
  BY <1>2, FS_CardinalityType
<1>4. Queued \in Nat  BY QueuedChanges DEF LoggerTypes
<1>5. InFlight \subseteq late => Cardinality(InFlight) <= Cardinality(late)
  BY <1>2, FS_Subset
<1>6. late = {} => Cardinality(late) = 0  BY FS_EmptySet
<1> QED BY <1>2, <1>3, <1>4, <1>5, <1>6

\* A producer makes no promise false: it only queues a record it had in flight.
LEMMA ProducerPromises ==
    ASSUME LoggerInv, NEW p \in Producers, (\E q \in QueueNames : Call(p, q)) \/ Enqueue(p)
    PROVE  Promises'
<1> USE ThreadNames DEF counters, loggerHistory
<1>0. PlacesOK /\ CountsOK /\ QueuesOK /\ LoggerTypes  BY DEF LoggerTypes, LoggerInv
<1>1. \E x \in ProducerPlaces : Go(p, x) \/ GoNotify(p, x, "worker")
  BY DEF Call, Enqueue, TryLock, Insert, NotifyReady, ProducerPlaces
<1>2. /\ \A r \in Producers : r # p => logAt'[r] = logAt[r]
      /\ logAt'["worker"] = logAt["worker"] \/ (logAt["worker"] = "asleep" /\ logAt'["worker"] = "lock")
  BY <1>0, <1>1, Stays
<1>3. UNCHANGED <<writing, running, emitted, mark, flushed, late>> /\ acceptedRecords' \in {acceptedRecords, acceptedRecords + 1}
  BY DEF Call, Enqueue, TryLock, Insert, NotifyReady
<1>4. WritingTold'  BY <1>2, <1>3 DEF LoggerInv, Promises, WritingTold
<1>5. FlushHolds'  BY <1>0, <1>3 DEF LoggerInv, Promises, FlushHolds, CountsOK
<1>6. ~running => logAt[p] # "idle"  BY DEF Call, Enqueue, TryLock, Insert, NotifyReady
<1>7. LateKnown'  BY <1>2, <1>3, <1>6 DEF LoggerInv, Promises, LateKnown
<1>8. ReturnedEmpty'
  <2>1. SUFFICES ASSUME logAt'["worker"] = "returned" PROVE Queued' + Cardinality(InFlight') <= Cardinality(late') /\ ~running'
    BY DEF ReturnedEmpty
  <2>2. ~running /\ Queued + Cardinality(InFlight) <= Cardinality(late)
    BY <1>2, <2>1 DEF LoggerInv, Promises, ReturnedEmpty
  <2>3. Queued \in Nat /\ Cardinality(InFlight) \in Nat /\ Cardinality(late) \in Nat
    BY <1>0, SizesOf
  <2>4. CASE TryLock(p)
    <3>1. Queued' = Queued /\ p \in InFlight  BY <2>4 DEF TryLock, Queued, InFlight
    <3>2. InFlight' = InFlight \/ Cardinality(InFlight') = Cardinality(InFlight) - 1
      BY <1>2, <3>1, InFlightMoves
    <3> QED BY <1>3, <2>2, <2>3, <3>1, <3>2
  <2>5. CASE Insert(p)
    <3>1. logAt'[p] \in {"idle", "notify"} /\ p \in InFlight
      BY <1>0, <2>5, Goes DEF Insert, ProducerPlaces, InFlight
    <3>2. Cardinality(InFlight') = Cardinality(InFlight) - 1
      BY <1>2, <3>1, InFlightMoves
    <3>3. Queued' = Queued \/ Queued' = Queued + 1
      <4>1. logSize' = logSize \/ logSize' = [logSize EXCEPT ![asked[p]] = @ + 1]
        BY <2>5 DEF Insert
      <4>2. asked[p] \in QueueNames  BY <1>0 DEF QueuesOK
      <4> QED BY <1>0, <4>1, <4>2, QueuedChanges DEF Queued
    <3> QED BY <1>3, <2>2, <2>3, <3>2, <3>3
  <2>6. CASE NotifyReady(p)
    <3>1. Queued' = Queued /\ p \notin InFlight /\ logAt'[p] = "idle"
      BY <1>0, <2>6, Goes DEF NotifyReady, Queued, InFlight, ProducerPlaces
    <3>2. InFlight' = InFlight  BY <1>2, <3>1, InFlightMoves
    <3> QED BY <1>3, <2>2, <2>3, <3>1, <3>2
  <2>7. CASE \E q \in QueueNames : Call(p, q)  BY <2>2, <2>7 DEF Call
  <2> QED BY <2>4, <2>5, <2>6, <2>7 DEF Enqueue
<1> QED BY <1>4, <1>5, <1>7, <1>8 DEF Promises

\* The worker returns only with nothing queued and after the shutdown.
LEMMA WorkerPromises ==
    ASSUME LoggerInv, WorkerMain
    PROVE  Promises'
<1> USE ThreadNames DEF counters, loggerHistory
<1>0. PlacesOK /\ CountsOK /\ QueuesOK /\ LoggerTypes  BY DEF LoggerTypes, LoggerInv
<1>1. \E x \in WorkerPlaces : Go("worker", x) \/ GoNotify("worker", x, "main")
  BY DEF WorkerMain, WorkerLock, WorkerTest, WorkerSleeps, WorkerWrites, WorkerRelocks,
     WorkerFinishes, WorkerPlaces
<1>2. (\A r \in Producers : logAt'[r] = logAt[r]) /\ InFlight' = InFlight
  BY <1>0, <1>1, Stays, InFlightStays
<1>3. UNCHANGED <<running, mark, flushed, late, acceptedRecords>> /\ emitted' \in {emitted, emitted + 1}
  BY DEF WorkerMain, WorkerLock, WorkerTest, WorkerSleeps, WorkerWrites, WorkerRelocks, WorkerFinishes
<1>4. FlushHolds' /\ LateKnown'
  BY <1>0, <1>2, <1>3 DEF LoggerInv, Promises, FlushHolds, CountsOK, LateKnown
<1>5. WritingTold'
  <2>1. logAt'["worker"] = "write" => WorkerTest /\ writing' = TRUE
    <3>1. ~(logAt'["worker"] = "write" /\ (WorkerLock \/ WorkerSleeps \/ WorkerRelocks \/ WorkerFinishes \/ WorkerWrites))
      BY <1>0, Goes DEF WorkerLock, WorkerSleeps, WorkerRelocks, WorkerFinishes, WorkerWrites, WorkerPlaces
    <3>2. WorkerTest /\ logAt'["worker"] = "write" => writing' = TRUE
      BY <1>0, Goes DEF WorkerTest, WorkerPlaces
    <3> QED BY <3>1, <3>2 DEF WorkerMain
  <2> QED BY <2>1 DEF WritingTold
<1>6. ReturnedEmpty'
  <2>1. ~(logAt'["worker"] = "returned" /\ (WorkerLock \/ WorkerSleeps \/ WorkerRelocks \/ WorkerFinishes \/ WorkerWrites))
    BY <1>0, Goes DEF WorkerLock, WorkerSleeps, WorkerRelocks, WorkerFinishes, WorkerWrites, WorkerPlaces
  <2>2. ASSUME WorkerTest, logAt'["worker"] = "returned"
        PROVE  ~running' /\ Queued' + Cardinality(InFlight') <= Cardinality(late')
    <3>1. WorkerEnds /\ logSize' = logSize
      BY <1>0, <2>2, Goes DEF WorkerTest, WorkerPlaces
    <3>2. Queued' = 0 /\ ~running  BY <3>1 DEF WorkerEnds, Queued
    <3>3. InFlight \subseteq late  BY <3>2 DEF LoggerInv, Promises, LateKnown, InFlight
    <3>4. Cardinality(InFlight) <= Cardinality(late) /\ Cardinality(InFlight) \in Nat
      BY <1>0, <3>3, SizesOf
    <3> QED BY <1>2, <1>3, <3>2, <3>4
  <2> QED BY <2>1, <2>2 DEF ReturnedEmpty, WorkerMain
<1> QED BY <1>4, <1>5, <1>6 DEF Promises

\* A flush returns true only when the queue is empty and nothing is being written.
LEMMA MainPromises ==
    ASSUME LoggerInv, Flush \/ Shutdown \/ Main \/ UNCHANGED loggerVars
    PROVE  Promises'
<1> USE ThreadNames DEF counters, loggerHistory
<1>0. PlacesOK /\ CountsOK /\ QueuesOK /\ LoggerTypes  BY DEF LoggerTypes, LoggerInv
<1>1. \/ \E x \in MainPlaces : Go("main", x) \/ GoNotify("main", x, "worker")
      \/ logAt' = logAt
  BY DEF Flush, Shutdown, Main, FlushLock, FlushTest, FlushTimeout, ShutdownNotifies,
     ShutdownJoins, MainPlaces, loggerVars
<1>2. /\ \A r \in Producers : logAt'[r] = logAt[r]
      /\ logAt'["worker"] = logAt["worker"] \/ (logAt["worker"] = "asleep" /\ logAt'["worker"] = "lock")
  BY <1>0, <1>1, Stays
<1>3. UNCHANGED <<logSize, writing, counters>>
  BY DEF Flush, Shutdown, Main, FlushLock, FlushTest, FlushTimeout, ShutdownNotifies,
     ShutdownJoins, loggerVars
<1>4. InFlight' = InFlight /\ Queued' = Queued  BY <1>2, <1>3, InFlightStays DEF Queued
<1>5. WritingTold'  BY <1>2, <1>3 DEF LoggerInv, Promises, WritingTold
<1>6. FlushHolds'
  <2>1. CASE Flush  BY <1>0, <1>3, <2>1 DEF Flush, FlushHolds, CountsOK
  <2>2. CASE FlushTest
    <3>1. mark' = mark /\ flushed' = QueueDrained  BY <2>2 DEF FlushTest
    <3>2. QueueDrained => emitted = acceptedRecords
      <4>1. QueueDrained => Queued = 0 /\ logAt["worker"] # "write"
        BY DEF QueueDrained, LoggerInv, Promises, WritingTold
      <4> QED BY <1>0, <4>1 DEF LoggerInv, BooksBalance, CountsOK
    <3> QED BY <1>3, <3>1, <3>2 DEF LoggerInv, Promises, FlushHolds
  <2>3. CASE UNCHANGED <<mark, flushed>>
    BY <1>3, <2>3 DEF LoggerInv, Promises, FlushHolds
  <2>4. Flush \/ FlushTest \/ UNCHANGED <<mark, flushed>>
    BY DEF Shutdown, Main, FlushLock, FlushTimeout, ShutdownNotifies, ShutdownJoins, loggerVars
  <2> QED BY <2>1, <2>2, <2>3, <2>4
<1>7. LateKnown' /\ ReturnedEmpty'
  <2>1. CASE Shutdown
    <3>1. running /\ late' = {p \in Producers : logAt[p] # "idle"}  BY <2>1 DEF Shutdown
    <3>2. logAt["worker"] # "returned"  BY <3>1 DEF LoggerInv, Promises, ReturnedEmpty
    <3> QED BY <1>2, <3>1, <3>2 DEF LateKnown, ReturnedEmpty
  <2>2. CASE UNCHANGED <<running, late>>
    BY <1>2, <1>4, <2>2 DEF LoggerInv, Promises, LateKnown, ReturnedEmpty
  <2>3. Shutdown \/ UNCHANGED <<running, late>>
    BY DEF Flush, Main, FlushLock, FlushTest, FlushTimeout, ShutdownNotifies, ShutdownJoins, loggerVars
  <2> QED BY <2>1, <2>2, <2>3
<1> QED BY <1>5, <1>6, <1>7 DEF Promises

\* What was accepted is written by those who promise it: a flush that returned true has
\* emitted everything accepted before it was called, and the worker leaves in the queue
\* only what a producer put there that was past its running_ test at the shutdown.
THEOREM PromisesKept == LoggerSpec => []AcceptedIsWritten
<1>1. LoggerInit => LoggerInv
  <2>2. LoggerInit => InFlight = {} /\ Queued = 0 /\ logAt["worker"] = "lock"
    BY InitBalances
  <2>4. LoggerInit => Promises
    BY <2>2 DEF LoggerInit, Promises, WritingTold, FlushHolds, LateKnown, ReturnedEmpty
  <2> QED BY <2>4, InitBalances DEF LoggerInv
<1>2. LoggerInv /\ [LoggerNext]_loggerVars => LoggerInv'
  <2> SUFFICES ASSUME LoggerInv, [LoggerNext]_loggerVars PROVE LoggerInv'  OBVIOUS
  <2>1. LoggerTypes' /\ BooksBalance'
    BY TypesStep, ProducerBalances, WorkerBalances, MainBalances DEF LoggerNext, LoggerInv
  <2>2. Promises'  BY ProducerPromises, WorkerPromises, MainPromises DEF LoggerNext
  <2> QED BY <2>1, <2>2 DEF LoggerInv
<1>3. LoggerInv => AcceptedIsWritten
  <2> SUFFICES ASSUME LoggerInv PROVE AcceptedIsWritten  OBVIOUS
  <2>1. /\ Queued \in Nat /\ Cardinality(InFlight) \in Nat /\ Cardinality(late) \in Nat
        /\ (late = {} => Cardinality(late) = 0)
    BY SizesOf DEF LoggerInv
  <2>2. acceptedRecords \in Nat /\ emitted \in Nat /\ mark \in Nat
    BY DEF LoggerInv, LoggerTypes, CountsOK
  <2>3. flushed => emitted >= mark  BY <2>2 DEF LoggerInv, Promises, FlushHolds
  <2>4. flushed /\ acceptedRecords = mark => Queued = 0 /\ emitted = acceptedRecords
    BY <2>1, <2>2, <2>3 DEF LoggerInv, BooksBalance
  <2>5. logAt["worker"] = "returned" /\ Queued > 0 => late # {} /\ Queued <= Cardinality(late)
    BY <2>1 DEF LoggerInv, Promises, ReturnedEmpty
  <2> QED BY <2>3, <2>4, <2>5 DEF AcceptedIsWritten
<1> QED BY <1>1, <1>2, <1>3, PTL DEF LoggerSpec
================================================================================
