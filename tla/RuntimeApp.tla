----------------------------- MODULE RuntimeApp -----------------------------
(***************************************************************************)
(* RunRuntime (src/visionram/src/runtime/runtime_components.cpp): the      *)
(* function that builds every component, watches them, stops them in       *)
(* order, decides the verdict, and whose locals are destroyed in the       *)
(* reverse order of their declaration -- on the normal path and while an   *)
(* exception unwinds it.                                                   *)
(*                                                                         *)
(* A component is an object with at most one thread (the pipeline's five   *)
(* count as one); Uses says which objects a thread still touches while it  *)
(* runs. What a component does is the matter of the other modules.         *)
(***************************************************************************)
EXTENDS Naturals, FiniteSets, SequencesExt

CONSTANTS OptionSets,     \* the command lines tried: sets of enabled parts
          MaxFailures     \* bound: components that fail in one run

VARIABLES options,        \* the enabled parts of this command line
          phase,          \* "build", "loop", "drain", "verdict", "unwind", "done"
          at,             \* position in the build, drain or unwind order
          built,          \* the objects that exist
          threads,        \* the objects whose thread runs
          released,       \* objects stopped or destroyed
          attached,       \* the supervisor client reads the UART's projection
          healthOn,       \* health reporting is enabled
          failed,         \* components that have failed
          stop,           \* g_stop
          seen,           \* failures the loop noticed or a final snapshot showed
          late,           \* failures after the component's final snapshot
          ending,         \* how the loop ended
          verdict         \* "none", "PASS", "FAIL" or "FAULT"

runtimeVars == <<options, phase, at, built, threads, released, attached, healthOn,
                 failed, stop, seen, late, ending, verdict>>

-----------------------------------------------------------------------------
(* The declaration order; gates are the SupervisorShutdownGate locals.     *)
Declaration ==
    <<"uart", "supervisor", "camera", "engine", "broker", "telemetry",
      "uartSink", "uartGate", "stateMachine", "clock", "encoder", "file", "pcm",
      "capture", "encoded", "encode", "sink", "fanoutAudio", "fanoutVideo",
      "mp4", "net", "mediaGate", "pipeline", "pipelineGate">>

\* The order in which they are constructed and started.
BuildOrder ==
    <<"supervisor", "camera", "engine", "broker", "uartGate", "uart", "uartSink",
      "telemetry", "stateMachine", "clock", "encoder", "file", "pcm",
      "mediaGate", "encoded", "encode", "mp4", "net", "fanoutAudio", "sink",
      "fanoutVideo", "pipeline", "pipelineGate", "capture", "start">>

\* A plausible bug: the muxers are finalized before the audio is drained.
DrainOrderMuxersFirst == <<"pipeline", "capture", "mp4", "net", "encode", "sink",
                           "telemetry", "uartSnapshot", "uart", "supervisor">>

\* The order in which the threads are stopped when the loop has ended.
DrainOrder == <<"pipeline", "capture", "encode", "sink", "mp4", "net",
                "telemetry", "uartSnapshot", "uart", "supervisor">>

Gates == {"uartGate", "mediaGate", "pipelineGate"}
Muxers == {"mp4", "net"} \cap options

\* The objects this command line asks for.
Wanted ==
    {"camera", "engine", "broker", "stateMachine", "clock", "encoder", "file",
     "pipeline", "start", "uartSnapshot"}
    \cup (options \cap {"supervisor", "uart", "telemetry"})
    \cup (IF "supervisor" \in options THEN Gates ELSE {})
    \cup (IF "uart" \in options THEN {"uartSink"} ELSE {})
    \cup (IF "audio" \in options THEN {"pcm", "capture"} ELSE {})
    \cup (IF Muxers # {} THEN Muxers \cup {"encoded", "encode", "sink", "fanoutVideo"}
                         ELSE {})
    \cup (IF Cardinality(Muxers) = 2 THEN {"fanoutAudio"} ELSE {})

\* Objects whose construction or Start can throw or make RunRuntime throw.
MayThrow == {"supervisor", "camera", "engine", "broker", "uart", "encoder", "file",
             "encode", "mp4", "net", "sink", "pipeline", "capture", "start"}
Threaded == {"supervisor", "uart", "telemetry", "encode", "net", "sink", "capture"}

\* What the thread (or threads) of a component touch while they run.
Uses(t) ==
    CASE t = "supervisor" -> IF attached /\ healthOn THEN {"uart"} ELSE {}
      [] t = "encode" -> {"pcm", "encoded"}
      [] t = "sink" -> {"encoded"} \cup Muxers \cup ({"fanoutAudio"} \cap Wanted)
      [] t = "capture" -> {"clock", "pcm"}
      [] t = "pipeline" -> {"camera", "engine", "broker", "stateMachine", "encoder",
                            "file", "uartSink", "uart", "fanoutVideo",
                            "mp4", "net"} \cap Wanted
      [] OTHER -> {}

RuntimeInit ==
    /\ options \in OptionSets
    /\ phase = "build" /\ at = 1
    /\ built = {} /\ threads = {} /\ released = {}
    /\ attached = FALSE /\ healthOn = FALSE
    /\ failed = {} /\ stop = FALSE
    /\ seen = {} /\ late = {} /\ ending = "none" /\ verdict = "none"

-----------------------------------------------------------------------------
(* Construction.                                                           *)

Building(o) == phase = "build" /\ at <= Len(BuildOrder) /\ o = BuildOrder[at]

SkipUnwanted ==
    /\ \E o \in Range(BuildOrder) : Building(o) /\ o \notin Wanted
    /\ at' = at + 1
    /\ UNCHANGED <<options, phase, built, threads, released, attached, healthOn, failed,
                   stop, seen, late, ending, verdict>>

\* The object is constructed and its thread started. The pipeline's threads
\* start with the last step; a telemetry sink that cannot start is only marked.
Build(o) ==
    /\ Building(o) /\ o \in Wanted
    /\ built' = built \cup ({o} \ {"start"})
    /\ \/ /\ threads' = threads \cup ({o} \cap Threaded)
                                \cup (IF o = "start" THEN {"pipeline"} ELSE {})
          /\ seen' = seen
       \/ /\ o = "telemetry"
          /\ seen' = seen \cup {o} /\ threads' = threads
    /\ attached' = (attached \/ (o = "uart" /\ "supervisor" \in options))
    /\ healthOn' = (healthOn \/ (o = "uart" /\ "supervisor" \in options /\ ~stop))
    /\ phase' = IF o = "start" THEN "loop" ELSE phase
    /\ at' = IF o = "start" THEN 1 ELSE at + 1
    /\ UNCHANGED <<options, released, failed, stop, late, ending, verdict>>

\* An exception: everything built so far is unwound. (A UART that is not ready
\* in time is stopped before the throw, unless the client manages it.)
Throws(o) ==
    /\ Building(o) /\ o \in Wanted \cap MayThrow
    /\ built' = built \cup ({o} \ {"start"})
    /\ failed' = failed \cup {o}
    /\ attached' = (attached \/ (o = "uart" /\ "supervisor" \in options))
    /\ phase' = "unwind" /\ at' = Len(Declaration)
    /\ verdict' = "FAULT"
    /\ UNCHANGED <<options, threads, released, healthOn, stop, seen, late, ending>>

-----------------------------------------------------------------------------
(* What happens meanwhile.                                                 *)

Signal ==
    /\ phase \in {"build", "loop"} /\ ~stop
    /\ stop' = TRUE
    /\ healthOn' = FALSE              \* the client's loop sees g_stop
    /\ UNCHANGED <<options, phase, at, built, threads, released, attached, failed,
                   seen, late, ending, verdict>>

\* A component may fail for as long as it has work: its thread runs, or for
\* the recorder until it is finalized. The supervisor client's worker also
\* asks the process to stop.
Active == threads \cup (({"mp4"} \cap built) \ released)
SnapshotTaken(c) ==
    c = "uart" /\ "uartSnapshot" \in released

ComponentFails(c) ==
    /\ phase \in {"build", "loop", "drain"}
    /\ c \in Active \ failed /\ Cardinality(failed) < MaxFailures
    /\ failed' = failed \cup {c}
    /\ late' = IF SnapshotTaken(c) THEN late \cup {c} ELSE late
    /\ IF c = "supervisor"
       THEN stop' = TRUE /\ healthOn' = FALSE /\ threads' = threads \ {c}
       ELSE UNCHANGED <<stop, healthOn, threads>>
    /\ UNCHANGED <<options, phase, at, built, released, attached, seen, ending, verdict>>

-----------------------------------------------------------------------------
(* The loop.                                                               *)

Media == {"capture", "encode", "sink", "mp4", "net"}

LoopBody ==
    /\ phase = "loop" /\ ~stop /\ "pipeline" \notin failed
    /\ "supervisor" \notin failed
    /\ seen' = seen \cup (failed \cap (Media \cup {"telemetry"}))
    /\ UNCHANGED <<options, phase, at, built, threads, released, attached, healthOn,
                   failed, stop, late, ending, verdict>>

\* RethrowWorkerFailure, which the worker's g_stop may overtake.
LoopThrows ==
    /\ phase = "loop" /\ "supervisor" \in failed
    /\ phase' = "unwind" /\ at' = Len(Declaration) /\ verdict' = "FAULT"
    /\ UNCHANGED <<options, built, threads, released, attached, healthOn, failed, stop,
                   seen, late, ending>>

\* BeginShutdown follows the loop at once.
LoopEnds ==
    /\ phase = "loop"
    /\ \E how \in {"completed", "signal", "pipeline"} :
          /\ how = "signal" => stop
          /\ how = "pipeline" => "pipeline" \in failed /\ ~stop
          /\ ending' = how
    /\ healthOn' = FALSE
    /\ phase' = "drain" /\ at' = 1
    /\ UNCHANGED <<options, built, threads, released, attached, failed, stop, seen,
                   late, verdict>>

-----------------------------------------------------------------------------
(* The drain: stop a producer, then its consumer, and look at it after.    *)

\* The snapshots the verdict is computed from, by the drain step they follow.
SnapshotAfter(o) ==
    CASE o = "sink" -> {"encode", "sink"}
      [] o = "mp4" -> {"mp4"}
      [] o = "net" -> {"net"}
      [] o = "telemetry" -> {"telemetry", "capture", "pipeline"}
      [] o = "uartSnapshot" -> {"uart"}
      [] OTHER -> {}

Drain(o) ==
    /\ phase = "drain" /\ at <= Len(DrainOrder) /\ o = DrainOrder[at]
    /\ threads' = threads \ {o}
    /\ released' = released \cup ({o} \cap Wanted)
    /\ seen' = seen \cup (failed \cap SnapshotAfter(o))
    /\ IF o = "supervisor" /\ o \in failed
       THEN phase' = "unwind" /\ at' = Len(Declaration) /\ verdict' = "FAULT"
       ELSE /\ phase' = IF at = Len(DrainOrder) THEN "verdict" ELSE phase
            /\ at' = at + 1
            /\ UNCHANGED verdict
    /\ UNCHANGED <<options, built, attached, healthOn, failed, stop, late, ending>>

\* EvaluateRuntimePass: the counters and flags it reads are clean exactly
\* when no snapshot and no loop test showed a failure. Throughput and timing
\* limits may always refuse the run.
EvaluateRuntimePass ==
    /\ phase = "verdict"
    /\ \/ ending = "completed" /\ seen = {} /\ verdict' = "PASS"
       \/ verdict' = "FAIL"
    /\ phase' = "unwind" /\ at' = Len(Declaration)
    /\ UNCHANGED <<options, built, threads, released, attached, healthOn, failed, stop,
                   seen, late, ending>>

-----------------------------------------------------------------------------
(* Destruction, in the reverse order of the declarations. A destructor     *)
(* joins its own thread; a gate disables health reporting.                   *)
Destroy(o) ==
    /\ phase = "unwind" /\ at > 0 /\ o = Declaration[at]
    /\ threads' = threads \ {o}
    /\ built' = built \ {o}
    /\ released' = released \cup ({o} \cap built)
    /\ healthOn' = (healthOn /\ ~(o \in Gates \cap built))
    /\ phase' = IF at = 1 THEN "done" ELSE phase
    /\ at' = at - 1
    /\ UNCHANGED <<options, attached, failed, stop, seen, late, ending, verdict>>

-----------------------------------------------------------------------------
RuntimeNext ==
    \/ SkipUnwanted
    \/ \E o \in Range(BuildOrder) : Build(o) \/ Throws(o)
    \/ Signal
    \/ \E c \in Threaded \cup {"mp4", "pipeline"} : ComponentFails(c)
    \/ LoopBody \/ LoopThrows \/ LoopEnds
    \/ \E o \in Range(DrainOrder) : Drain(o)
    \/ EvaluateRuntimePass
    \/ \E o \in Range(Declaration) : Destroy(o)

RuntimeSpec == RuntimeInit /\ [][RuntimeNext]_runtimeVars

-----------------------------------------------------------------------------
\* No running thread touches an object that was stopped or destroyed: media
\* is drained by its consumer before the consumer is finalized, and owners
\* outlive the threads that read them. What visionram/README.md:36 promises
\* of every shutdown.
DrainOrderKept == \A t \in threads : Uses(t) \cap released = {}

\* On the way the program means to end, the stop sequence and the destructors
\* after it keep that order, whichever parts are enabled and have failed
\* (runtime_components.cpp:966-1055 against the declarations above them). And
\* PASS is never reported over a failure of an enabled component, whenever it
\* happened, the drain included; only the UART may fail after its snapshot,
\* which is taken before its Stop (runtime_components.cpp:1048, 1904).
RuntimeAppKept ==
    /\ verdict # "FAULT" => DrainOrderKept
    /\ verdict = "PASS" => failed \subseteq late
=============================================================================
