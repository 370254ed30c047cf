------------------------------- MODULE MCStops -------------------------------
(***************************************************************************)
(* The threads that must go on to their end whatever they wait for: those  *)
(* of the pipeline, and those around the logger's queue, each a behaviour  *)
(* of its own.                                                             *)
(***************************************************************************)
EXTENDS InferencePipeline, AsyncLogger

VARIABLE part        \* what this behaviour is about

MCCapacity == [q \in Queues |-> 1]
MCLogCapacity == [q \in QueueNames |-> 1]

StopsInit == part \in {"pipeline", "logger"} /\ PipelineInit /\ LoggerInit

StopsNext ==
    \/ part = "pipeline" /\ PipelineNext /\ UNCHANGED <<part, loggerVars>>
    \/ part = "logger" /\ LoggerNext /\ UNCHANGED <<part, vars>>

\* Both with the fairness of their own specification.
StopsSpec ==
    /\ StopsInit /\ [][StopsNext]_<<part, vars, loggerVars>>
    /\ \A t \in Threads : WF_vars(part = "pipeline" /\ ThreadStep(t))
    /\ WF_vars(part = "pipeline" /\ StopAfterFailure)
    /\ \A p \in Producers : WF_loggerVars(part = "logger" /\ Enqueue(p))
    /\ SF_loggerVars(part = "logger" /\ WorkerMain)
    /\ SF_loggerVars(part = "logger" /\ Main)
==============================================================================
