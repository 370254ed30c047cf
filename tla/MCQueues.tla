------------------------------- MODULE MCQueues -------------------------------
(***************************************************************************)
(* The bounded queue, and the media threads that two of them connect, each *)
(* a behaviour of its own. Of the queue: three callers of a ring of two,   *)
(* two of which can sleep while the third pushes, pops or stops, and the   *)
(* ring wraps round before MaxPushed.                                      *)
(***************************************************************************)
EXTENDS BoundedQueue, MediaPath

VARIABLE part        \* what this behaviour is about

MCFragments == <<2, 1>>

QueuesInit == part \in {"queue", "media"} /\ Init /\ MediaInit

QueuesNext ==
    \/ part = "queue" /\ Next /\ UNCHANGED <<part, mediaVars>>
    \/ part = "media" /\ MediaNext /\ UNCHANGED <<part, vars>>

\* Both with the fairness of their own specification.
QueuesSpec ==
    /\ QueuesInit /\ [][QueuesNext]_<<part, vars, mediaVars>>
    /\ \A t \in Threads : WF_vars(part = "queue" /\ Resume(t))
    /\ WF_mediaVars(part = "media" /\ CaptureStep)
    /\ WF_mediaVars(part = "media" /\ EncodeStep)
    /\ WF_mediaVars(part = "media" /\ SinkStep)
    /\ WF_mediaVars(part = "media" /\ VideoStep)
    /\ WF_mediaVars(part = "media" /\ WorkerStep)
    /\ WF_mediaVars(part = "media" /\ MainStep)
===============================================================================
