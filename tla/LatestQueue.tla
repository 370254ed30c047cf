------------------------------ MODULE LatestQueue ------------------------------
(***************************************************************************)
(* What a BoundedQueue promises to the threads around it: a first-in        *)
(* first-out queue of at most Capacity items, in which the newest item may  *)
(* take the place of the oldest; a stopped queue takes no more items but    *)
(* still gives out those it has.  InferencePipeline uses its queues so.     *)
(***************************************************************************)
EXTENDS Naturals, Sequences

CONSTANTS Items, Capacity

VARIABLES content, stopped

queueVars == <<content, stopped>>

QueueInit == content = <<>> /\ stopped = FALSE

Put(x) ==
    /\ ~stopped
    /\ Len(content) < Capacity
    /\ content' = Append(content, x)
    /\ UNCHANGED stopped

Replace(x) ==
    /\ ~stopped
    /\ Len(content) = Capacity
    /\ content' = Append(Tail(content), x)
    /\ UNCHANGED stopped

Take ==
    /\ content # <<>>
    /\ content' = Tail(content)
    /\ UNCHANGED stopped

Halt == stopped' = TRUE /\ UNCHANGED content

QueueNext == (\E x \in Items : Put(x) \/ Replace(x)) \/ Take \/ Halt

QueueSpec == QueueInit /\ [][QueueNext]_queueVars
================================================================================
