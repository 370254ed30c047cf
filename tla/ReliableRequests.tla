---------------------------- MODULE ReliableRequests ----------------------------
(***************************************************************************)
(* What a caller of the serial link is promised about REMOTE_STOP_REQUEST    *)
(* and CLEAR_REMOTE_STOP: one request at a time, each ends exactly once, and *)
(* it is reported acknowledged only if the controller carried out that very  *)
(* request.  A request that failed may still have been carried out.          *)
(***************************************************************************)
EXTENDS Naturals

CONSTANT MaxRequests   \* bound: requests accepted

VARIABLES
    last,      \* the id of the latest request
    busy,      \* it has not ended yet
    outcome,   \* how each request ended
    executed   \* the requests the controller carried out

requestVars == <<last, busy, outcome, executed>>

Ids == 1..MaxRequests

Init ==
    /\ last = 0 /\ busy = FALSE
    /\ outcome = [t \in Ids |-> "none"] /\ executed = {}

Accept ==
    /\ ~busy /\ last < MaxRequests
    /\ last' = last + 1 /\ busy' = TRUE
    /\ UNCHANGED <<outcome, executed>>

Execute ==
    /\ \E t \in 1..last : executed' = executed \cup {t}
    /\ UNCHANGED <<last, busy, outcome>>

End(how) ==
    /\ busy /\ busy' = FALSE
    /\ outcome' = [outcome EXCEPT ![last] = how]
    /\ UNCHANGED <<last, executed>>

Acknowledged == last \in executed /\ End("acked")

NotAcknowledged == \E how \in {"nacked", "failed", "cancelled"} : End(how)

Next == Accept \/ Execute \/ Acknowledged \/ NotAcknowledged

Spec == Init /\ [][Next]_requestVars
================================================================================
