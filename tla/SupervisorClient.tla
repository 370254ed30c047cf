--------------------------- MODULE SupervisorClient ---------------------------
(***************************************************************************)
(* The runtime's client of the service supervisor                          *)
(* (src/visionram/src/runtime/runtime_supervisor_client.cpp) and the       *)
(* health record of the UART owner it reports from                         *)
(* (include/control/uart_health_projection.h).                             *)
(*                                                                         *)
(* The owner's thread records link health; the client's thread reads the   *)
(* record, reports over a local stream socket in a stop-and-wait exchange, *)
(* and acknowledges an adverse observation to the owner when the           *)
(* supervisor says it was applied. Requests are matched by number and a    *)
(* reply only counts on the connection it was asked on. One pass of Loop   *)
(* is cut into its steps, which may happen in any order here.              *)
(***************************************************************************)
EXTENDS Naturals, SequencesExt

CONSTANTS MaxRevision,      \* bound: changes of the health record
          MaxExchanges       \* bound: binds and reports queued

VARIABLES healthRecord,  \* UartHealthRecord: the current sample, the pending issue
          adverse,       \* every adverse sample ever recorded (history)
          client,        \* the Impl fields of the client
          toServer,      \* frames sent and not yet served
          toClient,      \* replies on the client's present connection
          applied,       \* issues the supervisor has applied
          epochs         \* runtime: health enabled, stop asked for, worker ended

supervisorVars ==
    <<healthRecord, adverse, client, toServer, toClient, applied, epochs>>

NoSample == [status |-> "none", rev |-> 0]
Severity(status) == CASE status = "UNHEALTHY" -> 2 [] status = "DEGRADED" -> 1
                      [] OTHER -> 0
NoPending == [command |-> "none", request |-> 0, issue |-> FALSE, sample |-> NoSample]

SupervisorInit ==
    /\ healthRecord = [current |-> [status |-> "UNKNOWN", rev |-> 0],
                       issue |-> NoSample]
    /\ adverse = {}
    /\ client = [fd |-> "none", bound |-> FALSE, output |-> <<>>,
                 pending |-> NoPending, request |-> 0, since |-> 0,
                 last |-> NoSample]
    /\ toServer = <<>> /\ toClient = <<>> /\ applied = {}
    /\ epochs = [health |-> TRUE, stop |-> FALSE, ended |-> FALSE]

-----------------------------------------------------------------------------
(* The owner's record.                                                     *)

\* Record, of an observation that changes something (the status, its reason,
\* the peer or the session): an adverse one becomes the pending issue, or
\* lends its revision to a worse one already pending.
Record(status) ==
    LET now == [status |-> status, rev |-> healthRecord.current.rev + 1]
        issue == healthRecord.issue
    IN  /\ healthRecord.current.rev < MaxRevision
        /\ healthRecord' =
              [current |-> now,
               issue |-> IF Severity(status) = 0 THEN issue
                         ELSE IF Severity(status) >= Severity(issue.status) THEN now
                         ELSE [now EXCEPT !.status = issue.status]]
        /\ adverse' = IF Severity(status) > 0 THEN adverse \cup {now} ELSE adverse
        /\ UNCHANGED <<client, toServer, toClient, applied, epochs>>

\* A plausible bug: an acknowledgement clears whatever issue is pending.
AckThroughAny(record, revision) == [record EXCEPT !.issue = NoSample]

AckThrough(record, revision) ==
    IF record.issue.rev <= revision THEN [record EXCEPT !.issue = NoSample] ELSE record

-----------------------------------------------------------------------------
(* The client's socket.                                                    *)

HealthEnabled == epochs.health /\ ~epochs.stop
Working == ~epochs.ended

\* Disconnect: nothing of the old session survives, and bytes still on their
\* way to the client are lost with the socket.
Disconnected(c) ==
    [c EXCEPT !.fd = "none", !.bound = FALSE, !.output = <<>>, !.pending = NoPending,
              !.last = NoSample]

Disconnect == client' = Disconnected(client) /\ toClient' = <<>>

Connect ==
    /\ Working /\ HealthEnabled
    /\ client.fd = "none" /\ client.request < MaxExchanges
    /\ client' = [client EXCEPT !.fd = "connecting"]
    /\ UNCHANGED <<healthRecord, adverse, toServer, toClient, applied, epochs>>

\* The connection is refused, reset or times out; so does a pending request.
Drops ==
    /\ Working /\ client.fd # "none"
    /\ Disconnect
    /\ UNCHANGED <<healthRecord, adverse, toServer, applied, epochs>>

HealthFrame(command, c) ==
    [command |-> command, request |-> c.request + 1, sample |-> NoSample]

QueueBind ==
    /\ Working /\ client.fd = "connecting"
    /\ client' = [client EXCEPT !.fd = "open", !.request = @ + 1,
                    !.since = client.request + 1,   \* the connection's first request
                    !.output = Append(@, HealthFrame("bind", client)),
                    !.pending = [NoPending EXCEPT !.command = "bind",
                                                  !.request = client.request + 1]]
    /\ UNCHANGED <<healthRecord, adverse, toServer, toClient, applied, epochs>>

\* QueueReport reads the projection anew; a pending issue takes precedence. An
\* unchanged current sample is only renewed when its report falls due, which
\* is taken to be never: renewals repeat a report that changes nothing.
QueueReport ==
    LET issue == healthRecord.issue # NoSample
        sample == IF issue THEN healthRecord.issue ELSE healthRecord.current
        frame == [HealthFrame("report", client) EXCEPT
                    !.sample = IF issue THEN sample ELSE NoSample]
    IN  /\ Working /\ client.fd = "open" /\ client.bound /\ HealthEnabled
        /\ client.pending.command = "none" /\ Len(client.output) < 2
        /\ issue \/ sample # client.last
        /\ client.request < MaxExchanges
        /\ client' = [client EXCEPT
                        !.request = @ + 1,
                        !.output = Append(@, frame),
                        !.pending = [command |-> "report", request |-> client.request + 1,
                                     issue |-> issue, sample |-> sample]]
        /\ UNCHANGED <<healthRecord, adverse, toServer, toClient, applied, epochs>>

QueueHeartbeat ==
    /\ Working /\ client.fd = "open" /\ client.bound /\ client.output = <<>>
    /\ client' = [client EXCEPT !.output = <<[HealthFrame("heartbeat", client) EXCEPT
                                                !.request = 0]>>]
    /\ UNCHANGED <<healthRecord, adverse, toServer, toClient, applied, epochs>>

\* FlushOutput sends under the lock BeginShutdown takes: a health frame that is
\* still queued when reporting ends closes the socket instead. A heartbeat is
\* sent whatever happens to health, and is of no interest to the server here.
FlushOutput ==
    /\ Working /\ client.fd = "open" /\ client.output # <<>>
    /\ LET frame == Head(client.output)
           beat == frame.command = "heartbeat"
       IN  IF ~beat /\ ~HealthEnabled
           THEN Disconnect /\ UNCHANGED toServer
           ELSE /\ client' = [client EXCEPT !.output = Tail(@)]
                /\ toServer' = IF beat THEN toServer ELSE Append(toServer, frame)
                /\ UNCHANGED toClient
    /\ UNCHANGED <<healthRecord, adverse, applied, epochs>>

\* Reporting has ended with an exchange under way: it is cancelled.
CancelPending ==
    /\ Working /\ client.fd = "open" /\ ~HealthEnabled
    /\ client.pending.command # "none"
    /\ IF client.output # <<>> THEN Disconnect
       ELSE client' = [client EXCEPT !.pending = NoPending] /\ UNCHANGED toClient
    /\ UNCHANGED <<healthRecord, adverse, toServer, applied, epochs>>

\* Handle: SERVICE_STOP; an answer nobody waits for closes the connection;
\* "not authorized" ends the worker; an applied issue is acknowledged to its
\* owner, but only while reporting is enabled.
Handle ==
    /\ Working /\ client.fd = "open" /\ toClient # <<>>
    /\ LET reply == Head(toClient)
           p == client.pending
       IN  CASE reply.result = "stop" ->
                  /\ epochs' = [epochs EXCEPT !.health = FALSE, !.stop = TRUE]
                  /\ toClient' = Tail(toClient)
                  /\ UNCHANGED <<client, healthRecord>>
             [] reply.result = "unauthorized" /\ p.request = reply.request ->
                  /\ epochs' = [health |-> FALSE, stop |-> TRUE, ended |-> TRUE]
                  /\ Disconnect /\ UNCHANGED healthRecord
             [] reply.result = "ok" /\ p.command = "bind" /\ p.request = reply.request ->
                  /\ client' = [client EXCEPT !.bound = TRUE, !.pending = NoPending]
                  /\ toClient' = Tail(toClient)
                  /\ UNCHANGED <<healthRecord, epochs>>
             [] reply.result = "ok" /\ p.command = "report" /\ p.request = reply.request ->
                  /\ client' = [client EXCEPT !.last = p.sample, !.pending = NoPending]
                  /\ healthRecord' = IF p.issue /\ HealthEnabled
                                     THEN AckThrough(healthRecord, p.sample.rev)
                                     ELSE healthRecord
                  /\ toClient' = Tail(toClient)
                  /\ UNCHANGED epochs
             [] OTHER -> Disconnect /\ UNCHANGED <<healthRecord, epochs>>
    /\ UNCHANGED <<adverse, toServer, applied>>

BeginShutdown ==
    /\ epochs.health
    /\ epochs' = [epochs EXCEPT !.health = FALSE]
    /\ UNCHANGED <<healthRecord, adverse, client, toServer, toClient, applied>>

-----------------------------------------------------------------------------
(* The supervisor, as far as the client can tell (external): it serves     *)
(* frames in order, applies a report at most once and answers, refuses or  *)
(* says nothing; what it answers on a closed connection is lost.           *)
Answer(frame, result) ==
    IF client.fd = "open" /\ frame.request >= client.since
    THEN Append(toClient, [result |-> result, request |-> frame.request]) ELSE toClient

Serve ==
    /\ toServer # <<>>
    /\ toServer' = Tail(toServer)
    /\ LET frame == Head(toServer)
       IN  \/ /\ applied' = IF frame.sample # NoSample THEN applied \cup {frame.sample}
                                                      ELSE applied
              /\ toClient' \in {Answer(frame, "ok"), toClient}
           \/ /\ toClient' \in {Answer(frame, r) : r \in {"error", "unauthorized"}}
              /\ UNCHANGED applied
    /\ UNCHANGED <<healthRecord, adverse, client, epochs>>

AskToStop ==
    /\ client.fd = "open" /\ client.bound /\ ~epochs.stop /\ Len(toClient) < 2
    /\ toClient' = Append(toClient, [result |-> "stop", request |-> 0])
    /\ UNCHANGED <<healthRecord, adverse, client, toServer, applied, epochs>>

-----------------------------------------------------------------------------
SupervisorNext ==
    \/ \E status \in {"HEALTHY", "DEGRADED", "UNHEALTHY"} : Record(status)
    \/ Connect \/ Drops \/ QueueBind \/ QueueReport \/ QueueHeartbeat \/ FlushOutput
    \/ CancelPending \/ Handle \/ BeginShutdown \/ Serve \/ AskToStop

SupervisorSpec == SupervisorInit /\ [][SupervisorNext]_supervisorVars

-----------------------------------------------------------------------------
Covers(i, a) == i.rev >= a.rev /\ Severity(i.status) >= Severity(a.status)

\* No adverse observation is lost between the owner and the supervisor: until
\* an issue at least as recent and at least as severe has been applied there,
\* one is pending in the owner's record, through lost connections, late or
\* missing answers, and observations recorded while a report was in flight
\* (uart_health_projection.h:77-96, runtime_supervisor_client.cpp:263-299, 340).
IssuesKept ==
    \A a \in adverse : \E i \in applied \cup {healthRecord.issue} : Covers(i, a)
=============================================================================
