---------------------------- MODULE TelemetryPath ----------------------------
(***************************************************************************)
(* Telemetry from the runtime's loop to the host: update_telemetry         *)
(* (src/visionram/src/runtime/runtime_components.cpp:796-887), the UDP     *)
(* sink's two mailboxes and worker (src/visionram/src/observability/       *)
(* telemetry.cpp), a network that may lose and reorder datagrams, and the  *)
(* counters of the host's receiver (src/visionram/host/telemetry.py).      *)
(* A status is its captured-frames counter, a control its frame number.    *)
(***************************************************************************)
EXTENDS Naturals, SequencesExt

CONSTANTS MaxResults,     \* bound: results published by the perception thread
          MaxUpdates,     \* bound: calls of update_telemetry
          MaxSends        \* bound: datagrams sent before Stop

VARIABLES results,        \* frame in the LatestResultStore, 0 when empty
          loop,           \* main: last frame reported, updates made, where it stands
          sink,           \* snapshot and mailboxes of UdpTelemetrySink
          worker,         \* the worker: "waiting", "sending", "ended", its copy
          air,            \* datagrams on the network
          disturbed,      \* the network lost or reordered one, or a send failed
          viewer          \* the receiver's counters

telemetryVars == <<results, loop, sink, worker, air, disturbed, viewer>>

NoDatagram == [seq |-> 0, captured |-> 0, frame |-> 0, final |-> FALSE]

TelemetryInit ==
    /\ results = 0
    /\ loop = [at |-> "idle", frame |-> 0, updates |-> 0, fault |-> FALSE]
    /\ sink = [runtime |-> 0, control |-> 0, attempted |-> 0, sent |-> 0,
               running |-> TRUE, stopping |-> FALSE, fatal |-> FALSE]
    /\ worker = [at |-> "waiting", datagram |-> NoDatagram]
    /\ air = <<>> /\ disturbed = FALSE
    /\ viewer = [packets |-> 0, first |-> 0, previous |-> 0, captured |-> 0,
                 gaps |-> 0, outOfOrder |-> 0, regressions |-> 0, final |-> FALSE]

-----------------------------------------------------------------------------
\* The perception thread replaces the latest result (external here).
Publish ==
    /\ results < MaxResults
    /\ results' = results + 1
    /\ UNCHANGED <<loop, sink, worker, air, disturbed, viewer>>

\* update_telemetry, first half: a result not reported yet goes to the control
\* mailbox. Each mailbox is one critical section; an update is refused once
\* the sink is stopping.
Accepts == sink.running /\ ~sink.stopping

UpdateControl ==
    /\ loop.at = "idle" /\ ~loop.fault /\ loop.updates < MaxUpdates
    /\ IF results > loop.frame
       THEN /\ Accepts
            /\ sink' = [sink EXCEPT !.control = results]
            /\ loop' = [loop EXCEPT !.at = "runtime", !.frame = results,
                                    !.updates = @ + 1]
       ELSE /\ loop' = [loop EXCEPT !.at = "runtime", !.updates = @ + 1]
            /\ UNCHANGED sink
    /\ UNCHANGED <<results, worker, air, disturbed, viewer>>

\* Second half: the counters as they are now, in the runtime mailbox.
UpdateRuntime ==
    /\ loop.at = "runtime" /\ Accepts
    /\ sink' = [sink EXCEPT !.runtime = loop.updates]
    /\ loop' = [loop EXCEPT !.at = "idle"]
    /\ UNCHANGED <<results, worker, air, disturbed, viewer>>

\* The loop's test of the sink: a fatal sink is not updated again.
NoticeFault ==
    /\ loop.at = "idle" /\ sink.fatal /\ ~loop.fault
    /\ loop' = [loop EXCEPT !.fault = TRUE]
    /\ UNCHANGED <<results, sink, worker, air, disturbed, viewer>>

\* Stop, after a last update unless telemetry has failed.
StopTelemetry ==
    /\ loop.at = "idle" /\ ~sink.stopping
    /\ loop.fault \/ (loop.updates > 0 /\ loop.frame = results)
    /\ sink' = [sink EXCEPT !.stopping = TRUE]
    /\ loop' = [loop EXCEPT !.at = "joining"]
    /\ UNCHANGED <<results, worker, air, disturbed, viewer>>

JoinTelemetry ==
    /\ loop.at = "joining" /\ worker.at = "ended"
    /\ loop' = [loop EXCEPT !.at = "stopped"]
    /\ UNCHANGED <<results, sink, worker, air, disturbed, viewer>>

-----------------------------------------------------------------------------
(* The worker: WorkerMain and SendLatest.                                  *)

\* A plausible bug: the worker leaves on Stop without a last datagram.
TakeLatestAfterStop ==
    /\ worker.at = "waiting"
    /\ IF sink.stopping THEN worker' = [worker EXCEPT !.at = "ended"] /\ UNCHANGED sink
       ELSE /\ sink.runtime > 0 /\ sink.attempted < MaxSends
            /\ worker' = [at |-> "sending",
                          datagram |-> [seq |-> sink.attempted + 1,
                                        captured |-> sink.runtime,
                                        frame |-> sink.control,
                                        final |-> FALSE]]
            /\ sink' = [sink EXCEPT !.attempted = @ + 1]
    /\ UNCHANGED <<results, loop, air, disturbed, viewer>>

\* SendLatest, in its critical section: both mailboxes and the sequence number
\* belong to one datagram. Nothing is sent before the first status.
TakeLatest ==
    /\ worker.at = "waiting"
    /\ sink.attempted < MaxSends \/ sink.stopping
    /\ IF sink.runtime = 0
       THEN /\ sink.stopping
            /\ worker' = [worker EXCEPT !.at = "ended"] /\ UNCHANGED sink
       ELSE /\ worker' = [at |-> "sending",
                          datagram |-> [seq |-> sink.attempted + 1,
                                        captured |-> sink.runtime,
                                        frame |-> sink.control,
                                        final |-> sink.stopping]]
            /\ sink' = [sink EXCEPT !.attempted = @ + 1]
    /\ UNCHANGED <<results, loop, air, disturbed, viewer>>

\* The datagram is built and sent without the lock; building or sending may
\* fail, which leaves its sequence number used. The last send ends the worker.
SendDatagram ==
    /\ worker.at = "sending"
    /\ \/ /\ air' = Append(air, worker.datagram)
          /\ sink' = [sink EXCEPT !.sent = @ + 1, !.running = ~worker.datagram.final]
          /\ UNCHANGED disturbed
       \/ /\ sink' = [sink EXCEPT !.fatal = TRUE, !.running = ~worker.datagram.final]
          /\ disturbed' = TRUE /\ UNCHANGED air
    /\ worker' = [at |-> IF worker.datagram.final THEN "ended" ELSE "waiting",
                  datagram |-> NoDatagram]
    /\ UNCHANGED <<results, loop, viewer>>

-----------------------------------------------------------------------------
(* The network (external) and the receiver.                                *)
Lose ==
    /\ air # <<>>
    /\ air' = Tail(air) /\ disturbed' = TRUE
    /\ UNCHANGED <<results, loop, sink, worker, viewer>>

\* main's counting of one valid datagram.
Count(v, d) ==
    [packets |-> v.packets + 1,
     first |-> IF v.packets = 0 THEN d.seq ELSE v.first,
     previous |-> d.seq, captured |-> d.captured,
     gaps |-> IF v.packets > 0 /\ d.seq > v.previous + 1
              THEN v.gaps + d.seq - v.previous - 1 ELSE v.gaps,
     outOfOrder |-> IF v.packets > 0 /\ d.seq <= v.previous
                    THEN v.outOfOrder + 1 ELSE v.outOfOrder,
     regressions |-> IF v.packets > 0 /\ d.captured < v.captured
                     THEN v.regressions + 1 ELSE v.regressions,
     final |-> v.final \/ d.final]

ReceiveFrom(k) ==
    /\ viewer' = Count(viewer, air[k])
    /\ air' = RemoveAt(air, k)
    /\ disturbed' = (disturbed \/ k > 1)
    /\ UNCHANGED <<results, loop, sink, worker>>

Receive == \E k \in DOMAIN air : ReceiveFrom(k)

TelemetryNext ==
    \/ Publish \/ UpdateControl \/ UpdateRuntime \/ NoticeFault
    \/ StopTelemetry \/ JoinTelemetry
    \/ TakeLatest \/ SendDatagram \/ Lose \/ Receive

TelemetrySpec == TelemetryInit /\ [][TelemetryNext]_telemetryVars

-----------------------------------------------------------------------------
\* The receiver's counters tell the truth: when neither the network nor a send
\* misbehaved it sees every datagram, in order and with counters that never
\* fall; when datagrams were only lost, the gaps it counts and the packets it
\* saw add up to the sequence numbers of its span (telemetry.cpp:240-285
\* against telemetry.py:195-206).
ViewerCountsTruly ==
    /\ ~disturbed =>
          /\ viewer.gaps + viewer.outOfOrder + viewer.regressions = 0
          /\ viewer.packets + Len(air) = sink.sent
          /\ sink.sent + (IF worker.at = "sending" THEN 1 ELSE 0) = sink.attempted
    /\ (viewer.packets > 0 /\ viewer.outOfOrder = 0) =>
          viewer.packets + viewer.gaps = viewer.previous - viewer.first + 1

\* When Stop has returned and the sink never failed, the last datagram that
\* was sent carries the last accepted status and control, the ones of the
\* final update; a receiver that lost nothing ends with them
\* (runtime_components.cpp:1014-1020, telemetry.cpp:287-304).
FinalStatusSent ==
    (loop.at = "stopped" /\ ~disturbed /\ air = <<>>) =>
        /\ viewer.final
        /\ viewer.captured = loop.updates
        /\ loop.frame = sink.control

TelemetryKept == ViewerCountsTruly /\ FinalStatusSent
=============================================================================
