-------------------------------- MODULE UartLink --------------------------------
(***************************************************************************)
(* UartLink: the serial link to the gimbal controller.                      *)
(*                                                                          *)
(* One I/O thread (ThreadMain) opens the port, negotiates, sends one frame   *)
(* at a time and waits for its answer; callers leave requests in mailboxes.  *)
(* Each handler of the loop is one action, taken in any order.  Clocks are   *)
(* left out: a timer may be found expired in any turn of the loop.  What the *)
(* controller does is external, modelled from the frames the link expects of *)
(* it: it answers one frame at a time, late or never, and may reboot.        *)
(***************************************************************************)
EXTENDS Naturals, Sequences

CONSTANTS
    MaxRuns,      \* bound: how often the controller starts
    UniqueBoots,  \* whether a restart always changes the boot identifier
    MaxStarts,    \* bound: how often the link is started
    MaxRequests,  \* bound: reliable requests accepted
    MaxPings,     \* bound: pings accepted
    MaxControls,  \* bound: controls submitted
    MaxCalls,     \* bound: calls of these three kinds together
    MaxRetries,   \* reliable_max_retries
    MaxFaults,    \* bound: losses, restarts, slow or refused answers, port errors
    Hellos        \* HELLO sequence numbers are counted modulo this

\* A HELLO number is not reused while an earlier HELLO of it may be on the line.
ASSUME UartAssumption ==
    /\ MaxRuns \in Nat \ {0} /\ UniqueBoots \in BOOLEAN /\ MaxStarts \in Nat \ {0}
    /\ MaxRequests \in Nat /\ MaxPings \in Nat /\ MaxControls \in Nat
    /\ MaxCalls \in Nat
    /\ MaxRetries \in Nat /\ MaxFaults \in Nat
    /\ Hellos \in Nat /\ Hellos > MaxFaults

VARIABLES
    \* Shared with the callers, under request_mutex_, snapshot_mutex_ or atomic
    running,     \* running_
    stopReq,     \* stop_requested_
    state,       \* snapshot_.state
    health,      \* the status in health_
    pending,     \* pending_reliable_: the id of at most one request
    busy,        \* reliable_busy_
    nextTxn,     \* next_transaction_id_
    ping,        \* ping_pending_ and pending_ping_id_
    nextPing,    \* next_ping_id_
    mailbox,     \* control_mailbox_ holds a control
    metrics,     \* control_accepted, control_overwritten, control_sent
    \* Local to the I/O thread
    thread,      \* ThreadMain: off, loop or done
    open,        \* serial_.IsOpen()
    tx,          \* tx_: at most one frame
    wait,        \* wait_
    rel,         \* reliable_: at most one transaction
    tracker,     \* peer_sequence_: the boot it follows, at most one
    haveRx,      \* have_valid_rx
    nextHello,   \* the sequence number of the next HELLO
    \* The threads that call the link
    main,        \* where Start / Stop is
    starts,      \* calls of Start
    caller,      \* where the call of another thread is
    \* The line and the controller (external)
    toPeer, fromPeer,
    peer,        \* [alive, run, boot, greeted]
    \* History
    faults,      \* faults so far
    silent,      \* a response window expired since the last valid frame
    outcome,     \* how each request ended
    executed,    \* the requests the controller carried out
    negotiated   \* the boot that accepted the last HELLO (0 at first)

requestVars == <<pending, busy, nextTxn, outcome>>
pingVars == <<ping, nextPing>>
controlVars == <<mailbox, metrics>>
lifeVars == <<running, stopReq, main, starts>>
statusVars == <<state, health>>
busVars == <<tx, wait, rel>>
trackVars == <<tracker, haveRx, silent>>
peerVars == <<peer, executed>>
lineVars == <<toPeer, fromPeer>>
vars == <<requestVars, pingVars, controlVars, lifeVars, statusVars, busVars,
          trackVars, peerVars, lineVars, thread, open, nextHello, caller, faults,
          negotiated>>

Txns == 1..MaxRequests
Boots == 1..MaxRuns
NoWait == [kind |-> "none", id |-> 0]
Frame(type, id) == [type |-> type, id |-> id]

\* Start of the process: a link that was constructed, a controller that runs.
Init ==
    /\ running = FALSE /\ stopReq = FALSE /\ main = "idle" /\ starts = 0
    /\ state = "CLOSED" /\ health = "UNKNOWN"
    /\ pending = <<>> /\ busy = FALSE /\ nextTxn = 0
    /\ ping = <<>> /\ nextPing = 0
    /\ mailbox = FALSE /\ metrics = [accepted |-> 0, overwritten |-> 0, sent |-> 0]
    /\ thread = "off" /\ open = FALSE
    /\ tx = <<>> /\ wait = NoWait /\ rel = <<>>
    /\ tracker = <<>> /\ haveRx = FALSE /\ silent = FALSE
    /\ nextHello = 0 /\ negotiated = 0
    /\ caller = "idle"
    /\ toPeer = <<>> /\ fromPeer = <<>>
    /\ peer = [alive |-> TRUE, run |-> 1, boot |-> 1, greeted |-> FALSE]
    /\ faults = 0 /\ executed = {}
    /\ outcome = [t \in Txns |-> "none"]

Fault == faults < MaxFaults /\ faults' = faults + 1

--------------------------------------------------------------------------------
(* SetState and the health record                                           *)

Adverse == {"DEGRADED", "UNHEALTHY"}

\* What SetState records: an adverse episode lasts until READY.
HealthIn(s, h) ==
    CASE s \in {"OPENING", "NEGOTIATING"} -> IF h \in Adverse THEN h ELSE "CONNECTING"
      [] s = "READY" -> "HEALTHY"
      [] s = "DEGRADED" -> IF h = "UNHEALTHY" THEN h ELSE "DEGRADED"
      [] s = "LINK_LOST" -> "UNHEALTHY"
      [] OTHER -> h

SetState(s) == state' = s /\ health' = HealthIn(s, health)

\* NotePeerRenegotiation: worse, never better.
Degraded(h) == IF h = "UNHEALTHY" THEN h ELSE "DEGRADED"

--------------------------------------------------------------------------------
(* The transaction, the transmit slot and the response window               *)

\* Mutant of EndRequests: the transaction is cancelled, the caller stays refused.
EndRequestsSilently(ids, how) == UNCHANGED <<busy, outcome>>

\* ReleaseReliableBusy, when one of the given requests ends.
EndRequests(ids, how) ==
    IF ids = {} THEN UNCHANGED <<busy, outcome>>
    ELSE /\ busy' = FALSE
         /\ outcome' = [t \in Txns |-> IF t \in ids THEN how ELSE outcome[t]]

Outstanding == {rel[i].id : i \in DOMAIN rel}

\* Mutant of FailOutstandingReliable: the caller is released, nothing is cancelled.
FailReleasesOnly == UNCHANGED rel /\ EndRequests(Outstanding, "failed")

FailOutstandingReliable == rel' = <<>> /\ EndRequests(Outstanding, "failed")

\* Schedule goes on only when nothing is being sent and no answer is awaited.
BusFree == thread = "loop" /\ open /\ tx = <<>> /\ wait = NoWait

InSession == state \in {"READY", "DEGRADED"}

\* The answer a sent frame opens a response window for.
Response(type) ==
    CASE type = "HELLO" -> "HELLO_ACK" [] type = "PING" -> "PONG"
      [] type = "HEARTBEAT" -> "STATUS" [] type = "RELIABLE" -> "RELIABLE"
      [] OTHER -> "none"

--------------------------------------------------------------------------------
(* Start and Stop                                                            *)

Start ==
    /\ main = "idle" /\ ~running /\ starts < MaxStarts
    /\ starts' = starts + 1 /\ main' = "up"
    /\ running' = TRUE /\ stopReq' = FALSE
    /\ thread' = "loop" /\ haveRx' = FALSE
    /\ UNCHANGED <<requestVars, pingVars, controlVars, statusVars, busVars, tracker,
                   silent, peerVars, lineVars, open, nextHello, caller, faults,
                   negotiated>>

NoteManagedStartupNotReady ==
    /\ main = "up" /\ state \notin {"READY", "STOPPING", "CLOSED"}
    /\ health' = "UNHEALTHY"
    /\ UNCHANGED <<requestVars, pingVars, controlVars, lifeVars, state, busVars,
                   trackVars, peerVars, lineVars, thread, open, nextHello, caller,
                   faults, negotiated>>

\* Stop: STOPPING, stop_requested_, join, CLOSED.
StopFrame == UNCHANGED <<requestVars, pingVars, controlVars, starts, busVars, trackVars,
                         peerVars, lineVars, open, nextHello, caller, faults, negotiated>>

Stop ==
    /\ main = "up" /\ main' = "stopping" /\ SetState("STOPPING")
    /\ UNCHANGED <<running, stopReq, thread>> /\ StopFrame

StopRequests ==
    /\ main = "stopping" /\ main' = "joining" /\ stopReq' = TRUE
    /\ UNCHANGED <<running, thread, statusVars>> /\ StopFrame

StopJoins ==
    /\ main = "joining" /\ thread = "done" /\ main' = "idle"
    /\ running' = FALSE /\ thread' = "off" /\ SetState("CLOSED")
    /\ UNCHANGED stopReq /\ StopFrame

\* The end of ThreadMain: what was asked for and not sent is dropped.
ThreadExit ==
    /\ thread = "loop" /\ stopReq
    /\ thread' = "done" /\ open' = FALSE
    /\ tx' = <<>> /\ wait' = NoWait /\ rel' = <<>>
    /\ pending' = <<>> /\ ping' = <<>> /\ mailbox' = FALSE /\ busy' = FALSE
    /\ outcome' = [t \in Txns |->
         IF t \in Outstanding \/ pending = <<t>> THEN "cancelled" ELSE outcome[t]]
    /\ UNCHANGED <<nextTxn, nextPing, metrics, lifeVars, statusVars, trackVars,
                   peerVars, lineVars, nextHello, caller, faults, negotiated>>

--------------------------------------------------------------------------------
(* Calls of other threads: running_ is tested before the mutex is taken      *)

\* What calls leave alone.
CallFrame == UNCHANGED <<lifeVars, statusVars, busVars, trackVars, peerVars,
                         lineVars, thread, open, nextHello, faults, negotiated>>

Call ==
    /\ caller = "idle" /\ running
    /\ nextTxn + nextPing + metrics.accepted < MaxCalls
    /\ \/ nextTxn < MaxRequests /\ caller' = "reliable"
       \/ nextPing < MaxPings /\ caller' = "ping"
       \/ metrics.accepted < MaxControls /\ caller' = "control"
    /\ UNCHANGED <<requestVars, pingVars, controlVars>> /\ CallFrame

QueueReliable ==
    /\ caller = "reliable" /\ caller' = "idle"
    /\ IF ~busy /\ pending = <<>>
       THEN /\ nextTxn' = nextTxn + 1 /\ pending' = <<nextTxn + 1>> /\ busy' = TRUE
            /\ UNCHANGED outcome
       ELSE UNCHANGED requestVars
    /\ UNCHANGED <<pingVars, controlVars>> /\ CallFrame

RequestPing ==
    /\ caller = "ping" /\ caller' = "idle"
    /\ IF ping = <<>> THEN nextPing' = nextPing + 1 /\ ping' = <<nextPing + 1>>
       ELSE UNCHANGED pingVars
    /\ UNCHANGED <<requestVars, controlVars>> /\ CallFrame

\* SubmitLatestControl: the mailbox and the counters have separate mutexes.
PutControl ==
    /\ caller = "control"
    /\ mailbox' = TRUE /\ caller' = IF mailbox THEN "countReplaced" ELSE "count"
    /\ UNCHANGED <<requestVars, pingVars, metrics>> /\ CallFrame

\* Mutant of CountControl: a replaced control is not counted.
CountControlOnce ==
    /\ caller \in {"count", "countReplaced"} /\ caller' = "idle"
    /\ metrics' = [metrics EXCEPT !.accepted = @ + 1]
    /\ UNCHANGED <<requestVars, pingVars, mailbox>> /\ CallFrame

CountControl ==
    /\ caller \in {"count", "countReplaced"} /\ caller' = "idle"
    /\ metrics' = [metrics EXCEPT !.accepted = @ + 1,
                     !.overwritten = IF caller = "countReplaced" THEN @ + 1 ELSE @]
    /\ UNCHANGED <<requestVars, pingVars, mailbox>> /\ CallFrame

--------------------------------------------------------------------------------
(* The I/O thread: opening, timers                                           *)

\* What the I/O thread's handlers leave alone.
LoopFrame == UNCHANGED <<nextTxn, nextPing, lifeVars, peerVars, thread, caller>>

OpenPort ==
    /\ thread = "loop" /\ ~open
    /\ \/ /\ open' = TRUE /\ state' = "NEGOTIATING"
          /\ health' = HealthIn("NEGOTIATING", HealthIn("OPENING", health))
          /\ tx' = <<>> /\ wait' = NoWait /\ rel' = <<>>
          /\ tracker' = <<>> /\ haveRx' = FALSE /\ silent' = FALSE
          /\ UNCHANGED faults
       \/ /\ Fault /\ state' = "OPENING" /\ health' = "UNHEALTHY"
          /\ UNCHANGED <<open, busVars, trackVars>>
    /\ UNCHANGED <<pending, busy, outcome, ping, controlVars, lineVars, nextHello,
                   negotiated>>
    /\ LoopFrame

\* poll, read or write reports an error: the port is closed.
Reconnect ==
    /\ thread = "loop" /\ open /\ Fault
    /\ open' = FALSE /\ tx' = <<>> /\ wait' = NoWait /\ tracker' = <<>>
    /\ FailOutstandingReliable /\ SetState("LINK_LOST")
    /\ UNCHANGED <<pending, ping, controlVars, haveRx, silent, lineVars, nextHello,
                   negotiated>>
    /\ LoopFrame

\* HandleTimeouts, the response window.  It expires because no answer can come
\* any more, or (a fault) before the answer does.
ResponseTimeout ==
    /\ thread = "loop" /\ open /\ wait # NoWait
    /\ \/ toPeer = <<>> /\ fromPeer = <<>> /\ UNCHANGED faults
       \/ Fault
    /\ wait' = NoWait /\ silent' = TRUE
    /\ SetState(IF wait.kind = "HELLO_ACK" THEN "NEGOTIATING" ELSE "DEGRADED")
    /\ UNCHANGED <<pending, busy, outcome, ping, controlVars, tx, rel, tracker, haveRx,
                   lineVars, open, nextHello, negotiated>>
    /\ LoopFrame

\* Mutant of WatchdogWatches: a degraded link is left to its retries.
WatchdogWatchesReady == state = "READY"

WatchdogWatches == InSession

\* HandleTimeouts, the watchdog. silent, set when a response window expires and
\* reset by a valid frame, stands for the watchdog's time since the last such frame,
\* which is longer than the windows.
Watchdog ==
    /\ thread = "loop" /\ open /\ WatchdogWatches /\ haveRx /\ silent
    /\ SetState("LINK_LOST")
    /\ tx' = <<>> /\ wait' = NoWait /\ FailOutstandingReliable
    /\ tracker' = <<>> /\ haveRx' = FALSE
    /\ UNCHANGED <<pending, ping, controlVars, silent, lineVars, open, nextHello,
                   faults, negotiated>>
    /\ LoopFrame

--------------------------------------------------------------------------------
(* The I/O thread: Schedule, at most one frame a turn                        *)

Renegotiate ==
    /\ BusFree /\ state = "LINK_LOST" /\ SetState("NEGOTIATING")
    /\ UNCHANGED <<pending, busy, outcome, ping, controlVars, busVars, trackVars,
                   lineVars, open, nextHello, faults, negotiated>>
    /\ LoopFrame

SendHello ==
    /\ BusFree /\ state = "NEGOTIATING"
    /\ tx' = <<Frame("HELLO", nextHello)>> /\ nextHello' = (nextHello + 1) % Hellos
    /\ UNCHANGED <<pending, busy, outcome, ping, controlVars, statusVars, wait, rel,
                   trackVars, lineVars, open, faults, negotiated>>
    /\ LoopFrame

MayRetry == rel[1].retries < MaxRetries

\* ReliableTransaction::Poll.  Its deadline is set before the window's, so it is
\* over whenever the bus is free.
PollReliable ==
    /\ BusFree /\ InSession /\ rel # <<>>
    /\ IF MayRetry
       THEN /\ rel' = <<[rel[1] EXCEPT !.retries = @ + 1]>>
            /\ tx' = <<Frame("RELIABLE", rel[1].id)>>
            /\ UNCHANGED <<busy, outcome>>
       ELSE FailOutstandingReliable /\ UNCHANGED tx
    /\ UNCHANGED <<pending, ping, controlVars, statusVars, wait, trackVars, lineVars,
                   open, nextHello, faults, negotiated>>
    /\ LoopFrame

SendReliable ==
    /\ BusFree /\ InSession /\ rel = <<>> /\ pending # <<>>
    /\ rel' = <<[id |-> pending[1], retries |-> 0]>> /\ pending' = <<>>
    /\ tx' = <<Frame("RELIABLE", pending[1])>>
    /\ UNCHANGED <<busy, outcome, ping, controlVars, statusVars, wait, trackVars,
                   lineVars, open, nextHello, faults, negotiated>>
    /\ LoopFrame

\* Frames of lower rank: the heartbeat when it is due, a ping, a control.
NothingReliable == BusFree /\ InSession /\ rel = <<>> /\ pending = <<>>

SendHeartbeat ==
    /\ NothingReliable
    /\ tx' = <<Frame("HEARTBEAT", 0)>>
    /\ UNCHANGED <<pending, busy, outcome, ping, controlVars, statusVars, wait, rel,
                   trackVars, lineVars, open, nextHello, faults, negotiated>>
    /\ LoopFrame

SendPing ==
    /\ NothingReliable /\ ping # <<>>
    /\ tx' = <<Frame("PING", ping[1])>> /\ ping' = <<>>
    /\ UNCHANGED <<pending, busy, outcome, controlVars, statusVars, wait, rel,
                   trackVars, lineVars, open, nextHello, faults, negotiated>>
    /\ LoopFrame

SendControl ==
    /\ NothingReliable /\ ping = <<>> /\ mailbox
    /\ tx' = <<Frame("CONTROL", 0)>> /\ mailbox' = FALSE
    /\ UNCHANGED <<pending, busy, outcome, ping, metrics, statusVars, wait, rel,
                   trackVars, lineVars, open, nextHello, faults, negotiated>>
    /\ LoopFrame

\* WriteAvailable to the last byte, and CompleteTransmit.
CompleteTransmit ==
    /\ thread = "loop" /\ open /\ tx # <<>>
    /\ LET f == tx[1] IN
       /\ wait' = IF Response(f.type) = "none" THEN wait
                  ELSE [kind |-> Response(f.type), id |-> f.id]
       /\ toPeer' = IF peer.alive /\ f.type # "CONTROL" THEN Append(toPeer, f) ELSE toPeer
       /\ metrics' = IF f.type = "CONTROL" THEN [metrics EXCEPT !.sent = @ + 1] ELSE metrics
    /\ tx' = <<>>
    /\ UNCHANGED <<pending, busy, outcome, ping, mailbox, statusVars, rel, trackVars,
                   fromPeer, open, nextHello, faults, negotiated>>
    /\ LoopFrame

--------------------------------------------------------------------------------
(* The I/O thread: HandleFrame                                               *)

BootChanged(f) == tracker # <<>> /\ tracker[1].boot # f.boot

\* Mutant of WaitAfter: the window of the old boot stays open.
WaitKept(f) == wait

\* A frame of another boot closes the window and ends the transaction.
WaitAfter(f) == IF BootChanged(f) THEN NoWait ELSE wait
RelAfter(f) == IF BootChanged(f) THEN <<>> ELSE rel

\* Mutant of Answers: any answer to a reliable request is taken.
AnswersAny(f) ==
    LET w == WaitAfter(f) IN
    CASE f.type \in {"HELLO_ACK", "PONG"} -> w = [kind |-> f.type, id |-> f.id]
      [] f.type = "STATUS" -> w.kind = "STATUS"
      [] f.type \in {"ACK", "NACK"} -> w.kind = "RELIABLE" /\ RelAfter(f) # <<>>
      [] OTHER -> FALSE

\* The frame is the awaited answer; a STATUS carries no id.
Answers(f) ==
    LET w == WaitAfter(f) IN
    CASE f.type \in {"HELLO_ACK", "PONG"} -> w = [kind |-> f.type, id |-> f.id]
      [] f.type = "STATUS" -> w.kind = "STATUS"
      [] f.type \in {"ACK", "NACK"} ->
           w.kind = "RELIABLE" /\ RelAfter(f) # <<>> /\ RelAfter(f)[1].id = f.id
      [] OTHER -> FALSE

Refuses(f) == f.type = "HELLO_REFUSED" /\ WaitAfter(f) = [kind |-> "HELLO_ACK", id |-> f.id]

\* The controller restarted with the same boot id: its numbering may lie behind
\* what the tracker saw (DUPLICATE or OLDER).
MayBeOlder(f) == tracker # <<>> /\ tracker[1].boot = f.boot /\ tracker[1].run # f.run

IgnoreOlder ==
    /\ thread = "loop" /\ open /\ fromPeer # <<>> /\ MayBeOlder(fromPeer[1])
    /\ fromPeer' = Tail(fromPeer)
    /\ UNCHANGED <<pending, busy, outcome, ping, controlVars, statusVars, busVars,
                   trackVars, toPeer, open, nextHello, faults, negotiated>>
    /\ LoopFrame

HandleFrame ==
    /\ thread = "loop" /\ open /\ fromPeer # <<>>
    /\ LET f == fromPeer[1]
           reliableAnswer == Answers(f) /\ f.type \in {"ACK", "NACK"}
           h == IF BootChanged(f) THEN Degraded(health) ELSE health
       IN
       /\ tracker' = <<[boot |-> f.boot, run |-> f.run]>>
       /\ tx' = IF BootChanged(f) THEN <<>> ELSE tx
       /\ wait' = IF Answers(f) THEN NoWait ELSE WaitAfter(f)
       /\ rel' = IF reliableAnswer THEN <<>> ELSE RelAfter(f)
       /\ EndRequests(IF reliableAnswer \/ BootChanged(f) THEN Outstanding ELSE {},
                      IF BootChanged(f) THEN "failed"
                      ELSE IF f.type = "ACK" THEN "acked" ELSE "nacked")
       /\ state' = IF Answers(f) THEN "READY"
                   ELSE IF BootChanged(f) THEN "NEGOTIATING" ELSE state
       /\ health' = IF Answers(f) THEN "HEALTHY" ELSE IF Refuses(f) THEN "UNHEALTHY" ELSE h
       /\ negotiated' = IF Answers(f) /\ f.type = "HELLO_ACK" THEN f.boot ELSE negotiated
    /\ fromPeer' = Tail(fromPeer) /\ haveRx' = TRUE /\ silent' = FALSE
    /\ UNCHANGED <<pending, ping, controlVars, toPeer, open, nextHello, faults>>
    /\ LoopFrame

--------------------------------------------------------------------------------
(* The controller and the line (external)                                    *)

EnvFrame == UNCHANGED <<requestVars, pingVars, controlVars, lifeVars, statusVars,
                        busVars, trackVars, thread, open, nextHello, caller, negotiated>>

Reply(type) == fromPeer' = Append(fromPeer,
    [type |-> type, id |-> toPeer[1].id, boot |-> peer.boot, run |-> peer.run])

PeerAnswers ==
    /\ peer.alive /\ toPeer # <<>> /\ toPeer' = Tail(toPeer)
    /\ LET f == toPeer[1] IN
       \/ /\ f.type = "HELLO" /\ Reply("HELLO_ACK") /\ peer' = [peer EXCEPT !.greeted = TRUE]
          /\ UNCHANGED <<executed, faults>>
       \/ /\ f.type = "HELLO" /\ \E a \in {"HELLO_REFUSED", "HELLO_UNFIT"} : Reply(a)
          /\ Fault /\ UNCHANGED <<peer, executed>>
       \/ /\ f.type = "HEARTBEAT" /\ Reply("STATUS") /\ UNCHANGED <<peer, executed, faults>>
       \/ /\ f.type = "PING" /\ Reply("PONG") /\ UNCHANGED <<peer, executed, faults>>
       \/ /\ f.type = "RELIABLE" /\ Reply("ACK") /\ executed' = executed \cup {f.id}
          /\ UNCHANGED <<peer, faults>>
       \/ /\ f.type = "RELIABLE" /\ Reply("NACK") /\ UNCHANGED <<peer, executed, faults>>
       \/ /\ f.type # "HELLO" /\ ~peer.greeted   \* no session with this run yet
          /\ UNCHANGED <<fromPeer, peer, executed, faults>>
    /\ EnvFrame

LoseFrame ==
    /\ Fault
    /\ \/ toPeer # <<>> /\ toPeer' = Tail(toPeer) /\ UNCHANGED fromPeer
       \/ fromPeer # <<>> /\ fromPeer' = Tail(fromPeer) /\ UNCHANGED toPeer
    /\ UNCHANGED peerVars /\ EnvFrame

PeerStops ==
    /\ peer.alive /\ Fault
    /\ peer' = [peer EXCEPT !.alive = FALSE] /\ toPeer' = <<>>
    /\ UNCHANGED <<fromPeer, executed>> /\ EnvFrame

PeerStarts ==
    /\ ~peer.alive /\ peer.run < MaxRuns
    /\ \E b \in IF UniqueBoots THEN {peer.run + 1} ELSE 1..(peer.run + 1) :
         peer' = [alive |-> TRUE, run |-> peer.run + 1, boot |-> b, greeted |-> FALSE]
    /\ UNCHANGED <<lineVars, executed, faults>> /\ EnvFrame

--------------------------------------------------------------------------------
(* The specification                                                         *)

IoNext ==
    \/ ThreadExit \/ OpenPort \/ Reconnect \/ ResponseTimeout \/ Watchdog
    \/ Renegotiate \/ SendHello \/ PollReliable \/ SendReliable \/ SendHeartbeat
    \/ SendPing \/ SendControl \/ CompleteTransmit \/ IgnoreOlder \/ HandleFrame

CallNext ==
    \/ Start \/ NoteManagedStartupNotReady \/ Stop \/ StopRequests \/ StopJoins
    \/ Call \/ QueueReliable \/ RequestPing \/ PutControl \/ CountControl

PeerNext == PeerAnswers \/ LoseFrame \/ PeerStops \/ PeerStarts

Next == IoNext \/ CallNext \/ PeerNext

Spec == Init /\ [][Next]_vars

\* The loop polls at most 10 ms, so each handler with work runs; a timer that is
\* set expires; the heartbeat, when due, goes before pings and controls.  Stop, once
\* called, goes on.  The callers need not act, nor the controller start again; while
\* it runs it answers.
LinkFairness ==
    /\ WF_vars(OpenPort) /\ WF_vars(ResponseTimeout) /\ WF_vars(Watchdog)
    /\ WF_vars(Renegotiate) /\ WF_vars(SendHello) /\ WF_vars(PollReliable)
    /\ WF_vars(SendReliable) /\ WF_vars(SendHeartbeat)
    /\ WF_vars(CompleteTransmit) /\ WF_vars(IgnoreOlder \/ HandleFrame)
    /\ WF_vars(StopRequests) /\ WF_vars(ThreadExit) /\ WF_vars(StopJoins)
    /\ WF_vars(PeerAnswers)

FairSpec == Spec /\ LinkFairness

--------------------------------------------------------------------------------
(* Properties                                                                *)

States == {"CLOSED", "OPENING", "NEGOTIATING", "READY", "DEGRADED", "LINK_LOST", "STOPPING"}

AtMostOne(S) == {<<>>} \cup {<<x>> : x \in S}

Frames == [type : {"HELLO"}, id : 0..Hellos - 1] \cup [type : {"RELIABLE"}, id : Txns]
    \cup [type : {"PING"}, id : 1..MaxPings] \cup [type : {"HEARTBEAT", "CONTROL"}, id : {0}]

\* Every variable has its type: in particular one request, one frame, one window
\* and one transaction at most, and no more retries than configured.
UartTypeOK ==
    /\ running \in BOOLEAN /\ stopReq \in BOOLEAN /\ state \in States
    /\ health \in {"UNKNOWN", "CONNECTING", "HEALTHY"} \cup Adverse
    /\ pending \in AtMostOne(Txns) /\ busy \in BOOLEAN /\ nextTxn \in 0..MaxRequests
    /\ ping \in AtMostOne(1..MaxPings) /\ nextPing \in 0..MaxPings
    /\ mailbox \in BOOLEAN
    /\ metrics \in [accepted : Nat, overwritten : Nat, sent : Nat]
    /\ thread \in {"off", "loop", "done"} /\ open \in BOOLEAN
    /\ tx \in AtMostOne(Frames)
    /\ wait \in [kind : {"none", "HELLO_ACK", "STATUS", "PONG", "RELIABLE"}, id : Nat]
    /\ rel \in AtMostOne([id : Txns, retries : 0..MaxRetries])
    /\ tracker \in AtMostOne([boot : Boots, run : Boots]) /\ haveRx \in BOOLEAN
    /\ nextHello \in 0..Hellos - 1
    /\ main \in {"idle", "up", "stopping", "joining"} /\ starts \in 0..MaxStarts
    /\ caller \in {"idle", "reliable", "ping", "control", "count", "countReplaced"}
    /\ peer \in [alive : BOOLEAN, run : Boots, boot : Boots, greeted : BOOLEAN]
    /\ faults \in 0..MaxFaults /\ silent \in BOOLEAN /\ negotiated \in 0..MaxRuns
    /\ outcome \in [Txns -> {"none", "acked", "nacked", "failed", "cancelled"}]
    /\ executed \subseteq Txns

\* A caller is refused exactly while a request is queued or on the line: neither
\* a lost link, a reboot of the controller, nor the calls that race with Stop
\* leave reliable_busy_ set with nothing to clear it, or clear it too early.
BusyMeansWork == busy <=> (pending # <<>> \/ rel # <<>>)

\* What the link says of itself is true. It is in session only with the boot of
\* the controller that accepted its last HELLO: no answer of another boot, however
\* late, makes it READY. And health and link state, written by several handlers
\* and by the start-up code, agree: the supervisor sees HEALTHY exactly while the
\* link is READY (a stopping link keeps its last status).
SessionToldTruly ==
    /\ InSession /\ tracker # <<>> => tracker[1].boot = negotiated
    /\ health = "HEALTHY" => state \in {"READY", "STOPPING", "CLOSED"}
    /\ state = "READY" => health = "HEALTHY"

\* Without faults no control is lost: every accepted one was overwritten by a
\* newer one, was sent, or is on its way, also between Put and its count.
ControlsBalance ==
    faults = 0 /\ ~stopReq /\ starts < 2 =>
        metrics.accepted + (IF caller \in {"count", "countReplaced"} THEN 1 ELSE 0)
            = metrics.overwritten + (IF caller = "countReplaced" THEN 1 ELSE 0)
              + metrics.sent + (IF mailbox THEN 1 ELSE 0)
              + (IF tx = <<Frame("CONTROL", 0)>> THEN 1 ELSE 0)

\* Callers see one request at a time, each ends once, and an acknowledged one was
\* carried out, whatever late answers to earlier requests arrive.
Requests == INSTANCE ReliableRequests WITH last <- nextTxn
RequestSpec == Requests!Spec

\* A transaction on the line ends: it is answered, or its retries run out, or the
\* link is lost and ends it.
TransactionEnds == rel # <<>> ~> rel = <<>>

\* A controller that is gone is noticed: the link does not stay READY
\* (UartLink::HandleTimeouts, the watchdog).
PeerLossNoticed == state = "READY" /\ ~peer.alive ~> state # "READY" \/ peer.alive

\* If from some time on the controller runs, the link becomes READY again, from
\* whatever losses and reboots went before.
LinkRecovers == <>[]peer.alive => (thread = "loop" ~> state = "READY" \/ main # "up")

\* The session ends with its controller and comes back with the next one.
LinkFollowsPeer == PeerLossNoticed /\ LinkRecovers

================================================================================
