------------------------------ MODULE PartsProofs ------------------------------
(***************************************************************************)
(* Proofs about the parts that MCParts checks one beside the other: what   *)
(* the supervisor's client tells the supervisor, the buffers that are      *)
(* bound to the accelerators, the decision of the target machine and the   *)
(* frames it causes, the order in which the runtime is stopped, what the   *)
(* receiver of the telemetry counts, what the components hold of the       *)
(* kernel and the libraries, what each reader touches of a frame, how the  *)
(* sensor's driver keeps its power, its rate and its exposure, and what    *)
(* is seen in a picture and aimed at. Each part has an inductive invariant *)
(* of its own, for every value of the part's constants.                    *)
(***************************************************************************)
EXTENDS SupervisorClient, DeviceBuffers, TargetControl, RuntimeApp, TelemetryPath,
        DeviceSetup, FrameLayout, SensorDriver, Perception, Integers, SequenceTheorems,
        FiniteSetTheorems, WellFoundedInduction, TLAPS

--------------------------------------------------------------------------------
(* Lists                                                                    *)

\* What an appended element and a removed head leave of a list.
LEMMA AppendedAll ==
    ASSUME NEW S, NEW s \in Seq(S), NEW e \in S
    PROVE  /\ Append(s, e) \in Seq(S)
           /\ \A i \in DOMAIN Append(s, e) :
                  Append(s, e)[i] = e \/ \E j \in DOMAIN s : Append(s, e)[i] = s[j]
  OBVIOUS

\* What is left of a list without its head, and where the head stood.
LEMMA TailAll ==
    ASSUME NEW S, NEW s \in Seq(S), s # <<>>
    PROVE  /\ Tail(s) \in Seq(S) /\ Head(s) \in S
           /\ \E j \in DOMAIN s : Head(s) = s[j]
           /\ \A i \in DOMAIN Tail(s) : \E j \in DOMAIN s : Tail(s)[i] = s[j]
<1>1. /\ Tail(s) \in Seq(S) /\ Head(s) \in S /\ 1 \in DOMAIN s /\ Head(s) = s[1]
      /\ DOMAIN Tail(s) = 1..(Len(s) - 1) /\ DOMAIN s = 1..Len(s) /\ Len(s) \in Nat
      /\ \A i \in 1..(Len(s) - 1) : Tail(s)[i] = s[i + 1]
  OBVIOUS
<1>2. ASSUME NEW i \in DOMAIN Tail(s) PROVE \E j \in DOMAIN s : Tail(s)[i] = s[j]
  <2>1. i \in 1..(Len(s) - 1)  BY <1>1
  <2>2. i + 1 \in DOMAIN s /\ Tail(s)[i] = s[i + 1]  BY <1>1, <2>1
  <2> QED BY <2>2
<1> QED BY <1>1, <1>2

--------------------------------------------------------------------------------
(* The health issues the supervisor is told of                              *)

Statuses == {"none", "UNKNOWN", "HEALTHY", "DEGRADED", "UNHEALTHY"}
Samples == [status : Statuses, rev : Nat]
Frames == [command : {"bind", "report", "heartbeat"}, request : Nat, sample : Samples]
Pendings == [command : {"none", "bind", "report"}, request : Nat, issue : BOOLEAN,
             sample : Samples]
Replies == [result : {"ok", "error", "unauthorized", "stop"}, request : Nat]

Clients == [fd : {"none", "connecting", "open"}, bound : BOOLEAN, output : Seq(Frames),
            pending : Pendings, request : Nat, since : Nat, last : Samples]

SupervisorTypes ==
    /\ healthRecord \in [current : Samples, issue : Samples]
    /\ adverse \in SUBSET Samples /\ applied \in SUBSET Samples
    /\ client \in Clients
    /\ toServer \in Seq(Frames) /\ toClient \in Seq(Replies)

\* The issue whose report is under way. A frame, and a reply, that bears its number is
\* about it: no number is used twice.
Asked(c) == c.pending.command = "report" /\ c.pending.issue
FrameTold(c, f) ==
    /\ f.request <= c.request
    /\ (Asked(c) /\ f.request = c.pending.request) => f.sample = c.pending.sample
ReplyTold(c, done, r) ==
    /\ r.request <= c.request
    /\ (Asked(c) /\ r.result = "ok" /\ r.request = c.pending.request)
           => c.pending.sample \in done
FramesTold ==
    /\ \A i \in DOMAIN client.output : FrameTold(client, client.output[i])
    /\ \A i \in DOMAIN toServer : FrameTold(client, toServer[i])
RepliesTold == \A i \in DOMAIN toClient : ReplyTold(client, applied, toClient[i])

\* An issue that came up while the reported one was on its way is a later one.
AskedKept ==
    /\ client.pending.request <= client.request
    /\ Asked(client) =>
           /\ client.pending.request >= 1 /\ client.pending.sample # NoSample
           /\ client.pending.sample.rev <= healthRecord.current.rev
           /\ \/ healthRecord.issue = client.pending.sample
              \/ healthRecord.issue = NoSample
              \/ healthRecord.issue.rev > client.pending.sample.rev
RecordKept ==
    /\ healthRecord.issue.rev <= healthRecord.current.rev
    /\ \A a \in adverse : a.rev >= 1 /\ Severity(a.status) >= 1

SupervisorInv ==
    SupervisorTypes /\ FramesTold /\ RepliesTold /\ AskedKept /\ RecordKept /\ IssuesKept

\* The client's fields, one by one.
LEMMA ClientIs ==
    ASSUME SupervisorTypes
    PROVE  /\ client = [fd |-> client.fd, bound |-> client.bound, output |-> client.output,
                        pending |-> client.pending, request |-> client.request,
                        since |-> client.since, last |-> client.last]
           /\ client.fd \in {"none", "connecting", "open"} /\ client.bound \in BOOLEAN
           /\ client.output \in Seq(Frames) /\ client.pending \in Pendings
           /\ client.request \in Nat /\ client.since \in Nat /\ client.last \in Samples
           /\ client.pending.request \in Nat /\ client.pending.sample \in Samples
           /\ client.pending.sample.rev \in Nat
  BY DEF SupervisorTypes, Clients, Pendings, Samples

\* The record of no pending request and that of no sample have their types.
LEMMA Nothing == NoPending \in Pendings /\ NoSample \in Samples
  BY DEF NoPending, NoSample, Pendings, Samples, Statuses

\* A state's severity is one of three.
LEMMA Severities == \A s : Severity(s) \in 0..2
  BY DEF Severity

\* A step that adds nothing to what is on the way, changes no record and starts no
\* exchange keeps the invariant, whatever it takes away.
Less(s, old) == \A i \in DOMAIN s : \E j \in DOMAIN old : s[i] = old[j]
LessSent ==
    \A i \in DOMAIN toServer' :
        \/ \E j \in DOMAIN toServer : toServer'[i] = toServer[j]
        \/ \E j \in DOMAIN client.output : toServer'[i] = client.output[j]

\* The invariant survives the loss of lines under way and of a pending request.
LEMMA LessTold ==
    ASSUME SupervisorInv, SupervisorTypes',
           Less(client'.output, client.output), LessSent,
           Less(toClient', toClient),
           client'.request = client.request,
           client'.pending = client.pending \/ client'.pending = NoPending,
           UNCHANGED <<healthRecord, adverse, applied>>
    PROVE  SupervisorInv'
<1>1. Asked(client') => Asked(client) /\ client'.pending = client.pending
  BY DEF Asked, NoPending
<1>2. \A f : FrameTold(client, f) => FrameTold(client', f)  BY <1>1 DEF FrameTold
<1>3. \A r : ReplyTold(client, applied, r) => ReplyTold(client', applied', r)
  BY <1>1 DEF ReplyTold
<1>4. FramesTold' /\ RepliesTold'
  BY <1>2, <1>3 DEF SupervisorInv, FramesTold, RepliesTold, Less, LessSent
<1>5. AskedKept'
  <2>1. client.request \in Nat  BY ClientIs DEF SupervisorInv
  <2> QED BY <1>1, <2>1 DEF SupervisorInv, AskedKept, NoPending
<1>6. RecordKept' /\ IssuesKept'  BY DEF SupervisorInv, RecordKept, IssuesKept
<1> QED BY <1>4, <1>5, <1>6 DEF SupervisorInv

\* Disconnect drops what was to be written, with the pending request.
LEMMA DisconnectKeeps ==
    ASSUME SupervisorInv, Disconnect, toServer' = toServer,
           UNCHANGED <<healthRecord, adverse, applied>>
    PROVE  SupervisorInv'
<1>1. /\ client'.output = <<>> /\ client'.pending = NoPending
      /\ client'.request = client.request /\ toClient' = <<>>
  BY DEF Disconnect, Disconnected, SupervisorInv, SupervisorTypes, Clients
<1>3. SupervisorTypes'
  <2>1. client' = [fd |-> "none", bound |-> FALSE, output |-> <<>>, pending |-> NoPending,
                   request |-> client.request, since |-> client.since, last |-> NoSample]
    BY ClientIs DEF Disconnect, Disconnected, SupervisorInv
  <2>2. <<>> \in Seq(Frames)  OBVIOUS
  <2>3. client' \in Clients  BY <2>1, <2>2, ClientIs, Nothing DEF SupervisorInv, Clients
  <2>4. toClient' \in Seq(Replies)  BY <1>1
  <2> QED BY <2>4, <2>3 DEF SupervisorInv, SupervisorTypes
<1>4. /\ Less(client'.output, client.output) /\ LessSent
      /\ Less(toClient', toClient)
  BY <1>1 DEF Less, LessSent
<1> QED BY <1>1, <1>3, <1>4, LessTold

\* An observation: a later issue, or the severity of the pending one, is at least as
\* recent and as severe as what was pending.
LEMMA RecordKeeps ==
    ASSUME SupervisorInv, NEW status \in {"HEALTHY", "DEGRADED", "UNHEALTHY"},
           Record(status)
    PROVE  SupervisorInv'
<1> DEFINE now == [status |-> status, rev |-> healthRecord.current.rev + 1]
           issue == healthRecord.issue
           next == IF Severity(status) = 0 THEN issue
                   ELSE IF Severity(status) >= Severity(issue.status) THEN now
                   ELSE [now EXCEPT !.status = issue.status]
<1>1. /\ SupervisorTypes /\ FramesTold /\ RepliesTold /\ AskedKept /\ RecordKept /\ IssuesKept
      /\ issue \in Samples /\ healthRecord.current.rev \in Nat
  BY DEF SupervisorInv, SupervisorTypes, Samples
<1>2. /\ healthRecord' = [current |-> now, issue |-> next]
      /\ adverse' = IF Severity(status) > 0 THEN adverse \cup {now} ELSE adverse
      /\ UNCHANGED <<client, toServer, toClient, applied>>
  BY DEF Record
<1>3. now \in Samples /\ now.rev = healthRecord.current.rev + 1 /\ now.status = status
  BY <1>1 DEF Samples, Statuses
<1>4. /\ next \in Samples
      /\ next.rev \in {issue.rev, healthRecord.current.rev + 1}
      /\ Severity(next.status) >= Severity(issue.status)
      /\ Severity(status) = 0 => next = issue
      /\ Severity(status) > 0 => next.rev = healthRecord.current.rev + 1
                                 /\ Severity(next.status) >= Severity(status)
  <2>1. Severity(status) \in 0..2 /\ Severity(issue.status) \in 0..2  BY Severities
  <2>2. CASE Severity(status) = 0  BY <1>1, <2>1, <2>2
  <2>3. CASE Severity(status) # 0 /\ Severity(status) >= Severity(issue.status)
    BY <1>1, <1>3, <2>1, <2>3
  <2>4. CASE Severity(status) # 0 /\ ~(Severity(status) >= Severity(issue.status))
    BY <1>1, <1>3, <2>1, <2>4 DEF Samples
  <2> QED BY <2>2, <2>3, <2>4
<1> HIDE DEF now, issue, next
<1>5. healthRecord'.current = now /\ healthRecord'.issue = next  BY <1>2
<1>6. SupervisorTypes'  BY <1>1, <1>2, <1>3, <1>4 DEF SupervisorTypes
<1>7. FramesTold' /\ RepliesTold'
  BY <1>1, <1>2 DEF FramesTold, RepliesTold, FrameTold, ReplyTold, Asked
<1>8. AskedKept'
  <2>1. client.pending.sample.rev \in Nat /\ issue.rev \in Nat /\ next.rev \in Nat
    BY <1>1, <1>4 DEF SupervisorTypes, Clients, Pendings, Samples
  <2>2. CASE Severity(status) = 0
    BY <1>1, <1>2, <1>3, <1>4, <1>5, <2>1, <2>2 DEF AskedKept, Asked, issue
  <2>3. CASE Severity(status) > 0
    BY <1>1, <1>2, <1>3, <1>4, <1>5, <2>1, <2>3 DEF AskedKept, Asked
  <2> QED BY <2>2, <2>3, Severities
<1>9. RecordKept'
  <2>1. Severity(status) \in 0..2 /\ issue.rev \in Nat  BY <1>1, Severities DEF Samples
  <2>2. next.rev <= now.rev  BY <1>1, <1>3, <1>4, <2>1 DEF RecordKept, issue
  <2>3. ASSUME NEW a \in adverse' PROVE a.rev >= 1 /\ Severity(a.status) >= 1
    BY <1>1, <1>2, <1>3, <2>1, <2>3 DEF RecordKept
  <2> QED BY <1>5, <2>2, <2>3 DEF RecordKept
<1>10. IssuesKept'
  <2> SUFFICES ASSUME NEW a \in adverse' PROVE \E i \in (applied \cup {next}) : Covers(i, a)
    BY <1>2, <1>5 DEF IssuesKept
  <2>1. CASE a \in adverse
    <3>1. PICK i \in applied \cup {issue} : Covers(i, a)
      BY <1>1, <2>1 DEF IssuesKept, issue
    <3>2. CASE i = issue
      <4>1. a.rev \in Nat /\ next.rev \in Nat /\ issue.rev \in Nat
        BY <1>1, <1>4, <2>1 DEF SupervisorTypes, Samples
      <4>2. next.rev >= issue.rev  BY <1>1, <1>4, <4>1 DEF RecordKept, issue
      <4>3. Severity(a.status) \in 0..2 /\ Severity(next.status) \in 0..2 /\ Severity(issue.status) \in 0..2
        BY Severities
      <4> QED BY <1>4, <3>1, <3>2, <4>1, <4>2, <4>3 DEF Covers
    <3> QED BY <3>1, <3>2
  <2>2. CASE a \notin adverse
    <3>1. a = now /\ Severity(status) > 0  BY <1>2, <2>2
    <3>2. Covers(next, a)  BY <1>3, <1>4, <3>1 DEF Covers, Samples
    <3> QED BY <3>2
  <2> QED BY <2>1, <2>2
<1> QED BY <1>6, <1>7, <1>8, <1>9, <1>10 DEF SupervisorInv

\* An exchange has a number of its own: whatever is still on the way has a smaller one.
LEMMA NewExchange ==
    ASSUME SupervisorInv, NEW f \in Frames, NEW p \in Pendings,
           f.request = client.request + 1, p.request = client.request + 1,
           (p.command = "report" /\ p.issue) =>
               /\ f.sample = p.sample /\ p.sample # NoSample
               /\ p.sample = healthRecord.issue,
           client' \in Clients, client'.request = client.request + 1,
           client'.output = Append(client.output, f), client'.pending = p,
           UNCHANGED <<healthRecord, adverse, applied, toServer, toClient>>
    PROVE  SupervisorInv'
<1>0. /\ SupervisorTypes /\ FramesTold /\ RepliesTold /\ AskedKept /\ RecordKept /\ IssuesKept
      /\ client.request \in Nat /\ client.output \in Seq(Frames)
      /\ toServer \in Seq(Frames) /\ toClient \in Seq(Replies)
  BY ClientIs DEF SupervisorInv, SupervisorTypes
<1>1. SupervisorTypes'  BY <1>0 DEF SupervisorTypes
<1>2. ASSUME NEW g \in Frames, FrameTold(client, g) PROVE FrameTold(client', g)
  <2>1. g.request \in Nat /\ g.request <= client.request  BY <1>2 DEF Frames, FrameTold
  <2> QED BY <1>0, <2>1 DEF FrameTold
<1>3. ASSUME NEW r \in Replies, ReplyTold(client, applied, r) PROVE ReplyTold(client', applied', r)
  <2>1. r.request \in Nat /\ r.request <= client.request  BY <1>3 DEF Replies, ReplyTold
  <2> QED BY <1>0, <2>1 DEF ReplyTold
<1>4. FrameTold(client', f)  BY <1>0 DEF FrameTold, Asked
<1>5. FramesTold'
  <2>1. ASSUME NEW i \in DOMAIN client'.output PROVE FrameTold(client', client'.output[i])
    <3>1. client'.output[i] = f \/ \E j \in DOMAIN client.output : client'.output[i] = client.output[j]
      BY <1>0, <2>1, AppendedAll
    <3>2. ASSUME NEW j \in DOMAIN client.output PROVE FrameTold(client', client.output[j])
      <4>1. client.output[j] \in Frames /\ FrameTold(client, client.output[j])
        BY <1>0, <3>2 DEF FramesTold
      <4> QED BY <1>2, <4>1
    <3> QED BY <1>4, <3>1, <3>2
  <2>2. ASSUME NEW i \in DOMAIN toServer' PROVE FrameTold(client', toServer'[i])
    <3>1. toServer[i] \in Frames /\ FrameTold(client, toServer[i])
      BY <1>0, <2>2 DEF FramesTold
    <3> QED BY <1>2, <3>1
  <2> QED BY <2>1, <2>2 DEF FramesTold
<1>6. RepliesTold'
  <2>1. ASSUME NEW i \in DOMAIN toClient' PROVE ReplyTold(client', applied', toClient'[i])
    <3>1. toClient[i] \in Replies /\ ReplyTold(client, applied, toClient[i])
      BY <1>0, <2>1 DEF RepliesTold
    <3> QED BY <1>3, <3>1
  <2> QED BY <2>1 DEF RepliesTold
<1>7. AskedKept'  BY <1>0 DEF AskedKept, Asked, RecordKept
<1>8. RecordKept' /\ IssuesKept'  BY <1>0 DEF RecordKept, IssuesKept
<1> QED BY <1>1, <1>5, <1>6, <1>7, <1>8 DEF SupervisorInv

\* A request made a bind keeps its number.
LEMMA PendingBind ==
    ASSUME NEW n \in Nat, NEW r \in Pendings
    PROVE  LET p == [r EXCEPT !.command = "bind", !.request = n]
           IN  p \in Pendings /\ p.request = n /\ p.command = "bind"
  BY DEF Pendings

\* QueueBind asks for nothing that the supervisor was told already.
LEMMA QueueBindKeeps == ASSUME SupervisorInv, QueueBind PROVE SupervisorInv'
<1> DEFINE f == HealthFrame("bind", client)
           p == [NoPending EXCEPT !.command = "bind", !.request = client.request + 1]
<1>0. SupervisorTypes  BY DEF SupervisorInv
<1>1. f \in Frames /\ f.request = client.request + 1
  BY <1>0, ClientIs, Nothing DEF HealthFrame, Frames
<1>2. p \in Pendings /\ p.request = client.request + 1 /\ p.command = "bind"
  <2>1. client.request + 1 \in Nat  BY <1>0, ClientIs
  <2> QED BY <2>1, Nothing, PendingBind
<1> HIDE DEF f, p
<1>3. /\ client' = [fd |-> "open", bound |-> client.bound, output |-> Append(client.output, f),
                    pending |-> p, request |-> client.request + 1,
                    since |-> client.request + 1, last |-> client.last]
      /\ UNCHANGED <<healthRecord, adverse, applied, toServer, toClient>>
  BY <1>0, ClientIs DEF QueueBind, f, p
<1>4. client' \in Clients  BY <1>0, <1>1, <1>2, <1>3, ClientIs, AppendedAll DEF Clients
<1> QED BY <1>1, <1>2, <1>3, <1>4, NewExchange

\* QueueReport's frame carries the issues since the last accepted report.
LEMMA QueueReportKeeps == ASSUME SupervisorInv, QueueReport PROVE SupervisorInv'
<1> DEFINE issue == healthRecord.issue # NoSample
           sample == IF issue THEN healthRecord.issue ELSE healthRecord.current
           f == [HealthFrame("report", client) EXCEPT !.sample = IF issue THEN sample ELSE NoSample]
           p == [command |-> "report", request |-> client.request + 1, issue |-> issue,
                 sample |-> sample]
<1>0. SupervisorTypes /\ healthRecord.issue \in Samples /\ healthRecord.current \in Samples
  BY DEF SupervisorInv, SupervisorTypes
<1>1. f \in Frames /\ f.request = client.request + 1 /\ (issue => f.sample = sample)
  BY <1>0, ClientIs, Nothing DEF HealthFrame, Frames
<1>2. /\ p \in Pendings /\ p.request = client.request + 1 /\ p.issue = issue
      /\ p.sample = sample /\ (issue => sample = healthRecord.issue /\ sample # NoSample)
  BY <1>0, ClientIs DEF Pendings
<1>3. /\ client' = [client EXCEPT !.request = client.request + 1,
                                  !.output = Append(client.output, f), !.pending = p]
      /\ UNCHANGED <<healthRecord, adverse, applied, toServer, toClient>>
  BY DEF QueueReport
<1> HIDE DEF f, p, issue, sample
<1>4. client' = [fd |-> client.fd, bound |-> client.bound, output |-> Append(client.output, f),
                 pending |-> p, request |-> client.request + 1,
                 since |-> client.since, last |-> client.last]
  BY <1>0, <1>3, ClientIs
<1>5. client' \in Clients  BY <1>0, <1>1, <1>2, <1>4, ClientIs, AppendedAll DEF Clients
<1> QED BY <1>1, <1>2, <1>3, <1>4, <1>5, NewExchange

\* A new connection starts with nothing under way.
LEMMA ConnectKeeps == ASSUME SupervisorInv, Connect PROVE SupervisorInv'
<1>0. SupervisorTypes  BY DEF SupervisorInv
<1>1. /\ client' = [fd |-> "connecting", bound |-> client.bound, output |-> client.output,
                    pending |-> client.pending, request |-> client.request,
                    since |-> client.since, last |-> client.last]
      /\ UNCHANGED <<healthRecord, adverse, applied, toServer, toClient>>
  BY <1>0, ClientIs DEF Connect
<1>2. client' \in Clients  BY <1>0, <1>1, ClientIs DEF Clients
<1>3. SupervisorTypes'  BY <1>0, <1>1, <1>2 DEF SupervisorTypes
<1>4. /\ Less(client'.output, client.output) /\ LessSent
      /\ Less(toClient', toClient)
  BY <1>1 DEF Less, LessSent
<1> QED BY <1>1, <1>3, <1>4, LessTold

\* A heartbeat's frame has no number that a report could have.
LEMMA BeatKeeps == ASSUME SupervisorInv, QueueHeartbeat PROVE SupervisorInv'
<1> DEFINE f == [HealthFrame("heartbeat", client) EXCEPT !.request = 0]
<1>0. SupervisorTypes /\ FramesTold /\ RepliesTold /\ AskedKept /\ RecordKept /\ IssuesKept
  BY DEF SupervisorInv
<1>1. f \in Frames /\ f.request = 0  BY <1>0, ClientIs, Nothing DEF HealthFrame, Frames
<1> HIDE DEF f
<1>2. /\ client' = [fd |-> client.fd, bound |-> client.bound, output |-> <<f>>,
                    pending |-> client.pending, request |-> client.request,
                    since |-> client.since, last |-> client.last]
      /\ UNCHANGED <<healthRecord, adverse, applied, toServer, toClient>>
  BY <1>0, ClientIs DEF QueueHeartbeat, f
<1>3. <<f>> \in Seq(Frames) /\ \A i \in DOMAIN <<f>> : <<f>>[i] = f  BY <1>1
<1>4. client' \in Clients  BY <1>0, <1>2, <1>3, ClientIs DEF Clients
<1>5. FrameTold(client', f)
  BY <1>0, <1>1, <1>2, ClientIs DEF FrameTold, Asked, AskedKept
<1>6. FramesTold'  BY <1>0, <1>2, <1>3, <1>5 DEF FramesTold, FrameTold, Asked
<1>7. SupervisorTypes'  BY <1>0, <1>2, <1>4 DEF SupervisorTypes
<1>8. RepliesTold' /\ AskedKept' /\ RecordKept' /\ IssuesKept'
  BY <1>0, <1>2 DEF RepliesTold, ReplyTold, Asked, AskedKept, RecordKept, IssuesKept
<1> QED BY <1>6, <1>7, <1>8 DEF SupervisorInv

\* FlushOutput moves a line from the buffer to the socket, or disconnects.
LEMMA FlushKeeps == ASSUME SupervisorInv, FlushOutput PROVE SupervisorInv'
<1> DEFINE message == Head(client.output)
           beat == message.command = "heartbeat"
<1>0. /\ SupervisorTypes /\ client.output \in Seq(Frames) /\ client.output # <<>>
      /\ UNCHANGED <<healthRecord, adverse, applied>>
  BY ClientIs DEF SupervisorInv, FlushOutput
<1>1. CASE ~beat /\ ~HealthEnabled  BY <1>0, <1>1, DisconnectKeeps DEF FlushOutput
<1>2. CASE ~(~beat /\ ~HealthEnabled)
  <2>1. /\ client' = [client EXCEPT !.output = Tail(client.output)]
        /\ toServer' = IF beat THEN toServer ELSE Append(toServer, message)
        /\ UNCHANGED toClient
    BY <1>2 DEF FlushOutput
  <2> HIDE DEF beat, message
  <2>2. client' = [fd |-> client.fd, bound |-> client.bound, output |-> Tail(client.output),
                   pending |-> client.pending, request |-> client.request,
                   since |-> client.since, last |-> client.last]
    BY <1>0, <2>1, ClientIs
  <2>3. /\ Tail(client.output) \in Seq(Frames) /\ message \in Frames
        /\ \E j \in DOMAIN client.output : message = client.output[j]
        /\ Less(Tail(client.output), client.output)
    BY <1>0, TailAll DEF message, Less
  <2>4. toServer \in Seq(Frames)  BY <1>0 DEF SupervisorTypes
  <2>5. toServer' \in Seq(Frames) /\ LessSent
    <3>1. CASE beat  BY <2>1, <2>4, <3>1 DEF LessSent
    <3>2. CASE ~beat  BY <2>1, <2>3, <2>4, <3>2, AppendedAll DEF LessSent
    <3> QED BY <3>1, <3>2
  <2>6. client' \in Clients  BY <1>0, <2>2, <2>3, ClientIs DEF Clients
  <2>7. SupervisorTypes'  BY <1>0, <2>1, <2>5, <2>6 DEF SupervisorTypes
  <2>8. /\ Less(client'.output, client.output) /\ Less(toClient', toClient)
        /\ client'.request = client.request /\ client'.pending = client.pending
    BY <2>1, <2>2, <2>3 DEF Less
  <2> QED BY <1>0, <2>5, <2>7, <2>8, LessTold
<1> QED BY <1>1, <1>2

\* CancelPending forgets the request, not the issues it was to report.
LEMMA CancelKeeps == ASSUME SupervisorInv, CancelPending PROVE SupervisorInv'
<1>0. SupervisorTypes /\ UNCHANGED <<healthRecord, adverse, toServer, applied>>
  BY DEF SupervisorInv, CancelPending
<1>1. CASE client.output # <<>>  BY <1>0, <1>1, DisconnectKeeps DEF CancelPending
<1>2. CASE client.output = <<>>
  <2>1. /\ client' = [fd |-> client.fd, bound |-> client.bound, output |-> client.output,
                      pending |-> NoPending, request |-> client.request,
                      since |-> client.since, last |-> client.last]
        /\ toClient' = toClient
    BY <1>0, <1>2, ClientIs DEF CancelPending
  <2>2. client' \in Clients  BY <1>0, <2>1, ClientIs, Nothing DEF Clients
  <2>3. SupervisorTypes'  BY <1>0, <2>1, <2>2 DEF SupervisorTypes
  <2>4. /\ Less(client'.output, client.output) /\ LessSent /\ Less(toClient', toClient)
    BY <1>0, <2>1 DEF Less, LessSent
  <2> QED BY <1>0, <2>1, <2>3, <2>4, LessTold
<1> QED BY <1>1, <1>2

\* A step that leaves the record, the client and the lines alone keeps the invariant.
LEMMA QuietKeeps ==
    ASSUME SupervisorInv,
           UNCHANGED <<healthRecord, adverse, client, toServer, toClient, applied>>
    PROVE  SupervisorInv'
  BY DEF SupervisorInv, SupervisorTypes, FramesTold, RepliesTold, AskedKept, RecordKept,
     IssuesKept

\* A request to stop answers nothing.
LEMMA AskToStopKeeps == ASSUME SupervisorInv, AskToStop PROVE SupervisorInv'
<1> DEFINE r == [result |-> "stop", request |-> 0]
<1>0. /\ SupervisorTypes /\ RepliesTold /\ client.request \in Nat /\ toClient \in Seq(Replies)
      /\ toClient' = Append(toClient, r)
      /\ UNCHANGED <<healthRecord, adverse, client, toServer, applied>>
  BY ClientIs DEF SupervisorInv, SupervisorTypes, AskToStop
<1>1. r \in Replies /\ ReplyTold(client, applied, r)  BY <1>0 DEF Replies, ReplyTold
<1> HIDE DEF r
<1>2. RepliesTold'  BY <1>0, <1>1, AppendedAll DEF RepliesTold
<1>3. SupervisorTypes'  BY <1>0, <1>1, AppendedAll DEF SupervisorTypes
<1> QED BY <1>0, <1>2, <1>3 DEF SupervisorInv, FramesTold, AskedKept, RecordKept, IssuesKept

\* The supervisor says that a report is applied only when it is.
LEMMA ServeKeeps == ASSUME SupervisorInv, Serve PROVE SupervisorInv'
<1> DEFINE message == Head(toServer)
<1>0. /\ SupervisorTypes /\ FramesTold /\ RepliesTold /\ AskedKept /\ RecordKept /\ IssuesKept
      /\ toServer \in Seq(Frames) /\ toClient \in Seq(Replies) /\ toServer # <<>>
      /\ applied \in SUBSET Samples
      /\ toServer' = Tail(toServer) /\ UNCHANGED <<healthRecord, adverse, client>>
  BY DEF SupervisorInv, SupervisorTypes, Serve
<1>1. /\ Tail(toServer) \in Seq(Frames) /\ message \in Frames
      /\ \E j \in DOMAIN toServer : message = toServer[j]
      /\ Less(Tail(toServer), toServer)
  BY <1>0, TailAll DEF Less
<1>2. FrameTold(client, message) /\ FramesTold'  BY <1>0, <1>1 DEF FramesTold, Less
<1>3. applied' \in {applied, applied \cup {message.sample}} /\ message.sample \in Samples
  BY <1>1 DEF Serve, Frames
<1>4. PICK r \in Replies : /\ toClient' \in {toClient, Append(toClient, r)}
                           /\ r.request = message.request
                           /\ (r.result = "ok" /\ message.sample # NoSample) => message.sample \in applied'
  <2> DEFINE reply(said) == [result |-> said, request |-> message.request]
  <2>1. \A said \in {"ok", "error", "unauthorized"} :
           /\ reply(said) \in Replies /\ reply(said).request = message.request
           /\ reply(said).result = said
           /\ Answer(message, said) \in {toClient, Append(toClient, reply(said))}
    BY <1>1 DEF Answer, Replies, Frames
  <2>2. \/ /\ applied' = IF message.sample # NoSample THEN applied \cup {message.sample} ELSE applied
           /\ toClient' \in {Answer(message, "ok"), toClient}
        \/ \E r \in {"error", "unauthorized"} : toClient' \in {Answer(message, r), toClient}
    BY DEF Serve
  <2> HIDE DEF message, reply
  <2>3. CASE /\ applied' = IF message.sample # NoSample THEN applied \cup {message.sample} ELSE applied
             /\ toClient' \in {Answer(message, "ok"), toClient}
    BY <2>1, <2>3
  <2>4. CASE \E x \in {"error", "unauthorized"} : toClient' \in {Answer(message, x), toClient}
    <3>1. PICK x \in {"error", "unauthorized"} : toClient' \in {Answer(message, x), toClient}
      BY <2>4
    <3> QED BY <2>1, <3>1
  <2> QED BY <2>2, <2>3, <2>4
<1> HIDE DEF message
<1>5. ReplyTold(client, applied', r)
  BY <1>0, <1>2, <1>4 DEF FrameTold, ReplyTold, AskedKept
<1>6. \A x : ReplyTold(client, applied, x) => ReplyTold(client, applied', x)
  BY <1>3 DEF ReplyTold
<1>7. RepliesTold' /\ toClient' \in Seq(Replies)
  <2>1. CASE toClient' = toClient  BY <1>0, <1>6, <2>1 DEF RepliesTold
  <2>2. CASE toClient' = Append(toClient, r)
    <3>1. /\ toClient' \in Seq(Replies)
          /\ \A i \in DOMAIN toClient' :
                 toClient'[i] = r \/ \E j \in DOMAIN toClient : toClient'[i] = toClient[j]
      BY <1>0, <2>2, AppendedAll
    <3> QED BY <1>0, <1>5, <1>6, <3>1 DEF RepliesTold
  <2> QED BY <1>4, <2>1, <2>2
<1>8. SupervisorTypes'  BY <1>0, <1>1, <1>3, <1>7 DEF SupervisorTypes
<1>9. AskedKept' /\ RecordKept' /\ IssuesKept'
  BY <1>0, <1>3 DEF AskedKept, RecordKept, IssuesKept
<1> QED BY <1>2, <1>7, <1>8, <1>9 DEF SupervisorInv

\* The issue that is acknowledged has been applied, and what it covers is covered.
LEMMA AnswerKeeps ==
    ASSUME SupervisorInv, toClient # <<>>, Head(toClient).result = "ok",
           client.pending.command = "report",
           client.pending.request = Head(toClient).request,
           client' = [client EXCEPT !.last = client.pending.sample, !.pending = NoPending],
           healthRecord' \in {healthRecord} \cup
               (IF client.pending.issue THEN {AckThrough(healthRecord, client.pending.sample.rev)}
                                        ELSE {}),
           toClient' = Tail(toClient), UNCHANGED <<adverse, toServer, applied>>
    PROVE  SupervisorInv'
<1> DEFINE p == client.pending
<1>0. /\ SupervisorTypes /\ FramesTold /\ RepliesTold /\ AskedKept /\ RecordKept /\ IssuesKept
      /\ toClient \in Seq(Replies)
  BY DEF SupervisorInv, SupervisorTypes
<1>1. client' = [fd |-> client.fd, bound |-> client.bound, output |-> client.output,
                 pending |-> NoPending, request |-> client.request,
                 since |-> client.since, last |-> p.sample]
  BY <1>0, ClientIs
<1>2. client' \in Clients  BY <1>0, <1>1, ClientIs, Nothing DEF Clients
<1>3. Tail(toClient) \in Seq(Replies) /\ Less(Tail(toClient), toClient)
  BY <1>0, TailAll DEF Less
<1>4. ~Asked(client')  BY <1>1 DEF Asked, NoPending
<1>5. FramesTold' /\ RepliesTold'
  BY <1>0, <1>1, <1>3, <1>4 DEF FramesTold, RepliesTold, FrameTold, ReplyTold, Less
<1>6. healthRecord.issue \in Samples /\ healthRecord.current \in Samples
      /\ healthRecord.issue.rev \in Nat
  BY <1>0 DEF SupervisorTypes, Samples
<1>7. \/ healthRecord' = healthRecord
      \/ /\ p.issue /\ healthRecord.issue.rev <= p.sample.rev
         /\ healthRecord' = [healthRecord EXCEPT !.issue = NoSample]
  BY DEF AckThrough
<1>8. /\ healthRecord' \in [current : Samples, issue : Samples]
      /\ healthRecord'.current = healthRecord.current
      /\ healthRecord'.issue \in {healthRecord.issue, NoSample}
  BY <1>0, <1>6, <1>7, Nothing DEF SupervisorTypes
<1>9. SupervisorTypes'  BY <1>0, <1>2, <1>3, <1>8 DEF SupervisorTypes
<1>10. AskedKept'
  <2>1. client'.pending.request = 0 /\ client.request \in Nat
    BY <1>0, <1>1, ClientIs DEF NoPending
  <2> QED BY <1>1, <1>4, <2>1 DEF AskedKept
<1>11. RecordKept'
  <2>1. NoSample.rev = 0 /\ healthRecord.current.rev \in Nat
    BY <1>6 DEF NoSample, Samples
  <2> QED BY <1>0, <1>8, <2>1 DEF RecordKept
<1>12. IssuesKept'
  <2>1. CASE healthRecord' = healthRecord  BY <1>0, <2>1 DEF IssuesKept
  <2>2. CASE /\ p.issue /\ healthRecord.issue.rev <= p.sample.rev
             /\ healthRecord' = [healthRecord EXCEPT !.issue = NoSample]
    <3>1. p.sample \in applied
      <4>1. ReplyTold(client, applied, Head(toClient))  BY <1>0, TailAll DEF RepliesTold
      <4> QED BY <2>2, <4>1 DEF ReplyTold, Asked
    <3>2. healthRecord.issue \in {p.sample, NoSample}
      BY <1>0, <1>6, <2>2, ClientIs DEF AskedKept, Asked
    <3>3. ASSUME NEW a \in adverse PROVE \E i \in applied : Covers(i, a)
      <4>1. PICK i \in applied \cup {healthRecord.issue} : Covers(i, a)
        BY <1>0 DEF IssuesKept
      <4>2. ~Covers(NoSample, a)  BY <1>0 DEF Covers, NoSample, RecordKept, Severity
      <4> QED BY <3>1, <3>2, <4>1, <4>2
    <3> QED BY <3>3 DEF IssuesKept
  <2> QED BY <1>7, <2>1, <2>2
<1> QED BY <1>5, <1>9, <1>10, <1>11, <1>12 DEF SupervisorInv

\* Handle clears the issues only on the reply to the report that told them.
LEMMA HandleKeeps == ASSUME SupervisorInv, Handle PROVE SupervisorInv'
<1> DEFINE reply == Head(toClient)
           p == client.pending
<1>0. /\ SupervisorTypes /\ toClient \in Seq(Replies) /\ toClient # <<>>
      /\ UNCHANGED <<adverse, toServer, applied>>
  BY DEF SupervisorInv, SupervisorTypes, Handle
<1>1. \/ client' = client /\ toClient' = Tail(toClient) /\ UNCHANGED healthRecord
      \/ Disconnect /\ UNCHANGED healthRecord
      \/ /\ client' = [client EXCEPT !.bound = TRUE, !.pending = NoPending]
         /\ toClient' = Tail(toClient) /\ UNCHANGED healthRecord
      \/ /\ reply.result = "ok" /\ p.command = "report" /\ p.request = reply.request
         /\ client' = [client EXCEPT !.last = p.sample, !.pending = NoPending]
         /\ healthRecord' = IF p.issue /\ HealthEnabled
                            THEN AckThrough(healthRecord, p.sample.rev) ELSE healthRecord
         /\ toClient' = Tail(toClient)
  BY DEF Handle
<1>2. Tail(toClient) \in Seq(Replies) /\ Less(Tail(toClient), toClient)
  BY <1>0, TailAll DEF Less
<1>3. LessSent /\ \A s : Less(s, s)  BY <1>0 DEF LessSent, Less
<1>4. CASE client' = client /\ toClient' = Tail(toClient) /\ UNCHANGED healthRecord
  <2>1. SupervisorTypes'  BY <1>0, <1>2, <1>4 DEF SupervisorTypes
  <2> QED BY <1>0, <1>2, <1>3, <1>4, <2>1, LessTold
<1>5. CASE Disconnect /\ UNCHANGED healthRecord  BY <1>0, <1>5, DisconnectKeeps
<1>6. CASE /\ client' = [client EXCEPT !.bound = TRUE, !.pending = NoPending]
           /\ toClient' = Tail(toClient) /\ UNCHANGED healthRecord
  <2>1. client' = [fd |-> client.fd, bound |-> TRUE, output |-> client.output,
                   pending |-> NoPending, request |-> client.request,
                   since |-> client.since, last |-> client.last]
    BY <1>0, <1>6, ClientIs
  <2>2. client' \in Clients  BY <1>0, <2>1, ClientIs, Nothing DEF Clients
  <2>3. SupervisorTypes'  BY <1>0, <1>2, <1>6, <2>2 DEF SupervisorTypes
  <2> QED BY <1>0, <1>2, <1>3, <1>6, <2>1, <2>3, LessTold
<1>7. CASE /\ reply.result = "ok" /\ p.command = "report" /\ p.request = reply.request
           /\ client' = [client EXCEPT !.last = p.sample, !.pending = NoPending]
           /\ healthRecord' = IF p.issue /\ HealthEnabled
                              THEN AckThrough(healthRecord, p.sample.rev) ELSE healthRecord
           /\ toClient' = Tail(toClient)
  BY <1>0, <1>7, AnswerKeeps
<1> QED BY <1>1, <1>4, <1>5, <1>6, <1>7

\* Every step of the client and of the supervisor keeps the invariant.
LEMMA SupervisorStep ==
    ASSUME SupervisorInv, [SupervisorNext]_supervisorVars PROVE SupervisorInv'
<1>1. CASE Drops  BY <1>1, DisconnectKeeps DEF Drops
<1>2. CASE BeginShutdown \/ UNCHANGED supervisorVars
  BY <1>2, QuietKeeps DEF BeginShutdown, supervisorVars
<1> QED BY <1>1, <1>2, RecordKeeps, ConnectKeeps, QueueBindKeeps, QueueReportKeeps, BeatKeeps,
        FlushKeeps, CancelKeeps, HandleKeeps, ServeKeeps, AskToStopKeeps DEF SupervisorNext

\* The invariant holds before anything was sent.
LEMMA SupervisorStart == SupervisorInit => SupervisorInv
<1> SUFFICES ASSUME SupervisorInit PROVE SupervisorInv  OBVIOUS
<1>1. client.pending = NoPending /\ NoPending.command = "none" /\ NoPending.request = 0
      /\ client.request = 0
  BY DEF SupervisorInit, NoPending
<1>2. SupervisorTypes
  BY Nothing DEF SupervisorInit, SupervisorTypes, Clients, Samples, Statuses
<1>3. RecordKept /\ IssuesKept  BY DEF SupervisorInit, RecordKept, IssuesKept, NoSample
<1>4. FramesTold /\ RepliesTold /\ AskedKept
  BY <1>1 DEF SupervisorInit, FramesTold, RepliesTold, AskedKept, Asked
<1> QED BY <1>2, <1>3, <1>4 DEF SupervisorInv

\* An issue since the last accepted report is still to be reported or is on its way, however
\* the connection breaks and the replies are late (runtime_supervisor_client.cpp).
THEOREM NoIssueLost == SupervisorSpec => []IssuesKept
<1>1. SupervisorInv => IssuesKept  BY DEF SupervisorInv
<1> QED BY <1>1, SupervisorStart, SupervisorStep, PTL DEF SupervisorSpec

--------------------------------------------------------------------------------
(* The buffers of the accelerators                                          *)

\* Slots under way: a list of slots with the frame each is about.
SlotJobs(slots) == [slot : slots, frame : Nat]
OneEach(jobs, free) ==
    /\ \A m, n \in DOMAIN jobs : jobs[m].slot = jobs[n].slot => m = n
    /\ \A n \in DOMAIN jobs : jobs[n].slot \notin free

EngineStates == {"absent", "opening", "ready", "failed", "down"}

DeviceTypes ==
    /\ engine \in [at : EngineStates,
                   boundIn : InSlots \cup {None}, boundOut : OutSlots \cup {None}]
    /\ npu \in [input : InSlots \cup {None}, output : [1..Tensors -> OutSlots \cup {None}]]
    /\ encoder \in {"absent", "opening", "ready", "failed", "down"}
    /\ input \in [InSlots -> Nat]
    /\ output \in [OutSlots -> [1..Tensors -> Nat]]
    /\ freeIn \in SUBSET InSlots /\ freeOut \in SUBSET OutSlots
    /\ prepared \in Seq(SlotJobs(InSlots)) /\ completed \in Seq(SlotJobs(OutSlots))
    /\ pictures \in Nat

SlotsApart == OneEach(prepared, freeIn) /\ OneEach(completed, freeOut)
PicturesOfTheirFrame ==
    \A n \in DOMAIN prepared : input[prepared[n].slot] = prepared[n].frame

\* What exists at each point of the program's life.
LifeKept ==
    /\ live \subseteq EngineObjects \cup RgaObjects \cup MppObjects
    /\ engine.at = "absent" => live = {}
    /\ engine.at \in {"absent", "opening", "failed"} => encoder = "absent"
    /\ engine.at = "down" => encoder = "down"
    /\ encoder = "absent" => live \subseteq EngineObjects

DeviceInv ==
    /\ DeviceTypes /\ SlotsApart /\ PicturesOfTheirFrame /\ LifeKept
    /\ DeviceBuffersKept

\* Each clean-up names all that its owner allocates.
LEMMA AllDestroyed ==
    /\ \A o \in EngineObjects : o[1] \in EngineDestroys
    /\ \A o \in MppObjects : o[1] \in EncoderDestroys
    /\ \A o \in RgaObjects : o[1] \in ReleaseAll
<1>1. \A o \in EngineObjects : o[1] \in EngineDestroys
  BY DEF EngineObjects, EngineDestroys, Heap, Wrapper, OutputMemory
<1>2. \A o \in MppObjects : o[1] \in EncoderDestroys
  BY DEF MppObjects, EncoderObjects, EncoderDestroys, MppSource
<1>3. \A o \in RgaObjects : o[1] \in ReleaseAll
  BY DEF RgaObjects, ReleaseAll, RgaSource, RgaDestination
<1> QED BY <1>1, <1>2, <1>3

\* A clean-up destroys all that is on record of its owner.
LEMMA CleanUpDestroys ==
    ASSUME NEW owned, NEW names, NEW made, NEW known, \A o \in owned : o[1] \in names,
           GivenBack(owned, names, made, known)
    PROVE  live' = (live \cup made) \ (known \cap owned) /\ recorded' = known \ owned
  BY DEF GivenBack

\* A job that is taken from the front gives its slot free, and a slot that is taken from
\* the free ones goes to the back.
LEMMA JobTaken ==
    ASSUME NEW slots, NEW jobs \in Seq(SlotJobs(slots)), jobs # <<>>, NEW free,
           OneEach(jobs, free)
    PROVE  /\ Tail(jobs) \in Seq(SlotJobs(slots)) /\ Head(jobs) \in SlotJobs(slots)
           /\ Head(jobs) = jobs[1] /\ 1 \in DOMAIN jobs
           /\ OneEach(Tail(jobs), free) /\ OneEach(Tail(jobs), free \cup {Head(jobs).slot})
           /\ \A n \in DOMAIN Tail(jobs) : n + 1 \in DOMAIN jobs /\ Tail(jobs)[n] = jobs[n + 1]
<1>1. /\ Tail(jobs) \in Seq(SlotJobs(slots)) /\ Head(jobs) \in SlotJobs(slots)
      /\ Head(jobs) = jobs[1] /\ 1 \in DOMAIN jobs /\ Len(jobs) \in Nat
      /\ DOMAIN jobs = 1..Len(jobs) /\ DOMAIN Tail(jobs) = 1..(Len(jobs) - 1)
      /\ \A n \in 1..(Len(jobs) - 1) : Tail(jobs)[n] = jobs[n + 1]
  OBVIOUS
<1>2. \A n \in DOMAIN Tail(jobs) : /\ n + 1 \in DOMAIN jobs /\ Tail(jobs)[n] = jobs[n + 1]
                                  /\ n \in Nat /\ n + 1 # 1
  BY <1>1
<1>3. ASSUME NEW n \in DOMAIN Tail(jobs)
      PROVE  Tail(jobs)[n].slot \notin free \cup {Head(jobs).slot}
  BY <1>1, <1>2 DEF OneEach
<1>4. ASSUME NEW m \in DOMAIN Tail(jobs), NEW n \in DOMAIN Tail(jobs),
             Tail(jobs)[m].slot = Tail(jobs)[n].slot
      PROVE  m = n
  <2>1. m + 1 = n + 1  BY <1>2, <1>4 DEF OneEach
  <2> QED BY <1>2, <2>1
<1> QED BY <1>1, <1>2, <1>3, <1>4 DEF OneEach

\* A slot that leaves the free ones for the end of a list is once in the list.
LEMMA JobPlaced ==
    ASSUME NEW slots, NEW jobs \in Seq(SlotJobs(slots)), NEW free, OneEach(jobs, free),
           NEW j \in SlotJobs(slots), j.slot \in free
    PROVE  /\ Append(jobs, j) \in Seq(SlotJobs(slots))
           /\ OneEach(Append(jobs, j), free \ {j.slot})
           /\ \A n \in DOMAIN Append(jobs, j) :
                  \/ Append(jobs, j)[n] = j
                  \/ n \in DOMAIN jobs /\ Append(jobs, j)[n] = jobs[n] /\ jobs[n].slot # j.slot
<1>1. /\ Append(jobs, j) \in Seq(SlotJobs(slots)) /\ Len(jobs) \in Nat
      /\ DOMAIN jobs = 1..Len(jobs) /\ DOMAIN Append(jobs, j) = 1..(Len(jobs) + 1)
      /\ Append(jobs, j)[Len(jobs) + 1] = j
      /\ \A n \in 1..Len(jobs) : Append(jobs, j)[n] = jobs[n]
  OBVIOUS
<1>2. \A n \in DOMAIN Append(jobs, j) :
         \/ n = Len(jobs) + 1 /\ Append(jobs, j)[n] = j
         \/ n \in DOMAIN jobs /\ Append(jobs, j)[n] = jobs[n] /\ jobs[n].slot # j.slot
            /\ jobs[n].slot \notin free
  BY <1>1 DEF OneEach
<1> QED BY <1>1, <1>2 DEF OneEach

\* Steps that leave the slots alone and bind nothing.
LEMMA SlotsStayed ==
    ASSUME DeviceTypes, SlotsApart, PicturesOfTheirFrame, ResultsOfTheirFrame, BindingsKnown,
           UNCHANGED <<npu, pipelineVars>>,
           engine'.boundIn \in {engine.boundIn, None},
           engine'.boundOut \in {engine.boundOut, None}
    PROVE  SlotsApart' /\ PicturesOfTheirFrame' /\ ResultsOfTheirFrame' /\ BindingsKnown'
<1>1. SlotsApart' /\ PicturesOfTheirFrame' /\ ResultsOfTheirFrame'
  BY DEF pipelineVars, SlotsApart, PicturesOfTheirFrame, ResultsOfTheirFrame
<1>2. BindingsKnown'  BY DEF BindingsKnown
<1> QED BY <1>1, <1>2

\* Initialize goes on, is done, or fails and leaves none but a rejected output memory.
LEMMA InitializeKeeps == ASSUME DeviceInv, Initialize PROVE DeviceInv'
<1>0. /\ DeviceTypes /\ SlotsApart /\ PicturesOfTheirFrame /\ LifeKept
      /\ ResultsOfTheirFrame /\ BindingsKnown /\ encoder = "absent"
      /\ live = recorded /\ live \subseteq EngineObjects
      /\ UNCHANGED <<npu, encoder, pipelineVars>>
  BY DEF DeviceInv, DeviceBuffersKept, NothingLeftBehind, LifeKept, Initialize
<1>1. PICK o \in EngineObjects :
         \/ /\ Made({o})
            /\ engine' = [engine EXCEPT
                 !.at = IF EngineObjects \subseteq live' THEN "ready" ELSE "opening"]
         \/ /\ engine' = [engine EXCEPT !.at = "failed"]
            /\ \E made \in SUBSET ({o} \ {<<"context">>}) :
                  GivenBack(EngineObjects, EngineDestroys, made,
                            recorded \cup {p \in made : p[1] # "output_memory"})
  BY Zenon DEF Initialize
<1>2. /\ engine'.boundIn = engine.boundIn /\ engine'.boundOut = engine.boundOut
      /\ engine' \in [at : EngineStates,
                      boundIn : InSlots \cup {None}, boundOut : OutSlots \cup {None}]
      /\ \/ /\ engine'.at \in {"opening", "ready"}
            /\ live' = live \cup {o} /\ recorded' = recorded \cup {o}
         \/ /\ engine'.at = "failed" /\ recorded' = {}
            /\ live' \subseteq {o} /\ \A p \in live' : p[1] = "output_memory"
  <2>1. engine \in [at : EngineStates,
                    boundIn : InSlots \cup {None}, boundOut : OutSlots \cup {None}]
    BY <1>0 DEF DeviceTypes
  <2>2. CASE /\ Made({o})
             /\ engine' = [engine EXCEPT
                  !.at = IF EngineObjects \subseteq live' THEN "ready" ELSE "opening"]
    <3> DEFINE reached == IF EngineObjects \subseteq live' THEN "ready" ELSE "opening"
    <3>1. reached \in {"opening", "ready"}  OBVIOUS
    <3>2. engine' = [engine EXCEPT !.at = reached]  BY <2>2
    <3> HIDE DEF reached
    <3>3. live' = live \cup {o} /\ recorded' = recorded \cup {o}  BY <2>2 DEF Made
    <3> QED BY <2>1, <3>1, <3>2, <3>3 DEF EngineStates
  <2>3. ASSUME engine' = [engine EXCEPT !.at = "failed"],
               NEW made \in SUBSET ({o} \ {<<"context">>}),
               GivenBack(EngineObjects, EngineDestroys, made,
                         recorded \cup {p \in made : p[1] # "output_memory"})
        PROVE  /\ engine'.boundIn = engine.boundIn /\ engine'.boundOut = engine.boundOut
               /\ engine'.at = "failed" /\ recorded' = {}
               /\ live' \subseteq {o} /\ \A p \in live' : p[1] = "output_memory"
               /\ engine' \in [at : EngineStates,
                               boundIn : InSlots \cup {None}, boundOut : OutSlots \cup {None}]
    <3> DEFINE known == recorded \cup {p \in made : p[1] # "output_memory"}
    <3>1. known \subseteq EngineObjects  BY <1>0
    <3>2. live' = (live \cup made) \ (known \cap EngineObjects) /\ recorded' = known \ EngineObjects
      BY <2>3, AllDestroyed, CleanUpDestroys
    <3>3. recorded' = {} /\ live' \subseteq {o} /\ \A p \in live' : p[1] = "output_memory"
      BY <1>0, <3>1, <3>2
    <3> QED BY <2>1, <2>3, <3>3 DEF EngineStates
  <2> QED BY <1>1, <2>2, <2>3
<1>3. DeviceTypes'  BY <1>0, <1>2 DEF DeviceTypes, pipelineVars
<1>4. LifeKept'  BY <1>0, <1>2 DEF LifeKept
<1>5. NothingLeftBehind'  BY <1>0, <1>2 DEF NothingLeftBehind
<1> QED BY <1>0, <1>2, <1>3, <1>4, <1>5, SlotsStayed DEF DeviceInv, DeviceBuffersKept

\* The other steps of the program's life: the engine's end, the encoder's steps, RGA's end.
LEMMA LifeSteps ==
    ASSUME DeviceInv, \/ EngineShutdown \/ RgaShutdown \/ EncoderInitialize
                      \/ EncodeOne \/ EncoderShutdown
    PROVE  DeviceInv'
<1>0. /\ DeviceTypes /\ SlotsApart /\ PicturesOfTheirFrame /\ LifeKept
      /\ ResultsOfTheirFrame /\ BindingsKnown /\ NothingLeftBehind
      /\ UNCHANGED <<npu, pipelineVars>>
  BY DEF DeviceInv, DeviceBuffersKept, EngineShutdown, RgaShutdown, EncoderInitialize,
     EncodeOne, EncoderShutdown
<1>1. /\ engine' \in [at : EngineStates,
                      boundIn : InSlots \cup {None}, boundOut : OutSlots \cup {None}]
      /\ engine'.boundIn \in {engine.boundIn, None}
      /\ engine'.boundOut \in {engine.boundOut, None}
  BY <1>0 DEF DeviceTypes, EngineStates, EngineShutdown, RgaShutdown, EncoderInitialize,
     EncodeOne, EncoderShutdown
<1>2. encoder' \in {"absent", "opening", "ready", "failed", "down"}
  BY <1>0 DEF DeviceTypes, EngineShutdown, RgaShutdown, EncoderInitialize, EncodeOne,
     EncoderShutdown
<1>3. DeviceTypes'  BY <1>0, <1>1, <1>2 DEF DeviceTypes, pipelineVars
<1>4. LifeKept' /\ NothingLeftBehind'
  <2>1. CASE EngineShutdown
    <3>1. /\ GivenBack(EngineObjects, EngineDestroys, {}, recorded)
          /\ live \subseteq EngineObjects /\ live = recorded /\ encoder = "down"
          /\ encoder' = encoder /\ engine'.at = "down"
      BY <1>0, <2>1 DEF EngineShutdown, LifeKept, NothingLeftBehind
    <3>2. live' = {} /\ recorded' = {}  BY <3>1, AllDestroyed, CleanUpDestroys
    <3> QED BY <3>1, <3>2 DEF LifeKept, NothingLeftBehind
  <2>2. CASE RgaShutdown
    <3>1. /\ GivenBack(RgaObjects, ReleaseAll, {}, recorded)
          /\ engine' = engine /\ encoder' = encoder /\ encoder = "down"
          /\ engine.at # "failed" /\ live = recorded
      BY <1>0, <2>2 DEF RgaShutdown, LifeKept, NothingLeftBehind
    <3>2. live' = live \ RgaObjects /\ recorded' = live'
      <4>1. live' = (live \cup {}) \ (recorded \cap RgaObjects) /\ recorded' = recorded \ RgaObjects
        BY <3>1, AllDestroyed, CleanUpDestroys
      <4> QED BY <3>1, <4>1
    <3> QED BY <1>0, <3>1, <3>2 DEF LifeKept, NothingLeftBehind
  <2>3. CASE \/ /\ EncoderInitialize
                /\ encoder' = "down"
             \/ EncoderShutdown
    <3>1. /\ GivenBack(MppObjects, EncoderDestroys, {}, recorded)
          /\ engine' = engine /\ encoder' = "down" /\ engine.at = "ready" /\ live = recorded
      BY <1>0, <2>3 DEF EncoderInitialize, EncoderShutdown, PipelineExists, NothingLeftBehind
    <3>2. live' = live \ MppObjects /\ recorded' = live'
      <4>1. live' = (live \cup {}) \ (recorded \cap MppObjects) /\ recorded' = recorded \ MppObjects
        BY <3>1, AllDestroyed, CleanUpDestroys
      <4> QED BY <3>1, <4>1
    <3> QED BY <1>0, <3>1, <3>2 DEF LifeKept, NothingLeftBehind
  <2>4. CASE (EncoderInitialize /\ encoder' # "down") \/ EncodeOne
    <3>1. PICK new \in SUBSET MppObjects : live' = live \cup new /\ recorded' = recorded \cup new
      <4>1. CASE EncodeOne
        <5>1. PICK b \in CameraBuffers : \E imported \in SUBSET {MppSource(b)} : Made(imported)
          BY <4>1 DEF EncodeOne
        <5>2. PICK imported \in SUBSET {MppSource(b)} : Made(imported)  BY <5>1
        <5>3. imported \in SUBSET MppObjects  BY <5>2 DEF MppObjects
        <5> QED BY <5>2, <5>3 DEF Made
      <4>2. CASE EncoderInitialize /\ encoder' # "down"
        <5>1. \/ \E o \in EncoderObjects : Made({o})
              \/ UNCHANGED <<live, recorded>>
          BY <4>2 DEF EncoderInitialize
        <5>2. ASSUME NEW o \in EncoderObjects, Made({o})
              PROVE  live' = live \cup {o} /\ recorded' = recorded \cup {o} /\ {o} \in SUBSET MppObjects
          BY <5>2 DEF Made, MppObjects
        <5>3. {} \in SUBSET MppObjects /\ live = live \cup {} /\ recorded = recorded \cup {}
          OBVIOUS
        <5> QED BY <5>1, <5>2, <5>3
      <4> QED BY <2>4, <4>1, <4>2
    <3>2. engine' = engine /\ engine.at = "ready" /\ encoder' \notin {"absent", "down"}
      <4>1. CASE EncoderInitialize /\ encoder' # "down"  BY <4>1 DEF EncoderInitialize
      <4>2. CASE EncodeOne
        <5>1. encoder = "ready" /\ encoder' \in {"ready", "failed"} /\ engine' = engine
          BY <4>2 DEF EncodeOne
        <5>2. engine.at \in EngineStates  BY <1>0 DEF DeviceTypes
        <5> QED BY <1>0, <5>1, <5>2 DEF LifeKept, EngineStates
      <4> QED BY <2>4, <4>1, <4>2
    <3> QED BY <1>0, <3>1, <3>2 DEF LifeKept, NothingLeftBehind
  <2> QED BY <2>1, <2>2, <2>3, <2>4
<1> QED BY <1>0, <1>1, <1>3, <1>4, SlotsStayed DEF DeviceInv, DeviceBuffersKept

\* RGA draws a picture in a slot that nobody is about to read.
LEMMA PreprocessKeeps == ASSUME DeviceInv, Preprocess PROVE DeviceInv'
<1>0. /\ DeviceTypes /\ SlotsApart /\ PicturesOfTheirFrame /\ LifeKept
      /\ ResultsOfTheirFrame /\ BindingsKnown /\ NothingLeftBehind
      /\ UNCHANGED <<engine, npu, encoder, output, freeOut, completed>>
      /\ pictures' = pictures + 1 /\ PipelineExists
  BY DEF DeviceInv, DeviceBuffersKept, Preprocess
<1>1. LifeKept' /\ NothingLeftBehind'
  <2>1. PICK new \in SUBSET RgaObjects : live' = live \cup new /\ recorded' = recorded \cup new
    <3>1. PICK i \in InSlots, b \in CameraBuffers, source \in BOOLEAN, target \in BOOLEAN :
             Made((IF source THEN {} ELSE {RgaSource(b)})
                  \cup (IF target THEN {} ELSE {RgaDestination(i)}))
      BY <1>0 DEF Preprocess, DeviceTypes
    <3> QED BY <3>1 DEF Made, RgaObjects
  <2>2. RgaObjects \cap MppObjects = {}
    BY DEF RgaObjects, MppObjects, EncoderObjects, MppSource, RgaSource, RgaDestination
  <2> QED BY <1>0, <2>1, <2>2 DEF LifeKept, NothingLeftBehind, PipelineExists
<1>2. BindingsKnown' /\ ResultsOfTheirFrame' /\ OneEach(completed', freeOut')
  BY <1>0 DEF BindingsKnown, ResultsOfTheirFrame, SlotsApart
<1>3. \/ UNCHANGED <<input, freeIn, prepared>>
      \/ \E i \in freeIn : /\ input' = [input EXCEPT ![i] = pictures + 1]
                           /\ freeIn' = freeIn \ {i}
                           /\ prepared' = Append(prepared, [slot |-> i, frame |-> pictures + 1])
  BY DEF Preprocess
<1>4. CASE UNCHANGED <<input, freeIn, prepared>>
  <2>1. DeviceTypes' /\ SlotsApart' /\ PicturesOfTheirFrame'
    BY <1>0, <1>2, <1>4 DEF DeviceTypes, SlotsApart, PicturesOfTheirFrame
  <2> QED BY <1>1, <1>2, <2>1 DEF DeviceInv, DeviceBuffersKept
<1>5. ASSUME NEW i \in freeIn, input' = [input EXCEPT ![i] = pictures + 1],
             freeIn' = freeIn \ {i},
             prepared' = Append(prepared, [slot |-> i, frame |-> pictures + 1])
      PROVE  DeviceInv'
  <2> DEFINE j == [slot |-> i, frame |-> pictures + 1]
  <2>1. j \in SlotJobs(InSlots) /\ j.slot = i /\ j.frame = pictures + 1
    BY <1>0 DEF SlotJobs, DeviceTypes
  <2>2. prepared' = Append(prepared, j)  BY <1>5
  <2> HIDE DEF j
  <2>3. /\ prepared \in Seq(SlotJobs(InSlots)) /\ OneEach(prepared, freeIn)
        /\ input \in [InSlots -> Nat] /\ i \in InSlots /\ pictures + 1 \in Nat
        /\ \A n \in DOMAIN prepared : prepared[n].slot \in InSlots
    <3>1. prepared \in Seq(SlotJobs(InSlots)) /\ OneEach(prepared, freeIn)
      BY <1>0 DEF DeviceTypes, SlotsApart
    <3>2. \A n \in DOMAIN prepared : prepared[n] \in SlotJobs(InSlots)  BY <3>1
    <3>3. \A n \in DOMAIN prepared : prepared[n].slot \in InSlots  BY <3>2 DEF SlotJobs
    <3>4. input \in [InSlots -> Nat] /\ i \in InSlots /\ pictures + 1 \in Nat
      BY <1>0 DEF DeviceTypes
    <3> QED BY <3>1, <3>3, <3>4
  <2>4. /\ prepared' \in Seq(SlotJobs(InSlots)) /\ OneEach(prepared', freeIn')
        /\ \A n \in DOMAIN prepared' :
              \/ prepared'[n] = j
              \/ n \in DOMAIN prepared /\ prepared'[n] = prepared[n] /\ prepared[n].slot # j.slot
    <3>1. freeIn' = freeIn \ {j.slot} /\ j.slot \in freeIn  BY <1>5, <2>1
    <3> DEFINE next == Append(prepared, j)
    <3>2. /\ next \in Seq(SlotJobs(InSlots)) /\ OneEach(next, freeIn \ {j.slot})
          /\ \A n \in DOMAIN next :
                \/ next[n] = j
                \/ n \in DOMAIN prepared /\ next[n] = prepared[n] /\ prepared[n].slot # j.slot
      BY <2>1, <2>3, <3>1, JobPlaced
    <3> HIDE DEF next
    <3>3. prepared' = next  BY <2>2 DEF next
    <3> QED BY <3>1, <3>2, <3>3
  <2>5. PicturesOfTheirFrame'  BY <1>0, <1>5, <2>1, <2>3, <2>4 DEF PicturesOfTheirFrame
  <2>6. DeviceTypes'  BY <1>0, <1>5, <2>3, <2>4 DEF DeviceTypes
  <2>7. SlotsApart'  BY <1>2, <2>4 DEF SlotsApart
  <2> QED BY <1>1, <1>2, <2>5, <2>6, <2>7 DEF DeviceInv, DeviceBuffersKept
<1> QED BY <1>3, <1>4, <1>5

\* Postprocess takes the oldest completed job and gives its slot free.
LEMMA PostprocessKeeps == ASSUME DeviceInv, Postprocess PROVE DeviceInv'
<1>0. /\ DeviceTypes /\ SlotsApart /\ PicturesOfTheirFrame /\ LifeKept
      /\ ResultsOfTheirFrame /\ BindingsKnown /\ NothingLeftBehind
      /\ UNCHANGED <<live, recorded, engine, npu, encoder, input, output, freeIn, prepared, pictures>>
      /\ completed # <<>> /\ completed' = Tail(completed)
      /\ freeOut' = freeOut \cup {Head(completed).slot}
      /\ completed \in Seq(SlotJobs(OutSlots)) /\ OneEach(completed, freeOut)
  BY DEF DeviceInv, DeviceBuffersKept, Postprocess, DeviceTypes, SlotsApart
<1>1. /\ completed' \in Seq(SlotJobs(OutSlots)) /\ OneEach(completed', freeOut')
      /\ Head(completed).slot \in OutSlots
      /\ \A n \in DOMAIN completed' : n + 1 \in DOMAIN completed /\ completed'[n] = completed[n + 1]
  BY <1>0, JobTaken DEF SlotJobs
<1>2. DeviceTypes'  BY <1>0, <1>1 DEF DeviceTypes
<1>3. SlotsApart' /\ PicturesOfTheirFrame' /\ BindingsKnown'
  BY <1>0, <1>1 DEF SlotsApart, PicturesOfTheirFrame, BindingsKnown
<1>4. ResultsOfTheirFrame'  BY <1>0, <1>1 DEF ResultsOfTheirFrame
<1>5. LifeKept' /\ NothingLeftBehind'  BY <1>0 DEF LifeKept, NothingLeftBehind
<1> QED BY <1>2, <1>3, <1>4, <1>5 DEF DeviceInv, DeviceBuffersKept

\* A binding that succeeds leaves the device with what is asked for, on record or not.
LEMMA InputBound ==
    ASSUME DeviceTypes, BindingsKnown, NEW i \in InSlots,
           NEW bi \in BindInput(i)
    PROVE  /\ bi.ok \in BOOLEAN /\ bi.input \in InSlots \cup {None}
           /\ bi.ok => bi.input = i
<1>1. npu.input \in InSlots \cup {None} /\ i # None
  BY DeviceAssumption DEF DeviceTypes, None
<1>2. CASE engine.boundIn = i
  <2>1. bi = [ok |-> TRUE, input |-> npu.input]  BY <1>2 DEF BindInput
  <2>2. bi.ok = TRUE /\ bi.input = npu.input  BY <2>1
  <2> QED BY <1>1, <1>2, <2>2 DEF BindingsKnown
<1>3. CASE engine.boundIn # i
  <2>1. \/ bi = [ok |-> TRUE, input |-> i]
        \/ \E x \in {npu.input, i} : bi = [ok |-> FALSE, input |-> x]
    BY <1>3 DEF BindInput
  <2>2. \/ bi.ok = TRUE /\ bi.input = i
        \/ bi.ok = FALSE /\ bi.input \in {npu.input, i}
    BY <2>1
  <2> QED BY <1>1, <2>2
<1> QED BY <1>2, <1>3

\* An output slot that was bound without a failure is bound for every tensor.
LEMMA OutputBound ==
    ASSUME DeviceTypes, BindingsKnown, NEW o \in OutSlots,
           NEW bo \in BindOutput(o)
    PROVE  /\ bo.ok \in BOOLEAN /\ bo.output \in [1..Tensors -> OutSlots \cup {None}]
           /\ bo.ok => \A t \in 1..Tensors : bo.output[t] = o
<1>1. npu.output \in [1..Tensors -> OutSlots \cup {None}] /\ o # None /\ Tensors \in Nat
  BY DeviceAssumption DEF DeviceTypes, None
<1>2. CASE engine.boundOut = o
  <2>1. bo = [ok |-> TRUE, output |-> npu.output]  BY <1>2 DEF BindOutput
  <2>2. bo.ok = TRUE /\ bo.output = npu.output  BY <2>1
  <2> QED BY <1>1, <1>2, <2>2 DEF BindingsKnown
<1>3. CASE engine.boundOut # o
  <2>1. PICK n \in 0..Tensors :
           bo = [ok |-> n = Tensors,
                 output |-> [t \in 1..Tensors |-> IF t <= n THEN o ELSE npu.output[t]]]
    BY <1>3 DEF BindOutput
  <2>2. /\ bo.ok = (n = Tensors)
        /\ bo.output = [t \in 1..Tensors |-> IF t <= n THEN o ELSE npu.output[t]]
    BY <2>1
  <2>3. bo.output \in [1..Tensors -> OutSlots \cup {None}]  BY <1>1, <2>2
  <2>4. bo.ok \in BOOLEAN /\ (bo.ok => n = Tensors)  BY <2>2
  <2>5. ASSUME n = Tensors, NEW t \in 1..Tensors PROVE bo.output[t] = o
    BY <1>1, <2>2, <2>5
  <2> QED BY <2>3, <2>4, <2>5
<1> QED BY <1>2, <1>3

\* The NPU computes a result from the picture of its frame, in a slot nobody reads.
LEMMA RunKeeps == ASSUME DeviceInv, Run PROVE DeviceInv'
<1> DEFINE job == Head(prepared)
           i == job.slot
<1>0. /\ DeviceTypes /\ SlotsApart /\ PicturesOfTheirFrame /\ LifeKept
      /\ ResultsOfTheirFrame /\ BindingsKnown /\ NothingLeftBehind
      /\ UNCHANGED <<live, recorded, encoder, input, pictures>>
      /\ prepared # <<>> /\ prepared' = Tail(prepared) /\ freeIn' = freeIn \cup {i}
      /\ prepared \in Seq(SlotJobs(InSlots)) /\ OneEach(prepared, freeIn)
      /\ completed \in Seq(SlotJobs(OutSlots)) /\ OneEach(completed, freeOut)
  BY DEF DeviceInv, DeviceBuffersKept, Run, DeviceTypes, SlotsApart
<1>1. /\ prepared' \in Seq(SlotJobs(InSlots)) /\ OneEach(prepared', freeIn')
      /\ job \in SlotJobs(InSlots) /\ job = prepared[1] /\ 1 \in DOMAIN prepared
      /\ \A n \in DOMAIN prepared' : n + 1 \in DOMAIN prepared /\ prepared'[n] = prepared[n + 1]
  BY <1>0, JobTaken
<1>2. i \in InSlots /\ job.frame \in Nat /\ input[i] = job.frame
  <2>1. i \in InSlots /\ job.frame \in Nat  BY <1>1 DEF SlotJobs
  <2> QED BY <1>0, <1>1, <2>1 DEF PicturesOfTheirFrame
<1>3. PICK o \in freeOut, bi \in BindInput(i), fails \in BOOLEAN :
         \E bo \in IF bi.ok THEN BindOutput(o) ELSE {[ok |-> FALSE, output |-> npu.output]} :
            LET done == bi.ok /\ bo.ok /\ ~fails
            IN  /\ IF done THEN UNCHANGED deviceFailures ELSE Failing
                /\ (fails => bi.ok /\ bo.ok)
                /\ npu' = [input |-> bi.input, output |-> bo.output]
                /\ engine' = [engine EXCEPT
                     !.boundIn = Recorded(bi.ok, @, i),
                     !.boundOut = IF bi.ok THEN Recorded(bo.ok, @, o) ELSE @]
                /\ output' = IF ~done THEN output
                             ELSE [x \in OutSlots |-> [t \in 1..Tensors |->
                                IF bo.output[t] = x /\ bi.input # None
                                THEN input[bi.input] ELSE output[x][t]]]
                /\ completed' = IF done
                                THEN Append(completed, [slot |-> o, frame |-> job.frame])
                                ELSE completed
                /\ freeOut' = IF done THEN freeOut \ {o} ELSE freeOut
                /\ freeIn' = freeIn \cup {i}
  BY DEF Run
<1>4. PICK bo \in IF bi.ok THEN BindOutput(o) ELSE {[ok |-> FALSE, output |-> npu.output]} :
         /\ npu' = [input |-> bi.input, output |-> bo.output]
         /\ engine' = [engine EXCEPT
              !.boundIn = Recorded(bi.ok, @, i),
              !.boundOut = IF bi.ok THEN Recorded(bo.ok, @, o) ELSE @]
         /\ output' = IF ~(bi.ok /\ bo.ok /\ ~fails) THEN output
                      ELSE [x \in OutSlots |-> [t \in 1..Tensors |->
                         IF bo.output[t] = x /\ bi.input # None
                         THEN input[bi.input] ELSE output[x][t]]]
         /\ completed' = IF bi.ok /\ bo.ok /\ ~fails
                         THEN Append(completed, [slot |-> o, frame |-> job.frame])
                         ELSE completed
         /\ freeOut' = IF bi.ok /\ bo.ok /\ ~fails THEN freeOut \ {o} ELSE freeOut
  BY <1>3
<1>5. /\ o \in OutSlots /\ bi.ok \in BOOLEAN /\ bi.input \in InSlots \cup {None}
      /\ bi.ok => bi.input = i
  BY <1>0, <1>2, InputBound DEF DeviceTypes
<1>6. /\ bo.ok \in BOOLEAN /\ bo.output \in [1..Tensors -> OutSlots \cup {None}]
      /\ bo.ok => bi.ok /\ \A t \in 1..Tensors : bo.output[t] = o
      /\ ~bi.ok => bo.output = npu.output
  <2>1. CASE bi.ok  BY <1>0, <1>5, <2>1, OutputBound
  <2>2. CASE ~bi.ok
    <3>1. bo = [ok |-> FALSE, output |-> npu.output]  BY <2>2
    <3>2. npu.output \in [1..Tensors -> OutSlots \cup {None}]  BY <1>0 DEF DeviceTypes
    <3> QED BY <2>2, <3>1, <3>2
  <2> QED BY <1>5, <2>1, <2>2
<1> HIDE DEF i, job
<1>7. /\ engine' \in [at : EngineStates,
                      boundIn : InSlots \cup {None}, boundOut : OutSlots \cup {None}]
      /\ engine'.at = engine.at /\ engine'.boundIn = (IF bi.ok THEN i ELSE None)
      /\ engine'.boundOut = (IF bi.ok THEN IF bo.ok THEN o ELSE None ELSE engine.boundOut)
  BY <1>0, <1>2, <1>4, <1>5, <1>6 DEF DeviceTypes, Recorded
<1>8. npu' \in [input : InSlots \cup {None}, output : [1..Tensors -> OutSlots \cup {None}]]
  BY <1>4, <1>5, <1>6
<1>9. npu'.input = bi.input /\ npu'.output = bo.output  BY <1>4
<1>10. BindingsKnown'  BY <1>0, <1>5, <1>6, <1>7, <1>9 DEF BindingsKnown
<1>11. LifeKept' /\ NothingLeftBehind'  BY <1>0, <1>7 DEF LifeKept, NothingLeftBehind
<1>12. PicturesOfTheirFrame'  BY <1>0, <1>1 DEF PicturesOfTheirFrame
<1>13. CASE ~(bi.ok /\ bo.ok /\ ~fails)
  <2>1. UNCHANGED <<output, completed, freeOut>>  BY <1>4, <1>13
  <2>2. DeviceTypes'  BY <1>0, <1>1, <1>2, <1>7, <1>8, <2>1 DEF DeviceTypes
  <2>3. SlotsApart' /\ ResultsOfTheirFrame'
    BY <1>0, <1>1, <2>1 DEF SlotsApart, ResultsOfTheirFrame
  <2> QED BY <1>10, <1>11, <1>12, <2>2, <2>3 DEF DeviceInv, DeviceBuffersKept
<1>14. CASE bi.ok /\ bo.ok /\ ~fails
  <2> DEFINE j == [slot |-> o, frame |-> job.frame]
             next == Append(completed, j)
  <2>1. j \in SlotJobs(OutSlots) /\ j.slot = o /\ j.frame = job.frame
    BY <1>2, <1>5 DEF SlotJobs
  <2>2. completed' = next /\ freeOut' = freeOut \ {o}  BY <1>4, <1>14
  <2> HIDE DEF j
  <2>3. /\ next \in Seq(SlotJobs(OutSlots)) /\ OneEach(next, freeOut \ {j.slot})
        /\ \A n \in DOMAIN next :
              \/ next[n] = j
              \/ n \in DOMAIN completed /\ next[n] = completed[n] /\ completed[n].slot # j.slot
    <3>1. j.slot \in freeOut /\ OneEach(completed, freeOut)  BY <1>0, <2>1
    <3>2. completed \in Seq(SlotJobs(OutSlots))  BY <1>0
    <3> QED BY <2>1, <3>1, <3>2, JobPlaced
  <2> HIDE DEF next
  <2>4. \A t \in 1..Tensors : bo.output[t] = o /\ bi.input = i /\ i # None
    BY <1>2, <1>5, <1>6, <1>14, DeviceAssumption DEF None
  <2>5. output' = [x \in OutSlots |-> [t \in 1..Tensors |->
                     IF x = o THEN job.frame ELSE output[x][t]]]
    BY <1>2, <1>4, <1>14, <2>4
  <2>6. output' \in [OutSlots -> [1..Tensors -> Nat]]
    BY <1>0, <1>2, <2>5 DEF DeviceTypes
  <2>7. DeviceTypes'
    <3>1. freeOut' \in SUBSET OutSlots /\ freeIn' \in SUBSET InSlots
      BY <1>0, <1>2, <2>2 DEF DeviceTypes
    <3> QED BY <1>0, <1>1, <1>7, <1>8, <2>2, <2>3, <2>6, <3>1 DEF DeviceTypes
  <2>8. SlotsApart'  BY <1>1, <2>1, <2>2, <2>3 DEF SlotsApart
  <2>9. ResultsOfTheirFrame'
    <3> SUFFICES ASSUME NEW n \in DOMAIN next, NEW t \in 1..Tensors
                 PROVE  output'[next[n].slot][t] = next[n].frame
      BY <2>2 DEF ResultsOfTheirFrame
    <3>1. CASE next[n] = j  BY <1>5, <2>1, <2>5, <3>1
    <3>2. CASE n \in DOMAIN completed /\ next[n] = completed[n] /\ completed[n].slot # j.slot
      <4>1. completed[n] \in SlotJobs(OutSlots)  BY <1>0, <3>2
      <4>2. completed[n].slot \in OutSlots /\ completed[n].slot # o
        BY <2>1, <3>2, <4>1 DEF SlotJobs
      <4> QED BY <1>0, <2>5, <3>2, <4>2 DEF ResultsOfTheirFrame
    <3> QED BY <2>3, <3>1, <3>2
  <2> QED BY <1>10, <1>11, <1>12, <2>7, <2>8, <2>9 DEF DeviceInv, DeviceBuffersKept
<1> QED BY <1>13, <1>14

\* Every step of DeviceBuffers keeps the invariant.
LEMMA DeviceStep ==
    ASSUME DeviceInv, [DeviceNext]_deviceVars PROVE DeviceInv'
<1>1. CASE UNCHANGED deviceVars
  BY <1>1 DEF deviceVars, DeviceInv, DeviceTypes, SlotsApart, PicturesOfTheirFrame, LifeKept,
     DeviceBuffersKept, ResultsOfTheirFrame, BindingsKnown, NothingLeftBehind
<1> QED BY <1>1, InitializeKeeps, RunKeeps, PostprocessKeeps, LifeSteps, PreprocessKeeps
        DEF DeviceNext

\* The invariant holds before Initialize.
LEMMA DeviceStart == ASSUME DeviceInit PROVE DeviceInv
<1>1. DeviceTypes  BY DeviceAssumption DEF DeviceInit, DeviceTypes, EngineStates
<1>2. SlotsApart /\ PicturesOfTheirFrame /\ LifeKept
  <2>1. LifeKept
    <3>1. live = {} /\ encoder = "absent" /\ engine.at = "absent"  BY DEF DeviceInit
    <3> QED BY <3>1 DEF LifeKept
  <2>2. SlotsApart /\ PicturesOfTheirFrame
    BY DEF DeviceInit, SlotsApart, OneEach, PicturesOfTheirFrame
  <2> QED BY <2>1, <2>2
<1>3. DeviceBuffersKept
  BY DEF DeviceInit, DeviceBuffersKept, ResultsOfTheirFrame, BindingsKnown,
     NothingLeftBehind
<1> QED BY <1>1, <1>2, <1>3 DEF DeviceInv

\* Results are of their frame whatever binding failed before and the engine's record of what
\* is bound is true (rknn_engine.cpp:548-611); whichever call of an initialization fails, all
\* that exists is on record, and a clean-up leaves nothing but an output memory that was
\* rejected before it was recorded (rknn_engine.cpp:398-404).
THEOREM DeviceBuffersSafe == DeviceSpec => []DeviceBuffersKept
<1>1. DeviceInit => DeviceInv  BY DeviceStart
<1>2. DeviceInv /\ [DeviceNext]_deviceVars => DeviceInv'  BY DeviceStep
<1>3. DeviceInv => DeviceBuffersKept  BY DEF DeviceInv
<1> QED BY <1>1, <1>2, <1>3, PTL DEF DeviceSpec

--------------------------------------------------------------------------------
(* The target decision follows the history. The definitions of the property  *)
(* again, as functions of a sequence of results.                              *)

Classes == {"STALE", "INVALID", "hit", "miss"}
Machines == [hits : Nat, misses : Nat, acquired : BOOLEAN, lost : BOOLEAN]

AllHitsOf(s, from, to) == \A i \in from .. to : s[i] = "hit"
NoHitsOf(s, from, to) == \A i \in from .. to : s[i] # "hit"
HeldBy(s, k, n) ==
    /\ AllHitsOf(s, k - AcquireHits + 1, k)
    /\ \A j \in k .. n - LostMisses : ~NoHitsOf(s, j + 1, j + LostMisses)
HeldOf(s, n) == \E k \in AcquireHits .. n : HeldBy(s, k, n)
WasHeldOf(s, n) == \E k \in 1 .. n : HeldOf(s, k) /\ ~HeldOf(s, n) /\ NoHitsOf(s, k + 1, n)

\* The counters are the lengths of the last runs of hits and of other results.
HitRun(m, s) ==
    /\ m.hits <= Len(s)
    /\ \A i \in Len(s) - m.hits + 1 .. Len(s) : s[i] = "hit"
    /\ m.hits < Len(s) => s[Len(s) - m.hits] # "hit"
MissRun(m, s) ==
    /\ m.misses <= Len(s)
    /\ \A i \in Len(s) - m.misses + 1 .. Len(s) : s[i] # "hit"
    /\ m.misses < Len(s) => s[Len(s) - m.misses] = "hit"

\* The counters and latches of the machine say of the history what they should.
Follows(m, s) ==
    /\ m \in Machines /\ s \in Seq(Classes)
    /\ HitRun(m, s) /\ MissRun(m, s)
    /\ m.acquired <=> HeldOf(s, Len(s))
    /\ m.lost <=> WasHeldOf(s, Len(s))

\* A run of the history is not changed by what is appended.
LEMMA RunsKept ==
    ASSUME NEW s \in Seq(Classes), NEW class \in Classes, NEW t, t = Append(s, class)
    PROVE  /\ t \in Seq(Classes) /\ Len(t) = Len(s) + 1
           /\ Len(s) \in Nat /\ t[Len(s) + 1] = class
           /\ \A i \in 1..Len(s) : t[i] = s[i]
           /\ \A a, b \in Nat : a >= 1 /\ b <= Len(s) =>
                  /\ AllHitsOf(t, a, b) <=> AllHitsOf(s, a, b)
                  /\ NoHitsOf(t, a, b) <=> NoHitsOf(s, a, b)
<1>1. /\ t \in Seq(Classes) /\ Len(t) = Len(s) + 1
      /\ Len(s) \in Nat /\ t[Len(s) + 1] = class
      /\ \A i \in 1..Len(s) : t[i] = s[i]
  OBVIOUS
<1>2. ASSUME NEW a \in Nat, NEW b \in Nat, a >= 1, b <= Len(s)
      PROVE  /\ AllHitsOf(t, a, b) <=> AllHitsOf(s, a, b)
             /\ NoHitsOf(t, a, b) <=> NoHitsOf(s, a, b)
  <2>1. \A i \in a..b : t[i] = s[i]  BY <1>1, <1>2
  <2> QED BY <2>1 DEF AllHitsOf, NoHitsOf
<1> QED BY <1>1, <1>2

\* Nor is whether the target was held at an earlier result.
LEMMA HeldKept ==
    ASSUME NEW s \in Seq(Classes), NEW class \in Classes, NEW t, t = Append(s, class)
    PROVE  \A n \in Nat : n <= Len(s) =>
               /\ \A k \in AcquireHits .. n : HeldBy(t, k, n) <=> HeldBy(s, k, n)
               /\ HeldOf(t, n) <=> HeldOf(s, n)
<1> SUFFICES ASSUME NEW n \in Nat, n <= Len(s)
             PROVE  /\ \A k \in AcquireHits .. n : HeldBy(t, k, n) <=> HeldBy(s, k, n)
                    /\ HeldOf(t, n) <=> HeldOf(s, n)
  OBVIOUS
<1>1. AcquireHits \in Nat \ {0} /\ LostMisses \in Nat \ {0} /\ Len(s) \in Nat
  BY ControlAssumption
<1>2. \A a, b \in Nat : a >= 1 /\ b <= Len(s) =>
          /\ AllHitsOf(t, a, b) <=> AllHitsOf(s, a, b)
          /\ NoHitsOf(t, a, b) <=> NoHitsOf(s, a, b)
  BY RunsKept
<1>3. ASSUME NEW k \in AcquireHits .. n
      PROVE  /\ AllHitsOf(t, k - AcquireHits + 1, k) <=> AllHitsOf(s, k - AcquireHits + 1, k)
             /\ \A j \in k .. n - LostMisses :
                    NoHitsOf(t, j + 1, j + LostMisses) <=> NoHitsOf(s, j + 1, j + LostMisses)
  <2>1. k \in Nat /\ k - AcquireHits + 1 \in Nat /\ k - AcquireHits + 1 >= 1 /\ k <= Len(s)
    BY <1>1
  <2>2. ASSUME NEW j \in k .. n - LostMisses
        PROVE  j + 1 \in Nat /\ j + LostMisses \in Nat /\ j + 1 >= 1 /\ j + LostMisses <= Len(s)
    BY <1>1, <2>1
  <2> QED BY <2>1, <2>2, <1>2
<1> QED BY <1>3 DEF HeldOf, HeldBy

\* The counters stay the lengths of the last runs.
LEMMA RunsStep ==
    ASSUME NEW s, NEW m, Follows(m, s), NEW class \in Classes,
           NEW t, t = Append(s, class), NEW r, r = ClassifyAndUpdate(m, class)
    PROVE  r \in Machines /\ HitRun(r, t) /\ MissRun(r, t)
<1> DEFINE n == Len(s)
<1>0. /\ n \in Nat /\ Len(t) = n + 1 /\ t[n + 1] = class
      /\ \A i \in 1..n : t[i] = s[i]
  BY RunsKept DEF Follows
<1>1. /\ m.hits \in Nat /\ m.misses \in Nat
      /\ m.acquired \in BOOLEAN /\ m.lost \in BOOLEAN
      /\ HitRun(m, s) /\ MissRun(m, s)
  BY DEF Follows, Machines
<1> HIDE DEF n
<1>2. CASE class = "hit"
  <2>1. r = [hits |-> m.hits + 1, misses |-> 0, lost |-> FALSE,
                    acquired |-> m.acquired \/ m.hits + 1 >= AcquireHits]
    BY <1>2 DEF ClassifyAndUpdate
  <2>2. r \in Machines /\ r.hits = m.hits + 1 /\ r.misses = 0
    BY <1>1, <2>1 DEF Machines
  <2>3. HitRun(r, t)
    <3>1. ASSUME NEW i \in (n + 1) - (m.hits + 1) + 1 .. n + 1 PROVE t[i] = "hit"
      <4>1. CASE i = n + 1  BY <1>0, <1>2, <4>1
      <4>2. CASE i # n + 1
        <5>1. i \in n - m.hits + 1 .. n /\ i \in 1..n  BY <1>0, <1>1, <4>2 DEF HitRun, n
        <5> QED BY <1>0, <1>1, <5>1 DEF HitRun, n
      <4> QED BY <4>1, <4>2
    <3>2. ASSUME m.hits + 1 < n + 1 PROVE t[(n + 1) - (m.hits + 1)] # "hit"
      <4>1. n - m.hits \in 1..n /\ (n + 1) - (m.hits + 1) = n - m.hits
        BY <1>0, <1>1, <3>2
      <4> QED BY <1>0, <1>1, <3>2, <4>1 DEF HitRun, n
    <3>3. m.hits + 1 <= n + 1  BY <1>0, <1>1 DEF HitRun, n
    <3> QED BY <1>0, <2>2, <3>1, <3>2, <3>3 DEF HitRun
  <2>4. MissRun(r, t)  BY <1>0, <1>2, <2>2 DEF MissRun
  <2> QED BY <2>2, <2>3, <2>4
<1>3. CASE class # "hit"
  <2> DEFINE loses == m.acquired /\ m.misses + 1 >= LostMisses
  <2>1. r = [hits |-> 0, misses |-> m.misses + 1,
                    acquired |-> m.acquired /\ ~loses, lost |-> m.lost \/ loses]
    BY <1>3 DEF ClassifyAndUpdate
  <2>2. r \in Machines /\ r.hits = 0 /\ r.misses = m.misses + 1
    BY <1>1, <2>1 DEF Machines
  <2>3. HitRun(r, t)  BY <1>0, <1>3, <2>2 DEF HitRun
  <2>4. MissRun(r, t)
    <3>1. ASSUME NEW i \in (n + 1) - (m.misses + 1) + 1 .. n + 1 PROVE t[i] # "hit"
      <4>1. CASE i = n + 1  BY <1>0, <1>3, <4>1
      <4>2. CASE i # n + 1
        <5>1. i \in n - m.misses + 1 .. n /\ i \in 1..n
          BY <1>0, <1>1, <4>2 DEF MissRun, n
        <5> QED BY <1>0, <1>1, <5>1 DEF MissRun, n
      <4> QED BY <4>1, <4>2
    <3>2. ASSUME m.misses + 1 < n + 1 PROVE t[(n + 1) - (m.misses + 1)] = "hit"
      <4>1. n - m.misses \in 1..n /\ (n + 1) - (m.misses + 1) = n - m.misses
        BY <1>0, <1>1, <3>2
      <4> QED BY <1>0, <1>1, <3>2, <4>1 DEF MissRun, n
    <3>3. m.misses + 1 <= n + 1  BY <1>0, <1>1 DEF MissRun, n
    <3> QED BY <1>0, <2>2, <3>1, <3>2, <3>3 DEF MissRun
  <2> QED BY <2>2, <2>3, <2>4
<1> QED BY <1>2, <1>3

\* A hit never loses the target, and acquires it with the last of AcquireHits hits in a row.
LEMMA HeldAfterHit ==
    ASSUME NEW s \in Seq(Classes), NEW m \in Machines, HitRun(m, s), NEW t, t = Append(s, "hit")
    PROVE  HeldOf(t, Len(s) + 1) <=> HeldOf(s, Len(s)) \/ m.hits + 1 >= AcquireHits
<1>0. "hit" \in Classes  BY DEF Classes
<1>1. \A k \in Nat : k <= Len(s) =>
               /\ \A i \in AcquireHits .. k : HeldBy(t, i, k) <=> HeldBy(s, i, k)
               /\ HeldOf(t, k) <=> HeldOf(s, k)
  BY <1>0, HeldKept
<1> DEFINE n == Len(s)
           A == AcquireHits
           L == LostMisses
<1>2. /\ n \in Nat /\ t[n + 1] = "hit" /\ A \in Nat \ {0} /\ L \in Nat \ {0}
      /\ \A i \in 1..n : t[i] = s[i]
      /\ m.hits \in Nat /\ HitRun(m, s)
  BY RunsKept, ControlAssumption DEF Machines, Classes
<1>3. /\ \A k \in A .. n : HeldBy(t, k, n) <=> HeldBy(s, k, n)
      /\ HeldOf(t, n) <=> HeldOf(s, n)
  BY <1>2, <1>1
<1>4. ASSUME NEW k \in A .. n, HeldBy(t, k, n)
      PROVE  HeldOf(t, n + 1)
  <2>1. ASSUME NEW j \in k .. (n + 1) - L PROVE ~NoHitsOf(t, j + 1, j + L)
    <3>1. CASE j + L <= n  BY <1>2, <1>4, <3>1 DEF HeldBy
    <3>2. CASE j + L > n
      <4>1. n + 1 \in j + 1 .. j + L  BY <1>2, <3>2
      <4> QED BY <1>2, <4>1 DEF NoHitsOf
    <3> QED BY <1>2, <3>1, <3>2
  <2>2. k \in A .. n + 1  BY <1>2
  <2> QED BY <1>4, <2>1, <2>2 DEF HeldOf, HeldBy
<1>7. ASSUME HeldOf(s, n) PROVE HeldOf(t, n + 1)
  <2>1. HeldOf(t, n)  BY <1>7, <1>3
  <2> QED BY <1>4, <2>1 DEF HeldOf
<1>8. ASSUME m.hits + 1 >= A PROVE HeldOf(t, n + 1)
  <2>1. n + 1 \in A .. n + 1  BY <1>2, <1>8 DEF HitRun
  <2>2. ASSUME NEW i \in (n + 1) - A + 1 .. n + 1 PROVE t[i] = "hit"
    <3>1. CASE i = n + 1  BY <1>2, <3>1
    <3>2. CASE i # n + 1
      <4>1. i \in n - m.hits + 1 .. n /\ i \in 1..n  BY <1>2, <1>8, <3>2 DEF HitRun
      <4> QED BY <1>2, <4>1 DEF HitRun
    <3> QED BY <3>1, <3>2
  <2>3. AllHitsOf(t, (n + 1) - A + 1, n + 1)  BY <2>2 DEF AllHitsOf
  <2>4. \A j \in n + 1 .. (n + 1) - L : FALSE  BY <1>2
  <2> QED BY <2>1, <2>3, <2>4 DEF HeldOf, HeldBy
<1>9. ASSUME HeldOf(t, n + 1), ~(m.hits + 1 >= A) PROVE HeldOf(s, n)
  <2>1. PICK k \in A .. n + 1 : HeldBy(t, k, n + 1)  BY <1>9 DEF HeldOf
  <2>2. CASE k = n + 1
    <3>1. m.hits < n /\ n - m.hits \in 1..n  BY <1>2, <1>9, <2>2
    <3>2. n - m.hits \in (n + 1) - A + 1 .. n + 1  BY <1>2, <1>9, <3>1
    <3>3. t[n - m.hits] = "hit"  BY <2>1, <2>2, <3>2 DEF AllHitsOf, HeldBy
    <3>4. s[n - m.hits] # "hit"  BY <1>2, <3>1 DEF HitRun
    <3> QED BY <1>2, <3>1, <3>3, <3>4
  <2>3. CASE k # n + 1
    <3>1. k \in A .. n  BY <1>2, <2>3
    <3>2. \A j \in k .. n - L : j \in k .. (n + 1) - L  BY <1>2
    <3>3. HeldOf(t, n)  BY <2>1, <3>1, <3>2 DEF HeldOf, HeldBy
    <3> QED BY <3>3, <1>3
  <2> QED BY <2>2, <2>3
<1> QED BY <1>7, <1>8, <1>9

\* Any other result keeps the target until LostMisses of them have come in a row.
LEMMA HeldAfterMiss ==
    ASSUME NEW s \in Seq(Classes), NEW m \in Machines, MissRun(m, s),
           NEW class \in Classes, class # "hit", NEW t, t = Append(s, class)
    PROVE  HeldOf(t, Len(s) + 1) <=> HeldOf(s, Len(s)) /\ ~(m.misses + 1 >= LostMisses)
<1>0. \A k \in Nat : k <= Len(s) =>
               /\ \A i \in AcquireHits .. k : HeldBy(t, i, k) <=> HeldBy(s, i, k)
               /\ HeldOf(t, k) <=> HeldOf(s, k)
  BY HeldKept
<1> DEFINE n == Len(s)
           A == AcquireHits
           L == LostMisses
           Row == m.misses
<1>1. /\ n \in Nat /\ t[n + 1] # "hit" /\ A \in Nat \ {0} /\ L \in Nat \ {0}
      /\ \A i \in 1..n : t[i] = s[i]
      /\ Row \in Nat /\ MissRun(m, s)
  BY RunsKept, ControlAssumption DEF Machines
<1>2. /\ \A k \in A .. n : HeldBy(t, k, n) <=> HeldBy(s, k, n)
      /\ HeldOf(t, n) <=> HeldOf(s, n)
  BY <1>1, <1>0
<1>3. ASSUME NEW k \in A .. n, HeldBy(s, k, n)
      PROVE  s[k] = "hit" /\ k <= n - Row /\ k \in 1..n
  <2>1. k \in k - A + 1 .. k /\ k \in 1..n  BY <1>1
  <2>2. s[k] = "hit"  BY <1>3, <2>1 DEF HeldBy, AllHitsOf
  <2>3. ~(k \in n - Row + 1 .. n)  BY <1>1, <2>2 DEF MissRun
  <2> QED BY <1>1, <2>1, <2>2, <2>3
<1>8. ASSUME HeldOf(s, n), ~(Row + 1 >= L) PROVE HeldOf(t, n + 1)
  <2>1. PICK k \in A .. n : HeldBy(s, k, n)  BY <1>8 DEF HeldOf
  <2>2. s[k] = "hit" /\ k <= n - Row /\ k \in 1..n  BY <1>3, <2>1
  <2>3. HeldBy(t, k, n)  BY <2>1, <1>2
  <2>4. Row < n /\ s[n - Row] = "hit" /\ n - Row \in 1..n  BY <1>1, <2>2 DEF MissRun
  <2>5. ASSUME NEW j \in k .. (n + 1) - L PROVE ~NoHitsOf(t, j + 1, j + L)
    <3>1. CASE j + L <= n  BY <1>1, <2>3, <3>1 DEF HeldBy
    <3>2. CASE j + L > n
      <4>1. n - Row \in j + 1 .. j + L  BY <1>1, <1>8, <2>4, <3>2
      <4>2. t[n - Row] = "hit"  BY <1>1, <2>4
      <4> QED BY <4>1, <4>2 DEF NoHitsOf
    <3> QED BY <1>1, <3>1, <3>2
  <2>6. k \in A .. n + 1  BY <1>1
  <2> QED BY <2>3, <2>5, <2>6 DEF HeldOf, HeldBy
<1>9. ASSUME HeldOf(t, n + 1) PROVE HeldOf(s, n) /\ ~(Row + 1 >= L)
  <2>1. PICK k \in A .. n + 1 : HeldBy(t, k, n + 1)  BY <1>9 DEF HeldOf
  <2>2. k # n + 1
    <3>1. k \in k - A + 1 .. k  BY <1>1
    <3> QED BY <1>1, <2>1, <3>1 DEF HeldBy, AllHitsOf
  <2>3. k \in A .. n  BY <1>1, <2>2
  <2>4. \A j \in k .. n - L : j \in k .. (n + 1) - L  BY <1>1
  <2>5. HeldBy(t, k, n)  BY <2>1, <2>4 DEF HeldBy
  <2>6. HeldBy(s, k, n)  BY <2>3, <2>5, <1>2
  <2>7. k <= n - Row  BY <1>3, <2>3, <2>6
  <2>8. ASSUME Row + 1 >= L PROVE FALSE
    <3>1. (n + 1) - L \in k .. (n + 1) - L  BY <1>1, <2>3, <2>7, <2>8
    <3>2. ASSUME NEW i \in ((n + 1) - L) + 1 .. ((n + 1) - L) + L PROVE t[i] # "hit"
      <4>1. i \in n + 2 - L .. n + 1  BY <1>1
      <4>2. CASE i = n + 1  BY <1>1, <4>2
      <4>3. CASE i # n + 1
        <5>1. i \in n - Row + 1 .. n /\ i \in 1..n
          BY <1>1, <2>8, <4>1, <4>3 DEF MissRun
        <5> QED BY <1>1, <5>1 DEF MissRun
      <4> QED BY <4>2, <4>3
    <3>3. NoHitsOf(t, ((n + 1) - L) + 1, ((n + 1) - L) + L)  BY <3>2 DEF NoHitsOf
    <3> QED BY <2>1, <3>1, <3>3 DEF HeldBy
  <2> QED BY <2>3, <2>6, <2>8 DEF HeldOf
<1> QED BY <1>8, <1>9

\* The target is remembered as lost until the next hit.
LEMMA LostStep ==
    ASSUME NEW s, NEW m, Follows(m, s), NEW class \in Classes, NEW t, t = Append(s, class)
    PROVE  /\ class = "hit" => ~WasHeldOf(t, Len(s) + 1)
           /\ class # "hit" => (WasHeldOf(t, Len(s) + 1) <=>
                                   m.lost \/ (m.acquired /\ m.misses + 1 >= LostMisses))
<1>0. s \in Seq(Classes)  BY DEF Follows
<1>1. \A k \in Nat : k <= Len(s) =>
               /\ \A i \in AcquireHits .. k : HeldBy(t, i, k) <=> HeldBy(s, i, k)
               /\ HeldOf(t, k) <=> HeldOf(s, k)
  BY <1>0, HeldKept
<1>2. /\ Len(s) \in Nat /\ t[Len(s) + 1] = class
      /\ \A a, b \in Nat : a >= 1 /\ b <= Len(s) =>
             /\ AllHitsOf(t, a, b) <=> AllHitsOf(s, a, b)
             /\ NoHitsOf(t, a, b) <=> NoHitsOf(s, a, b)
  BY <1>0, RunsKept
<1> DEFINE n == Len(s)
<1>3. /\ n \in Nat /\ t[n + 1] = class /\ s \in Seq(Classes) /\ m \in Machines
      /\ \A a, b \in Nat : a >= 1 /\ b <= n => (NoHitsOf(t, a, b) <=> NoHitsOf(s, a, b))
      /\ m.acquired <=> HeldOf(s, n)
      /\ m.lost <=> WasHeldOf(s, n)
      /\ \A k \in 1..n : HeldOf(t, k) <=> HeldOf(s, k)
      /\ MissRun(m, s)
  <2>1. s \in Seq(Classes) /\ m \in Machines /\ MissRun(m, s)
        /\ (m.acquired <=> HeldOf(s, n)) /\ (m.lost <=> WasHeldOf(s, n))
    BY DEF Follows
  <2>2. /\ n \in Nat /\ t[n + 1] = class
        /\ \A a, b \in Nat : a >= 1 /\ b <= n => (NoHitsOf(t, a, b) <=> NoHitsOf(s, a, b))
    BY <1>2
  <2>3. \A k \in Nat : k <= n => (HeldOf(t, k) <=> HeldOf(s, k))  BY <1>1
  <2>4. \A k \in 1..n : HeldOf(t, k) <=> HeldOf(s, k)  BY <2>2, <2>3
  <2> QED BY <2>1, <2>2, <2>4
<1>4. ASSUME class = "hit", WasHeldOf(t, n + 1) PROVE FALSE
  <2>1. PICK k \in 1 .. n + 1 : HeldOf(t, k) /\ ~HeldOf(t, n + 1) /\ NoHitsOf(t, k + 1, n + 1)
    BY <1>4 DEF WasHeldOf
  <2>2. k # n + 1  BY <2>1
  <2>3. n + 1 \in k + 1 .. n + 1  BY <1>3, <2>2
  <2> QED BY <1>3, <1>4, <2>1, <2>3 DEF NoHitsOf
<1>5. ASSUME class # "hit" PROVE HeldOf(t, n + 1) <=> HeldOf(s, n) /\ ~(m.misses + 1 >= LostMisses)
  BY <1>3, <1>5, HeldAfterMiss
<1>6. ASSUME class # "hit", WasHeldOf(t, n + 1)
      PROVE  m.lost \/ (m.acquired /\ m.misses + 1 >= LostMisses)
  <2>1. PICK k \in 1 .. n + 1 : HeldOf(t, k) /\ ~HeldOf(t, n + 1) /\ NoHitsOf(t, k + 1, n + 1)
    BY <1>6 DEF WasHeldOf
  <2>2. k # n + 1  BY <2>1
  <2>3. k \in 1..n /\ HeldOf(s, k)  BY <1>3, <2>1, <2>2
  <2>4. NoHitsOf(s, k + 1, n)
    <3>1. NoHitsOf(t, k + 1, n)
      <4>1. \A i \in k + 1 .. n : i \in k + 1 .. n + 1  BY <1>3
      <4> QED BY <2>1, <4>1 DEF NoHitsOf
    <3>2. k + 1 \in Nat /\ n \in Nat /\ k + 1 >= 1 /\ n <= n  BY <1>3
    <3> QED BY <1>3, <3>1, <3>2
  <2>5. CASE HeldOf(s, n)  BY <1>3, <1>5, <1>6, <2>1, <2>5
  <2>6. CASE ~HeldOf(s, n)
    <3>1. WasHeldOf(s, n)  BY <2>3, <2>4, <2>6 DEF WasHeldOf
    <3> QED BY <1>3, <3>1
  <2> QED BY <2>5, <2>6
<1>7. ASSUME class # "hit", NEW k \in 1..n, HeldOf(s, k), ~HeldOf(t, n + 1), NoHitsOf(s, k + 1, n)
      PROVE  WasHeldOf(t, n + 1)
  <2>1. k + 1 \in Nat /\ n \in Nat /\ k + 1 >= 1 /\ n <= n  BY <1>3
  <2>2. NoHitsOf(t, k + 1, n)  BY <1>3, <1>7, <2>1
  <2>3. \A i \in k + 1 .. n + 1 : i = n + 1 \/ i \in k + 1 .. n  BY <1>3
  <2>4. NoHitsOf(t, k + 1, n + 1)  BY <1>3, <1>7, <2>2, <2>3 DEF NoHitsOf
  <2>5. k \in 1 .. n + 1 /\ HeldOf(t, k)  BY <1>3, <1>7
  <2> QED BY <1>7, <2>4, <2>5 DEF WasHeldOf
<1>8. ASSUME class # "hit", m.lost PROVE WasHeldOf(t, n + 1)
  <2>1. PICK k \in 1 .. n : HeldOf(s, k) /\ ~HeldOf(s, n) /\ NoHitsOf(s, k + 1, n)
    BY <1>3, <1>8 DEF WasHeldOf
  <2> QED BY <1>5, <1>7, <1>8, <2>1
<1>9. ASSUME class # "hit", m.acquired, m.misses + 1 >= LostMisses PROVE WasHeldOf(t, n + 1)
  <2>1. HeldOf(s, n) /\ ~HeldOf(t, n + 1)  BY <1>3, <1>5, <1>9
  <2>2. n \in 1..n  BY <1>3, <2>1, ControlAssumption DEF HeldOf
  <2>3. NoHitsOf(s, n + 1, n)  BY <1>3 DEF NoHitsOf
  <2> QED BY <1>7, <1>9, <2>1, <2>2, <2>3
<1> QED BY <1>4, <1>6, <1>8, <1>9

\* ClassifyAndUpdate keeps the machine following the history.
LEMMA FollowsStep ==
    ASSUME NEW s, NEW m, Follows(m, s), NEW class \in Classes,
           NEW t, t = Append(s, class), NEW r, r = ClassifyAndUpdate(m, class)
    PROVE  Follows(r, t)
<1>1. /\ s \in Seq(Classes) /\ m \in Machines /\ HitRun(m, s) /\ MissRun(m, s)
      /\ m.acquired \in BOOLEAN /\ m.lost \in BOOLEAN
      /\ m.acquired <=> HeldOf(s, Len(s))
  BY DEF Follows, Machines
<1>2. r \in Machines /\ HitRun(r, t) /\ MissRun(r, t)  BY RunsStep
<1>3. t \in Seq(Classes) /\ Len(t) = Len(s) + 1  BY <1>1, RunsKept
<1>4. CASE class = "hit"
  <2>1. r.acquired = (m.acquired \/ m.hits + 1 >= AcquireHits) /\ r.lost = FALSE
    BY <1>4 DEF ClassifyAndUpdate
  <2>2. r.acquired <=> HeldOf(t, Len(t))  BY <1>1, <1>3, <1>4, <2>1, HeldAfterHit
  <2>3. r.lost <=> WasHeldOf(t, Len(t))  BY <1>3, <1>4, <2>1, LostStep
  <2> QED BY <1>2, <1>3, <2>2, <2>3 DEF Follows
<1>5. CASE class # "hit"
  <2> DEFINE loses == m.acquired /\ m.misses + 1 >= LostMisses
  <2>1. r.acquired = (m.acquired /\ ~loses) /\ r.lost = (m.lost \/ loses)
    BY <1>5 DEF ClassifyAndUpdate
  <2>2. r.acquired <=> HeldOf(t, Len(t))  BY <1>1, <1>3, <1>5, <2>1, HeldAfterMiss
  <2>3. r.lost <=> WasHeldOf(t, Len(t))  BY <1>3, <1>5, <2>1, LostStep
  <2> QED BY <1>2, <1>3, <2>2, <2>3 DEF Follows
<1> QED BY <1>4, <1>5

\* What the whole history calls for.
ExpectedOf(s, n) ==
    CASE s[n] \in {"STALE", "INVALID"} -> s[n]
      [] s[n] = "hit" -> IF HeldOf(s, n) THEN "DETECTED" ELSE "CANDIDATE"
      [] OTHER -> IF WasHeldOf(s, n) THEN "LOST" ELSE "NO_TARGET"

\* The state of a machine that follows the history is the one it calls for.
LEMMA StateFollows ==
    ASSUME NEW s, NEW m, Follows(m, s), s # <<>>
    PROVE  /\ TargetState(m, s[Len(s)]) = ExpectedOf(s, Len(s))
           /\ TargetState(m, s[Len(s)]) = "DETECTED" => s[Len(s)] = "hit" /\ HeldOf(s, Len(s))
<1>1. s \in Seq(Classes) /\ m \in Machines
      /\ (m.acquired <=> HeldOf(s, Len(s))) /\ (m.lost <=> WasHeldOf(s, Len(s)))
  BY DEF Follows
<1>2. s[Len(s)] \in Classes  BY <1>1
<1>3. m.acquired \in BOOLEAN /\ m.lost \in BOOLEAN  BY <1>1 DEF Machines
<1> DEFINE class == s[Len(s)]
<1>4. class \in {"STALE", "INVALID", "hit", "miss"}  BY <1>2 DEF Classes
<1> HIDE DEF class
<1>5. CASE class = "hit"
  <2>1. TargetState(m, class) = IF m.acquired THEN "DETECTED" ELSE "CANDIDATE"
    BY <1>5 DEF TargetState
  <2>2. ExpectedOf(s, Len(s)) = IF HeldOf(s, Len(s)) THEN "DETECTED" ELSE "CANDIDATE"
    BY <1>5 DEF ExpectedOf, class
  <2> QED BY <1>1, <1>5, <2>1, <2>2 DEF class
<1>6. CASE class = "miss"
  <2>1. TargetState(m, class) = IF m.lost THEN "LOST" ELSE "NO_TARGET"
    BY <1>6 DEF TargetState
  <2>2. ExpectedOf(s, Len(s)) = IF WasHeldOf(s, Len(s)) THEN "LOST" ELSE "NO_TARGET"
    BY <1>6 DEF ExpectedOf, class
  <2> QED BY <1>1, <2>1, <2>2 DEF class
<1>7. CASE class \in {"STALE", "INVALID"}
  <2>1. TargetState(m, class) = class  BY <1>7 DEF TargetState
  <2>2. ExpectedOf(s, Len(s)) = class  BY <1>7 DEF ExpectedOf, class
  <2> QED BY <1>7, <2>1, <2>2 DEF class
<1> QED BY <1>4, <1>5, <1>6, <1>7

\* The definitions of the property are these, of the history so far.
LEMMA HistoryIs ==
    ASSUME history \in Seq(Classes)
    PROVE  /\ ExpectedState(Len(history)) = ExpectedOf(history, Len(history))
           /\ \A n \in Nat : Held(n) <=> HeldOf(history, n)
<1>1. \A a, b : (AllHits(a, b) <=> AllHitsOf(history, a, b)) /\ (NoHits(a, b) <=> NoHitsOf(history, a, b))
  BY DEF AllHits, AllHitsOf, NoHits, NoHitsOf
<1>2. \A n : Held(n) <=> HeldOf(history, n)  BY <1>1 DEF Held, HeldOf, HeldBy
<1>3. ASSUME NEW n
      PROVE  (\E k \in 1 .. n : Held(k) /\ ~Held(n) /\ NoHits(k + 1, n)) <=> WasHeldOf(history, n)
  BY <1>1, <1>2 DEF WasHeldOf
<1>4. ExpectedState(Len(history)) = ExpectedOf(history, Len(history))
  BY <1>2, <1>3 DEF ExpectedState, ExpectedOf
<1> QED BY <1>2, <1>4

--------------------------------------------------------------------------------
(* From the decision to the frame that is sent.                             *)

TargetStates == {"none", "DETECTED", "CANDIDATE", "LOST", "NO_TARGET", "STALE", "INVALID"}
ControlFrames == [frame : Nat, state : TargetStates, valid : BOOLEAN, age : Nat]
RawPackets == [raw : {"none", "hit", "miss", "invalid"}, age : Nat, stamped : BOOLEAN]

\* A control that tells the controller to act is of a hit on a held target.
Told(s, f) == f \in 1 .. Len(s) /\ s[f] = "hit" /\ HeldOf(s, f)
ToldOf(s, c) == c.valid => Told(s, c.frame)

ControlTypes ==
    /\ stage \in {"idle", "raw", "submit"}
    /\ frames \in Nat
    /\ packet \in RawPackets /\ (stage = "raw" => packet.raw # "none")
    /\ control \in ControlFrames /\ latestControl \in ControlFrames /\ sent \in ControlFrames
ControlOrder ==
    /\ frames = Len(history) + (IF stage = "raw" THEN 1 ELSE 0)
    /\ stage = "submit" =>
           /\ control.frame = frames /\ frames > 0 /\ ToldOf(history, control)
           /\ control.state = ExpectedOf(history, Len(history))
           /\ latestControl.frame < frames /\ sent.frame < frames
    /\ latestControl.frame <= Len(history) /\ ToldOf(history, latestControl)
    /\ latestControl # NoControl => latestControl.frame > sent.frame
    /\ sent.frame <= Len(history) /\ ToldOf(history, sent)
    /\ sent.valid => sent.age <= ControlMaxAge
TargetInv == Follows(machine, history) /\ ControlTypes /\ ControlOrder

\* The invariant holds before the first result.
LEMMA ControlStarts == ControlInit => TargetInv
<1> SUFFICES ASSUME ControlInit PROVE TargetInv  OBVIOUS
<1>1. /\ history = <<>> /\ Len(history) = 0 /\ history \in Seq(Classes)
      /\ machine = [hits |-> 0, misses |-> 0, acquired |-> FALSE, lost |-> FALSE]
  BY DEF ControlInit
<1>2. ~HeldOf(history, 0) /\ ~WasHeldOf(history, 0)
  BY ControlAssumption DEF HeldOf, WasHeldOf
<1>3. Follows(machine, history)  BY <1>1, <1>2 DEF Follows, Machines, HitRun, MissRun
<1>4. NoControl \in ControlFrames /\ NoPacket \in RawPackets
      /\ NoControl.frame = 0 /\ NoControl.valid = FALSE
  BY DEF NoControl, NoPacket, ControlFrames, RawPackets, TargetStates
<1>5. ControlTypes  BY <1>4 DEF ControlInit, ControlTypes
<1>6. ControlOrder  BY <1>1, <1>4 DEF ControlInit, ControlOrder, ToldOf
<1> QED BY <1>3, <1>5, <1>6 DEF TargetInv

\* What was told stays true of the longer history.
LEMMA ToldKept ==
    ASSUME NEW s \in Seq(Classes), NEW class \in Classes, NEW t, t = Append(s, class)
    PROVE  \A c \in ControlFrames : ToldOf(s, c) => ToldOf(t, c)
<1>1. /\ Len(t) = Len(s) + 1 /\ Len(s) \in Nat
      /\ \A i \in 1..Len(s) : t[i] = s[i]
  BY RunsKept
<1>2. \A n \in Nat : n <= Len(s) =>
               /\ \A k \in AcquireHits .. n : HeldBy(t, k, n) <=> HeldBy(s, k, n)
               /\ HeldOf(t, n) <=> HeldOf(s, n)
  BY HeldKept
<1>3. ASSUME NEW f, Told(s, f) PROVE Told(t, f)
  <2>1. f \in Nat /\ f <= Len(s) /\ f \in 1 .. Len(t) /\ f \in 1 .. Len(s)
    BY <1>1, <1>3 DEF Told
  <2> QED BY <1>1, <1>2, <1>3, <2>1 DEF Told
<1> QED BY <1>3 DEF ToldOf

\* The clock changes ages alone, and not those of what was sent.
LEMMA ClockStep == ASSUME TargetInv, ClockTicks PROVE TargetInv'
<1>1. /\ frames' = frames /\ stage' = stage /\ machine' = machine /\ history' = history
      /\ control' = control /\ sent' = sent
  BY DEF ClockTicks
<1>2. packet' \in RawPackets /\ packet'.raw = packet.raw
  <2>1. packet \in RawPackets /\ (packet' = packet \/ packet' = [packet EXCEPT !.age = @ + 1])
    BY DEF ClockTicks, TargetInv, ControlTypes
  <2> QED BY <2>1 DEF RawPackets
<1>3. /\ latestControl' \in ControlFrames /\ latestControl'.frame = latestControl.frame
      /\ latestControl'.valid = latestControl.valid
      /\ latestControl' # NoControl => latestControl # NoControl
  <2>1. /\ latestControl \in ControlFrames
        /\ \/ latestControl' = latestControl
           \/ latestControl # NoControl /\ latestControl' = [latestControl EXCEPT !.age = @ + 1]
    BY DEF ClockTicks, TargetInv, ControlTypes
  <2> QED BY <2>1 DEF ControlFrames
<1>4. Follows(machine, history)'  BY <1>1 DEF TargetInv
<1>5. ControlTypes'  BY <1>1, <1>2, <1>3 DEF TargetInv, ControlTypes
<1>6. ControlOrder'  BY <1>1, <1>3 DEF TargetInv, ControlOrder, ToldOf
<1> QED BY <1>4, <1>5, <1>6 DEF TargetInv

\* A result makes the history longer by one, and the counters with it.
LEMMA ObserveStep ==
    ASSUME TargetInv, NEW raw \in {"hit", "miss", "invalid"}, NEW stamped \in BOOLEAN,
           Observe(raw, stamped)
    PROVE  TargetInv'
<1>1. /\ stage = "idle" /\ frames' = frames + 1 /\ stage' = "raw"
      /\ packet' = [raw |-> raw, age |-> 0, stamped |-> stamped]
      /\ machine' = machine /\ history' = history /\ control' = control
      /\ latestControl' = latestControl /\ sent' = sent
  BY DEF Observe
<1>2. Follows(machine, history)'  BY <1>1 DEF TargetInv
<1>3. packet' \in RawPackets /\ packet'.raw # "none"  BY <1>1 DEF RawPackets
<1>4. ControlTypes'  BY <1>1, <1>3 DEF TargetInv, ControlTypes
<1>5. Len(history) \in Nat  BY DEF TargetInv, Follows
<1>6. ControlOrder'  BY <1>1, <1>5 DEF TargetInv, ControlOrder, ToldOf
<1> QED BY <1>2, <1>4, <1>6 DEF TargetInv

\* Decide publishes what the history calls for.
LEMMA DecideStep == ASSUME TargetInv, Decide PROVE TargetInv'
<1> DEFINE class == Class(packet)
           m == ClassifyAndUpdate(machine, class)
           state == TargetState(m, class)
<1>1. /\ stage = "raw" /\ stage' = "submit" /\ machine' = m /\ history' = Append(history, class)
      /\ control' = [frame |-> frames, state |-> state, valid |-> state = "DETECTED", age |-> 0]
      /\ frames' = frames /\ packet' = packet /\ latestControl' = latestControl /\ sent' = sent
  BY DEF Decide
<1>2. class \in Classes  BY <1>1 DEF Class, Classes, TargetInv, ControlTypes, RawPackets
<1> HIDE DEF class
<1>3. Follows(machine, history) /\ history \in Seq(Classes) /\ Len(history) \in Nat
  BY DEF TargetInv, Follows
<1>4. Follows(m, history')  BY <1>1, <1>2, <1>3, FollowsStep
<1>5. /\ Len(history') = Len(history) + 1 /\ history'[Len(history) + 1] = class
      /\ history' # <<>> /\ history'[Len(history')] = class
  BY <1>1, <1>2, <1>3
<1> HIDE DEF m
<1>6. /\ state = ExpectedOf(history', Len(history'))
      /\ state = "DETECTED" => Told(history', Len(history'))
  <2>1. /\ state = ExpectedOf(history', Len(history'))
        /\ state = "DETECTED" => class = "hit" /\ HeldOf(history', Len(history'))
    BY <1>4, <1>5, StateFollows
  <2>2. Len(history') \in 1 .. Len(history')  BY <1>3, <1>5
  <2> QED BY <1>5, <2>1, <2>2 DEF Told
<1>7. state \in TargetStates
  <2>1. class \in {"STALE", "INVALID", "hit", "miss"}  BY <1>2 DEF Classes
  <2> QED BY <2>1 DEF TargetState, TargetStates
<1> HIDE DEF state
<1>8. control' \in ControlFrames
  BY <1>1, <1>7 DEF ControlFrames, TargetInv, ControlTypes
<1>9. ControlTypes'  BY <1>1, <1>8 DEF TargetInv, ControlTypes
<1>10. ToldOf(history', latestControl) /\ ToldOf(history', sent)
  <2>1. \A c \in ControlFrames : ToldOf(history, c) => ToldOf(history', c)
    BY <1>1, <1>2, <1>3, ToldKept
  <2> QED BY <2>1 DEF TargetInv, ControlTypes, ControlOrder
<1>11. frames = Len(history') /\ frames > 0
  BY <1>1, <1>3, <1>5 DEF TargetInv, ControlOrder
<1>12. /\ control'.frame = Len(history') /\ ToldOf(history', control')
       /\ control'.state = ExpectedOf(history', Len(history'))
  BY <1>1, <1>6, <1>11 DEF ToldOf
<1>13. /\ latestControl.frame \in Nat /\ sent.frame \in Nat
       /\ latestControl.frame <= Len(history) /\ sent.frame <= Len(history)
  BY DEF TargetInv, ControlTypes, ControlOrder, ControlFrames
<1>14. latestControl.frame < Len(history') /\ sent.frame < Len(history')
  BY <1>3, <1>5, <1>13
<1>15. ControlOrder'
  BY <1>1, <1>3, <1>10, <1>11, <1>12, <1>13, <1>14, <1>5 DEF TargetInv, ControlOrder
<1>16. Follows(machine, history)'  BY <1>1, <1>4
<1> QED BY <1>9, <1>15, <1>16 DEF TargetInv

\* Submit puts into the mailbox a later frame than was sent.
LEMMA SubmitStep == ASSUME TargetInv, Submit PROVE TargetInv'
<1>1. /\ stage = "submit" /\ stage' = "idle" /\ frames' = frames
      /\ latestControl' = [MapControlResult(control) EXCEPT !.age = packet.age]
      /\ control' = NoControl /\ packet' = NoPacket
      /\ machine' = machine /\ history' = history /\ sent' = sent
  BY DEF Submit
<1>2. control \in ControlFrames /\ packet.age \in Nat
  BY DEF TargetInv, ControlTypes, RawPackets
<1>3. /\ latestControl' \in ControlFrames /\ latestControl'.frame = control.frame
      /\ latestControl'.valid => control.valid
  BY <1>1, <1>2 DEF MapControlResult, ControlFrames
<1>4. NoControl \in ControlFrames /\ NoPacket \in RawPackets
  BY DEF NoControl, NoPacket, ControlFrames, RawPackets, TargetStates
<1>5. ControlTypes'  BY <1>1, <1>3, <1>4 DEF TargetInv, ControlTypes
<1>6. /\ control.frame = frames /\ frames = Len(history) /\ ToldOf(history, control)
      /\ sent.frame < frames /\ Len(history) \in Nat
  BY <1>1 DEF TargetInv, ControlOrder, Follows
<1>7. ToldOf(history, latestControl')  BY <1>3, <1>6 DEF ToldOf
<1>8. ControlOrder'  BY <1>1, <1>3, <1>6, <1>7 DEF TargetInv, ControlOrder
<1>9. Follows(machine, history)'  BY <1>1 DEF TargetInv
<1> QED BY <1>5, <1>8, <1>9 DEF TargetInv

\* What is transmitted was in the mailbox and is taken out of it.
LEMMA TransmitStep == ASSUME TargetInv, TransmitControl PROVE TargetInv'
<1>1. /\ latestControl # NoControl /\ latestControl' = NoControl
      /\ sent' = [latestControl EXCEPT !.valid = @ /\ latestControl.age <= ControlMaxAge]
      /\ frames' = frames /\ packet' = packet /\ stage' = stage
      /\ machine' = machine /\ history' = history /\ control' = control
  BY DEF TransmitControl
<1>2. latestControl \in ControlFrames  BY DEF TargetInv, ControlTypes
<1>3. /\ sent' \in ControlFrames /\ sent'.frame = latestControl.frame
      /\ sent'.valid => latestControl.valid /\ sent'.age <= ControlMaxAge
  BY <1>1, <1>2 DEF ControlFrames
<1>4. NoControl \in ControlFrames /\ NoControl.frame = 0 /\ NoControl.valid = FALSE
  BY DEF NoControl, ControlFrames, TargetStates
<1>5. ControlTypes'  BY <1>1, <1>3, <1>4 DEF TargetInv, ControlTypes
<1>6. ToldOf(history, sent') /\ ToldOf(history, NoControl)
  BY <1>3, <1>4 DEF TargetInv, ControlOrder, ToldOf
<1>7. Len(history) \in Nat  BY DEF TargetInv, Follows
<1>8. ControlOrder'  BY <1>1, <1>3, <1>4, <1>6, <1>7 DEF TargetInv, ControlOrder
<1>9. Follows(machine, history)'  BY <1>1 DEF TargetInv
<1> QED BY <1>5, <1>8, <1>9 DEF TargetInv

\* A cleared mailbox tells the controller nothing.
LEMMA ClearedStep == ASSUME TargetInv, MailboxCleared PROVE TargetInv'
<1>1. /\ latestControl' = NoControl /\ sent' = sent
      /\ frames' = frames /\ packet' = packet /\ stage' = stage
      /\ machine' = machine /\ history' = history /\ control' = control
  BY DEF MailboxCleared
<1>2. NoControl \in ControlFrames /\ NoControl.frame = 0 /\ NoControl.valid = FALSE
  BY DEF NoControl, ControlFrames, TargetStates
<1>3. ControlTypes'  BY <1>1, <1>2 DEF TargetInv, ControlTypes
<1>4. Len(history) \in Nat  BY DEF TargetInv, Follows
<1>5. ControlOrder'  BY <1>1, <1>2, <1>4 DEF TargetInv, ControlOrder, ToldOf
<1>6. Follows(machine, history)'  BY <1>1 DEF TargetInv
<1> QED BY <1>3, <1>5, <1>6 DEF TargetInv

\* Every step of TargetControl keeps the invariant.
LEMMA ControlStep == TargetInv /\ [ControlNext]_controlPathVars => TargetInv'
<1> SUFFICES ASSUME TargetInv, [ControlNext]_controlPathVars PROVE TargetInv'  OBVIOUS
<1>1. CASE UNCHANGED controlPathVars
  BY <1>1 DEF controlPathVars, TargetInv, ControlTypes, ControlOrder
<1>2. CASE ClockTicks  BY <1>2, ClockStep
<1>3. ASSUME NEW raw \in {"hit", "miss", "invalid"}, Observe(raw, TRUE) PROVE TargetInv'
  BY <1>3, ObserveStep
<1>4. CASE Observe("hit", FALSE)  BY <1>4, ObserveStep
<1>5. CASE Decide  BY <1>5, DecideStep
<1>6. CASE Submit  BY <1>6, SubmitStep
<1>7. CASE TransmitControl  BY <1>7, TransmitStep
<1>8. CASE MailboxCleared  BY <1>8, ClearedStep
<1> QED BY <1>1, <1>2, <1>3, <1>4, <1>5, <1>6, <1>7, <1>8 DEF ControlNext

\* The invariant implies the property.
LEMMA TargetKept == TargetInv => TargetControlKept
<1> SUFFICES ASSUME TargetInv PROVE TargetControlKept  OBVIOUS
<1>1. history \in Seq(Classes)  BY DEF TargetInv, Follows
<1>2. /\ ExpectedState(Len(history)) = ExpectedOf(history, Len(history))
      /\ \A n \in Nat : Held(n) <=> HeldOf(history, n)
  BY <1>1, HistoryIs
<1>3. DecisionFollowsHistory
  BY <1>2 DEF DecisionFollowsHistory, TargetInv, ControlOrder
<1>4. OnlyFreshTargetsSent
  <2>1. ASSUME sent.valid
        PROVE  sent.age <= ControlMaxAge /\ history[sent.frame] = "hit" /\ Held(sent.frame)
    <3>1. sent.frame \in Nat /\ sent.age <= ControlMaxAge
      BY <2>1 DEF TargetInv, ControlTypes, ControlOrder, ControlFrames
    <3>2. history[sent.frame] = "hit" /\ HeldOf(history, sent.frame)
      BY <2>1 DEF TargetInv, ControlOrder, ToldOf, Told
    <3> QED BY <1>2, <3>1, <3>2
  <2> QED BY <2>1 DEF OnlyFreshTargetsSent, TargetInv, ControlOrder
<1> QED BY <1>3, <1>4 DEF TargetControlKept

\* TargetStateMachine publishes the state that the whole history of results calls for, and a
\* control frame that tells the controller to act is of a fresh hit on a held target, sent
\* once and in capture order (target_state_machine.cpp:48-184, uart_link.cpp:1205-1250).
THEOREM TargetDecisionFollows == ControlSpec => []TargetControlKept
<1>1. ControlInit => TargetInv  BY ControlStarts
<1>2. TargetInv /\ [ControlNext]_controlPathVars => TargetInv'  BY ControlStep
<1>3. TargetInv => TargetControlKept  BY TargetKept
<1> QED BY <1>1, <1>2, <1>3, PTL DEF ControlSpec

--------------------------------------------------------------------------------
(* The order in which the runtime is stopped.                               *)

Phases == {"build", "loop", "drain", "verdict", "unwind", "done"}
ThreadOwners == Threaded \cup {"pipeline"}
MayFail == ThreadOwners \cup {"mp4"}

\* The components drained before step n, and the step after which each one's
\* snapshot is taken.
DrainedBefore(n) == {DrainOrder[i] : i \in 1 .. n - 1}
SnapshotStep(c) ==
    CASE c \in {"encode", "sink"} -> 4
      [] c = "mp4" -> 5
      [] c = "net" -> 6
      [] c \in {"telemetry", "capture", "pipeline"} -> 7
      [] c = "uart" -> 8
      [] OTHER -> 10

RuntimeTypes ==
    /\ phase \in Phases /\ at \in Nat
    /\ threads \subseteq ThreadOwners
    /\ verdict \in {"none", "PASS", "FAIL", "FAULT"}
    /\ phase \in {"drain", "verdict"} => healthOn = FALSE
    /\ phase \in {"build", "loop", "drain"} => built \subseteq Wanted
    /\ phase \in {"build", "loop", "drain", "verdict"} =>
           verdict = "none" /\ failed \subseteq MayFail
    /\ phase \in {"build", "loop"} => released = {}

\* What the drain has stopped so far, and what it has looked at.
DrainedInOrder ==
    /\ phase = "drain" =>
           /\ at \in 1 .. 10
           /\ threads \cap DrainedBefore(at) = {}
           /\ released \subseteq DrainedBefore(at)
           /\ at > 8 => "uartSnapshot" \in released
           /\ (at > 5 /\ "mp4" \in built) => "mp4" \in released
           /\ \A c \in failed : SnapshotStep(c) < at => c \in seen \cup late
    /\ phase = "verdict" => threads = {} /\ failed \subseteq seen \cup late
    /\ (phase \in {"unwind", "done"} /\ verdict # "FAULT") => threads = {}
    /\ verdict = "PASS" => failed \subseteq late
RuntimeInv == RuntimeTypes /\ DrainedInOrder

\* The ten steps of the drain.
LEMMA DrainIs ==
    /\ Len(DrainOrder) = 10
    /\ DrainOrder[1] = "pipeline" /\ DrainOrder[2] = "capture" /\ DrainOrder[3] = "encode"
    /\ DrainOrder[4] = "sink" /\ DrainOrder[5] = "mp4" /\ DrainOrder[6] = "net"
    /\ DrainOrder[7] = "telemetry" /\ DrainOrder[8] = "uartSnapshot"
    /\ DrainOrder[9] = "uart" /\ DrainOrder[10] = "supervisor"
  BY DEF DrainOrder

\* What is drained before a step, and what before the next.
LEMMA DrainSteps ==
    \A n \in 1..10 : /\ n = 1 => DrainedBefore(n) = {}
                     /\ DrainedBefore(n + 1) = DrainedBefore(n) \cup {DrainOrder[n]}
  BY DEF DrainedBefore

\* Every thread is stopped by one of them, no later than its snapshot but for the UART's.
LEMMA AllStopped ==
    /\ \A t \in ThreadOwners : t \in DrainedBefore(11)
    /\ \A t \in ThreadOwners \ {"uart"}, n \in 1..10 :
           SnapshotStep(t) < n => t \in DrainedBefore(n)
<1>1. ThreadOwners = {"supervisor", "uart", "telemetry", "encode", "net", "sink", "capture", "pipeline"}
  BY DEF ThreadOwners, Threaded
<1>2. /\ SnapshotStep("supervisor") = 10 /\ SnapshotStep("telemetry") = 7
      /\ SnapshotStep("encode") = 4 /\ SnapshotStep("net") = 6 /\ SnapshotStep("sink") = 4
      /\ SnapshotStep("capture") = 7 /\ SnapshotStep("pipeline") = 7
  BY DEF SnapshotStep
<1>3. \A n \in 1..11 : \A i \in 1 .. n - 1 : DrainOrder[i] \in DrainedBefore(n)
  BY DEF DrainedBefore
<1>4. ASSUME NEW n \in 1..11
      PROVE  /\ n > 1 => "pipeline" \in DrainedBefore(n)
             /\ n > 2 => "capture" \in DrainedBefore(n)
             /\ n > 3 => "encode" \in DrainedBefore(n)
             /\ n > 4 => "sink" \in DrainedBefore(n)
             /\ n > 6 => "net" \in DrainedBefore(n)
             /\ n > 7 => "telemetry" \in DrainedBefore(n)
             /\ n > 9 => "uart" \in DrainedBefore(n)
             /\ n > 10 => "supervisor" \in DrainedBefore(n)
  BY <1>3, DrainIs
<1>5. \A t \in ThreadOwners : t \in DrainedBefore(11)  BY <1>1, <1>4
<1>6. ASSUME NEW t \in ThreadOwners \ {"uart"}, NEW n \in 1..10, SnapshotStep(t) < n
      PROVE  t \in DrainedBefore(n)
  BY <1>1, <1>2, <1>4, <1>6
<1> QED BY <1>5, <1>6

\* The snapshot of a component is taken in its step.
LEMMA SnapshotsTaken ==
    \A c \in MayFail, n \in 1..10 :
        (SnapshotStep(c) = n /\ c # "supervisor") => c \in SnapshotAfter(DrainOrder[n])
<1>1. MayFail = {"supervisor", "uart", "telemetry", "encode", "net", "sink", "capture", "pipeline", "mp4"}
  BY DEF MayFail, ThreadOwners, Threaded
<1>2. /\ SnapshotStep("mp4") = 5 /\ SnapshotStep("telemetry") = 7 /\ SnapshotStep("uart") = 8
      /\ SnapshotStep("encode") = 4 /\ SnapshotStep("net") = 6 /\ SnapshotStep("sink") = 4
      /\ SnapshotStep("capture") = 7 /\ SnapshotStep("pipeline") = 7
  BY DEF SnapshotStep
<1>3. /\ SnapshotAfter("sink") = {"encode", "sink"} /\ SnapshotAfter("mp4") = {"mp4"}
      /\ SnapshotAfter("net") = {"net"} /\ SnapshotAfter("uartSnapshot") = {"uart"}
      /\ SnapshotAfter("telemetry") = {"telemetry", "capture", "pipeline"}
  BY DEF SnapshotAfter
<1>4. ASSUME NEW c \in MayFail, c # "supervisor"
      PROVE  SnapshotStep(c) \in 1..10 /\ c \in SnapshotAfter(DrainOrder[SnapshotStep(c)])
  BY <1>1, <1>2, <1>3, <1>4, DrainIs
<1> QED BY <1>4

\* Every snapshot is taken at a step of the drain, the supervisor's alone at the last.
LEMMA SnapshotAt ==
    /\ \A c : SnapshotStep(c) \in 1..10
    /\ \A c \in MayFail : SnapshotStep(c) = 10 => c = "supervisor"
<1>1. MayFail = {"supervisor", "uart", "telemetry", "encode", "net", "sink", "capture", "pipeline", "mp4"}
  BY DEF MayFail, ThreadOwners, Threaded
<1> QED BY <1>1 DEF SnapshotStep

\* What was drained is not in the use of a thread that still runs.
LEMMA DrainKeepsOrder == ASSUME RuntimeInv, phase = "drain" PROVE DrainOrderKept
<1>1. /\ at \in 1..10 /\ threads \cap DrainedBefore(at) = {} /\ released \subseteq DrainedBefore(at)
      /\ threads \subseteq ThreadOwners /\ healthOn = FALSE
  BY DEF RuntimeInv, RuntimeTypes, DrainedInOrder
<1>2. ASSUME NEW o \in released
      PROVE  \E i \in 1 .. at - 1 : o = DrainOrder[i]
  BY <1>1, <1>2 DEF DrainedBefore
<1>3. ASSUME NEW t \in threads, NEW i \in 1 .. at - 1 PROVE t # DrainOrder[i]
  BY <1>1, <1>3 DEF DrainedBefore
<1>4. ASSUME NEW t \in threads, NEW o \in released PROVE o \notin Uses(t)
  <2>1. PICK i \in 1 .. at - 1 : o = DrainOrder[i]  BY <1>2
  <2>2. i \in 1..9 /\ i < at  BY <1>1
  <2>3. o \in {"pipeline", "capture", "encode", "sink", "mp4", "net", "telemetry",
               "uartSnapshot", "uart"}
    BY <2>1, <2>2, DrainIs
  <2>4. t # "pipeline"
    <3>1. 1 \in 1 .. at - 1  BY <1>1, <2>2
    <3> QED BY <1>3, <3>1, DrainIs
  <2>5. t = "sink" => o \notin {"mp4", "net"}
    <3>1. CASE at > 4
      <4>1. 4 \in 1 .. at - 1  BY <1>1, <3>1
      <4> QED BY <1>3, <4>1, DrainIs
    <3>2. CASE at <= 4
      <4>1. i \in 1..3  BY <1>1, <2>2, <3>2
      <4> QED BY <2>1, <4>1, DrainIs
    <3> QED BY <1>1, <3>1, <3>2
  <2>6. t \in {"supervisor", "uart", "telemetry", "encode", "net", "sink", "capture"}
    BY <1>1, <2>4 DEF ThreadOwners, Threaded
  <2>7. CASE t = "sink"
    <3>1. Uses(t) \subseteq {"encoded", "mp4", "net", "fanoutAudio"}
      BY <2>7 DEF Uses, Muxers
    <3> QED BY <2>3, <2>5, <2>7, <3>1
  <2>8. CASE t \in {"encode", "capture"}
    <3>1. Uses(t) \subseteq {"pcm", "encoded", "clock"}  BY <2>8 DEF Uses
    <3> QED BY <2>3, <3>1
  <2>9. CASE t \in {"supervisor", "uart", "telemetry", "net"}
    <3>1. Uses(t) = {}  BY <1>1, <2>9 DEF Uses
    <3> QED BY <3>1
  <2> QED BY <2>6, <2>7, <2>8, <2>9
<1> QED BY <1>4 DEF DrainOrderKept

\* The invariant implies the property.
LEMMA RuntimeKept == RuntimeInv => RuntimeAppKept
<1> SUFFICES ASSUME RuntimeInv PROVE RuntimeAppKept  OBVIOUS
<1>1. phase \in {"build", "loop", "drain", "verdict", "unwind", "done"}
  BY DEF RuntimeInv, RuntimeTypes, Phases
<1>2. CASE phase \in {"build", "loop"}
  BY <1>2 DEF RuntimeInv, RuntimeTypes, DrainOrderKept, RuntimeAppKept
<1>3. CASE phase = "drain"
  BY <1>3, DrainKeepsOrder DEF RuntimeInv, DrainedInOrder, RuntimeAppKept
<1>4. CASE phase \in {"verdict", "unwind", "done"}
  BY <1>4 DEF RuntimeInv, DrainedInOrder, DrainOrderKept, RuntimeAppKept
<1> QED BY <1>1, <1>2, <1>3, <1>4

\* The invariant holds before the first object is built.
LEMMA RuntimeStarts == RuntimeInit => RuntimeInv
  BY DEF RuntimeInit, RuntimeInv, RuntimeTypes, DrainedInOrder, Phases

\* An object that is not wanted is passed over.
LEMMA SkipStep == ASSUME RuntimeInv, SkipUnwanted PROVE RuntimeInv'
<1>1. /\ phase = "build" /\ at' = at + 1
      /\ UNCHANGED <<options, phase, built, threads, released, attached, healthOn, failed,
                     stop, seen, late, ending, verdict>>
  BY DEF SkipUnwanted, Building
<1>2. Wanted' = Wanted  BY <1>1 DEF Wanted, Muxers
<1> QED BY <1>1, <1>2 DEF RuntimeInv, RuntimeTypes, DrainedInOrder

\* What is built is built in its turn.
LEMMA BuildStep == ASSUME RuntimeInv, NEW o, Build(o) PROVE RuntimeInv'
<1>1. /\ phase = "build" /\ o \in Wanted
      /\ built' = built \cup ({o} \ {"start"})
      /\ phase' \in {"build", "loop"} /\ at' \in Nat
      /\ threads' \subseteq threads \cup ({o} \cap Threaded) \cup {"pipeline"}
      /\ UNCHANGED <<options, released, failed, stop, late, ending, verdict>>
  BY DEF Build, Building, RuntimeInv, RuntimeTypes
<1>2. Wanted' = Wanted  BY <1>1 DEF Wanted, Muxers
<1>3. threads' \subseteq ThreadOwners
  BY <1>1 DEF RuntimeInv, RuntimeTypes, ThreadOwners
<1> QED BY <1>1, <1>2, <1>3 DEF RuntimeInv, RuntimeTypes, DrainedInOrder, Phases

\* A constructor or Start that throws unwinds what was built.
LEMMA ThrowsStep == ASSUME RuntimeInv, NEW o, Throws(o) PROVE RuntimeInv'
<1>1. /\ phase' = "unwind" /\ at' = Len(Declaration) /\ verdict' = "FAULT" /\ threads' = threads
  BY DEF Throws
<1>2. Len(Declaration) \in Nat  BY DEF Declaration
<1> QED BY <1>1, <1>2 DEF RuntimeInv, RuntimeTypes, DrainedInOrder, Phases

\* A signal stops nothing by itself.
LEMMA SignalStep == ASSUME RuntimeInv, Signal PROVE RuntimeInv'
<1>1. /\ phase \in {"build", "loop"}
      /\ UNCHANGED <<options, phase, at, built, threads, released, failed, seen, late, verdict>>
  BY DEF Signal
<1>2. Wanted' = Wanted  BY <1>1 DEF Wanted, Muxers
<1> QED BY <1>1, <1>2 DEF RuntimeInv, RuntimeTypes, DrainedInOrder

\* A component whose snapshot has been taken does not fail any more, but for the UART,
\* whose failure then is late.
LEMMA FailStep == ASSUME RuntimeInv, NEW c \in MayFail, ComponentFails(c) PROVE RuntimeInv'
<1>1. /\ phase \in {"build", "loop", "drain"} /\ c \in Active \ failed
      /\ failed' = failed \cup {c}
      /\ late' = IF SnapshotTaken(c) THEN late \cup {c} ELSE late
      /\ threads' = threads \/ threads' = threads \ {c}
      /\ (healthOn' = healthOn) \/ (healthOn' = FALSE)
      /\ UNCHANGED <<options, phase, at, built, released, attached, seen, ending, verdict>>
  BY DEF ComponentFails
<1>2. threads' \subseteq threads  BY <1>1
<1>3. Wanted' = Wanted  BY <1>1 DEF Wanted, Muxers
<1>4. RuntimeTypes'  BY <1>1, <1>3, <1>2 DEF RuntimeInv, RuntimeTypes
<1>5. CASE phase # "drain"
  BY <1>1, <1>4, <1>5, <1>2 DEF RuntimeInv, RuntimeTypes, DrainedInOrder
<1>6. CASE phase = "drain"
  <2>1. /\ at \in 1..10 /\ threads \cap DrainedBefore(at) = {}
        /\ released \subseteq DrainedBefore(at)
        /\ at > 8 => "uartSnapshot" \in released
        /\ (at > 5 /\ "mp4" \in built) => "mp4" \in released
        /\ \A f \in failed : SnapshotStep(f) < at => f \in seen \cup late
        /\ threads \subseteq ThreadOwners
    BY <1>6 DEF RuntimeInv, RuntimeTypes, DrainedInOrder
  <2>2. ASSUME SnapshotStep(c) < at PROVE c \in seen' \cup late'
    <3>1. CASE c = "mp4"
      <4>1. SnapshotStep(c) = 5  BY <3>1 DEF SnapshotStep
      <4>2. "mp4" \notin ThreadOwners  BY DEF ThreadOwners, Threaded
      <4> QED BY <1>1, <2>1, <2>2, <3>1, <4>1, <4>2 DEF Active
    <3>2. CASE c = "uart"
      <4>1. SnapshotStep(c) = 8  BY <3>2 DEF SnapshotStep
      <4>2. SnapshotTaken(c)  BY <2>1, <2>2, <3>2, <4>1 DEF SnapshotTaken
      <4> QED BY <1>1, <4>2
    <3>3. CASE c \notin {"mp4", "uart"}
      <4>1. c \in threads /\ c \in ThreadOwners \ {"uart"}
        BY <1>1, <2>1, <3>3 DEF Active
      <4>2. c \in DrainedBefore(at)  BY <2>1, <2>2, <4>1, AllStopped
      <4> QED BY <2>1, <4>1, <4>2
    <3> QED BY <3>1, <3>2, <3>3
  <2>3. late \subseteq late'  BY <1>1
  <2>4. \A f \in failed' : SnapshotStep(f) < at => f \in seen' \cup late'
    BY <1>1, <2>1, <2>2, <2>3
  <2>5. threads' \cap DrainedBefore(at) = {}  BY <1>2, <2>1
  <2>6. verdict' = "none"  BY <1>1, <1>6 DEF RuntimeInv, RuntimeTypes
  <2>7. /\ phase' = "drain" /\ at' = at /\ built' = built /\ released' = released
    BY <1>1, <1>6
  <2> HIDE DEF RuntimeInv
  <2>8. DrainedInOrder'  BY <2>1, <2>4, <2>5, <2>6, <2>7 DEF DrainedInOrder
  <2> QED BY <1>4, <2>8 DEF RuntimeInv
<1> QED BY <1>5, <1>6

\* The loop notices a failure of an enabled component.
LEMMA LoopStep == ASSUME RuntimeInv, LoopBody PROVE RuntimeInv'
<1>1. /\ phase = "loop"
      /\ UNCHANGED <<options, phase, at, built, threads, released, attached, healthOn,
                     failed, stop, late, ending, verdict>>
  BY DEF LoopBody
<1>2. Wanted' = Wanted  BY <1>1 DEF Wanted, Muxers
<1> QED BY <1>1, <1>2 DEF RuntimeInv, RuntimeTypes, DrainedInOrder

\* An exception in the loop unwinds at once, with FAULT.
LEMMA LoopThrowsStep == ASSUME RuntimeInv, LoopThrows PROVE RuntimeInv'
<1>1. phase' = "unwind" /\ at' = Len(Declaration) /\ verdict' = "FAULT" /\ threads' = threads
  BY DEF LoopThrows
<1>2. Len(Declaration) \in Nat  BY DEF Declaration
<1> QED BY <1>1, <1>2 DEF RuntimeInv, RuntimeTypes, DrainedInOrder, Phases

\* The end of the loop begins the drain at its first step.
LEMMA LoopEndsStep == ASSUME RuntimeInv, LoopEnds PROVE RuntimeInv'
<1>1. /\ phase = "loop" /\ phase' = "drain" /\ at' = 1 /\ healthOn' = FALSE
      /\ UNCHANGED <<options, built, threads, released, attached, failed, stop, seen,
                     late, verdict>>
  BY DEF LoopEnds
<1>2. Wanted' = Wanted  BY <1>1 DEF Wanted, Muxers
<1>3. DrainedBefore(1) = {}  BY DEF DrainedBefore
<1>4. \A c : ~(SnapshotStep(c) < 1)  BY SnapshotAt
<1>5. RuntimeTypes'  BY <1>1, <1>2 DEF RuntimeInv, RuntimeTypes, Phases
<1>6. released' = {} /\ verdict' = "none"  BY <1>1 DEF RuntimeInv, RuntimeTypes
<1>7. DrainedInOrder'  BY <1>1, <1>3, <1>4, <1>6 DEF DrainedInOrder
<1> QED BY <1>5, <1>7 DEF RuntimeInv

\* A step of the drain: the snapshots that are due are taken, and its thread is stopped.
LEMMA DrainStep == ASSUME RuntimeInv, NEW o, Drain(o) PROVE RuntimeInv'
<1>1. /\ phase = "drain" /\ at <= Len(DrainOrder) /\ o = DrainOrder[at]
      /\ threads' = threads \ {o}
      /\ released' = released \cup ({o} \cap Wanted)
      /\ seen' = seen \cup (failed \cap SnapshotAfter(o))
      /\ UNCHANGED <<options, built, attached, healthOn, failed, stop, late, ending>>
  BY DEF Drain
<1>2. Wanted' = Wanted  BY <1>1 DEF Wanted, Muxers
<1>3. /\ at \in 1..10 /\ threads \cap DrainedBefore(at) = {}
      /\ released \subseteq DrainedBefore(at)
      /\ at > 8 => "uartSnapshot" \in released
      /\ (at > 5 /\ "mp4" \in built) => "mp4" \in released
      /\ \A f \in failed : SnapshotStep(f) < at => f \in seen \cup late
      /\ threads \subseteq ThreadOwners /\ failed \subseteq MayFail
      /\ healthOn = FALSE /\ verdict = "none" /\ built \subseteq Wanted
  BY <1>1 DEF RuntimeInv, RuntimeTypes, DrainedInOrder
<1>4. CASE o = "supervisor" /\ o \in failed
  <2>1. phase' = "unwind" /\ at' = Len(Declaration) /\ verdict' = "FAULT"
    BY <1>4 DEF Drain
  <2>2. Len(Declaration) \in Nat  BY DEF Declaration
  <2> QED BY <1>1, <1>3, <2>1, <2>2 DEF RuntimeInv, RuntimeTypes, DrainedInOrder, Phases
<1>5. CASE ~(o = "supervisor" /\ o \in failed)
  <2>1. /\ phase' = IF at = 10 THEN "verdict" ELSE "drain"
        /\ at' = at + 1 /\ verdict' = "none"
    BY <1>1, <1>3, <1>5, DrainIs DEF Drain
  <2>2. RuntimeTypes'  BY <1>1, <1>2, <1>3, <2>1 DEF RuntimeTypes, Phases
  <2>3. DrainedBefore(at + 1) = DrainedBefore(at) \cup {o}  BY <1>1, <1>3, DrainSteps
  <2>4. threads' \cap DrainedBefore(at + 1) = {} /\ released' \subseteq DrainedBefore(at + 1)
    BY <1>1, <1>3, <2>3
  <2>5. ASSUME NEW f \in failed, SnapshotStep(f) < at + 1, f # "supervisor"
        PROVE  f \in seen' \cup late'
    <3>1. SnapshotStep(f) \in 1..10 /\ f \in MayFail  BY <1>3, SnapshotAt
    <3>2. CASE SnapshotStep(f) < at  BY <1>1, <1>3, <3>2
    <3>3. CASE SnapshotStep(f) = at
      <4>1. f \in SnapshotAfter(o)  BY <1>1, <1>3, <2>5, <3>1, <3>3, SnapshotsTaken
      <4> QED BY <1>1, <4>1
    <3> QED BY <1>3, <2>5, <3>1, <3>2, <3>3
  <2>6. "uartSnapshot" \in Wanted  BY DEF Wanted
  <2>7. at + 1 > 8 => "uartSnapshot" \in released'
    <3>1. CASE at = 8  BY <1>1, <2>6, <3>1, DrainIs
    <3> QED BY <1>1, <1>3, <3>1
  <2>8. (at + 1 > 5 /\ "mp4" \in built) => "mp4" \in released'
    <3>1. CASE at = 5  BY <1>1, <1>3, <3>1, DrainIs
    <3> QED BY <1>1, <1>3, <3>1
  <2>9. SnapshotStep("supervisor") = 10  BY DEF SnapshotStep
  <2>10. CASE at # 10
    <3>1. phase' = "drain" /\ at' \in 1..10  BY <1>3, <2>1, <2>10
    <3>2. \A f \in failed : SnapshotStep(f) < at + 1 => f \in seen' \cup late'
      BY <1>3, <2>5, <2>9, <2>10
    <3>3. DrainedInOrder'
      BY <1>1, <2>1, <2>4, <2>7, <2>8, <3>1, <3>2 DEF DrainedInOrder
    <3> QED BY <2>2, <3>3 DEF RuntimeInv
  <2>11. CASE at = 10
    <3>1. phase' = "verdict" /\ o = "supervisor"  BY <1>1, <2>1, <2>11, DrainIs
    <3>2. threads' = {}
      <4>1. threads' \cap DrainedBefore(11) = {} /\ threads' \subseteq ThreadOwners
        BY <1>1, <1>3, <2>4, <2>11
      <4> QED BY <4>1, AllStopped
    <3>3. failed \subseteq seen' \cup late'
      <4>1. \A f \in failed : f # "supervisor" /\ SnapshotStep(f) \in 1..10
        BY <1>5, <3>1, SnapshotAt
      <4> QED BY <2>5, <2>11, <4>1
    <3>4. DrainedInOrder'  BY <1>1, <2>1, <3>1, <3>2, <3>3 DEF DrainedInOrder
    <3> QED BY <2>2, <3>4 DEF RuntimeInv
  <2> QED BY <2>10, <2>11
<1> QED BY <1>4, <1>5

\* The verdict is PASS only if nothing was seen to fail.
LEMMA EvaluateStep == ASSUME RuntimeInv, EvaluateRuntimePass PROVE RuntimeInv'
<1>1. /\ phase = "verdict" /\ phase' = "unwind" /\ at' = Len(Declaration)
      /\ verdict' \in {"PASS", "FAIL"} /\ (verdict' = "PASS" => seen = {})
      /\ UNCHANGED <<options, built, threads, released, attached, healthOn, failed, stop,
                     seen, late, ending>>
  BY DEF EvaluateRuntimePass
<1>2. Len(Declaration) \in Nat  BY DEF Declaration
<1> QED BY <1>1, <1>2 DEF RuntimeInv, RuntimeTypes, DrainedInOrder, Phases

\* What is destroyed has no thread any more.
LEMMA DestroyStep == ASSUME RuntimeInv, NEW o, Destroy(o) PROVE RuntimeInv'
<1>1. /\ phase = "unwind" /\ at > 0 /\ phase' \in {"unwind", "done"} /\ at' = at - 1
      /\ threads' = threads \ {o}
      /\ UNCHANGED <<options, attached, failed, stop, seen, late, ending, verdict>>
  BY DEF Destroy
<1>2. at' \in Nat  BY <1>1 DEF RuntimeInv, RuntimeTypes
<1> QED BY <1>1, <1>2 DEF RuntimeInv, RuntimeTypes, DrainedInOrder, Phases

\* Every step of RuntimeApp keeps the invariant.
LEMMA RuntimeStep == RuntimeInv /\ [RuntimeNext]_runtimeVars => RuntimeInv'
<1> SUFFICES ASSUME RuntimeInv, [RuntimeNext]_runtimeVars PROVE RuntimeInv'  OBVIOUS
<1>1. CASE UNCHANGED runtimeVars
  <2>1. Wanted' = Wanted  BY <1>1 DEF Wanted, Muxers, runtimeVars
  <2> QED BY <1>1, <2>1 DEF runtimeVars, RuntimeInv, RuntimeTypes, DrainedInOrder
<1>2. CASE SkipUnwanted  BY <1>2, SkipStep
<1>3. ASSUME NEW o \in Range(BuildOrder), Build(o) \/ Throws(o) PROVE RuntimeInv'
  BY <1>3, BuildStep, ThrowsStep
<1>4. CASE Signal  BY <1>4, SignalStep
<1>5. ASSUME NEW c \in Threaded \cup {"mp4", "pipeline"}, ComponentFails(c) PROVE RuntimeInv'
  <2>1. c \in MayFail  BY DEF MayFail, ThreadOwners
  <2> QED BY <1>5, <2>1, FailStep
<1>6. CASE LoopBody  BY <1>6, LoopStep
<1>7. CASE LoopThrows  BY <1>7, LoopThrowsStep
<1>8. CASE LoopEnds  BY <1>8, LoopEndsStep
<1>9. ASSUME NEW o \in Range(DrainOrder), Drain(o) PROVE RuntimeInv'  BY <1>9, DrainStep
<1>10. CASE EvaluateRuntimePass  BY <1>10, EvaluateStep
<1>11. ASSUME NEW o \in Range(Declaration), Destroy(o) PROVE RuntimeInv'
  BY <1>11, DestroyStep
<1> QED BY <1>1, <1>2, <1>3, <1>4, <1>5, <1>6, <1>7, <1>8, <1>9, <1>10, <1>11 DEF RuntimeNext

\* On every path but that of an exception nothing is stopped or destroyed under a thread that
\* still uses it, and PASS is never reported over a failure of an enabled component that came
\* before its final snapshot (runtime_components.cpp:966-1055, 1904), for every command line.
THEOREM RuntimeStopsInOrder == RuntimeSpec => []RuntimeAppKept
<1>1. RuntimeInit => RuntimeInv  BY RuntimeStarts
<1>2. RuntimeInv /\ [RuntimeNext]_runtimeVars => RuntimeInv'  BY RuntimeStep
<1>3. RuntimeInv => RuntimeAppKept  BY RuntimeKept
<1> QED BY <1>1, <1>2, <1>3, PTL DEF RuntimeSpec

--------------------------------------------------------------------------------
(* What the receiver of the telemetry counts.                               *)

Datagrams == [seq : Nat, captured : Nat, frame : Nat, final : BOOLEAN]
Loops == [at : {"idle", "runtime", "joining", "stopped"}, frame : Nat, updates : Nat, fault : BOOLEAN]
Sinks == [runtime : Nat, control : Nat, attempted : Nat, sent : Nat,
          running : BOOLEAN, stopping : BOOLEAN, fatal : BOOLEAN]
SinkWorkers == [at : {"waiting", "sending", "ended"}, datagram : Datagrams]
Viewers == [packets : Nat, first : Nat, previous : Nat, captured : Nat, gaps : Nat,
            outOfOrder : Nat, regressions : Nat, final : BOOLEAN]

TelemetryTypes ==
    /\ results \in Nat /\ loop \in Loops /\ sink \in Sinks /\ worker \in SinkWorkers
    /\ air \in Seq(Datagrams) /\ disturbed \in BOOLEAN /\ viewer \in Viewers

\* The mailboxes hold what the loop gave last, and what the worker sends is of them.
MailboxesKept ==
    /\ sink.control = loop.frame
    /\ loop.at # "runtime" => sink.runtime = loop.updates
    /\ sink.runtime <= loop.updates
    /\ sink.stopping <=> loop.at \in {"joining", "stopped"}
    /\ loop.at = "stopped" => worker.at = "ended"
    /\ worker.at = "ended" => sink.stopping
    /\ worker.at = "sending" =>
           /\ worker.datagram.seq = sink.attempted
           /\ worker.datagram.captured <= sink.runtime
           /\ worker.datagram.final => sink.stopping /\ worker.datagram.captured = sink.runtime

\* The sequence numbers between the first and the last datagram seen.
SpanKept(v) ==
    /\ v.packets = 0 => v.gaps = 0
    /\ (v.packets > 0 /\ v.outOfOrder = 0) => v.packets + v.gaps = v.previous - v.first + 1

\* Of a network and a sink that have not misbehaved: the datagrams under way follow each
\* other, in number and in what they report, from the last one seen up to the last one taken.
NothingMissed ==
    /\ ~sink.fatal /\ ~loop.fault
    /\ sink.stopping => sink.runtime > 0
    /\ viewer.previous = viewer.packets
    /\ viewer.gaps = 0 /\ viewer.outOfOrder = 0 /\ viewer.regressions = 0
    /\ viewer.packets + Len(air) = sink.sent
    /\ sink.sent + (IF worker.at = "sending" THEN 1 ELSE 0) = sink.attempted
AirInOrder ==
    /\ \A i \in 1 .. Len(air) :
           /\ air[i].seq = viewer.packets + i
           /\ viewer.captured <= air[i].captured /\ air[i].captured <= sink.runtime
           /\ worker.at = "sending" => air[i].captured <= worker.datagram.captured
    /\ \A i, j \in 1 .. Len(air) : i <= j => air[i].captured <= air[j].captured
    /\ viewer.captured <= sink.runtime
    /\ worker.at = "sending" => viewer.captured <= worker.datagram.captured
LastIsFinal ==
    worker.at = "ended" =>
        /\ air = <<>> => viewer.final /\ viewer.captured = sink.runtime
        /\ air # <<>> => air[Len(air)].final /\ air[Len(air)].captured = sink.runtime
Undisturbed == NothingMissed /\ AirInOrder /\ LastIsFinal
TelemetryInv ==
    /\ TelemetryTypes /\ MailboxesKept /\ SpanKept(viewer)
    /\ ~disturbed => Undisturbed

\* The invariant holds before the loop is started.
LEMMA TelemetryStarts == TelemetryInit => TelemetryInv
<1> SUFFICES ASSUME TelemetryInit PROVE TelemetryInv  OBVIOUS
<1>1. TelemetryTypes
  <2>1. /\ results = 0 /\ air = <<>> /\ disturbed = FALSE
        /\ loop = [at |-> "idle", frame |-> 0, updates |-> 0, fault |-> FALSE]
    BY DEF TelemetryInit
  <2>2. loop \in Loops /\ results \in Nat /\ disturbed \in BOOLEAN  BY <2>1 DEF Loops
  <2>3. air \in Seq(Datagrams)  BY <2>1
  <2>4. sink \in Sinks  BY DEF TelemetryInit, Sinks
  <2>5. worker \in SinkWorkers  BY DEF TelemetryInit, SinkWorkers, Datagrams, NoDatagram
  <2>6. viewer \in Viewers  BY DEF TelemetryInit, Viewers
  <2> QED BY <2>2, <2>3, <2>4, <2>5, <2>6 DEF TelemetryTypes
<1>2. MailboxesKept /\ SpanKept(viewer)  BY DEF TelemetryInit, MailboxesKept, SpanKept
<1>3. Len(air) = 0  BY DEF TelemetryInit
<1>4. Undisturbed
  BY <1>3 DEF TelemetryInit, Undisturbed, NothingMissed, AirInOrder, LastIsFinal
<1> QED BY <1>1, <1>2, <1>4 DEF TelemetryInv

\* What the property says, from the invariant.
LEMMA TelemetryHolds == TelemetryInv => TelemetryKept
<1> SUFFICES ASSUME TelemetryInv PROVE TelemetryKept  OBVIOUS
<1>1. ASSUME ~disturbed
      PROVE  /\ viewer.gaps + viewer.outOfOrder + viewer.regressions = 0
             /\ viewer.packets + Len(air) = sink.sent
             /\ sink.sent + (IF worker.at = "sending" THEN 1 ELSE 0) = sink.attempted
  BY <1>1 DEF TelemetryInv, Undisturbed, NothingMissed
<1>2. ASSUME viewer.packets > 0, viewer.outOfOrder = 0
      PROVE  viewer.packets + viewer.gaps = viewer.previous - viewer.first + 1
  BY <1>2 DEF TelemetryInv, SpanKept
<1>3. ASSUME loop.at = "stopped", ~disturbed, air = <<>>
      PROVE  viewer.final /\ viewer.captured = loop.updates /\ loop.frame = sink.control
  <2>1. worker.at = "ended" /\ loop.frame = sink.control /\ sink.runtime = loop.updates
    BY <1>3 DEF TelemetryInv, MailboxesKept
  <2> QED BY <1>3, <2>1 DEF TelemetryInv, Undisturbed, LastIsFinal
<1> QED BY <1>1, <1>2, <1>3 DEF TelemetryKept, ViewerCountsTruly, FinalStatusSent

\* A new result leaves the mailboxes as they are.
LEMMA PublishResultStep == ASSUME TelemetryInv, Publish PROVE TelemetryInv'
  BY DEF Publish, TelemetryInv, TelemetryTypes, MailboxesKept, Undisturbed,
     NothingMissed, AirInOrder, LastIsFinal

\* The record r of the loop after an update's first half, which reported frame f.
LoopTakes(l, f, r) ==
    /\ r \in Loops /\ r.at = "runtime" /\ r.updates = l.updates + 1
    /\ r.fault = l.fault /\ r.frame = f

\* A pass of the loop takes the latest frame and counts an update.
LEMMA LoopTaken ==
    ASSUME NEW l \in Loops, NEW f \in Nat, NEW r,
           \/ r = [l EXCEPT !.at = "runtime", !.frame = f, !.updates = @ + 1]
           \/ r = [l EXCEPT !.at = "runtime", !.updates = @ + 1] /\ f = l.frame
    PROVE  LoopTakes(l, f, r)
<1>1. l.updates + 1 \in Nat /\ l.fault \in BOOLEAN  BY DEF Loops
<1>2. r = [at |-> "runtime", frame |-> f, updates |-> l.updates + 1, fault |-> l.fault]
  <2>1. CASE r = [l EXCEPT !.at = "runtime", !.frame = f, !.updates = @ + 1]
    BY <2>1 DEF Loops
  <2>2. CASE r = [l EXCEPT !.at = "runtime", !.updates = @ + 1] /\ f = l.frame
    BY <2>2 DEF Loops
  <2> QED BY <2>1, <2>2
<1>3. r \in Loops  BY <1>1, <1>2 DEF Loops
<1> QED BY <1>2, <1>3 DEF LoopTakes

\* The loop's steps change the mailboxes, and what is under way is of earlier ones.
LEMMA UpdateControlStep == ASSUME TelemetryInv, UpdateControl PROVE TelemetryInv'
<1>1. /\ loop.at = "idle" /\ loop \in Loops /\ sink \in Sinks /\ results \in Nat
      /\ sink.control = loop.frame /\ sink.runtime = loop.updates
      /\ ~sink.stopping
  BY DEF UpdateControl, TelemetryInv, TelemetryTypes, MailboxesKept
<1>2. /\ worker' = worker /\ air' = air /\ disturbed' = disturbed /\ viewer' = viewer
      /\ results' = results
      /\ \/ /\ sink' = [sink EXCEPT !.control = results]
            /\ loop' = [loop EXCEPT !.at = "runtime", !.frame = results, !.updates = @ + 1]
         \/ /\ sink' = sink
            /\ loop' = [loop EXCEPT !.at = "runtime", !.updates = @ + 1]
  BY DEF UpdateControl
<1>3. /\ sink' \in Sinks /\ loop' \in Loops
      /\ sink'.control = loop'.frame /\ loop'.at = "runtime" /\ loop'.updates = loop.updates + 1
      /\ loop'.fault = loop.fault
      /\ sink'.runtime = sink.runtime /\ sink'.attempted = sink.attempted /\ sink'.sent = sink.sent
      /\ sink'.stopping = sink.stopping /\ sink'.fatal = sink.fatal
  <2>1. /\ loop' \in Loops /\ loop'.at = "runtime" /\ loop'.updates = loop.updates + 1
        /\ loop'.fault = loop.fault
        /\ \/ sink' = sink /\ loop'.frame = loop.frame
           \/ sink' = [sink EXCEPT !.control = results] /\ loop'.frame = results
    <3>0. loop \in Loops /\ results \in Nat /\ loop.frame \in Nat  BY <1>1 DEF Loops
    <3>1. CASE /\ sink' = [sink EXCEPT !.control = results]
               /\ loop' = [loop EXCEPT !.at = "runtime", !.frame = results, !.updates = @ + 1]
      <4>1. LoopTakes(loop, results, loop')  BY <3>0, <3>1, LoopTaken
      <4> QED BY <3>1, <4>1 DEF LoopTakes
    <3>2. CASE sink' = sink /\ loop' = [loop EXCEPT !.at = "runtime", !.updates = @ + 1]
      <4>1. LoopTakes(loop, loop.frame, loop')  BY <3>0, <3>2, LoopTaken
      <4> QED BY <3>2, <4>1 DEF LoopTakes
    <3> QED BY <1>2, <3>1, <3>2
  <2>2. CASE sink' = sink /\ loop'.frame = loop.frame  BY <1>1, <2>1, <2>2
  <2>3. CASE sink' = [sink EXCEPT !.control = results] /\ loop'.frame = results
    BY <1>1, <2>1, <2>3 DEF Sinks
  <2> QED BY <2>1, <2>2, <2>3
<1>4. loop.updates \in Nat /\ sink.runtime \in Nat  BY <1>1 DEF Sinks, Loops
<1>5. TelemetryTypes' /\ SpanKept(viewer)'
  BY <1>2, <1>3 DEF TelemetryInv, TelemetryTypes
<1>6. MailboxesKept'  BY <1>1, <1>2, <1>3, <1>4 DEF TelemetryInv, MailboxesKept
<1>7. ASSUME ~disturbed' PROVE Undisturbed'
  BY <1>2, <1>3, <1>7 DEF TelemetryInv, Undisturbed, NothingMissed, AirInOrder, LastIsFinal
<1> QED BY <1>5, <1>6, <1>7 DEF TelemetryInv

\* The status follows the control it was taken with.
LEMMA UpdateRuntimeStep == ASSUME TelemetryInv, UpdateRuntime PROVE TelemetryInv'
<1>1. /\ loop.at = "runtime" /\ loop \in Loops /\ sink \in Sinks
      /\ sink.control = loop.frame /\ sink.runtime <= loop.updates
      /\ ~sink.stopping
  BY DEF UpdateRuntime, Accepts, TelemetryInv, TelemetryTypes, MailboxesKept
<1>2. /\ results' = results /\ worker' = worker /\ air' = air /\ disturbed' = disturbed
      /\ viewer' = viewer
      /\ sink' = [sink EXCEPT !.runtime = loop.updates]
      /\ loop' = [loop EXCEPT !.at = "idle"]
  BY DEF UpdateRuntime
<1>3. loop.updates \in Nat /\ sink.runtime \in Nat  BY <1>1 DEF Sinks, Loops
<1>4. /\ sink' \in Sinks /\ loop' \in Loops
      /\ sink'.control = loop'.frame /\ loop'.at = "idle" /\ loop'.updates = loop.updates
      /\ loop'.fault = loop.fault
      /\ sink'.runtime = loop.updates /\ sink'.attempted = sink.attempted /\ sink'.sent = sink.sent
      /\ sink'.stopping = sink.stopping /\ sink'.fatal = sink.fatal
  BY <1>1, <1>2, <1>3 DEF Sinks, Loops
<1>5. TelemetryTypes' /\ SpanKept(viewer)'
  BY <1>2, <1>4 DEF TelemetryInv, TelemetryTypes
<1>6. worker.at = "sending" => worker.datagram.captured <= loop.updates /\ ~worker.datagram.final
  <2>1. worker.at = "sending" => worker.datagram.captured \in Nat
    BY DEF TelemetryInv, TelemetryTypes, SinkWorkers, Datagrams
  <2> QED BY <1>1, <1>3, <2>1 DEF TelemetryInv, MailboxesKept
<1>7. MailboxesKept'  BY <1>1, <1>2, <1>3, <1>4, <1>6 DEF TelemetryInv, MailboxesKept
<1>8. ASSUME ~disturbed' PROVE Undisturbed'
  <2>1. Undisturbed  BY <1>2, <1>8 DEF TelemetryInv
  <2>2. worker.at # "ended"  BY <1>1 DEF TelemetryInv, MailboxesKept
  <2>3. NothingMissed'  BY <1>1, <1>2, <1>4, <2>1 DEF Undisturbed, NothingMissed
  <2>4. AirInOrder'
    <3>1. \A i \in 1 .. Len(air) : air[i].captured \in Nat
      <4>1. \A i \in 1 .. Len(air) : air[i] \in Datagrams
        BY DEF TelemetryInv, TelemetryTypes
      <4> QED BY <4>1 DEF Datagrams
    <3>2. viewer.captured \in Nat  BY DEF TelemetryInv, TelemetryTypes, Viewers
    <3> QED BY <1>1, <1>2, <1>3, <1>4, <2>1, <3>1, <3>2 DEF Undisturbed, AirInOrder
  <2>5. LastIsFinal'  BY <1>2, <2>2 DEF LastIsFinal
  <2> QED BY <2>3, <2>4, <2>5 DEF Undisturbed
<1> QED BY <1>5, <1>7, <1>8 DEF TelemetryInv

\* A fault that is noticed changes no count.
LEMMA NoticeFaultStep == ASSUME TelemetryInv, NoticeFault PROVE TelemetryInv'
<1>1. /\ loop.at = "idle" /\ sink.fatal /\ loop \in Loops
      /\ loop' = [loop EXCEPT !.fault = TRUE]
      /\ results' = results /\ sink' = sink /\ worker' = worker /\ air' = air
      /\ disturbed' = disturbed /\ viewer' = viewer
  BY DEF NoticeFault, TelemetryInv, TelemetryTypes
<1>2. /\ loop' \in Loops /\ loop'.at = loop.at /\ loop'.frame = loop.frame
      /\ loop'.updates = loop.updates
  BY <1>1 DEF Loops
<1>3. TelemetryTypes' /\ SpanKept(viewer)'
  BY <1>1, <1>2 DEF TelemetryInv, TelemetryTypes
<1>4. MailboxesKept'  BY <1>1, <1>2 DEF TelemetryInv, MailboxesKept
<1>5. disturbed'  BY <1>1 DEF TelemetryInv, Undisturbed, NothingMissed
<1> QED BY <1>3, <1>4, <1>5 DEF TelemetryInv

\* The last update before Stop is the one the last datagram reports.
LEMMA StopTelemetryStep == ASSUME TelemetryInv, StopTelemetry PROVE TelemetryInv'
<1>1. /\ loop.at = "idle" /\ ~sink.stopping /\ loop \in Loops /\ sink \in Sinks
      /\ loop.fault \/ loop.updates > 0
      /\ sink' = [sink EXCEPT !.stopping = TRUE]
      /\ loop' = [loop EXCEPT !.at = "joining"]
      /\ results' = results /\ worker' = worker /\ air' = air
      /\ disturbed' = disturbed /\ viewer' = viewer
  BY DEF StopTelemetry, TelemetryInv, TelemetryTypes
<1>2. /\ sink' \in Sinks /\ loop' \in Loops
      /\ loop'.at = "joining" /\ loop'.frame = loop.frame /\ loop'.updates = loop.updates
      /\ loop'.fault = loop.fault
      /\ sink'.runtime = sink.runtime /\ sink'.attempted = sink.attempted /\ sink'.sent = sink.sent
      /\ sink'.control = sink.control /\ sink'.stopping = TRUE /\ sink'.fatal = sink.fatal
  BY <1>1 DEF Sinks, Loops
<1>3. TelemetryTypes' /\ SpanKept(viewer)'
  BY <1>1, <1>2 DEF TelemetryInv, TelemetryTypes
<1>4. MailboxesKept'  BY <1>1, <1>2 DEF TelemetryInv, MailboxesKept
<1>5. ASSUME ~disturbed' PROVE Undisturbed'
  <2>1. Undisturbed /\ sink.runtime = loop.updates
    BY <1>1, <1>5 DEF TelemetryInv, MailboxesKept
  <2> QED BY <1>1, <1>2, <2>1 DEF Undisturbed, NothingMissed, AirInOrder, LastIsFinal
<1> QED BY <1>3, <1>4, <1>5 DEF TelemetryInv

\* The loop has stopped when the worker has ended.
LEMMA JoinTelemetryStep == ASSUME TelemetryInv, JoinTelemetry PROVE TelemetryInv'
<1>1. /\ loop.at = "joining" /\ worker.at = "ended" /\ loop \in Loops
      /\ loop' = [loop EXCEPT !.at = "stopped"]
      /\ results' = results /\ sink' = sink /\ worker' = worker /\ air' = air
      /\ disturbed' = disturbed /\ viewer' = viewer
  BY DEF JoinTelemetry, TelemetryInv, TelemetryTypes
<1>2. /\ loop' \in Loops /\ loop'.at = "stopped" /\ loop'.frame = loop.frame
      /\ loop'.updates = loop.updates /\ loop'.fault = loop.fault
  BY <1>1 DEF Loops
<1>3. TelemetryTypes' /\ SpanKept(viewer)'
  BY <1>1, <1>2 DEF TelemetryInv, TelemetryTypes
<1>4. MailboxesKept'  BY <1>1, <1>2 DEF TelemetryInv, MailboxesKept
<1>5. ASSUME ~disturbed' PROVE Undisturbed'
  BY <1>1, <1>2, <1>5 DEF TelemetryInv, Undisturbed, NothingMissed, AirInOrder, LastIsFinal
<1> QED BY <1>3, <1>4, <1>5 DEF TelemetryInv

\* The worker takes both mailboxes and the next number at once.
LEMMA TakeLatestStep == ASSUME TelemetryInv, TakeLatest PROVE TelemetryInv'
<1>1. /\ worker.at = "waiting" /\ sink \in Sinks /\ worker \in SinkWorkers
      /\ results' = results /\ loop' = loop /\ air' = air
      /\ disturbed' = disturbed /\ viewer' = viewer
  BY DEF TakeLatest, TelemetryInv, TelemetryTypes
<1>2. CASE sink.runtime = 0
  <2>1. /\ sink.stopping /\ sink' = sink
        /\ worker' = [worker EXCEPT !.at = "ended"]
    BY <1>2 DEF TakeLatest
  <2>2. worker' \in SinkWorkers /\ worker'.at = "ended"  BY <1>1, <2>1 DEF SinkWorkers
  <2>3. TelemetryTypes' /\ SpanKept(viewer)'
    BY <1>1, <2>1, <2>2 DEF TelemetryInv, TelemetryTypes
  <2>4. MailboxesKept'  BY <1>1, <2>1, <2>2 DEF TelemetryInv, MailboxesKept
  <2>5. disturbed  BY <1>2, <2>1 DEF TelemetryInv, Undisturbed, NothingMissed
  <2> QED BY <1>1, <2>3, <2>4, <2>5 DEF TelemetryInv
<1>3. CASE sink.runtime # 0
  <2>1. /\ sink' = [sink EXCEPT !.attempted = @ + 1]
        /\ worker' = [at |-> "sending",
                      datagram |-> [seq |-> sink.attempted + 1, captured |-> sink.runtime,
                                    frame |-> sink.control, final |-> sink.stopping]]
    BY <1>3 DEF TakeLatest
  <2>2. /\ sink.attempted \in Nat /\ sink.runtime \in Nat /\ sink.control \in Nat
        /\ sink.sent \in Nat /\ sink.stopping \in BOOLEAN
    BY <1>1 DEF Sinks
  <2>3. /\ worker' \in SinkWorkers /\ worker'.at = "sending"
        /\ worker'.datagram.seq = sink.attempted + 1
        /\ worker'.datagram.captured = sink.runtime
        /\ worker'.datagram.final = sink.stopping
    BY <2>1, <2>2 DEF SinkWorkers, Datagrams
  <2>4. /\ sink' \in Sinks /\ sink'.attempted = sink.attempted + 1
        /\ sink'.runtime = sink.runtime /\ sink'.control = sink.control /\ sink'.sent = sink.sent
        /\ sink'.stopping = sink.stopping /\ sink'.fatal = sink.fatal
    BY <1>1, <2>1, <2>2 DEF Sinks
  <2>5. TelemetryTypes' /\ SpanKept(viewer)'
    BY <1>1, <2>3, <2>4 DEF TelemetryInv, TelemetryTypes
  <2>6. loop.at # "stopped"  BY <1>1 DEF TelemetryInv, MailboxesKept
  <2>7. MailboxesKept'  BY <1>1, <2>2, <2>3, <2>4, <2>6 DEF TelemetryInv, MailboxesKept
  <2>8. ASSUME ~disturbed' PROVE Undisturbed'
    <3>1. Undisturbed  BY <1>1, <2>8 DEF TelemetryInv
    <3>2. NothingMissed'  BY <1>1, <2>2, <2>3, <2>4, <3>1 DEF Undisturbed, NothingMissed
    <3>3. AirInOrder'  BY <1>1, <2>3, <2>4, <3>1 DEF Undisturbed, AirInOrder
    <3>4. LastIsFinal'  BY <2>3 DEF LastIsFinal
    <3> QED BY <3>2, <3>3, <3>4 DEF Undisturbed
  <2> QED BY <2>5, <2>7, <2>8 DEF TelemetryInv
<1> QED BY <1>2, <1>3

\* It is sent behind those under way; when that fails, the sink says so.
LEMMA SendStep == ASSUME TelemetryInv, SendDatagram PROVE TelemetryInv'
<1>1. /\ worker.at = "sending" /\ sink \in Sinks /\ worker \in SinkWorkers
      /\ air \in Seq(Datagrams) /\ worker.datagram \in Datagrams
      /\ results' = results /\ loop' = loop /\ viewer' = viewer
      /\ worker' = [at |-> IF worker.datagram.final THEN "ended" ELSE "waiting",
                    datagram |-> NoDatagram]
  BY DEF SendDatagram, TelemetryInv, TelemetryTypes, SinkWorkers
<1>2. NoDatagram \in Datagrams /\ worker.datagram.final \in BOOLEAN
  BY <1>1 DEF NoDatagram, Datagrams
<1>3. /\ worker' \in SinkWorkers /\ worker'.at \in {"ended", "waiting"}
      /\ worker'.at = "ended" => worker.datagram.final
  BY <1>1, <1>2 DEF SinkWorkers
<1>4. loop.at # "stopped"  BY <1>1 DEF TelemetryInv, MailboxesKept
<1>5. CASE /\ air' = Append(air, worker.datagram)
           /\ sink' = [sink EXCEPT !.sent = @ + 1, !.running = ~worker.datagram.final]
           /\ disturbed' = disturbed
  <2>1. /\ sink' \in Sinks /\ sink'.sent = sink.sent + 1 /\ sink'.attempted = sink.attempted
        /\ sink'.runtime = sink.runtime /\ sink'.control = sink.control
        /\ sink'.stopping = sink.stopping /\ sink'.fatal = sink.fatal
    <3>1. PICK on \in BOOLEAN : sink' = [sink EXCEPT !.sent = @ + 1, !.running = on]
      BY <1>2, <1>5
    <3>2. sink.sent + 1 \in Nat  BY <1>1 DEF Sinks
    <3>3. sink' \in Sinks  BY <1>1, <3>1, <3>2 DEF Sinks
    <3> QED BY <1>1, <3>1, <3>3 DEF Sinks
  <2>2. /\ air' \in Seq(Datagrams) /\ Len(air') = Len(air) + 1 /\ Len(air) \in Nat
        /\ air'[Len(air) + 1] = worker.datagram /\ air' # <<>>
        /\ \A i \in 1 .. Len(air) : air'[i] = air[i]
    BY <1>1, <1>5
  <2>3. TelemetryTypes' /\ SpanKept(viewer)'
    BY <1>1, <1>3, <1>5, <2>1, <2>2 DEF TelemetryInv, TelemetryTypes
  <2>4. MailboxesKept'  BY <1>1, <1>3, <1>4, <2>1 DEF TelemetryInv, MailboxesKept
  <2>5. ASSUME ~disturbed' PROVE Undisturbed'
    <3>1. Undisturbed /\ sink.sent \in Nat /\ viewer.packets \in Nat /\ sink.attempted \in Nat
      BY <1>1, <1>5, <2>5 DEF TelemetryInv, TelemetryTypes, Sinks, Viewers
    <3>2. NothingMissed'  BY <1>1, <1>3, <2>1, <2>2, <3>1 DEF Undisturbed, NothingMissed
    <3>3. worker.datagram.seq = viewer.packets + (Len(air) + 1)
      <4>1. worker.datagram.seq = sink.attempted
        BY <1>1 DEF TelemetryInv, MailboxesKept
      <4>2. viewer.packets + Len(air) = sink.sent /\ sink.sent + 1 = sink.attempted
        BY <1>1, <3>1 DEF Undisturbed, NothingMissed
      <4> QED BY <2>2, <3>1, <4>1, <4>2
    <3>4. /\ worker.datagram.captured <= sink.runtime
          /\ viewer.captured <= worker.datagram.captured
          /\ \A i \in 1 .. Len(air) : air[i].captured <= worker.datagram.captured
      BY <1>1, <3>1 DEF TelemetryInv, MailboxesKept, Undisturbed, AirInOrder
    <3>5. \A i \in 1 .. Len(air') : i \in 1 .. Len(air) \/ i = Len(air) + 1  BY <2>2
    <3>6. \A i \in 1 .. Len(air') :
              /\ air'[i].seq = viewer'.packets + i
              /\ viewer'.captured <= air'[i].captured /\ air'[i].captured <= sink'.runtime
      BY <1>1, <2>1, <2>2, <3>1, <3>3, <3>4, <3>5 DEF Undisturbed, AirInOrder
    <3>7. ASSUME NEW i \in 1 .. Len(air'), NEW j \in 1 .. Len(air'), i <= j
          PROVE  air'[i].captured <= air'[j].captured
      <4>1. CASE j = Len(air) + 1
        <5>1. worker.datagram.captured \in Nat  BY <1>1 DEF Datagrams
        <5> QED BY <2>2, <3>4, <3>5, <4>1, <5>1
      <4>2. CASE j \in 1 .. Len(air)
        <5>1. i \in 1 .. Len(air)  BY <2>2, <3>7, <4>2
        <5> QED BY <2>2, <3>1, <3>7, <4>2, <5>1 DEF Undisturbed, AirInOrder
      <4> QED BY <3>5, <4>1, <4>2
    <3>8. AirInOrder'  BY <1>1, <1>3, <2>1, <3>1, <3>6, <3>7 DEF Undisturbed, AirInOrder
    <3>9. LastIsFinal'
      <4>1. ASSUME worker'.at = "ended"
            PROVE  air'[Len(air')].final /\ air'[Len(air')].captured = sink'.runtime
        BY <1>1, <1>3, <2>1, <2>2, <4>1 DEF TelemetryInv, MailboxesKept
      <4> QED BY <2>2, <4>1 DEF LastIsFinal
    <3> QED BY <3>2, <3>8, <3>9 DEF Undisturbed
  <2> QED BY <2>3, <2>4, <2>5 DEF TelemetryInv
<1>6. CASE /\ sink' = [sink EXCEPT !.fatal = TRUE, !.running = ~worker.datagram.final]
           /\ disturbed' = TRUE /\ air' = air
  <2>1. /\ sink' \in Sinks /\ sink'.attempted = sink.attempted
        /\ sink'.runtime = sink.runtime /\ sink'.control = sink.control
        /\ sink'.stopping = sink.stopping
    BY <1>1, <1>2, <1>6 DEF Sinks
  <2>2. TelemetryTypes' /\ SpanKept(viewer)'
    BY <1>1, <1>3, <1>6, <2>1 DEF TelemetryInv, TelemetryTypes
  <2>3. MailboxesKept'  BY <1>1, <1>3, <1>4, <2>1 DEF TelemetryInv, MailboxesKept
  <2> QED BY <1>6, <2>2, <2>3 DEF TelemetryInv
<1> QED BY <1>5, <1>6 DEF SendDatagram

\* After a loss nothing is promised but the receiver's own counts.
LEMMA LoseStep == ASSUME TelemetryInv, Lose PROVE TelemetryInv'
<1>1. /\ air # <<>> /\ air' = Tail(air) /\ disturbed' = TRUE /\ air \in Seq(Datagrams)
      /\ results' = results /\ loop' = loop /\ sink' = sink /\ worker' = worker
      /\ viewer' = viewer
  BY DEF Lose, TelemetryInv, TelemetryTypes
<1>2. air' \in Seq(Datagrams)  BY <1>1
<1> QED BY <1>1, <1>2 DEF TelemetryInv, TelemetryTypes, MailboxesKept

\* One datagram is taken out of those under way.
LEMMA RemoveIs ==
    ASSUME NEW s \in Seq(Datagrams), NEW k \in 1 .. Len(s)
    PROVE  /\ RemoveAt(s, k) \in Seq(Datagrams)
           /\ k = 1 => /\ Len(RemoveAt(s, k)) = Len(s) - 1
                       /\ \A i \in 1 .. Len(s) - 1 : RemoveAt(s, k)[i] = s[i + 1]
<1> DEFINE a == SubSeq(s, 1, k - 1)
           b == SubSeq(s, k + 1, Len(s))
<1>1. RemoveAt(s, k) = a \o b  BY DEF RemoveAt
<1>2. a \in Seq(Datagrams) /\ b \in Seq(Datagrams)
  <2>1. /\ \A i \in 1 .. k - 1 : s[i] \in Datagrams
        /\ \A i \in k + 1 .. Len(s) : s[i] \in Datagrams
    OBVIOUS
  <2> QED BY <2>1
<1>3. Len(b) = Len(s) - k /\ \A i \in 1 .. Len(s) - k : b[i] = s[k + i]  OBVIOUS
<1>4. k = 1 => Len(a) = 0  OBVIOUS
<1> HIDE DEF a, b
<1>5. a \o b \in Seq(Datagrams)  BY <1>2
<1>6. ASSUME k = 1
      PROVE  /\ Len(a \o b) = Len(s) - 1
             /\ \A i \in 1 .. Len(s) - 1 : (a \o b)[i] = s[i + 1]
  BY <1>2, <1>3, <1>4, <1>6
<1> QED BY <1>1, <1>5, <1>6

\* What the receiver makes of a datagram.
LEMMA CountIs ==
    ASSUME NEW v \in Viewers, NEW d \in Datagrams, SpanKept(v)
    PROVE  Count(v, d) \in Viewers /\ SpanKept(Count(v, d))
<1>1. /\ v.packets \in Nat /\ v.first \in Nat /\ v.previous \in Nat /\ v.captured \in Nat
      /\ v.gaps \in Nat /\ v.outOfOrder \in Nat /\ v.regressions \in Nat /\ v.final \in BOOLEAN
      /\ d.seq \in Nat /\ d.captured \in Nat /\ d.final \in BOOLEAN
  BY DEF Viewers, Datagrams
<1> DEFINE w == Count(v, d)
<1>2. /\ w.packets = v.packets + 1
      /\ w.first = IF v.packets = 0 THEN d.seq ELSE v.first
      /\ w.previous = d.seq
      /\ w.gaps = IF v.packets > 0 /\ d.seq > v.previous + 1
                  THEN v.gaps + d.seq - v.previous - 1 ELSE v.gaps
      /\ w.outOfOrder = IF v.packets > 0 /\ d.seq <= v.previous
                        THEN v.outOfOrder + 1 ELSE v.outOfOrder
  BY DEF Count
<1>3. w \in Viewers  BY <1>1 DEF Count, Viewers
<1> HIDE DEF w
<1>4. SpanKept(w)
  <2>1. CASE v.packets = 0  BY <1>1, <1>2, <2>1 DEF SpanKept
  <2>2. CASE v.packets > 0 /\ d.seq > v.previous + 1  BY <1>1, <1>2, <2>2 DEF SpanKept
  <2>3. CASE v.packets > 0 /\ d.seq = v.previous + 1  BY <1>1, <1>2, <2>3 DEF SpanKept
  <2>4. CASE v.packets > 0 /\ d.seq <= v.previous  BY <1>1, <1>2, <2>4 DEF SpanKept
  <2> QED BY <1>1, <2>1, <2>2, <2>3, <2>4
<1> QED BY <1>3, <1>4 DEF w

\* When nothing is missing it is the next one, and no counter of trouble moves.
LEMMA ReceiveStep == ASSUME TelemetryInv, NEW k \in DOMAIN air, ReceiveFrom(k) PROVE TelemetryInv'
<1>1. /\ air \in Seq(Datagrams) /\ k \in 1 .. Len(air) /\ air[k] \in Datagrams
      /\ viewer \in Viewers /\ SpanKept(viewer)
  BY DEF TelemetryInv, TelemetryTypes
<1>2. /\ viewer' = Count(viewer, air[k]) /\ air' = RemoveAt(air, k)
      /\ disturbed' = (disturbed \/ k > 1)
      /\ results' = results /\ loop' = loop /\ sink' = sink /\ worker' = worker
  BY DEF ReceiveFrom
<1>3. viewer' \in Viewers /\ SpanKept(viewer')  BY <1>1, <1>2, CountIs
<1>4. air' \in Seq(Datagrams)  BY <1>1, <1>2, RemoveIs
<1>5. disturbed' \in BOOLEAN  BY <1>2
<1>6. TelemetryTypes'  BY <1>2, <1>3, <1>4, <1>5 DEF TelemetryInv, TelemetryTypes
<1>7. MailboxesKept'  BY <1>2 DEF TelemetryInv, MailboxesKept
<1>8. ASSUME ~disturbed' PROVE Undisturbed'
  <2>0. ~disturbed /\ ~(k > 1)  BY <1>2, <1>8
  <2>1. ~disturbed /\ k = 1 /\ Undisturbed  BY <1>1, <2>0 DEF TelemetryInv
  <2>2. /\ Len(air') = Len(air) - 1 /\ Len(air) \in Nat
        /\ \A i \in 1 .. Len(air) - 1 : air'[i] = air[i + 1]
    BY <1>1, <1>2, <2>1, RemoveIs
  <2>3. /\ air[1].seq = viewer.packets + 1 /\ viewer.captured <= air[1].captured
        /\ viewer.previous = viewer.packets
        /\ viewer.gaps = 0 /\ viewer.outOfOrder = 0 /\ viewer.regressions = 0
    BY <1>1, <2>1 DEF Undisturbed, NothingMissed, AirInOrder
  <2>4. /\ viewer.packets \in Nat /\ viewer.captured \in Nat /\ air[1].captured \in Nat
        /\ air[1].final \in BOOLEAN /\ viewer.final \in BOOLEAN
    BY <1>1, <2>1 DEF Viewers, Datagrams
  <2>5. /\ viewer'.packets = viewer.packets + 1 /\ viewer'.previous = viewer.packets + 1
        /\ viewer'.captured = air[1].captured
        /\ viewer'.gaps = 0 /\ viewer'.outOfOrder = 0 /\ viewer'.regressions = 0
        /\ viewer'.final = (viewer.final \/ air[1].final)
    <3>1. viewer' = Count(viewer, air[1])  BY <1>2, <2>1
    <3>2. viewer'.final = (viewer.final \/ air[1].final)  BY <3>1, Zenon DEF Count
    <3>3. /\ viewer'.packets = viewer.packets + 1 /\ viewer'.previous = air[1].seq
          /\ viewer'.captured = air[1].captured
      BY <3>1 DEF Count
    <3>4. viewer'.gaps = 0 /\ viewer'.outOfOrder = 0 /\ viewer'.regressions = 0
      BY <2>3, <2>4, <3>1 DEF Count
    <3> QED BY <2>3, <3>2, <3>3, <3>4
  <2>6. NothingMissed'
    <3>1. viewer'.packets + Len(air') = sink'.sent
      <4>1. viewer.packets + Len(air) = sink.sent /\ sink' = sink
        BY <1>2, <2>1 DEF Undisturbed, NothingMissed
      <4> QED BY <2>2, <2>4, <2>5, <4>1
    <3> QED BY <1>2, <2>1, <2>5, <3>1 DEF Undisturbed, NothingMissed
  <2>7. \A i \in 1 .. Len(air') : i + 1 \in 1 .. Len(air) /\ air'[i] = air[i + 1] /\ 1 <= i + 1
    BY <2>2
  <2>8. 1 \in 1 .. Len(air)  BY <1>1, <2>1
  <2>9. AirInOrder'
    <3>1. \A i \in 1 .. Len(air') :
              /\ air'[i].seq = viewer'.packets + i
              /\ viewer'.captured <= air'[i].captured /\ air'[i].captured <= sink'.runtime
              /\ worker'.at = "sending" => air'[i].captured <= worker'.datagram.captured
      <4>1. /\ \A i \in 1 .. Len(air) :
                  /\ air[i].seq = viewer.packets + i /\ air[i].captured <= sink.runtime
                  /\ worker.at = "sending" => air[i].captured <= worker.datagram.captured
            /\ \A i \in 1 .. Len(air) : 1 <= i => air[1].captured <= air[i].captured
        BY <2>1, <2>8 DEF Undisturbed, AirInOrder
      <4>2. SUFFICES ASSUME NEW i \in 1 .. Len(air')
                     PROVE  /\ air'[i].seq = viewer'.packets + i
                            /\ viewer'.captured <= air'[i].captured
                            /\ air'[i].captured <= sink'.runtime
                            /\ worker'.at = "sending" =>
                                   air'[i].captured <= worker'.datagram.captured
        OBVIOUS
      <4>3. i + 1 \in 1 .. Len(air) /\ air'[i] = air[i + 1] /\ 1 <= i + 1 /\ i \in Nat
        BY <2>2, <2>7
      <4>4. air[i + 1].seq = viewer.packets + (i + 1)  BY <4>1, <4>3
      <4>5. air'[i].seq = viewer'.packets + i  BY <2>4, <2>5, <4>3, <4>4
      <4> QED BY <1>2, <2>5, <4>1, <4>3, <4>5
    <3>2. ASSUME NEW i \in 1 .. Len(air'), NEW j \in 1 .. Len(air'), i <= j
          PROVE  air'[i].captured <= air'[j].captured
      <4>1. i + 1 <= j + 1  BY <2>2, <3>2
      <4> QED BY <2>1, <2>7, <4>1 DEF Undisturbed, AirInOrder
    <3>3. viewer'.captured <= sink'.runtime
          /\ (worker'.at = "sending" => viewer'.captured <= worker'.datagram.captured)
      BY <1>2, <2>1, <2>5, <2>8 DEF Undisturbed, AirInOrder
    <3> QED BY <3>1, <3>2, <3>3 DEF AirInOrder
  <2>10. LastIsFinal'
    <3>1. ASSUME worker.at = "ended"
          PROVE  air[Len(air)].final /\ air[Len(air)].captured = sink.runtime
      BY <1>1, <2>1, <3>1 DEF Undisturbed, LastIsFinal
    <3>2. CASE Len(air) = 1
      <4>1. air' = <<>>  BY <1>4, <2>2, <3>2
      <4> QED BY <1>2, <2>5, <3>1, <3>2, <4>1 DEF LastIsFinal
    <3>3. CASE Len(air) # 1
      <4>1. Len(air') \in 1 .. Len(air') /\ Len(air') + 1 = Len(air) /\ air' # <<>>
        BY <1>1, <1>4, <2>2, <3>3
      <4>2. air'[Len(air')] = air[Len(air)]  BY <2>7, <4>1
      <4> QED BY <1>2, <3>1, <4>1, <4>2 DEF LastIsFinal
    <3> QED BY <3>2, <3>3
  <2> QED BY <2>6, <2>9, <2>10 DEF Undisturbed
<1> QED BY <1>3, <1>6, <1>7, <1>8 DEF TelemetryInv

\* Every step of TelemetryPath keeps the invariant.
LEMMA TelemetryStep == TelemetryInv /\ [TelemetryNext]_telemetryVars => TelemetryInv'
<1> SUFFICES ASSUME TelemetryInv, [TelemetryNext]_telemetryVars PROVE TelemetryInv'
  OBVIOUS
<1>1. CASE UNCHANGED telemetryVars
  BY <1>1 DEF telemetryVars, TelemetryInv, TelemetryTypes, MailboxesKept, SpanKept,
     Undisturbed, NothingMissed, AirInOrder, LastIsFinal
<1>2. CASE Publish  BY <1>2, PublishResultStep
<1>3. CASE UpdateControl  BY <1>3, UpdateControlStep
<1>4. CASE UpdateRuntime  BY <1>4, UpdateRuntimeStep
<1>5. CASE NoticeFault  BY <1>5, NoticeFaultStep
<1>6. CASE StopTelemetry  BY <1>6, StopTelemetryStep
<1>7. CASE JoinTelemetry  BY <1>7, JoinTelemetryStep
<1>8. CASE TakeLatest  BY <1>8, TakeLatestStep
<1>9. CASE SendDatagram  BY <1>9, SendStep
<1>10. CASE Lose  BY <1>10, LoseStep
<1>11. ASSUME NEW k \in DOMAIN air, ReceiveFrom(k) PROVE TelemetryInv'
  BY <1>11, ReceiveStep
<1> QED BY <1>1, <1>2, <1>3, <1>4, <1>5, <1>6, <1>7, <1>8, <1>9, <1>10, <1>11
        DEF TelemetryNext, Receive

\* The counters of the telemetry receiver tell the truth, and a run that stops undisturbed ends
\* with its last status and control (telemetry.cpp:240-304, telemetry.py:195-206).
THEOREM ViewerToldTruly == TelemetrySpec => []TelemetryKept
<1>1. TelemetryInit => TelemetryInv  BY TelemetryStarts
<1>2. TelemetryInv /\ [TelemetryNext]_telemetryVars => TelemetryInv'  BY TelemetryStep
<1>3. TelemetryInv => TelemetryKept  BY TelemetryHolds
<1> QED BY <1>1, <1>2, <1>3, PTL DEF TelemetrySpec

--------------------------------------------------------------------------------
(* What the components hold of the kernel and the libraries.                *)

SetupStates == {"closed", "opening", "open", "running", "stopped"}
Sayings == [accepting : BOOLEAN, working : SUBSET Workers, started : BOOLEAN, queued : Nat]
Lines == [line : {"found", "raw"}, saved : {"none", "found", "raw"}, broken : BOOLEAN]

SetupTypes ==
    /\ setup \in [Components -> SetupStates]
    /\ \A c \in Components : setup[c] = "opening" => call[c] \in 1..LastCall(c)
    /\ DOMAIN call = Components

\* What is referred to by the members, and by the locals, of a component.
ObjectsOf(c, set) == {o \in set : o[1] = c}

\* Of the objects: each is referred to, under a name that its component closes; only the
\* openings that have locals use them.
ObjectsKept ==
    /\ objects = members \cup locals
    /\ \A o \in objects : o[2] \in Closes(o[1])
    /\ \A o \in locals : InLocal(o[1])

\* Of a component: while it opens, what it holds was made by calls that are over.
MadeBefore(c, k, set) ==
    \A o \in set : o[3] \in 1..(k - 1) /\ o[2] = Chain[c][o[3]]
HoldsAs(c, state, k, held, local) ==
    /\ state = "closed" => held = {}
    /\ state # "opening" => local = {}
    /\ state = "opening" =>
        /\ MadeBefore(c, k, held) /\ MadeBefore(c, k, local)
        /\ c = "telemetry" /\ k > Configured => local = {}
        /\ c = "net" /\ k > 1 => held # {}
ComponentsKept ==
    \A c \in Components : HoldsAs(c, setup[c], call[c], Of(c), OfLocals(c))

\* What the flags claim, of the states and what is held.
FlagsKept(state, said, set) ==
    /\ said \in Sayings
    /\ said.accepting => state["net"] \in {"opening", "running"} /\ ObjectsOf("net", set) # {}
    /\ \A c \in said.working : state[c] \in {"opening", "running"} \/ c = "telemetry"
    /\ state["camera"] = "running" => said.queued = SetupBuffers
    /\ state["camera"] \in {"closed", "opening"} => said.queued = 0

\* The settings of a line that still takes them: those it was found with are saved from
\* tcgetattr on, until they have been restored or the line never was changed.
LineKept(state, k, t) ==
    /\ t \in Lines
    /\ ~t.broken =>
        /\ t.saved \in {"none", "found"}
        /\ t.saved = "none" => t.line = "found"
        /\ state = "closed" => t.saved = "none"
        /\ state = "opening" => (k > TcGet <=> t.saved # "none") /\ (k <= TcSet => t.line = "found")
SerialKept == LineKept(setup["serial"], call["serial"], tty)

GuardKept ==
    /\ guard = [list |-> guard.list, at |-> guard.at, active |-> guard.active, begun |-> guard.begun]
    /\ brackets \in [Descriptors -> Int] /\ unended \in BOOLEAN
    /\ BracketsBalanced

SetupInv ==
    /\ SetupTypes /\ ObjectsKept /\ ComponentsKept /\ FlagsKept(setup, says, members)
    /\ SerialKept /\ GuardKept

\* The invariant holds before anything is opened.
LEMMA SetupStarts == SetupInit => SetupInv
<1> SUFFICES ASSUME SetupInit PROVE SetupInv  OBVIOUS
<1>1. /\ setup = [c \in Components |-> "closed"] /\ call = [c \in Components |-> 0]
      /\ objects = {} /\ members = {} /\ locals = {}
      /\ says = [accepting |-> FALSE, working |-> {}, started |-> FALSE, queued |-> 0]
      /\ tty = [line |-> "found", saved |-> "none", broken |-> FALSE]
      /\ guard = [list |-> <<>>, at |-> 0, active |-> {}, begun |-> FALSE]
      /\ brackets = [d \in Descriptors |-> 0] /\ unended = FALSE
  BY DEF SetupInit
<1>2. SetupTypes  BY <1>1 DEF SetupTypes, SetupStates
<1>3. ObjectsKept  BY <1>1 DEF ObjectsKept
<1>4. ComponentsKept  BY <1>1 DEF ComponentsKept, HoldsAs, Of, OfLocals
<1>5. FlagsKept(setup, says, members)
  <2>1. {} \in SUBSET Workers  OBVIOUS
  <2> QED BY <1>1, <2>1 DEF FlagsKept, Sayings, Components
<1>6. SerialKept  BY <1>1 DEF SerialKept, LineKept, Lines, Components
<1>7. GuardKept
  <2>1. brackets \in [Descriptors -> Int] /\ unended \in BOOLEAN
    <3>1. [d \in Descriptors |-> 0] \in [Descriptors -> Int]  OBVIOUS
    <3> QED BY <1>1, <3>1
  <2>2. guard.active = {} /\ guard.begun = FALSE  BY <1>1
  <2>3. guard = [list |-> guard.list, at |-> guard.at, active |-> guard.active,
                 begun |-> guard.begun]
    BY <1>1
  <2>4. BracketsBalanced  BY <1>1, <2>2 DEF BracketsBalanced
  <2> QED BY <2>1, <2>3, <2>4 DEF GuardKept
<1> QED BY <1>2, <1>3, <1>4, <1>5, <1>6, <1>7 DEF SetupInv

\* The invariant implies the properties.
LEMMA SetupHolds == SetupInv => SetupKept
<1> SUFFICES ASSUME SetupInv PROVE SetupKept  OBVIOUS
<1>1. Of("net") = ObjectsOf("net", members)  BY DEF Of, ObjectsOf
<1>2. FlagsTrue  BY <1>1 DEF SetupInv, FlagsKept, FlagsTrue
<1>3. NothingLost  BY DEF SetupInv, ObjectsKept, ComponentsKept, HoldsAs, NothingLost
<1>4. LineRestored  BY DEF SetupInv, SerialKept, LineKept, LineRestored
<1> QED BY <1>2, <1>3, <1>4 DEF SetupInv, SetupKept, GuardKept

\* What the calls make has names that the component closes.
ChainGood(c) ==
    /\ LastCall(c) \in Nat \ {0}
    /\ \A k \in 1..LastCall(c) : Chain[c][k] # Check => Chain[c][k] \in Closes(c)

LEMMA CameraChain == ChainGood("camera")
<1> DEFINE size == 2 * SetupBuffers * SetupPlanes
           a == CameraOpening
           b == CameraMappings
           Entries == {"device", "wake_event", "check", "mapping", "dma_buf"}
<1>1. size \in Nat
  <2>1. \A x, y \in Nat : 2 * x * y \in Nat  OBVIOUS
  <2> QED BY <2>1, SetupAssumption
<1>2. a \in Seq(Entries) /\ Len(a) = 5  BY DEF CameraOpening, Check
<1>3. b \in Seq(Entries)
  <2> HIDE DEF size
  <2>1. b \in [1..size -> Entries]  BY DEF CameraMappings, size
  <2> QED BY <1>1, <2>1
<1>4. Len(b) = size
  <2> HIDE DEF size
  <2>1. DOMAIN b = 1..size  BY DEF CameraMappings, size
  <2> HIDE DEF b
  <2> QED BY <1>1, <1>3, <2>1
<1> HIDE DEF a, b, size
<1>5. Len(a \o b) = 5 + size /\ a \o b \in Seq(Entries)
  <2> HIDE DEF Entries
  <2>1. a \o b \in Seq(Entries) /\ Len(a \o b) = Len(a) + Len(b)
    BY <1>2, <1>3, ConcatProperties
  <2> QED BY <1>2, <1>4, <2>1
<1>6. Chain["camera"] = a \o b  BY DEF Chain, a, b
<1>7. \A k \in 1..(5 + size) : (a \o b)[k] \in Entries  BY <1>5
<1>8. Entries \ {"check"} = Closes("camera")  BY DEF Closes, ReleaseResources
<1> QED BY <1>1, <1>5, <1>6, <1>7, <1>8 DEF ChainGood, LastCall, Check

LEMMA ChainsGood == \A c \in Components : ChainGood(c)
<1>1. /\ Closes("pcm") = {"status", "pcm"} /\ Closes("codec") = {"context"}
      /\ Closes("mp4") = {"file", "format"} /\ Closes("net") = {"file", "format"}
      /\ Closes("telemetry") = {"socket"} /\ Closes("serial") = {"line"}
  BY DEF Closes, PcmClose, CloseCodec, CloseLocked, CloseFormat, CloseSocket, CloseLine
<1>2. ChainGood("pcm")
  <2>1. Chain["pcm"] \in Seq({"check", "pcm", "status"}) /\ Len(Chain["pcm"]) = 5
    BY DEF Chain, PcmOpening, Check
  <2> QED BY <1>1, <2>1 DEF ChainGood, LastCall, Check
<1>3. ChainGood("codec")
  <2>1. Chain["codec"] \in Seq({"check", "context"}) /\ Len(Chain["codec"]) = 5
    BY DEF Chain, CodecOpening, Check
  <2> QED BY <1>1, <2>1 DEF ChainGood, LastCall, Check
<1>4. ChainGood("mp4")
  <2>1. Chain["mp4"] \in Seq({"check", "format", "file"}) /\ Len(Chain["mp4"]) = 5
    BY DEF Chain, MuxerOpening, Check
  <2> QED BY <1>1, <2>1 DEF ChainGood, LastCall, Check
<1>5. ChainGood("net")
  <2>1. Chain["net"] \in Seq({"check", "format", "file"}) /\ Len(Chain["net"]) = 7
    BY DEF Chain, SenderOpening, Check
  <2> QED BY <1>1, <2>1 DEF ChainGood, LastCall, Check
<1>6. ChainGood("telemetry")
  <2>1. Chain["telemetry"] \in Seq({"check", "socket"}) /\ Len(Chain["telemetry"]) = 4
    BY DEF Chain, SocketOpening, Check
  <2> QED BY <1>1, <2>1 DEF ChainGood, LastCall, Check
<1>7. ChainGood("serial")
  <2>1. Chain["serial"] \in Seq({"check", "line"}) /\ Len(Chain["serial"]) = 6
    BY DEF Chain, SerialOpening, Check
  <2> QED BY <1>1, <2>1 DEF ChainGood, LastCall, Check
<1> QED BY <1>2, <1>3, <1>4, <1>5, <1>6, <1>7, CameraChain DEF Components

\* The calls that the branches and the flags depend on.
LEMMA CallsAre ==
    /\ LastCall("telemetry") = 4 /\ LastCall("serial") = 6 /\ LastCall("net") = 7
    /\ Chain["telemetry"][1] = Check /\ Chain["telemetry"][3] = Check
    /\ Chain["telemetry"][4] = Check /\ Chain["serial"][6] = Check
    /\ Chain["net"][1] = "format"
    /\ \A c \in Components : Check \notin Closes(c)
<1>1. \A c \in Components : Check \notin Closes(c)
  BY DEF Components, Closes, ReleaseResources, PcmClose, CloseCodec, CloseLocked,
     CloseFormat, CloseSocket, CloseLine, Check
<1>2. LastCall("telemetry") = 4 /\ Chain["telemetry"][1] = Check
      /\ Chain["telemetry"][3] = Check /\ Chain["telemetry"][4] = Check
  BY DEF LastCall, Chain, SocketOpening
<1>3. LastCall("serial") = 6 /\ Chain["serial"][6] = Check
  BY DEF LastCall, Chain, SerialOpening
<1>4. LastCall("net") = 7 /\ Chain["net"][1] = "format"
  BY DEF LastCall, Chain, SenderOpening
<1> QED BY <1>1, <1>2, <1>3, <1>4

\* A routine or branch that closes the names of all that its component holds.
LEMMA CleanedUp ==
    ASSUME NEW c, NEW names, ObjectsKept, CleanUp(c, names),
           \A o \in Of(c) \cup OfLocals(c) : o[2] \in names
    PROVE  /\ ObjectsKept'
           /\ Of(c)' = {} /\ OfLocals(c)' = {}
           /\ \A d : d # c => Of(d)' = Of(d) /\ OfLocals(d)' = OfLocals(d)
<1> DEFINE gone == {o \in members \cup locals : o[1] = c /\ o[2] \in names}
<1>1. objects' = objects \ gone /\ members' = members \ Of(c) /\ locals' = locals \ OfLocals(c)
  BY DEF CleanUp
<1>2. gone = Of(c) \cup OfLocals(c)  BY DEF Of, OfLocals
<1> HIDE DEF gone
<1>3. objects' = members' \cup locals'  BY <1>1, <1>2 DEF ObjectsKept, Of, OfLocals
<1>4. ObjectsKept'  BY <1>1, <1>3 DEF ObjectsKept
<1> QED BY <1>1, <1>4 DEF Of, OfLocals

\* A routine that closes all its component may hold.
LEMMA Closed ==
    ASSUME NEW c, ObjectsKept, CleanUp(c, Closes(c))
    PROVE  /\ ObjectsKept'
           /\ Of(c)' = {} /\ OfLocals(c)' = {}
           /\ \A d : d # c => Of(d)' = Of(d) /\ OfLocals(d)' = OfLocals(d)
<1>1. \A o \in Of(c) \cup OfLocals(c) : o[2] \in Closes(c)
  BY DEF ObjectsKept, Of, OfLocals
<1> QED BY <1>1, CleanedUp

\* What one component does leaves the others as they are.
LEMMA OthersKept ==
    ASSUME ComponentsKept, NEW c \in Components,
           \A d \in Components : d # c => /\ setup'[d] = setup[d] /\ call'[d] = call[d]
                                       /\ Of(d)' = Of(d) /\ OfLocals(d)' = OfLocals(d),
           HoldsAs(c, setup'[c], call'[c], Of(c)', OfLocals(c)')
    PROVE  ComponentsKept'
<1>1. ASSUME NEW d \in Components
      PROVE  HoldsAs(d, setup'[d], call'[d], Of(d)', OfLocals(d)')
  <2>1. HoldsAs(d, setup[d], call[d], Of(d), OfLocals(d))  BY DEF ComponentsKept
  <2> QED BY <2>1
<1> QED BY <1>1 DEF ComponentsKept

\* Of the names a branch closes there is something left only where nothing has been made.
LEMMA BranchEnough ==
    ASSUME SetupInv, NEW c \in Components, setup[c] = "opening"
    PROVE  \A o \in Of(c) \cup OfLocals(c) : o[2] \in BranchCloses(c, call[c])
<1> DEFINE k == call[c]
<1>1. /\ k \in 1..LastCall(c) /\ LastCall(c) \in Nat
      /\ MadeBefore(c, k, Of(c)) /\ MadeBefore(c, k, OfLocals(c))
      /\ \A o \in Of(c) \cup OfLocals(c) : o[2] \in Closes(c)
  BY ChainsGood DEF SetupInv, SetupTypes, ComponentsKept, HoldsAs, ObjectsKept, Of, OfLocals, ChainGood
<1>2. BranchCloses(c, k) = Closes(c) \/ (c = "pcm" /\ k = 1) \/ (c = "serial" /\ k = 1)
      \/ (c = "telemetry" /\ k \in {1, 2})
  <2> HIDE DEF k
  <2>1. c \in {"camera", "codec", "mp4", "net"} => BranchCloses(c, k) = Closes(c)
    BY DEF BranchCloses, Closes
  <2>2. CASE c = "pcm"
    <3>1. k = 1 \/ k > 1  BY <1>1
    <3> QED BY <2>2, <3>1 DEF BranchCloses, Closes
  <2>3. CASE c = "telemetry"
    <3>1. k \in {1, 2} \/ k = 3 \/ k > 3  BY <1>1
    <3> QED BY <2>3, <3>1 DEF BranchCloses, Closes, Configured, CloseSocket
  <2>4. CASE c = "serial"
    <3>1. k = 1 \/ k = 2 \/ k = 3 \/ k = 4 \/ k = 5 \/ k = 6  BY <1>1, <2>4, CallsAre
    <3> QED BY <2>4, <3>1 DEF BranchCloses, Closes, TcGet, TcSet, TcFlush, CloseLine
  <2> QED BY <2>1, <2>2, <2>3, <2>4 DEF Components
<1>3. CASE BranchCloses(c, k) = Closes(c)  BY <1>1, <1>3
<1>4. CASE k = 1
  <2>1. \A o \in Of(c) \cup OfLocals(c) : o[3] \in 1..0  BY <1>1, <1>4 DEF MadeBefore
  <2>2. \A x : x \notin 1..0  OBVIOUS
  <2> QED BY <2>1, <2>2
<1>5. CASE c = "telemetry" /\ k = 2
  <2>1. \A o \in Of(c) \cup OfLocals(c) : o[3] \in 1..1 /\ o[2] = Chain[c][o[3]]
    BY <1>1, <1>5 DEF MadeBefore
  <2>2. \A x \in 1..1 : x = 1  OBVIOUS
  <2>3. \A o \in Of(c) \cup OfLocals(c) : o[2] = Check  BY <1>5, <2>1, <2>2, CallsAre
  <2> QED BY <1>1, <2>3, CallsAre
<1> QED BY <1>2, <1>3, <1>4, <1>5

\* What the flags say stays true when one component changes, if it does of that component.
FlagsOf(c, state, said, held) ==
    /\ c = "net" /\ said.accepting => state \in {"opening", "running"} /\ held # {}
    /\ c \in said.working => state \in {"opening", "running"} \/ c = "telemetry"
    /\ c = "camera" /\ state = "running" => said.queued = SetupBuffers
    /\ c = "camera" /\ state \in {"closed", "opening"} => said.queued = 0
LEMMA FlagsStay ==
    ASSUME FlagsKept(setup, says, members), NEW c \in Components, says' \in Sayings,
           \A d \in Components : d # c => setup'[d] = setup[d] /\ Of(d)' = Of(d),
           FlagsOf(c, setup'[c], says', Of(c)'),
           says'.working \subseteq says.working \cup {c},
           c # "net" => says'.accepting = says.accepting,
           c # "camera" => says'.queued = says.queued
    PROVE  FlagsKept(setup', says', members')
<1>0. "net" \in Components /\ "camera" \in Components /\ Workers \subseteq Components
  BY DEF Components, Workers
<1>1. Of("net") = ObjectsOf("net", members) /\ Of("net")' = ObjectsOf("net", members')
  BY DEF Of, ObjectsOf
<1>2. says'.accepting => setup'["net"] \in {"opening", "running"} /\ ObjectsOf("net", members') # {}
  <2>1. CASE c = "net"  BY <1>1, <2>1 DEF FlagsOf
  <2>2. CASE c # "net"  BY <1>0, <1>1, <2>2 DEF FlagsKept
  <2> QED BY <2>1, <2>2
<1>3. ASSUME NEW d \in says'.working
      PROVE  setup'[d] \in {"opening", "running"} \/ d = "telemetry"
  <2>1. CASE d = c  BY <1>3, <2>1 DEF FlagsOf
  <2>2. CASE d # c
    <3>1. d \in says.working /\ d \in Components
      BY <1>0, <1>3, <2>2 DEF FlagsKept, Sayings
    <3> QED BY <2>2, <3>1 DEF FlagsKept
  <2> QED BY <2>1, <2>2
<1>4. /\ setup'["camera"] = "running" => says'.queued = SetupBuffers
      /\ setup'["camera"] \in {"closed", "opening"} => says'.queued = 0
  <2>1. CASE c = "camera"  BY <2>1 DEF FlagsOf
  <2>2. CASE c # "camera"  BY <1>0, <2>2 DEF FlagsKept
  <2> QED BY <2>1, <2>2
<1> QED BY <1>2, <1>3, <1>4 DEF FlagsKept

\* What the flags say of one component, taken from the invariant.
LEMMA FlagsSay ==
    ASSUME FlagsKept(setup, says, members), NEW c \in Components
    PROVE  FlagsOf(c, setup[c], says, Of(c))
<1>1. Of("net") = ObjectsOf("net", members)  BY DEF Of, ObjectsOf
<1> QED BY <1>1 DEF FlagsOf, FlagsKept

\* The states and the calls, when one component changes its own.
LEMMA StatesSet ==
    ASSUME SetupTypes, NEW c \in Components, NEW e \in SetupStates, NEW k,
           setup' = [setup EXCEPT ![c] = e], call' = [call EXCEPT ![c] = k],
           e = "opening" => k \in 1..LastCall(c)
    PROVE  /\ SetupTypes'
           /\ setup'[c] = e /\ call'[c] = k
           /\ \A d \in Components : d # c => setup'[d] = setup[d] /\ call'[d] = call[d]
<1>1. setup' \in [Components -> SetupStates] /\ DOMAIN call' = Components
  BY DEF SetupTypes
<1>2. /\ setup'[c] = e /\ call'[c] = k
      /\ \A d \in Components : d # c => setup'[d] = setup[d] /\ call'[d] = call[d]
  BY DEF SetupTypes
<1>3. ASSUME NEW d \in Components, setup'[d] = "opening" PROVE call'[d] \in 1..LastCall(d)
  BY <1>2, <1>3 DEF SetupTypes
<1> QED BY <1>1, <1>2, <1>3 DEF SetupTypes

\* The flags of a component taken back.
LEMMA FlagsDropped ==
    ASSUME says \in Sayings, NEW c,
           says' = [says EXCEPT !.accepting = says.accepting /\ c # "net",
                                !.working = says.working \ {c}]
    PROVE  /\ says' \in Sayings /\ says'.queued = says.queued
           /\ says'.working = says.working \ {c}
           /\ c # "net" => says'.accepting = says.accepting
           /\ c = "net" => ~says'.accepting
<1>1. /\ says.accepting \in BOOLEAN /\ says.working \in SUBSET Workers  BY DEF Sayings
<1>2. PICK up \in BOOLEAN : /\ says' = [says EXCEPT !.accepting = up, !.working = says.working \ {c}]
                            /\ up <=> says.accepting /\ c # "net"
  <2> DEFINE up == says.accepting /\ c # "net"
  <2>1. says' = [says EXCEPT !.accepting = up, !.working = says.working \ {c}]  OBVIOUS
  <2>2. up \in BOOLEAN /\ (up <=> says.accepting /\ c # "net")  OBVIOUS
  <2> HIDE DEF up
  <2> QED BY <2>1, <2>2
<1>3. /\ says' \in Sayings /\ says'.queued = says.queued /\ says'.accepting = up
      /\ says'.working = says.working \ {c}
  BY <1>1, <1>2 DEF Sayings
<1> QED BY <1>1, <1>2, <1>3

\* A line that is restored has the settings it was found with, or is broken.
LEMMA LineRestoredBy ==
    ASSUME NEW state, NEW k, LineKept(state, k, tty), NEW fails \in BOOLEAN, RestoreLine(fails)
    PROVE  /\ tty' \in Lines
           /\ ~tty'.broken => ~tty.broken /\ tty'.saved = "none" /\ tty'.line = "found"
<1>1. /\ tty \in Lines /\ tty.line \in {"found", "raw"} /\ tty.saved \in {"none", "found", "raw"}
      /\ tty.broken \in BOOLEAN
  BY DEF LineKept, Lines
<1> DEFINE l == IF fails \/ tty.saved = "none" THEN tty.line ELSE tty.saved
           b == tty.broken \/ fails
<1>2. tty' = [tty EXCEPT !.line = l, !.saved = "none", !.broken = b]
  BY Zenon DEF RestoreLine
<1>3. l \in {"found", "raw"}  BY <1>1
<1>4. b \in BOOLEAN /\ (b <=> tty.broken \/ fails)  OBVIOUS
<1>5. ~tty.broken /\ ~fails => l = "found"  BY DEF LineKept
<1> HIDE DEF l, b
<1>6. /\ tty' \in Lines /\ tty'.line = l /\ tty'.saved = "none" /\ tty'.broken = b
  BY <1>1, <1>2, <1>3, <1>4 DEF Lines
<1> QED BY <1>4, <1>5, <1>6

\* An opening begins with nothing in hand.
LEMMA BeginOpenStep ==
    ASSUME SetupInv, NEW c \in Components, BeginOpen(c)
    PROVE  SetupInv'
<1>1. /\ MayOpen(c) /\ setup' = [setup EXCEPT ![c] = "opening"] /\ call' = [call EXCEPT ![c] = 1]
      /\ IF c \in {"codec", "mp4", "serial"} THEN CleanUp(c, Closes(c)) ELSE UNCHANGED heldVars
      /\ says' = says /\ guard' = guard /\ brackets' = brackets /\ unended' = unended
  BY DEF BeginOpen, guardVars
<1>2. PICK fails \in BOOLEAN :
        IF c = "serial" /\ setup[c] = "open" THEN RestoreLine(fails) ELSE UNCHANGED tty
  BY DEF BeginOpen
<1>3. /\ SetupTypes /\ ObjectsKept /\ ComponentsKept /\ FlagsKept(setup, says, members)
      /\ SerialKept /\ GuardKept
  BY DEF SetupInv
<1>4. /\ SetupTypes' /\ setup'[c] = "opening" /\ call'[c] = 1
      /\ \A d \in Components : d # c => setup'[d] = setup[d] /\ call'[d] = call[d]
  <2> DEFINE e == "opening"
             n == 1
  <2>1. e \in SetupStates /\ n \in 1..LastCall(c)
    BY ChainsGood DEF ChainGood, SetupStates
  <2>2. SetupTypes /\ setup' = [setup EXCEPT ![c] = e] /\ call' = [call EXCEPT ![c] = n]
    BY <1>1, <1>3
  <2> HIDE DEF e, n
  <2>3. /\ SetupTypes' /\ setup'[c] = e /\ call'[c] = n
        /\ \A d \in Components : d # c => setup'[d] = setup[d] /\ call'[d] = call[d]
    BY <2>1, <2>2, StatesSet
  <2> QED BY <2>3 DEF e, n
<1>5. /\ ObjectsKept' /\ Of(c)' = {} /\ OfLocals(c)' = {}
      /\ \A d : d # c => Of(d)' = Of(d) /\ OfLocals(d)' = OfLocals(d)
  <2>1. CASE c \in {"codec", "mp4", "serial"}  BY <1>1, <1>3, <2>1, Closed
  <2>2. CASE c \notin {"codec", "mp4", "serial"}
    <3>1. setup[c] = "closed"  BY <1>1, <2>2 DEF MayOpen, Components
    <3>2. members' = members /\ locals' = locals /\ objects' = objects
      BY <1>1, <2>2 DEF heldVars
    <3>3. Of(c) = {} /\ OfLocals(c) = {}  BY <1>3, <3>1 DEF ComponentsKept, HoldsAs
    <3> QED BY <1>3, <3>2, <3>3 DEF ObjectsKept, Of, OfLocals
  <2> QED BY <2>1, <2>2
<1>6. ComponentsKept'
  <2>1. HoldsAs(c, "opening", 1, {}, {})  BY DEF HoldsAs, MadeBefore
  <2>2. HoldsAs(c, setup'[c], call'[c], Of(c)', OfLocals(c)')  BY <1>4, <1>5, <2>1
  <2> QED BY <1>3, <1>4, <1>5, <2>2, OthersKept
<1>7. FlagsKept(setup', says', members')
  <2>1. FlagsOf(c, setup[c], says, Of(c))  BY <1>3, FlagsSay
  <2>2. c = "net" => ~says.accepting  BY <1>1, <2>1 DEF MayOpen, FlagsOf
  <2>3. c = "camera" => says.queued = 0  BY <1>1, <2>1 DEF MayOpen, FlagsOf
  <2>4. FlagsOf(c, setup'[c], says', Of(c)')  BY <1>1, <1>4, <2>2, <2>3 DEF FlagsOf
  <2>5. says' \in Sayings  BY <1>1, <1>3 DEF FlagsKept
  <2> QED BY <1>1, <1>3, <1>4, <1>5, <2>4, <2>5, FlagsStay
<1>8. SerialKept'
  <2>0. "serial" \in Components  BY DEF Components
  <2>1. CASE c # "serial"
    <3>1. tty' = tty /\ setup'["serial"] = setup["serial"] /\ call'["serial"] = call["serial"]
      BY <1>2, <1>4, <2>0, <2>1
    <3> QED BY <1>3, <3>1 DEF SerialKept
  <2>2. CASE c = "serial" /\ setup[c] = "open"
    <3>1. RestoreLine(fails)  BY <1>2, <2>2
    <3>2. /\ tty' \in Lines
          /\ ~tty'.broken => ~tty.broken /\ tty'.saved = "none" /\ tty'.line = "found"
      BY <1>3, <3>1, LineRestoredBy DEF SerialKept
    <3>3. setup'["serial"] = "opening" /\ call'["serial"] = 1  BY <1>4, <2>2
    <3> QED BY <3>2, <3>3 DEF SerialKept, LineKept, TcGet, TcSet
  <2>3. CASE c = "serial" /\ setup[c] # "open"
    <3>1. setup["serial"] = "closed" /\ tty' = tty  BY <1>1, <1>2, <2>3 DEF MayOpen
    <3>2. setup'["serial"] = "opening" /\ call'["serial"] = 1  BY <1>4, <2>3
    <3> QED BY <1>3, <3>1, <3>2 DEF SerialKept, LineKept, TcGet, TcSet
  <2> QED BY <2>1, <2>2, <2>3
<1>9. GuardKept'  BY <1>1, <1>3 DEF GuardKept, BracketsBalanced
<1> QED BY <1>4, <1>5, <1>6, <1>7, <1>8, <1>9 DEF SetupInv

\* A successful call of an opening: what it makes is referred to, and so is all that was.
LEMMA AcquiredBy ==
    ASSUME SetupInv, NEW c \in Components, setup[c] = "opening", Acquire(c, call[c])
    PROVE  /\ ObjectsKept'
           /\ \A d : d # c => Of(d)' = Of(d) /\ OfLocals(d)' = OfLocals(d)
           /\ Of(c) \subseteq Of(c)'
           /\ call[c] = LastCall(c) => OfLocals(c)' = {}
           /\ MadeBefore(c, call[c] + 1, Of(c)') /\ MadeBefore(c, call[c] + 1, OfLocals(c)')
           /\ c = "telemetry" /\ call[c] = Configured => OfLocals(c)' = {}
           /\ c = "net" => Of(c)' # {}
<1> DEFINE k == call[c]
           new == IF Chain[c][k] = Check THEN {} ELSE {<<c, Chain[c][k], k, opens>>}
           keeps == (c = "telemetry" /\ k = Configured) \/ (c = "serial" /\ k = TcFlush)
           replaced == {o \in members : o[1] = c /\ o[3] = k /\ new # {}}
<1>1. /\ k \in 1..LastCall(c) /\ LastCall(c) \in Nat
      /\ Chain[c][k] # Check => Chain[c][k] \in Closes(c)
  BY ChainsGood DEF SetupInv, SetupTypes, ChainGood
<1>2. /\ ObjectsKept /\ HoldsAs(c, "opening", k, Of(c), OfLocals(c))
  BY DEF SetupInv, ComponentsKept
<1>3. MadeBefore(c, k, Of(c)) /\ MadeBefore(c, k, OfLocals(c))  BY <1>2 DEF HoldsAs
<1>4. /\ objects' = objects \cup new
      /\ members' = IF InLocal(c) THEN members \cup (IF keeps THEN OfLocals(c) ELSE {})
                    ELSE (members \ replaced) \cup new
      /\ locals' = IF keeps \/ k = LastCall(c) THEN locals \ OfLocals(c)
                   ELSE IF InLocal(c) THEN locals \cup new ELSE locals
  BY DEF Acquire
<1>5. replaced = {}
  <2> SUFFICES ASSUME NEW o \in Of(c), o[3] = k PROVE FALSE  BY DEF Of
  <2>1. o[3] \in 1..(k - 1)  BY <1>3 DEF MadeBefore
  <2> HIDE DEF k
  <2> QED BY <1>1, <2>1
<1>6. \A o \in new : o[1] = c /\ o[2] = Chain[c][k] /\ o[3] = k /\ o[2] \in Closes(c)
  BY <1>1
<1>7. keeps => new = {} /\ InLocal(c)
  <2>1. c = "telemetry" /\ k = 3 => Chain[c][k] = Check  BY CallsAre
  <2>2. c = "serial" /\ k = 6 => Chain[c][k] = Check  BY CallsAre
  <2> QED BY <2>1, <2>2 DEF Configured, TcFlush, InLocal
<1>8. InLocal(c) /\ k = LastCall(c) => keeps \/ (OfLocals(c) = {} /\ new = {})
  <2>1. CASE c = "telemetry" /\ k = LastCall(c)
    <3>1. k = 4 /\ k > 3 /\ Chain[c][k] = Check  BY <2>1, CallsAre
    <3> QED BY <1>2, <2>1, <3>1 DEF HoldsAs, Configured
  <2>2. CASE c = "serial" /\ k = LastCall(c)  BY <2>2, CallsAre DEF TcFlush
  <2> QED BY <2>1, <2>2 DEF InLocal
<1>9. ~InLocal(c) => OfLocals(c) = {}  BY <1>2 DEF ObjectsKept, OfLocals
<1> DEFINE grown == IF InLocal(c) THEN members \cup (IF keeps THEN OfLocals(c) ELSE {})
                    ELSE members \cup new
           left == IF InLocal(c) THEN (IF keeps THEN locals \ OfLocals(c) ELSE locals \cup new)
                   ELSE locals
<1>10. members' = grown  BY <1>4, <1>5
<1>11. locals' = left
  <2>1. OfLocals(c) = {} => locals \ OfLocals(c) = locals  OBVIOUS
  <2>2. new = {} => locals \cup new = locals  OBVIOUS
  <2> HIDE DEF new, keeps, k
  <2> QED BY <1>4, <1>7, <1>8, <1>9, <2>1, <2>2
<1> HIDE DEF new, keeps, replaced, k
<1>12. objects' = members' \cup locals'
  <2>1. objects' = (members \cup locals) \cup new  BY <1>2, <1>4 DEF ObjectsKept
  <2>2. OfLocals(c) \subseteq locals  BY DEF OfLocals
  <2>3. CASE InLocal(c) /\ keeps  BY <1>7, <1>10, <1>11, <2>1, <2>2, <2>3
  <2>4. CASE InLocal(c) /\ ~keeps  BY <1>10, <1>11, <2>1, <2>4
  <2>5. CASE ~InLocal(c)  BY <1>10, <1>11, <2>1, <2>5
  <2> QED BY <2>3, <2>4, <2>5
<1>13. \A o \in objects' : o \in objects \/ o \in new  BY <1>4
<1>14. \A o \in locals' : o \in locals \/ (o \in new /\ InLocal(c))  BY <1>11
<1>15. ObjectsKept'
  <2>1. \A o \in objects' : o[2] \in Closes(o[1])  BY <1>2, <1>6, <1>13 DEF ObjectsKept
  <2>2. \A o \in locals' : InLocal(o[1])  BY <1>2, <1>6, <1>14 DEF ObjectsKept
  <2> QED BY <1>12, <2>1, <2>2 DEF ObjectsKept
<1>16. /\ Of(c) \subseteq Of(c)'
       /\ ~InLocal(c) => new \subseteq Of(c)' /\ OfLocals(c)' = OfLocals(c)
       /\ Of(c)' \subseteq Of(c) \cup OfLocals(c) \cup new
       /\ OfLocals(c)' \subseteq OfLocals(c) \cup new
       /\ keeps => OfLocals(c)' = {}
  BY <1>6, <1>7, <1>10, <1>11 DEF Of, OfLocals
<1>17. \A d : d # c => Of(d)' = Of(d) /\ OfLocals(d)' = OfLocals(d)
  BY <1>6, <1>10, <1>11 DEF Of, OfLocals
<1>18. k = LastCall(c) => OfLocals(c)' = {}
  <2>1. CASE ~InLocal(c)  BY <1>9, <1>16, <2>1
  <2>2. CASE keeps  BY <1>16, <2>2
  <2>3. CASE InLocal(c) /\ ~keeps  BY <1>8, <1>16, <2>3
  <2> QED BY <2>1, <2>2, <2>3
<1>19. MadeBefore(c, k + 1, Of(c)') /\ MadeBefore(c, k + 1, OfLocals(c)')
  <2>1. ASSUME NEW o \in Of(c) \cup OfLocals(c) \cup new
        PROVE  o[3] \in 1..((k + 1) - 1) /\ o[2] = Chain[c][o[3]]
    <3>1. CASE o \in new  BY <1>1, <1>6, <3>1
    <3>2. CASE o \notin new
      <4>1. o[3] \in 1..(k - 1) /\ o[2] = Chain[c][o[3]]  BY <1>3, <3>2 DEF MadeBefore
      <4> QED BY <1>1, <4>1
    <3> QED BY <3>1, <3>2
  <2> QED BY <1>16, <2>1 DEF MadeBefore
<1>20. c = "net" => Of(c)' # {}
  <2> SUFFICES ASSUME c = "net" PROVE Of(c)' # {}  OBVIOUS
  <2>1. CASE k = 1
    <3>1. new = {<<c, "format", k, opens>>}  BY <2>1, CallsAre DEF new, Check
    <3> QED BY <1>16, <3>1 DEF InLocal
  <2>2. CASE k > 1  BY <1>2, <1>16, <2>2 DEF HoldsAs
  <2> QED BY <1>1, <2>1, <2>2
<1>21. c = "telemetry" /\ k = Configured => OfLocals(c)' = {}  BY <1>16 DEF keeps
<1> QED BY <1>15, <1>16, <1>17, <1>18, <1>19, <1>20, <1>21 DEF k

\* A call of an opening that succeeds: the flags go up only with what they claim.
LEMMA CallSucceedsStep ==
    ASSUME SetupInv, NEW c \in Components, CallSucceeds(c)
    PROVE  SetupInv'
<1> DEFINE k == call[c]
           last == k = LastCall(c)
           tells == IsThread(c, k + 1) \/ (c = "pcm" /\ last)
           e == IF ~last THEN "opening" ELSE IF c \in Workers THEN "running" ELSE "open"
           n == IF last THEN 0 ELSE k + 1
<1>1. /\ setup[c] = "opening" /\ Acquire(c, k) /\ LineCall(c, k)
      /\ setup' = [setup EXCEPT ![c] =
            IF ~last THEN setup[c] ELSE IF c \in Workers THEN "running" ELSE "open"]
      /\ call' = [call EXCEPT ![c] = IF last THEN 0 ELSE k + 1]
      /\ says' = [says EXCEPT !.working = IF tells THEN says.working \cup {c} ELSE says.working,
                              !.accepting = says.accepting \/ (tells /\ c = "net"),
                              !.started = says.started \/ (tells /\ c = "telemetry")]
      /\ guard' = guard /\ brackets' = brackets /\ unended' = unended
  BY DEF CallSucceeds, guardVars
<1>2. /\ SetupTypes /\ ObjectsKept /\ ComponentsKept /\ FlagsKept(setup, says, members)
      /\ SerialKept /\ GuardKept
  BY DEF SetupInv
<1>3. k \in 1..LastCall(c) /\ LastCall(c) \in Nat
  BY <1>1, <1>2, ChainsGood DEF SetupTypes, ChainGood
<1>4. /\ ObjectsKept'
      /\ \A d : d # c => Of(d)' = Of(d) /\ OfLocals(d)' = OfLocals(d)
      /\ Of(c) \subseteq Of(c)'
      /\ last => OfLocals(c)' = {}
      /\ MadeBefore(c, k + 1, Of(c)') /\ MadeBefore(c, k + 1, OfLocals(c)')
      /\ c = "telemetry" /\ k = Configured => OfLocals(c)' = {}
      /\ c = "net" => Of(c)' # {}
  BY <1>1, AcquiredBy
<1>5. /\ setup' = [setup EXCEPT ![c] = e] /\ call' = [call EXCEPT ![c] = n]
      /\ e \in SetupStates /\ (e = "opening" <=> ~last) /\ e # "closed"
      /\ e = "running" => c \in Workers
      /\ c \in Workers => e \in {"opening", "running"}
      /\ e = "opening" => n = k + 1 /\ n \in 1..LastCall(c)
  <2>1. ~last => k + 1 \in 1..LastCall(c)
    <3> HIDE DEF k
    <3> QED BY <1>3
  <2>2. e \in SetupStates  BY DEF SetupStates
  <2> HIDE DEF k
  <2> QED BY <1>1, <2>1, <2>2
<1>6. /\ tells => c \in Workers
      /\ c = "net" /\ tells => k = 6
  <2>1. c = "net" /\ tells => k + 1 = 7  BY CallsAre DEF IsThread
  <2>2. \A x \in Int : x + 1 = 7 => x = 6  OBVIOUS
  <2>3. c = "net" /\ tells => k = 6
    <3> HIDE DEF k, tells
    <3> QED BY <1>3, <2>1, <2>2
  <2> QED BY <2>3 DEF IsThread, Workers
<1> HIDE DEF k, last, tells, e, n
<1>7. /\ SetupTypes' /\ setup'[c] = e /\ call'[c] = n
      /\ \A d \in Components : d # c => setup'[d] = setup[d] /\ call'[d] = call[d]
  BY <1>2, <1>5, StatesSet
<1>8. ComponentsKept'
  <2>1. HoldsAs(c, e, n, Of(c)', OfLocals(c)')
    <3>1. e # "opening" => OfLocals(c)' = {}  BY <1>4, <1>5
    <3>2. ASSUME c = "telemetry", e = "opening", n > Configured PROVE OfLocals(c)' = {}
      <4>1. k # 4  BY <1>5, <3>2, CallsAre DEF last
      <4>2. k \in 1..4 /\ k + 1 > 3  BY <1>3, <1>5, <3>2, CallsAre DEF Configured
      <4>3. k = 3  BY <4>1, <4>2
      <4> QED BY <1>4, <3>2, <4>3 DEF Configured
    <3> QED BY <1>4, <1>5, <3>1, <3>2 DEF HoldsAs
  <2> QED BY <1>2, <1>4, <1>7, <2>1, OthersKept
<1>9. PICK up \in BOOLEAN, on \in BOOLEAN, w \in SUBSET Workers :
        /\ says' = [says EXCEPT !.working = w, !.accepting = up, !.started = on]
        /\ w \subseteq says.working \cup {c}
        /\ c \in w => c \in says.working \/ tells
        /\ up <=> says.accepting \/ (tells /\ c = "net")
  <2> DEFINE w == IF tells THEN says.working \cup {c} ELSE says.working
             up == says.accepting \/ (tells /\ c = "net")
             on == says.started \/ (tells /\ c = "telemetry")
  <2>1. says' = [says EXCEPT !.working = w, !.accepting = up, !.started = on]  BY <1>1
  <2>2. w \in SUBSET Workers  BY <1>2, <1>6 DEF FlagsKept, Sayings
  <2>3. up \in BOOLEAN /\ on \in BOOLEAN /\ (up <=> says.accepting \/ (tells /\ c = "net"))
    OBVIOUS
  <2>4. w \subseteq says.working \cup {c} /\ (c \in w => c \in says.working \/ tells)
    OBVIOUS
  <2> HIDE DEF w, up, on
  <2> QED BY <2>1, <2>2, <2>3, <2>4
<1>10. /\ says' \in Sayings /\ says'.working = w /\ says'.accepting = up
       /\ says'.queued = says.queued
  BY <1>2, <1>9 DEF FlagsKept, Sayings
<1>11. FlagsKept(setup', says', members')
  <2>1. FlagsOf(c, setup[c], says, Of(c))  BY <1>2, FlagsSay
  <2>2. c \in says'.working => c \in Workers  BY <1>10
  <2>3. c = "net" => c \in Workers  BY DEF Workers
  <2>4. FlagsOf(c, e, says', Of(c)')
    BY <1>1, <1>4, <1>5, <1>10, <2>1, <2>2, <2>3 DEF FlagsOf, Workers
  <2>5. c # "net" => says'.accepting = says.accepting
    <3>1. says.accepting \in BOOLEAN  BY <1>2 DEF FlagsKept, Sayings
    <3> QED BY <1>9, <1>10, <3>1
  <2>6. says'.working \subseteq says.working \cup {c}  BY <1>9, <1>10
  <2> QED BY <1>2, <1>4, <1>7, <1>10, <2>4, <2>5, <2>6, FlagsStay
<1>12. SerialKept'
  <2>0. "serial" \in Components  BY DEF Components
  <2>1. CASE c # "serial"
    <3>1. tty' = tty  BY <1>1, <2>1 DEF LineCall
    <3>2. setup'["serial"] = setup["serial"] /\ call'["serial"] = call["serial"]
      BY <1>7, <2>0, <2>1
    <3> QED BY <1>2, <3>1, <3>2 DEF SerialKept
  <2>2. CASE c = "serial"
    <3>1. LineKept("opening", k, tty)  BY <1>1, <1>2, <2>2 DEF SerialKept, k
    <3>2. k \in 1..6 /\ (k = 6 <=> last)  BY <1>3, <2>2, CallsAre DEF last
    <3>3. LineKept(e, n, tty')
      <4>1. CASE k \in {1, 2, 4}
        <5>1. tty' = tty /\ e = "opening" /\ n = k + 1
          BY <1>1, <1>5, <2>2, <3>2, <4>1 DEF LineCall, TcGet, TcSet
        <5>2. (k + 1 > 3 <=> k > 3) /\ k <= 5  BY <4>1
        <5> QED BY <3>1, <5>1, <5>2 DEF LineKept, TcGet, TcSet
      <4>2. CASE k = 3
        <5>1. tty' = [tty EXCEPT !.saved = tty.line] /\ e = "opening" /\ n = 4
          BY <1>1, <1>5, <2>2, <3>2, <4>2 DEF LineCall, TcGet, TcSet
        <5>2. /\ tty' \in Lines /\ tty'.saved = tty.line /\ tty'.line = tty.line
              /\ tty'.broken = tty.broken
          BY <3>1, <5>1 DEF LineKept, Lines
        <5>3. ~tty.broken => tty.line = "found"  BY <3>1, <4>2 DEF LineKept, TcSet
        <5> QED BY <5>1, <5>2, <5>3 DEF LineKept, TcGet, TcSet
      <4>3. CASE k = 5
        <5>1. tty' = [tty EXCEPT !.line = "raw"] /\ e = "opening" /\ n = 6
          BY <1>1, <1>5, <2>2, <3>2, <4>3 DEF LineCall, TcGet, TcSet
        <5>2. /\ tty' \in Lines /\ tty'.saved = tty.saved /\ tty'.broken = tty.broken
          BY <3>1, <5>1 DEF LineKept, Lines
        <5>3. ~tty.broken => tty.saved = "found"  BY <3>1, <4>3 DEF LineKept, TcGet
        <5> QED BY <5>1, <5>2, <5>3 DEF LineKept, TcGet, TcSet
      <4>4. CASE k = 6
        <5>1. tty' = tty /\ e # "opening"
          BY <1>1, <1>5, <2>2, <3>2, <4>4 DEF LineCall, TcGet, TcSet
        <5> QED BY <1>5, <3>1, <5>1 DEF LineKept
      <4> QED BY <3>2, <4>1, <4>2, <4>3, <4>4
    <3> QED BY <1>7, <2>2, <3>3 DEF SerialKept
  <2> QED BY <2>1, <2>2
<1>13. GuardKept'  BY <1>1, <1>2 DEF GuardKept, BracketsBalanced
<1> QED BY <1>7, <1>4, <1>8, <1>11, <1>12, <1>13 DEF SetupInv

\* A call of an opening that fails: its branch closes all that was made.
LEMMA CallFailsStep ==
    ASSUME SetupInv, NEW c \in Components, CallFails(c)
    PROVE  SetupInv'
<1> DEFINE k == call[c]
<1>1. /\ setup[c] = "opening" /\ CleanUp(c, BranchCloses(c, k))
      /\ setup' = [setup EXCEPT ![c] = "closed"] /\ call' = [call EXCEPT ![c] = 0]
      /\ says' = IF c = "telemetry" THEN says
                 ELSE [says EXCEPT !.accepting = says.accepting /\ c # "net",
                                   !.working = says.working \ {c}]
      /\ CASE c = "serial" /\ k = TcFlush -> \E fails \in BOOLEAN : RestoreLine(fails)
           [] c = "serial" /\ k # TcFlush -> tty' = [tty EXCEPT !.saved = "none"]
           [] OTHER -> UNCHANGED tty
      /\ guard' = guard /\ brackets' = brackets /\ unended' = unended
  BY DEF CallFails, guardVars
<1>2. /\ SetupTypes /\ ObjectsKept /\ ComponentsKept /\ FlagsKept(setup, says, members)
      /\ SerialKept /\ GuardKept
  BY DEF SetupInv
<1>3. /\ ObjectsKept' /\ Of(c)' = {} /\ OfLocals(c)' = {}
      /\ \A d : d # c => Of(d)' = Of(d) /\ OfLocals(d)' = OfLocals(d)
  <2>1. \A o \in Of(c) \cup OfLocals(c) : o[2] \in BranchCloses(c, k)
    BY <1>1, BranchEnough
  <2> HIDE DEF k
  <2> QED BY <1>1, <1>2, <2>1, CleanedUp
<1>4. /\ SetupTypes' /\ setup'[c] = "closed" /\ call'[c] = 0
      /\ \A d \in Components : d # c => setup'[d] = setup[d] /\ call'[d] = call[d]
  <2>1. "closed" \in SetupStates  BY DEF SetupStates
  <2> QED BY <1>1, <1>2, <2>1, StatesSet
<1>5. ComponentsKept'
  <2>1. HoldsAs(c, "closed", 0, {}, {})  BY DEF HoldsAs
  <2>2. HoldsAs(c, setup'[c], call'[c], Of(c)', OfLocals(c)')  BY <1>3, <1>4, <2>1
  <2> QED BY <1>2, <1>3, <1>4, <2>2, OthersKept
<1>6. FlagsKept(setup', says', members')
  <2>1. FlagsOf(c, setup[c], says, Of(c))  BY <1>2, FlagsSay
  <2>2. /\ says' \in Sayings /\ says'.queued = says.queued
        /\ says'.working \subseteq says.working
        /\ c # "telemetry" => c \notin says'.working
        /\ c # "net" => says'.accepting = says.accepting
        /\ c = "net" => ~says'.accepting
    <3>1. CASE c = "telemetry"  BY <1>1, <1>2, <3>1 DEF FlagsKept
    <3>2. CASE c # "telemetry"
      <4>1. says' = [says EXCEPT !.accepting = says.accepting /\ c # "net",
                                 !.working = says.working \ {c}]
        BY <1>1, <3>2
      <4>2. says \in Sayings  BY <1>2 DEF FlagsKept
      <4>3. /\ says' \in Sayings /\ says'.queued = says.queued
            /\ says'.working = says.working \ {c}
            /\ c # "net" => says'.accepting = says.accepting
            /\ c = "net" => ~says'.accepting
        BY <4>1, <4>2, FlagsDropped
      <4> QED BY <4>3
    <3> QED BY <3>1, <3>2
  <2>3. FlagsOf(c, "closed", says', {})  BY <1>1, <2>1, <2>2 DEF FlagsOf
  <2> QED BY <1>2, <1>3, <1>4, <2>2, <2>3, FlagsStay
<1>7. SerialKept'
  <2>0. "serial" \in Components  BY DEF Components
  <2>1. CASE c # "serial"
    <3>1. tty' = tty  BY <1>1, <2>1
    <3>2. setup'["serial"] = setup["serial"] /\ call'["serial"] = call["serial"]
      BY <1>4, <2>0, <2>1
    <3> QED BY <1>2, <3>1, <3>2 DEF SerialKept
  <2>2. CASE c = "serial"
    <3>0. LineKept("opening", k, tty)  BY <1>1, <1>2, <2>2 DEF SerialKept
    <3>1. tty' \in Lines /\ (~tty'.broken => tty'.saved = "none" /\ tty'.line = "found")
      <4>1. CASE k = TcFlush
        <5>1. PICK fails \in BOOLEAN : RestoreLine(fails)  BY <1>1, <2>2, <4>1
        <5> QED BY <3>0, <5>1, LineRestoredBy
      <4>2. CASE k # TcFlush
        <5>1. tty' = [tty EXCEPT !.saved = "none"]  BY <1>1, <2>2, <4>2
        <5>2. /\ tty' \in Lines /\ tty'.saved = "none" /\ tty'.line = tty.line
              /\ tty'.broken = tty.broken
          BY <3>0, <5>1 DEF LineKept, Lines
        <5>3. k <= TcSet
          <6>1. k \in 1..6 /\ k # 6
            BY <1>1, <1>2, <2>2, <4>2, CallsAre DEF SetupTypes, TcFlush
          <6> QED BY <6>1 DEF TcSet
        <5>4. ~tty.broken => tty.line = "found"  BY <3>0, <5>3 DEF LineKept
        <5> QED BY <5>2, <5>4
      <4> QED BY <4>1, <4>2
    <3> QED BY <1>4, <2>2, <3>1 DEF SerialKept, LineKept
  <2> QED BY <2>1, <2>2
<1>8. GuardKept'  BY <1>1, <1>2 DEF GuardKept, BracketsBalanced
<1> QED BY <1>3, <1>4, <1>5, <1>6, <1>7, <1>8 DEF SetupInv

\* EXPBUF that fails where it is not required.
LEMMA ExportSkippedStep ==
    ASSUME SetupInv, ExportSkipped
    PROVE  SetupInv'
<1> DEFINE k == call["camera"]
           last == k = LastCall("camera")
           e == IF last THEN "open" ELSE "opening"
           n == IF last THEN 0 ELSE k + 1
<1>0. "camera" \in Components /\ "serial" \in Components  BY DEF Components
<1>1. /\ setup["camera"] = "opening"
      /\ setup' = [setup EXCEPT !["camera"] = IF last THEN "open" ELSE setup["camera"]]
      /\ call' = [call EXCEPT !["camera"] = IF last THEN 0 ELSE k + 1]
      /\ objects' = objects /\ members' = members /\ locals' = locals /\ says' = says
      /\ tty' = tty /\ guard' = guard /\ brackets' = brackets /\ unended' = unended
  BY DEF ExportSkipped, guardVars, heldVars
<1>2. /\ SetupTypes /\ ObjectsKept /\ ComponentsKept /\ FlagsKept(setup, says, members)
      /\ SerialKept /\ GuardKept
  BY DEF SetupInv
<1>3. k \in 1..LastCall("camera") /\ LastCall("camera") \in Nat
  BY <1>0, <1>1, <1>2, ChainsGood DEF SetupTypes, ChainGood
<1>4. /\ setup' = [setup EXCEPT !["camera"] = e] /\ call' = [call EXCEPT !["camera"] = n]
      /\ e \in SetupStates /\ e \in {"open", "opening"}
      /\ e = "opening" => n = k + 1 /\ n \in 1..LastCall("camera")
  <2>1. ~last => k + 1 \in 1..LastCall("camera")
    <3> HIDE DEF k
    <3> QED BY <1>3
  <2>2. e \in SetupStates  BY DEF SetupStates
  <2> HIDE DEF k
  <2> QED BY <1>1, <2>1, <2>2
<1>5. HoldsAs("camera", "opening", k, Of("camera"), OfLocals("camera"))
  BY <1>0, <1>1, <1>2 DEF ComponentsKept
<1> HIDE DEF k, last, e, n
<1>6. /\ SetupTypes' /\ setup'["camera"] = e /\ call'["camera"] = n
      /\ \A d \in Components : d # "camera" => setup'[d] = setup[d] /\ call'[d] = call[d]
  <2> DEFINE c == "camera"
  <2>1. c \in Components /\ SetupTypes  BY <1>0, <1>2
  <2>2. /\ setup' = [setup EXCEPT ![c] = e] /\ call' = [call EXCEPT ![c] = n]
        /\ e \in SetupStates
    BY <1>4
  <2>3. e = "opening" => n \in 1..LastCall(c)  BY <1>4
  <2>4. SetupTypes  BY <1>2
  <2> HIDE DEF c
  <2>5. /\ SetupTypes' /\ setup'[c] = e /\ call'[c] = n
        /\ \A d \in Components : d # c => setup'[d] = setup[d] /\ call'[d] = call[d]
    BY <2>1, <2>2, <2>3, StatesSet
  <2> QED BY <2>5 DEF c
<1>7. \A d : Of(d)' = Of(d) /\ OfLocals(d)' = OfLocals(d)  BY <1>1 DEF Of, OfLocals
<1>8. ObjectsKept'  BY <1>1, <1>2 DEF ObjectsKept
<1>9. ComponentsKept'
  <2>1. OfLocals("camera") = {}  BY <1>2 DEF ObjectsKept, OfLocals, InLocal
  <2>2. MadeBefore("camera", k + 1, Of("camera"))
    <3> SUFFICES ASSUME NEW o \in Of("camera")
                 PROVE  o[3] \in 1..((k + 1) - 1) /\ o[2] = Chain["camera"][o[3]]
      BY DEF MadeBefore
    <3>1. o[3] \in 1..(k - 1) /\ o[2] = Chain["camera"][o[3]]
      BY <1>5 DEF HoldsAs, MadeBefore
    <3> QED BY <1>3, <3>1
  <2>3. MadeBefore("camera", k + 1, {})  BY DEF MadeBefore
  <2>4. HoldsAs("camera", e, n, Of("camera"), OfLocals("camera"))
    BY <1>4, <2>1, <2>2, <2>3 DEF HoldsAs
  <2>5. HoldsAs("camera", setup'["camera"], call'["camera"], Of("camera")', OfLocals("camera")')
    BY <1>6, <1>7, <2>4
  <2> QED BY <1>0, <1>2, <1>6, <1>7, <2>5, OthersKept
<1>10. FlagsKept(setup', says', members')
  <2>1. FlagsOf("camera", "opening", says, Of("camera"))  BY <1>0, <1>1, <1>2, FlagsSay
  <2>2. FlagsOf("camera", setup'["camera"], says', Of("camera")')
    <3>1. /\ ~("camera" \in says.working)
          /\ e \in {"open", "opening"} /\ says.queued = 0
      BY <1>2, <1>4, <2>1 DEF FlagsOf, FlagsKept, Sayings, Workers
    <3> QED BY <1>1, <1>6, <3>1 DEF FlagsOf
  <2>3. says' \in Sayings  BY <1>1, <1>2 DEF FlagsKept
  <2> QED BY <1>0, <1>1, <1>2, <1>6, <1>7, <2>2, <2>3, FlagsStay
<1>11. SerialKept'  BY <1>0, <1>1, <1>2, <1>6 DEF SerialKept
<1>12. GuardKept'  BY <1>1, <1>2 DEF GuardKept, BracketsBalanced
<1> QED BY <1>6, <1>8, <1>9, <1>10, <1>11, <1>12 DEF SetupInv

\* OpenSocket goes on to the next address.
LEMMA NextAddressStep ==
    ASSUME SetupInv, NextAddress
    PROVE  SetupInv'
<1> DEFINE c == "telemetry"
<1>0. c \in Components /\ "serial" \in Components  BY DEF Components
<1>1. /\ setup[c] = "opening" /\ CleanUp(c, BranchCloses(c, call[c]))
      /\ setup' = setup /\ call' = [call EXCEPT ![c] = 2]
      /\ says' = says /\ tty' = tty /\ guard' = guard /\ brackets' = brackets
      /\ unended' = unended
  BY DEF NextAddress, guardVars
<1>2. /\ SetupTypes /\ ObjectsKept /\ ComponentsKept /\ FlagsKept(setup, says, members)
      /\ SerialKept /\ GuardKept
  BY DEF SetupInv
<1>3. /\ ObjectsKept' /\ Of(c)' = {} /\ OfLocals(c)' = {}
      /\ \A d : d # c => Of(d)' = Of(d) /\ OfLocals(d)' = OfLocals(d)
  <2>1. \A o \in Of(c) \cup OfLocals(c) : o[2] \in BranchCloses(c, call[c])
    BY <1>0, <1>1, BranchEnough
  <2> HIDE DEF c
  <2> QED BY <1>1, <1>2, <2>1, CleanedUp
<1>4. /\ SetupTypes' /\ setup'[c] = "opening" /\ call'[c] = 2
      /\ \A d \in Components : d # c => setup'[d] = setup[d] /\ call'[d] = call[d]
  <2>1. "opening" \in SetupStates /\ 2 \in 1..LastCall(c)  BY CallsAre DEF SetupStates
  <2> HIDE DEF c
  <2>2. call'[c] = 2 /\ \A d \in Components : d # c => call'[d] = call[d]
    BY <1>0, <1>1, <1>2 DEF SetupTypes
  <2>3. DOMAIN call' = Components  BY <1>1, <1>2 DEF SetupTypes
  <2> QED BY <1>1, <1>2, <2>1, <2>2, <2>3 DEF SetupTypes
<1>5. ComponentsKept'
  <2>1. HoldsAs(c, "opening", 2, {}, {})  BY DEF HoldsAs, MadeBefore
  <2>2. HoldsAs(c, setup'[c], call'[c], Of(c)', OfLocals(c)')  BY <1>3, <1>4, <2>1
  <2> HIDE DEF c
  <2> QED BY <1>0, <1>2, <1>3, <1>4, <2>2, OthersKept
<1>6. FlagsKept(setup', says', members')
  <2>1. FlagsOf(c, setup'[c], says', Of(c)')  BY <1>4 DEF FlagsOf
  <2>2. says' \in Sayings  BY <1>1, <1>2 DEF FlagsKept
  <2> HIDE DEF c
  <2> QED BY <1>0, <1>1, <1>2, <1>3, <1>4, <2>1, <2>2, FlagsStay
<1>7. SerialKept'  BY <1>0, <1>1, <1>2, <1>4 DEF SerialKept
<1>8. GuardKept'  BY <1>1, <1>2 DEF GuardKept, BracketsBalanced
<1> QED BY <1>3, <1>4, <1>5, <1>6, <1>7, <1>8 DEF SetupInv

\* One component leaves its state, or goes on in it, without opening anything.
LEMMA StateSet ==
    ASSUME SetupTypes, NEW c \in Components, NEW e \in SetupStates, e # "opening",
           setup' = [setup EXCEPT ![c] = e], call' = call
    PROVE  /\ SetupTypes'
           /\ setup'[c] = e
           /\ \A d \in Components : d # c => setup'[d] = setup[d] /\ call'[d] = call[d]
BY DEF SetupTypes

\* Start queues the buffers, all of them where it starts the stream.
LEMMA StartCameraStep ==
    ASSUME SetupInv, StartCamera
    PROVE  SetupInv'
<1> DEFINE c == "camera"
<1>0. c \in Components /\ "serial" \in Components  BY DEF Components
<1>1. /\ setup[c] = "open" /\ call' = call /\ tty' = tty
      /\ objects' = objects /\ members' = members /\ locals' = locals
      /\ guard' = guard /\ brackets' = brackets /\ unended' = unended
  BY DEF StartCamera, guardVars, heldVars
<1>2. PICK n \in 0..SetupBuffers, on \in BOOLEAN :
        /\ on => n = SetupBuffers /\ says.queued = 0
        /\ says' = [says EXCEPT !.queued = says.queued + n]
        /\ setup' = [setup EXCEPT ![c] = IF on THEN "running" ELSE setup[c]]
  BY DEF StartCamera
<1>3. /\ SetupTypes /\ ObjectsKept /\ ComponentsKept /\ FlagsKept(setup, says, members)
      /\ SerialKept /\ GuardKept
  BY DEF SetupInv
<1> DEFINE e == IF on THEN "running" ELSE "open"
<1>4. /\ SetupTypes' /\ setup'[c] = e
      /\ \A d \in Components : d # c => setup'[d] = setup[d] /\ call'[d] = call[d]
  <2>1. e \in SetupStates /\ e # "opening" /\ setup' = [setup EXCEPT ![c] = e]
    BY <1>1, <1>2 DEF SetupStates
  <2> HIDE DEF e, c
  <2> QED BY <1>0, <1>1, <1>3, <2>1, StateSet
<1>5. \A d : Of(d)' = Of(d) /\ OfLocals(d)' = OfLocals(d)  BY <1>1 DEF Of, OfLocals
<1>6. ComponentsKept'
  <2>1. HoldsAs(c, "open", call[c], Of(c), OfLocals(c))
    BY <1>0, <1>1, <1>3 DEF ComponentsKept
  <2>2. HoldsAs(c, e, call'[c], Of(c), OfLocals(c))  BY <2>1 DEF HoldsAs
  <2>3. HoldsAs(c, setup'[c], call'[c], Of(c)', OfLocals(c)')  BY <1>4, <1>5, <2>2
  <2> HIDE DEF e, c
  <2> QED BY <1>0, <1>3, <1>4, <1>5, <2>3, OthersKept
<1>7. FlagsKept(setup', says', members')
  <2>1. /\ says' \in Sayings /\ says'.queued = says.queued + n
        /\ says'.accepting = says.accepting /\ says'.working = says.working
    <3>1. says.queued \in Nat /\ n \in Nat
      BY <1>2, <1>3, SetupAssumption DEF FlagsKept, Sayings
    <3>2. says.queued + n \in Nat  BY <3>1
    <3> QED BY <1>2, <1>3, <3>2 DEF FlagsKept, Sayings
  <2>2. on => says'.queued = SetupBuffers
    <3>1. 0 + SetupBuffers = SetupBuffers  BY SetupAssumption
    <3> QED BY <1>2, <2>1, <3>1
  <2>3. says.working \subseteq Workers  BY <1>3 DEF FlagsKept, Sayings
  <2>4. FlagsOf(c, e, says', Of(c)')  BY <2>1, <2>2, <2>3 DEF FlagsOf, Workers
  <2>5. FlagsOf(c, setup'[c], says', Of(c)')  BY <1>4, <2>4
  <2>6. \A d \in Components : d # c => setup'[d] = setup[d] /\ Of(d)' = Of(d)
    BY <1>4, <1>5
  <2> HIDE DEF e
  <2> QED BY <1>0, <1>3, <2>1, <2>5, <2>6, FlagsStay
<1>8. SerialKept'  BY <1>0, <1>1, <1>3, <1>4 DEF SerialKept
<1>9. ObjectsKept' /\ GuardKept'
  BY <1>1, <1>3 DEF GuardKept, BracketsBalanced, ObjectsKept
<1> QED BY <1>4, <1>6, <1>7, <1>8, <1>9 DEF SetupInv

\* A worker that cannot go on.
LEMMA WorkerEndsStep ==
    ASSUME SetupInv, WorkerEnds
    PROVE  SetupInv'
<1>1. PICK c \in {"pcm", "codec", "net"}, closes \in BOOLEAN :
        /\ setup[c] = "running"
        /\ IF closes THEN CleanUp(c, Closes(c)) ELSE UNCHANGED heldVars
        /\ c # "codec" => closes
        /\ says' = [says EXCEPT !.accepting = says.accepting /\ c # "net",
                                !.working = says.working \ {c}]
  BY DEF WorkerEnds
<1>2. /\ setup' = setup /\ call' = call /\ tty' = tty
      /\ guard' = guard /\ brackets' = brackets /\ unended' = unended
  BY DEF WorkerEnds, guardVars
<1>3. /\ SetupTypes /\ ObjectsKept /\ ComponentsKept /\ FlagsKept(setup, says, members)
      /\ SerialKept /\ GuardKept
  BY DEF SetupInv
<1>4. c \in Components  BY DEF Components
<1>5. /\ ObjectsKept' /\ OfLocals(c)' = {} /\ (c = "net" => closes)
      /\ \A d : d # c => Of(d)' = Of(d) /\ OfLocals(d)' = OfLocals(d)
  <2>1. CASE closes  BY <1>1, <1>3, <2>1, Closed
  <2>2. CASE ~closes
    <3>1. members' = members /\ locals' = locals /\ objects' = objects
      BY <1>1, <2>2 DEF heldVars
    <3>2. OfLocals(c) = {}  BY <1>1, <1>3, <1>4 DEF ComponentsKept, HoldsAs
    <3> QED BY <1>1, <1>3, <2>2, <3>1, <3>2 DEF ObjectsKept, Of, OfLocals
  <2> QED BY <2>1, <2>2
<1>6. ComponentsKept'
  <2>1. HoldsAs(c, setup'[c], call'[c], Of(c)', OfLocals(c)')
    BY <1>1, <1>2, <1>5 DEF HoldsAs
  <2> QED BY <1>2, <1>3, <1>4, <1>5, <2>1, OthersKept
<1>7. FlagsKept(setup', says', members')
  <2>1. says \in Sayings  BY <1>3 DEF FlagsKept
  <2>2. /\ says' \in Sayings /\ says'.queued = says.queued
        /\ says'.working = says.working \ {c}
        /\ c # "net" => says'.accepting = says.accepting
        /\ c = "net" => ~says'.accepting
    BY <1>1, <2>1, FlagsDropped
  <2>3. FlagsOf(c, setup'[c], says', Of(c)')  BY <2>2 DEF FlagsOf
  <2>4. says'.working \subseteq says.working \cup {c}  BY <2>2
  <2> QED BY <1>2, <1>3, <1>4, <1>5, <2>2, <2>3, <2>4, FlagsStay
<1>8. SerialKept' /\ GuardKept' /\ SetupTypes'
  BY <1>2, <1>3 DEF SerialKept, GuardKept, BracketsBalanced, SetupTypes
<1> QED BY <1>5, <1>6, <1>7, <1>8 DEF SetupInv

\* A discontinuity: the codec that is closed is the one there was.
LEMMA ReopenStep ==
    ASSUME SetupInv, CodecReopens
    PROVE  SetupInv'
<1> DEFINE c == "codec"
           new == <<"codec", "context", 2, opens>>
           closed == {o \in members : o[1] = "codec" /\ o[2] \in CloseCodec}
<1>0. c \in Components  BY DEF Components
<1>1. /\ setup[c] = "running" /\ setup' = setup /\ call' = call /\ says' = says /\ tty' = tty
      /\ objects' = (objects \ closed) \cup {new} /\ locals' = locals
      /\ members' = (members \ Of(c)) \cup {new}
      /\ guard' = guard /\ brackets' = brackets /\ unended' = unended
  BY DEF CodecReopens, guardVars
<1>2. /\ SetupTypes /\ ObjectsKept /\ ComponentsKept /\ FlagsKept(setup, says, members)
      /\ SerialKept /\ GuardKept
  BY DEF SetupInv
<1>3. closed = Of(c)  BY <1>2 DEF ObjectsKept, Of, Closes
<1>4. OfLocals(c) = {}  BY <1>0, <1>1, <1>2 DEF ComponentsKept, HoldsAs
<1>5. new[1] = c /\ new[2] \in Closes(c)  BY DEF Closes, CloseCodec
<1> HIDE DEF closed, new, c
<1>6. objects' = members' \cup locals'
  BY <1>1, <1>2, <1>3, <1>4 DEF ObjectsKept, Of, OfLocals
<1>7. ObjectsKept'
  <2>1. \A o \in objects' : o \in objects \/ o = new  BY <1>1
  <2>2. \A o \in objects' : o[2] \in Closes(o[1])  BY <1>2, <1>5, <2>1 DEF ObjectsKept
  <2> QED BY <1>1, <1>2, <1>6, <2>2 DEF ObjectsKept
<1>8. /\ \A d : d # c => Of(d)' = Of(d)
      /\ \A d : OfLocals(d)' = OfLocals(d)
  BY <1>1, <1>5 DEF Of, OfLocals
<1>9. ComponentsKept'
  <2>1. HoldsAs(c, setup'[c], call'[c], Of(c)', OfLocals(c)')
    BY <1>1, <1>4, <1>8 DEF HoldsAs
  <2> QED BY <1>0, <1>1, <1>2, <1>8, <2>1, OthersKept
<1>10. FlagsKept(setup', says', members')
  <2>1. FlagsOf(c, setup[c], says, Of(c))  BY <1>0, <1>2, FlagsSay
  <2>2. FlagsOf(c, setup'[c], says', Of(c)')  BY <1>1, <2>1 DEF FlagsOf, c
  <2>3. says' \in Sayings  BY <1>1, <1>2 DEF FlagsKept
  <2> QED BY <1>0, <1>1, <1>2, <1>8, <2>2, <2>3, FlagsStay
<1>11. SerialKept' /\ GuardKept' /\ SetupTypes'
  BY <1>1, <1>2 DEF SerialKept, GuardKept, BracketsBalanced, SetupTypes
<1> QED BY <1>7, <1>9, <1>10, <1>11 DEF SetupInv

\* AudioEncodeWorker::Stop leaves the codec open.
LEMMA StopEncoderStep ==
    ASSUME SetupInv, StopEncoder
    PROVE  SetupInv'
<1> DEFINE c == "codec"
<1>0. c \in Components /\ "serial" \in Components /\ "stopped" \in SetupStates
  BY DEF Components, SetupStates
<1>1. /\ setup[c] = "running" /\ setup' = [setup EXCEPT ![c] = "stopped"] /\ call' = call
      /\ says' = [says EXCEPT !.working = says.working \ {c}] /\ tty' = tty
      /\ objects' = objects /\ members' = members /\ locals' = locals
      /\ guard' = guard /\ brackets' = brackets /\ unended' = unended
  BY DEF StopEncoder, guardVars, heldVars
<1>2. /\ SetupTypes /\ ObjectsKept /\ ComponentsKept /\ FlagsKept(setup, says, members)
      /\ SerialKept /\ GuardKept
  BY DEF SetupInv
<1>3. c # "net" /\ c # "camera" /\ c # "serial"  OBVIOUS
<1> HIDE DEF c
<1>4. /\ SetupTypes' /\ setup'[c] = "stopped"
      /\ \A d \in Components : d # c => setup'[d] = setup[d] /\ call'[d] = call[d]
  BY <1>0, <1>1, <1>2, StateSet
<1>5. \A d : Of(d)' = Of(d) /\ OfLocals(d)' = OfLocals(d)  BY <1>1 DEF Of, OfLocals
<1>6. ComponentsKept'
  <2>1. OfLocals(c)' = {}  BY <1>0, <1>1, <1>2, <1>5 DEF ComponentsKept, HoldsAs
  <2>2. HoldsAs(c, setup'[c], call'[c], Of(c)', OfLocals(c)')  BY <1>4, <2>1 DEF HoldsAs
  <2> QED BY <1>0, <1>2, <1>4, <1>5, <2>2, OthersKept
<1>7. FlagsKept(setup', says', members')
  <2>1. /\ says' \in Sayings /\ says'.queued = says.queued
        /\ says'.working = says.working \ {c} /\ says'.accepting = says.accepting
    BY <1>1, <1>2 DEF FlagsKept, Sayings
  <2>2. FlagsOf(c, setup'[c], says', Of(c)')  BY <1>3, <2>1 DEF FlagsOf
  <2>3. says'.working \subseteq says.working \cup {c}  BY <2>1
  <2> QED BY <1>0, <1>2, <1>4, <1>5, <2>1, <2>2, <2>3, FlagsStay
<1>8. SerialKept'  BY <1>0, <1>1, <1>2, <1>3, <1>4 DEF SerialKept
<1>9. ObjectsKept' /\ GuardKept'
  BY <1>1, <1>2 DEF GuardKept, BracketsBalanced, ObjectsKept
<1> QED BY <1>4, <1>6, <1>7, <1>8, <1>9 DEF SetupInv

\* Close, Stop, Shutdown, Finalize and the destructors.
LEMMA CloseStep ==
    ASSUME SetupInv, NEW c \in Components, CloseComponent(c)
    PROVE  SetupInv'
<1>1. /\ setup[c] \in {"open", "running", "stopped"} /\ CleanUp(c, Closes(c))
      /\ setup' = [setup EXCEPT ![c] = "closed"] /\ call' = call
      /\ says' = [says EXCEPT !.accepting = says.accepting /\ c # "net",
                              !.working = says.working \ {c},
                              !.queued = IF c = "camera" THEN 0 ELSE says.queued]
      /\ guard' = guard /\ brackets' = brackets /\ unended' = unended
  BY DEF CloseComponent, guardVars
<1>2. PICK fails \in BOOLEAN : IF c = "serial" THEN RestoreLine(fails) ELSE UNCHANGED tty
  BY DEF CloseComponent
<1>3. /\ SetupTypes /\ ObjectsKept /\ ComponentsKept /\ FlagsKept(setup, says, members)
      /\ SerialKept /\ GuardKept
  BY DEF SetupInv
<1>4. /\ ObjectsKept' /\ Of(c)' = {} /\ OfLocals(c)' = {}
      /\ \A d : d # c => Of(d)' = Of(d) /\ OfLocals(d)' = OfLocals(d)
  BY <1>1, <1>3, Closed
<1>5. /\ SetupTypes' /\ setup'[c] = "closed"
      /\ \A d \in Components : d # c => setup'[d] = setup[d] /\ call'[d] = call[d]
  <2>1. "closed" \in SetupStates  BY DEF SetupStates
  <2> QED BY <1>1, <1>3, <2>1, StateSet
<1>6. ComponentsKept'
  <2>1. HoldsAs(c, setup'[c], call'[c], Of(c)', OfLocals(c)')  BY <1>4, <1>5 DEF HoldsAs
  <2> QED BY <1>3, <1>4, <1>5, <2>1, OthersKept
<1>7. FlagsKept(setup', says', members')
  <2>1. PICK up \in BOOLEAN, q \in Nat :
          /\ says' = [says EXCEPT !.accepting = up, !.working = says.working \ {c}, !.queued = q]
          /\ up <=> says.accepting /\ c # "net"
          /\ q = IF c = "camera" THEN 0 ELSE says.queued
    <3> DEFINE up == says.accepting /\ c # "net"
               q == IF c = "camera" THEN 0 ELSE says.queued
    <3>1. says' = [says EXCEPT !.accepting = up, !.working = says.working \ {c}, !.queued = q]
      BY <1>1
    <3>2. q \in Nat  BY <1>3 DEF FlagsKept, Sayings
    <3>3. up \in BOOLEAN /\ (up <=> says.accepting /\ c # "net")  OBVIOUS
    <3>4. q = IF c = "camera" THEN 0 ELSE says.queued  OBVIOUS
    <3> HIDE DEF up, q
    <3> QED BY <3>1, <3>2, <3>3, <3>4
  <2>2. /\ says' \in Sayings /\ says'.queued = q
        /\ says'.working = says.working \ {c} /\ says'.accepting = up
    BY <1>3, <2>1 DEF FlagsKept, Sayings
  <2>3. says.accepting \in BOOLEAN  BY <1>3 DEF FlagsKept, Sayings
  <2>4. FlagsOf(c, setup'[c], says', Of(c)')  BY <1>5, <2>1, <2>2 DEF FlagsOf
  <2>5. says'.working \subseteq says.working \cup {c} /\ (c # "net" => says'.accepting = says.accepting)
    BY <2>1, <2>2, <2>3
  <2>6. c # "camera" => says'.queued = says.queued  BY <2>1, <2>2
  <2> QED BY <1>3, <1>4, <1>5, <2>2, <2>4, <2>5, <2>6, FlagsStay
<1>8. SerialKept'
  <2>0. "serial" \in Components  BY DEF Components
  <2>1. CASE c # "serial"
    <3>1. tty' = tty /\ setup'["serial"] = setup["serial"] /\ call'["serial"] = call["serial"]
      BY <1>2, <1>5, <2>0, <2>1
    <3> QED BY <1>3, <3>1 DEF SerialKept
  <2>2. CASE c = "serial"
    <3>1. RestoreLine(fails)  BY <1>2, <2>2
    <3>2. /\ tty' \in Lines
          /\ ~tty'.broken => ~tty.broken /\ tty'.saved = "none" /\ tty'.line = "found"
      BY <1>3, <3>1, LineRestoredBy DEF SerialKept
    <3>3. setup'["serial"] = "closed"  BY <1>5, <2>2
    <3> QED BY <3>2, <3>3 DEF SerialKept, LineKept
  <2> QED BY <2>1, <2>2
<1>9. GuardKept'  BY <1>1, <1>3 DEF GuardKept, BracketsBalanced
<1> QED BY <1>4, <1>5, <1>6, <1>7, <1>8, <1>9 DEF SetupInv

\* The guard shares nothing with the components.
LEMMA OnlyTheGuard ==
    ASSUME SetupInv, UNCHANGED <<setup, call, heldVars, says, tty>>, GuardKept'
    PROVE  SetupInv'
<1>1. /\ setup' = setup /\ call' = call /\ says' = says /\ tty' = tty
      /\ objects' = objects /\ members' = members /\ locals' = locals
  BY DEF heldVars
<1>2. \A c : Of(c)' = Of(c) /\ OfLocals(c)' = OfLocals(c)  BY <1>1 DEF Of, OfLocals
<1>3. ComponentsKept'  BY <1>1, <1>2 DEF SetupInv, ComponentsKept
<1>4. SetupTypes' /\ ObjectsKept' /\ FlagsKept(setup', says', members') /\ SerialKept'
  BY <1>1 DEF SetupInv, SetupTypes, ObjectsKept, SerialKept
<1> QED BY <1>3, <1>4 DEF SetupInv

\* BeginFds finds no descriptor active.
LEMMA BeginFdsStep ==
    ASSUME SetupInv, BeginFds
    PROVE  SetupInv'
<1>1. PICK list \in GuardLists :
        guard' = [list |-> list, at |-> 1, active |-> {}, begun |-> FALSE]
  BY DEF BeginFds
<1>2. /\ UNCHANGED <<setup, call, heldVars, says, tty>>
      /\ brackets' = brackets /\ unended' = unended /\ guard.active = {}
  BY DEF BeginFds
<1>3. guard'.active = {} /\ guard'.at = 1 /\ guard'.begun = FALSE /\ guard'.list = list
  BY <1>1
<1>4. GuardKept  BY DEF SetupInv
<1>5. BracketsBalanced'  BY <1>2, <1>3, <1>4 DEF GuardKept, BracketsBalanced
<1>6. GuardKept'  BY <1>1, <1>2, <1>3, <1>4, <1>5 DEF GuardKept
<1> QED BY <1>2, <1>6, OnlyTheGuard

\* End takes back what the active descriptors have begun.
LEMMA AllEnded ==
    ASSUME GuardKept, NEW bad \in SUBSET guard.active, End(bad)
    PROVE  /\ brackets' \in [Descriptors -> Int] /\ unended' \in BOOLEAN
           /\ ~unended' => \A d \in Descriptors : brackets'[d] = 0
<1>1. /\ brackets' = [d \in Descriptors |->
            IF d \in guard.active \ bad THEN brackets[d] - 1 ELSE brackets[d]]
      /\ unended' = (unended \/ bad # {})
  BY DEF End
<1>2. brackets \in [Descriptors -> Int]  BY DEF GuardKept
<1>3. brackets' \in [Descriptors -> Int]  BY <1>1, <1>2
<1>4. unended' \in BOOLEAN  BY <1>1
<1>5. ASSUME ~unended', NEW d \in Descriptors PROVE brackets'[d] = 0
  <2>1. ~unended /\ bad = {}  BY <1>1, <1>5
  <2>2. brackets[d] = IF d \in guard.active THEN 1 ELSE 0
    BY <1>5, <2>1 DEF GuardKept, BracketsBalanced
  <2>3. brackets'[d] = IF d \in guard.active THEN brackets[d] - 1 ELSE brackets[d]
    BY <1>1, <2>1
  <2> QED BY <2>2, <2>3
<1> QED BY <1>3, <1>4, <1>5

\* The next descriptor is active, is begun, or ends those before it.
LEMMA SyncStartStep ==
    ASSUME SetupInv, SyncStart
    PROVE  SetupInv'
<1> DEFINE d == guard.list[guard.at]
           next == IF guard.at = Len(guard.list) THEN 0 ELSE guard.at + 1
<1>1. UNCHANGED <<setup, call, heldVars, says, tty>>  BY DEF SyncStart
<1>2. GuardKept  BY DEF SetupInv
<1>3. /\ guard = [list |-> guard.list, at |-> guard.at, active |-> guard.active,
                  begun |-> guard.begun]
      /\ brackets \in [Descriptors -> Int] /\ unended \in BOOLEAN
      /\ ~unended => \A x \in Descriptors : brackets[x] = IF x \in guard.active THEN 1 ELSE 0
  BY <1>2 DEF GuardKept, BracketsBalanced
<1>4. \/ /\ guard' = [guard EXCEPT !.at = next, !.begun = (next = 0)]
         /\ brackets' = brackets /\ unended' = unended
      \/ /\ d \notin guard.active /\ unended' = unended
         /\ guard' = [guard EXCEPT !.at = next, !.begun = (next = 0),
                                   !.active = guard.active \cup {d}]
         /\ brackets' = [brackets EXCEPT ![d] = brackets[d] + 1]
      \/ /\ \E bad \in SUBSET guard.active : End(bad)
         /\ guard' = [guard EXCEPT !.at = 0, !.active = {}]
  BY DEF SyncStart, IsActive
<1> DEFINE over == next = 0
<1>5. over \in BOOLEAN /\ (next = 0 <=> over)  OBVIOUS
<1>6. GuardKept'
  <2>1. CASE /\ guard' = [guard EXCEPT !.at = next, !.begun = (next = 0)]
             /\ brackets' = brackets /\ unended' = unended
    <3>1. guard' = [guard EXCEPT !.at = next, !.begun = over]  BY <2>1
    <3> HIDE DEF next, over, d
    <3>2. /\ guard'.list = guard.list /\ guard'.at = next /\ guard'.begun = over
          /\ guard'.active = guard.active
          /\ guard' = [list |-> guard.list, at |-> next, active |-> guard.active, begun |-> over]
      BY <1>3, <3>1
    <3>3. BracketsBalanced'  BY <1>3, <1>5, <2>1, <3>2 DEF BracketsBalanced
    <3> QED BY <1>3, <2>1, <3>2, <3>3 DEF GuardKept
  <2>2. CASE /\ d \notin guard.active /\ unended' = unended
             /\ guard' = [guard EXCEPT !.at = next, !.begun = (next = 0),
                                       !.active = guard.active \cup {d}]
             /\ brackets' = [brackets EXCEPT ![d] = brackets[d] + 1]
    <3>1. guard' = [guard EXCEPT !.at = next, !.begun = over, !.active = guard.active \cup {d}]
      BY <2>2
    <3> HIDE DEF next, over, d
    <3>2. /\ guard'.list = guard.list /\ guard'.at = next /\ guard'.begun = over
          /\ guard'.active = guard.active \cup {d}
          /\ guard' = [list |-> guard.list, at |-> next, active |-> guard.active \cup {d},
                       begun |-> over]
      BY <1>3, <3>1
    <3>3. brackets' \in [Descriptors -> Int]
      <4>1. d \in Descriptors => brackets[d] + 1 \in Int  BY <1>3
      <4>2. ASSUME NEW x \in Descriptors PROVE brackets'[x] \in Int
        <5>1. CASE x = d
          <6>1. brackets'[x] = brackets[d] + 1  BY <1>3, <2>2, <4>2, <5>1
          <6> QED BY <4>1, <4>2, <5>1, <6>1
        <5>2. CASE x # d
          <6>1. brackets'[x] = brackets[x]  BY <1>3, <2>2, <4>2, <5>2
          <6> QED BY <1>3, <4>2, <6>1
        <5> QED BY <5>1, <5>2
      <4>3. brackets' = [x \in Descriptors |-> brackets'[x]]  BY <1>3, <2>2
      <4> QED BY <4>2, <4>3
    <3>4. ASSUME ~unended', NEW x \in Descriptors
          PROVE  brackets'[x] = IF x \in guard'.active THEN 1 ELSE 0
      <4>1. CASE x = d
        <5>1. brackets[d] = 0  BY <1>3, <2>2, <3>4, <4>1
        <5>2. brackets'[x] = brackets[d] + 1  BY <1>3, <2>2, <4>1
        <5> QED BY <3>2, <4>1, <5>1, <5>2
      <4>2. CASE x # d  BY <1>3, <2>2, <3>2, <3>4, <4>2
      <4> QED BY <4>1, <4>2
    <3>5. BracketsBalanced'  BY <1>5, <3>2, <3>4 DEF BracketsBalanced
    <3> QED BY <1>3, <2>2, <3>2, <3>3, <3>5 DEF GuardKept
  <2>3. CASE /\ \E bad \in SUBSET guard.active : End(bad)
             /\ guard' = [guard EXCEPT !.at = 0, !.active = {}]
    <3>1. PICK bad \in SUBSET guard.active : End(bad)  BY <2>3
    <3>2. /\ brackets' \in [Descriptors -> Int] /\ unended' \in BOOLEAN
          /\ ~unended' => \A x \in Descriptors : brackets'[x] = 0
      BY <1>2, <3>1, AllEnded
    <3>3. /\ guard'.list = guard.list /\ guard'.at = 0 /\ guard'.begun = guard.begun
          /\ guard'.active = {}
          /\ guard' = [list |-> guard.list, at |-> 0, active |-> {}, begun |-> guard.begun]
      BY <1>3, <2>3
    <3>4. BracketsBalanced'  BY <3>2, <3>3 DEF BracketsBalanced
    <3> QED BY <3>2, <3>3, <3>4 DEF GuardKept
  <2> QED BY <1>4, <2>1, <2>2, <2>3
<1> QED BY <1>1, <1>6, OnlyTheGuard

\* The owner's End.
LEMMA EndFdsStep ==
    ASSUME SetupInv, EndFds
    PROVE  SetupInv'
<1>1. PICK bad \in SUBSET guard.active : End(bad)  BY DEF EndFds
<1>2. /\ UNCHANGED <<setup, call, heldVars, says, tty>>
      /\ guard' = [guard EXCEPT !.active = {}, !.begun = FALSE]
  BY DEF EndFds
<1>3. GuardKept  BY DEF SetupInv
<1>4. /\ brackets' \in [Descriptors -> Int] /\ unended' \in BOOLEAN
      /\ ~unended' => \A x \in Descriptors : brackets'[x] = 0
  BY <1>1, <1>3, AllEnded
<1>5. /\ guard'.list = guard.list /\ guard'.at = guard.at /\ guard'.begun = FALSE
      /\ guard'.active = {}
      /\ guard' = [list |-> guard.list, at |-> guard.at, active |-> {}, begun |-> FALSE]
  BY <1>2, <1>3 DEF GuardKept
<1>6. BracketsBalanced'  BY <1>4, <1>5 DEF BracketsBalanced
<1>7. GuardKept'  BY <1>4, <1>5, <1>6 DEF GuardKept
<1> QED BY <1>2, <1>7, OnlyTheGuard

\* A step of any of them.
LEMMA SetupStep == SetupInv /\ [SetupNext]_setupVars => SetupInv'
<1> SUFFICES ASSUME SetupInv, [SetupNext]_setupVars PROVE SetupInv'  OBVIOUS
<1>1. CASE OpenComponent
  <2>1. PICK c \in Components : BeginOpen(c) \/ CallSucceeds(c) \/ CallFails(c)
    BY <1>1 DEF OpenComponent
  <2> QED BY <2>1, BeginOpenStep, CallSucceedsStep, CallFailsStep
<1>2. CASE \E c \in Components : CloseComponent(c)  BY <1>2, CloseStep
<1>3. CASE ExportSkipped \/ NextAddress \/ StartCamera \/ WorkerEnds
  BY <1>3, ExportSkippedStep, NextAddressStep, StartCameraStep, WorkerEndsStep
<1>4. CASE CodecReopens \/ StopEncoder  BY <1>4, ReopenStep, StopEncoderStep
<1>5. CASE BeginFds \/ SyncStart \/ EndFds
  BY <1>5, BeginFdsStep, SyncStartStep, EndFdsStep
<1>6. CASE UNCHANGED setupVars
  <2>1. /\ UNCHANGED <<setup, call, heldVars, says, tty>>
        /\ guard' = guard /\ brackets' = brackets /\ unended' = unended
    BY <1>6 DEF setupVars, guardVars
  <2>2. GuardKept'  BY <2>1 DEF SetupInv, GuardKept, BracketsBalanced
  <2> QED BY <2>1, <2>2, OnlyTheGuard
<1> QED BY <1>1, <1>2, <1>3, <1>4, <1>5, <1>6 DEF SetupNext

\* Whichever call of an opening fails, whatever branch cleans up after it, and however often
\* a device is opened, lost and opened again (v4l2_camera.cpp:67, audio_capture.cpp:74,
\* audio_encode.cpp:142, mp4_recorder.cpp:227, network_stream.cpp:310, telemetry.cpp:190,
\* uart_transport.cpp:56), every object that was made is still referred to or has been
\* closed, a closed component refers to nothing, the flags claim nothing that is not there,
\* the serial line has the settings it was found with, and every SYNC_START has one SYNC_END
\* (dmabuf.cpp:74): for any number of buffers, planes, failures and descriptors.
THEOREM SetupLosesNothing == SetupSpec => []SetupKept
<1>1. SetupInit => SetupInv  BY SetupStarts
<1>2. SetupInv /\ [SetupNext]_setupVars => SetupInv'  BY SetupStep
<1>3. SetupInv => SetupKept  BY SetupHolds
<1> QED BY <1>1, <1>2, <1>3, PTL DEF SetupSpec

--------------------------------------------------------------------------------
(* Who reads what of a frame                                                *)

LayoutFormats == [width : Nat, height : Nat, stride : Nat, sizeImage : Nat,
                  multiplanar : BOOLEAN, verticalStride : Nat]
LayoutFrames == [length : Nat, offset : Nat, used : Nat]

\* A frame lies in its buffer, and was read only once there was one.
LayoutInv ==
    /\ format \in LayoutFormats /\ frame \in LayoutFrames
    /\ frame.offset <= frame.length
    /\ format = NoFormat => frame = NoFrame
    /\ frame = NoFrame => DOMAIN reads = {}
    /\ ReadsStayInside /\ ReadersAgree

\* The rows of a plane and of half of it, in bytes.
LEMMA RowsApart ==
    ASSUME NEW s \in Nat, NEW h \in Nat, h % 2 = 0
    PROVE  /\ s * h \in Nat /\ s * (h \div 2) \in Nat
           /\ s * h = 2 * (s * (h \div 2))
           /\ (s * h * 3) \div 2 = s * h + s * (h \div 2)
<1> DEFINE k == h \div 2
<1>1. k \in Nat /\ h = 2 * k  OBVIOUS
<1> HIDE DEF k
<1> DEFINE p == s * k
<1>2. p \in Nat /\ s * h = 2 * p  BY <1>1
<1>3. s * h * 3 = 6 * p  BY <1>2
<1> HIDE DEF p
<1>4. (s * h * 3) \div 2 = 3 * p  BY <1>2, <1>3
<1> QED BY <1>2, <1>4 DEF k, p

\* More rows take more bytes.
LEMMA MoreRows ==
    ASSUME NEW s \in Nat, NEW h \in Nat, NEW rows \in Nat, rows >= h
    PROVE  /\ s * h \in Nat /\ s * rows \in Nat /\ s * rows >= s * h
<1> DEFINE d == rows - h
<1>1. d \in Nat /\ rows = h + d  OBVIOUS
<1> HIDE DEF d
<1>2. s * rows = s * h + s * d /\ s * d \in Nat /\ s * h \in Nat  BY <1>1
<1> QED BY <1>2

\* The lesser of two lengths.
LEMMA LesserIs ==
    ASSUME NEW a \in Nat, NEW b \in Nat
    PROVE  Min({a, b}) \in {a, b} /\ Min({a, b}) <= a /\ Min({a, b}) <= b
<1>1. \E m \in {a, b} : \A n \in {a, b} : m <= n
  <2>1. CASE a <= b  BY <2>1
  <2>2. CASE b <= a  BY <2>2
  <2> QED BY <2>1, <2>2
<1> QED BY <1>1 DEF Min

\* Configure leaves a format whose rows are a number.
LEMMA ConfigureStep == ASSUME LayoutInv, Configure PROVE LayoutInv'
<1>1. format = NoFormat /\ frame' = frame /\ reads' = reads  BY DEF Configure
<1>2. DOMAIN reads = {} /\ frame = NoFrame  BY <1>1 DEF LayoutInv
<1>3. Max(Sizes) \in Nat  BY LayoutAssumption DEF Max
<1>4. format' \in LayoutFormats
  <2>1. PICK w \in Widths, h \in Heights, s \in Strides, size \in Sizes, m \in BOOLEAN,
              option \in VerticalStrides :
          \E rows \in DerivedRows([stride |-> s, sizeImage |-> size], option) :
              format' = [width |-> w, height |-> h, stride |-> s, sizeImage |-> size,
                         multiplanar |-> m, verticalStride |-> rows]
    BY DEF Configure
  <2>2. PICK rows \in DerivedRows([stride |-> s, sizeImage |-> size], option) :
          format' = [width |-> w, height |-> h, stride |-> s, sizeImage |-> size,
                     multiplanar |-> m, verticalStride |-> rows]
    BY <2>1
  <2>3. rows \in Nat  BY <1>3, <2>2, LayoutAssumption DEF DerivedRows
  <2> QED BY <2>2, <2>3, LayoutAssumption DEF LayoutFormats
<1> QED BY <1>1, <1>2, <1>4 DEF LayoutInv, ReadsStayInside, ReadersAgree

\* A frame that is published lies in its buffer, whatever the driver reports.
LEMMA CaptureStep == ASSUME LayoutInv, Capture PROVE LayoutInv'
<1>1. format # NoFormat /\ frame = NoFrame /\ format' = format /\ reads' = reads
  BY DEF Capture
<1>2. PICK length \in Sizes, used \in Sizes, offset \in Offsets :
        /\ frame' = BuildFrameView(length, offset, used)
        /\ Publishable(BuildFrameView(length, offset, used))
  BY DEF Capture
<1>3. length \in Nat /\ used \in Nat /\ offset \in Nat  BY LayoutAssumption
<1>4. Min({offset, length}) \in Nat /\ Min({used, length}) \in Nat  BY <1>3, LesserIs
<1>5. frame' \in LayoutFrames  BY <1>2, <1>3, <1>4 DEF BuildFrameView, LayoutFrames
<1>6. frame'.offset <= frame'.length  BY <1>2 DEF Publishable
<1>7. DOMAIN reads = {}  BY <1>1 DEF LayoutInv
<1> QED BY <1>1, <1>5, <1>6, <1>7 DEF LayoutInv, ReadsStayInside, ReadersAgree

\* A reader whose check accepts the frame stays inside it, and finds the chroma behind
\* the visible rows if these are all there are.
Apt(region) ==
    /\ region.end <= frame.length
    /\ 2 * format.sizeImage = 3 * format.stride * format.height =>
           region.chroma = frame.offset + format.stride * format.height

\* What an apt reader touches keeps the properties.
LEMMA TouchStep ==
    ASSUME LayoutInv, NEW reader, NEW accepts \in BOOLEAN, NEW region,
           Touch(reader, accepts, region), Apt(region)
    PROVE  LayoutInv'
<1>1. /\ frame # NoFrame /\ format' = format /\ frame' = frame
      /\ reads' = [r \in DOMAIN reads \cup {reader} |->
                      IF r = reader THEN region ELSE reads[r]]
  BY DEF Touch
<1>2. \A r \in DOMAIN reads' : r \in DOMAIN reads \/ r = reader  BY <1>1
<1>3. \A r \in DOMAIN reads' : reads'[r] = region \/ (r \in DOMAIN reads /\ reads'[r] = reads[r])
  BY <1>1
<1>4. ReadsStayInside'  BY <1>1, <1>3 DEF ReadsStayInside, LayoutInv, Apt
<1>5. ReadersAgree'  BY <1>1, <1>3 DEF ReadersAgree, LayoutInv, Apt
<1> QED BY <1>1, <1>4, <1>5 DEF LayoutInv

\* RGA.
LEMMA RgaStep == ASSUME LayoutInv, RgaProcess PROVE LayoutInv'
<1>1. /\ format.stride \in Nat /\ format.height \in Nat /\ frame.length \in Nat
      /\ format.height % 2 = 0 /\ frame.offset = 0
      /\ frame.length >= (format.stride * format.height * 3) \div 2
  BY DEF LayoutInv, LayoutFormats, LayoutFrames, RgaProcess, Touch, RgaAccepts, SourceRequired
<1>2. /\ format.stride * format.height \in Nat
      /\ (format.stride * format.height * 3) \div 2
            = format.stride * format.height + format.stride * (format.height \div 2)
  BY <1>1, RowsApart
<1>3. Apt(RgaReads)  BY <1>1, <1>2 DEF Apt, RgaReads
<1> QED BY <1>3, TouchStep DEF RgaProcess, RgaAccepts

\* The processor.
LEMMA CpuStep == ASSUME LayoutInv, CpuProcess PROVE LayoutInv'
<1>1. /\ format.stride \in Nat /\ format.height \in Nat /\ format.height % 2 = 0
      /\ frame.length \in Nat /\ frame.offset \in Nat /\ frame.offset <= frame.length
      /\ format.stride * format.height + format.stride * (format.height \div 2)
            <= frame.length - frame.offset
  BY DEF LayoutInv, LayoutFormats, LayoutFrames, CpuProcess, Touch, CpuAccepts
<1>2. /\ format.stride * format.height \in Nat /\ format.stride * (format.height \div 2) \in Nat
  BY <1>1, RowsApart
<1>3. Apt(CpuReads)  BY <1>1, <1>2 DEF Apt, CpuReads, RgaReads
<1> QED BY <1>3, TouchStep DEF CpuProcess, CpuAccepts

\* MPP.
LEMMA MppStep == ASSUME LayoutInv, MppRead PROVE LayoutInv'
<1> DEFINE s == format.stride
           h == format.height
           rows == format.verticalStride
           size == format.sizeImage
<1>1. /\ s \in Nat /\ h \in Nat /\ rows \in Nat /\ size \in Nat /\ frame.length \in Nat
      /\ frame.offset = 0 /\ rows >= h
      /\ MppMinimum <= frame.length /\ MppMinimum <= size
  BY DEF LayoutInv, LayoutFormats, LayoutFrames, MppRead, Touch, MppAccepts
<1>2. MppMinimum = (s * rows * 3) \div 2  BY DEF MppMinimum
<1> HIDE DEF s, h, rows, size
<1>3. s * h \in Nat /\ s * rows \in Nat /\ s * rows >= s * h  BY <1>1, MoreRows
<1>4. ASSUME 2 * size = 3 * s * h PROVE s * rows = s * h
  <2> DEFINE p == s * h
             q == s * rows
  <2>1. p \in Nat /\ q \in Nat /\ q >= p /\ 2 * size = 3 * p /\ (q * 3) \div 2 <= size
    BY <1>1, <1>2, <1>3, <1>4
  <2> HIDE DEF p, q
  <2>2. q = p  BY <1>1, <2>1
  <2> QED BY <2>2 DEF p, q
<1>5. Apt(MppReads)  BY <1>1, <1>3, <1>4 DEF Apt, MppReads, s, h, rows, size
<1> QED BY <1>5, TouchStep DEF MppRead, MppAccepts

\* Every step of FrameLayout keeps the invariant.
LEMMA LayoutStep == LayoutInv /\ [LayoutNext]_layoutVars => LayoutInv'
<1> SUFFICES ASSUME LayoutInv, [LayoutNext]_layoutVars PROVE LayoutInv'  OBVIOUS
<1>1. CASE UNCHANGED layoutVars
  BY <1>1 DEF layoutVars, LayoutInv, ReadsStayInside, ReadersAgree
<1> QED BY <1>1, ConfigureStep, CaptureStep, RgaStep, CpuStep, MppStep DEF LayoutNext

\* The invariant holds before the camera is opened.
LEMMA LayoutStarts == LayoutInit => LayoutInv
  BY DEF LayoutInit, LayoutInv, LayoutFormats, LayoutFrames, NoFormat, NoFrame,
     ReadsStayInside, ReadersAgree

\* Whatever format, padding, offset and length the driver combines, RGA, the processor and
\* MPP read nothing behind the end of the buffer, and without padded rows they look for the
\* chroma plane in the same place (rga_preprocess.cpp, cpu_preprocess.cpp, nv12_mpp_layout.cpp).
THEOREM ReadersStayInside == LayoutSpec => []FrameLayoutKept
<1>1. LayoutInv => FrameLayoutKept  BY DEF LayoutInv, FrameLayoutKept
<1> QED BY <1>1, LayoutStarts, LayoutStep, PTL DEF LayoutSpec

--------------------------------------------------------------------------------
(* The sensor's modes                                                       *)

\* The least of a set of modes.
LEMMA LeastMode ==
    ASSUME NEW modes, modes \subseteq 1..11, modes # {}
    PROVE  First(modes) \in modes /\ \A j \in modes : First(modes) <= j
<1>1. \E i \in modes : \A j \in modes : i <= j
  <2> SUFFICES ASSUME \A i \in modes : \E j \in modes : j < i PROVE FALSE  OBVIOUS
  <2>1. 1 \notin modes  OBVIOUS
  <2>2. 2 \notin modes  BY <2>1
  <2>3. 3 \notin modes  BY <2>1, <2>2
  <2>4. 4 \notin modes  BY <2>1, <2>2, <2>3
  <2>5. 5 \notin modes  BY <2>1, <2>2, <2>3, <2>4
  <2>6. 6 \notin modes  BY <2>1, <2>2, <2>3, <2>4, <2>5
  <2>7. 7 \notin modes  BY <2>1, <2>2, <2>3, <2>4, <2>5, <2>6
  <2>8. 8 \notin modes  BY <2>1, <2>2, <2>3, <2>4, <2>5, <2>6, <2>7
  <2>9. 9 \notin modes  BY <2>1, <2>2, <2>3, <2>4, <2>5, <2>6, <2>7, <2>8
  <2>10. 10 \notin modes  BY <2>1, <2>2, <2>3, <2>4, <2>5, <2>6, <2>7, <2>8, <2>9
  <2>11. 11 \notin modes  BY <2>1, <2>2, <2>3, <2>4, <2>5, <2>6, <2>7, <2>8, <2>9, <2>10
  <2>12. PICK x \in modes : TRUE  OBVIOUS
  <2>13. x \in {1, 2, 3, 4, 5, 6, 7, 8, 9, 10, 11}  OBVIOUS
  <2> QED BY <2>1, <2>2, <2>3, <2>4, <2>5, <2>6, <2>7, <2>8, <2>9, <2>10, <2>11, <2>12, <2>13
<1> QED BY <1>1 DEF First

\* What the proofs need of the table: the linear modes, and that modes of the same default
\* blanking have the same height.
LinearModes == {1, 2, 3, 7, 10}
ModeRecords == [code : Nat, height : Nat, fps : Nat, vts : Nat, exp : Nat, hdr : 1..3, rhs1 : Nat]

\* The table, entry by entry.
LEMMA ModeTable ==
    /\ ModeIds = 1..11
    /\ Modes[1] = M(10, 2192, 30, 2250, 2242, 1, 37)
    /\ Modes[2] = M(10, 2192, 60, 2250, 2242, 1, 37)
    /\ Modes[3] = M(10, 2192, 90, 2250, 2242, 1, 37)
    /\ Modes[4] = M(10, 2192, 30, 4600, 1104, 2, 77)
    /\ Modes[5] = M(10, 2192, 20, 6900, 318, 3, 151)
    /\ Modes[6] = M(10, 2192, 20, 8104, 318, 3, 145)
    /\ Modes[7] = M(12, 2192, 30, 2250, 2242, 1, 37)
    /\ Modes[8] = M(12, 2192, 30, 4500, 1028, 2, 77)
    /\ Modes[9] = M(12, 2192, 20, 6744, 276, 3, 25)
    /\ Modes[10] = M(12, 1097, 30, 3165, 1492, 1, 37)
    /\ Modes[11] = M(12, 1097, 30, 4600, 575, 2, 37)
<1> DEFINE ten == TenBitModes
           twelve == TwelveBitModes
<1>1. ten \in Seq(ModeRecords) /\ Len(ten) = 6  BY DEF TenBitModes, M, ModeRecords
<1>2. twelve \in Seq(ModeRecords) /\ Len(twelve) = 5
  BY DEF TwelveBitModes, M, ModeRecords
<1>3. /\ ten[1] = M(10, 2192, 30, 2250, 2242, 1, 37)
      /\ ten[2] = M(10, 2192, 60, 2250, 2242, 1, 37)
      /\ ten[3] = M(10, 2192, 90, 2250, 2242, 1, 37)
      /\ ten[4] = M(10, 2192, 30, 4600, 1104, 2, 77)
      /\ ten[5] = M(10, 2192, 20, 6900, 318, 3, 151)
      /\ ten[6] = M(10, 2192, 20, 8104, 318, 3, 145)
  BY DEF TenBitModes
<1>4. /\ twelve[1] = M(12, 2192, 30, 2250, 2242, 1, 37)
      /\ twelve[2] = M(12, 2192, 30, 4500, 1028, 2, 77)
      /\ twelve[3] = M(12, 2192, 20, 6744, 276, 3, 25)
      /\ twelve[4] = M(12, 1097, 30, 3165, 1492, 1, 37)
      /\ twelve[5] = M(12, 1097, 30, 4600, 575, 2, 37)
  BY DEF TwelveBitModes
<1>5. Modes = ten \o twelve  BY DEF Modes
<1> HIDE DEF ten, twelve
<1>6. /\ Len(Modes) = 11
      /\ \A i \in 1..11 : Modes[i] = IF i <= 6 THEN ten[i] ELSE twelve[i - 6]
  <2>1. /\ Len(ten \o twelve) = Len(ten) + Len(twelve)
        /\ \A i \in 1..(Len(ten) + Len(twelve)) :
              (ten \o twelve)[i] = IF i <= Len(ten) THEN ten[i] ELSE twelve[i - Len(ten)]
    BY <1>1, <1>2, ConcatProperties
  <2>2. Len(ten) = 6 /\ Len(twelve) = 5  BY <1>1, <1>2
  <2>3. Len(ten \o twelve) = 11  BY <2>1, <2>2
  <2>4. \A i \in 1..11 : (ten \o twelve)[i] = IF i <= 6 THEN ten[i] ELSE twelve[i - 6]
    <3> SUFFICES ASSUME NEW i \in 1..11
                 PROVE  (ten \o twelve)[i] = IF i <= 6 THEN ten[i] ELSE twelve[i - 6]
      OBVIOUS
    <3>1. i \in 1..(Len(ten) + Len(twelve))  BY <2>2
    <3>2. (ten \o twelve)[i] = IF i <= Len(ten) THEN ten[i] ELSE twelve[i - Len(ten)]
      BY <2>1, <3>1
    <3> QED BY <2>2, <3>2
  <2> QED BY <1>5, <2>3, <2>4
<1>7. /\ Modes[1] = ten[1] /\ Modes[2] = ten[2] /\ Modes[3] = ten[3]
      /\ Modes[4] = ten[4] /\ Modes[5] = ten[5] /\ Modes[6] = ten[6]
      /\ Modes[7] = twelve[1] /\ Modes[8] = twelve[2]
      /\ Modes[9] = twelve[3] /\ Modes[10] = twelve[4]
      /\ Modes[11] = twelve[5]
  BY <1>6
<1> QED BY <1>3, <1>4, <1>6, <1>7 DEF ModeIds

\* Each mode is a record, linear if it is one of LinearModes.
LEMMA ModeKinds ==
    /\ \A i \in ModeIds : Modes[i] \in ModeRecords /\ (Modes[i].hdr = 1 <=> i \in LinearModes)
    /\ \A i, j \in LinearModes :
           DefaultBlanking(i) = DefaultBlanking(j) => Modes[i].height = Modes[j].height
    /\ \A i \in ModeIds : \E j \in {1, 7, 10} :
           j <= i /\ Modes[j].code = Modes[i].code /\ Modes[j].height = Modes[i].height
<1>1. ASSUME NEW i \in ModeIds
      PROVE  Modes[i] \in ModeRecords /\ (Modes[i].hdr = 1 <=> i \in LinearModes)
  BY <1>1, ModeTable DEF M, ModeRecords, LinearModes
<1>2. ASSUME NEW i \in LinearModes, NEW j \in LinearModes,
             DefaultBlanking(i) = DefaultBlanking(j)
      PROVE  Modes[i].height = Modes[j].height
  <2>1. \A k \in LinearModes :
          \/ k = 10 /\ Modes[k].height = 1097 /\ DefaultBlanking(k) = 2068
          \/ k # 10 /\ Modes[k].height = 2192 /\ DefaultBlanking(k) = 58
    BY ModeTable DEF M, LinearModes, DefaultBlanking
  <2> QED BY <1>2, <2>1
<1>3. ASSUME NEW i \in ModeIds
      PROVE  \E j \in {1, 7, 10} :
                j <= i /\ Modes[j].code = Modes[i].code /\ Modes[j].height = Modes[i].height
  <2>1. CASE i \in 1..6
    <3>1. Modes[1].code = Modes[i].code /\ Modes[1].height = Modes[i].height
      BY <2>1, ModeTable DEF M
    <3> QED BY <2>1, <3>1
  <2>2. CASE i \in 7..9
    <3>1. Modes[7].code = Modes[i].code /\ Modes[7].height = Modes[i].height
      BY <2>2, ModeTable DEF M
    <3> QED BY <2>2, <3>1
  <2>3. CASE i \in 10..11
    <3>1. Modes[10].code = Modes[i].code /\ Modes[10].height = Modes[i].height
      BY <2>3, ModeTable DEF M
    <3> QED BY <2>3, <3>1
  <2> QED BY <2>1, <2>2, <2>3, ModeTable
<1> QED BY <1>1, <1>2, <1>3

--------------------------------------------------------------------------------
(* The state a call works on                                                *)

\* Three exposures, struct imx415, its registers, and the state of a call.
Exposures == [long : Nat, middle : Nat, short : Nat]
Chips == [bound : BOOLEAN, active : BOOLEAN, error : BOOLEAN, usage : Int, streaming : BOOLEAN,
          powerOn : BOOLEAN, mode : 1..11, curVts : Int, hasInit : BOOLEAN, init : Exposures,
          vblank : Int, vblankMin : Int, exposure : Int, exposureMax : Int]
Registers == [table : 0..11, vmax : Int, shr0 : Int, rhs1 : Int, shr1 : Int, rhs2 : Int,
              shr2 : Int, standby : BOOLEAN, hold : BOOLEAN]
States == [c : Chips, r : Registers, f : BOOLEAN]

\* What no control changes of a chip.
SameLife(c, d) ==
    /\ d.bound = c.bound /\ d.active = c.active /\ d.error = c.error /\ d.usage = c.usage
    /\ d.streaming = c.streaming /\ d.powerOn = c.powerOn /\ d.mode = c.mode
    /\ d.hasInit = c.hasInit /\ d.init = c.init

\* The frame length is a number, and the register's that of a linear mode.
LEMMA LengthIs ==
    ASSUME NEW c, c.mode \in 1..11, c.vblank \in Int
    PROVE  /\ FrameLength(c) \in Int /\ RegisterLength(c) \in Int
           /\ Linear(c) => /\ FrameLength(c) = Modes[c.mode].height + c.vblank
                           /\ RegisterLength(c) = FrameLength(c)
<1>1. /\ c.mode \in ModeIds /\ c.vblank \in Int
      /\ Modes[c.mode].height \in Nat /\ Modes[c.mode].hdr \in 1..3
  BY ModeTable, ModeKinds DEF ModeRecords
<1> DEFINE vts == c.vblank + Modes[c.mode].height
           hdr == Modes[c.mode].hdr
<1>2. /\ FrameLength(c) = (CASE hdr = 1 -> vts [] hdr = 2 -> ((vts + 3) \div 4) * 4
                             [] hdr = 3 -> ((vts + 11) \div 12) * 12)
      /\ RegisterLength(c) = FrameLength(c) \div (CASE hdr = 1 -> 1 [] hdr = 2 -> 2 [] OTHER -> 4)
      /\ Linear(c) <=> hdr = 1
  BY DEF FrameLength, RegisterLength, Mode, Linear
<1>3. vts \in Int /\ hdr \in {1, 2, 3} /\ vts = Modes[c.mode].height + c.vblank  BY <1>1
<1> HIDE DEF vts, hdr
<1>4. CASE hdr = 1
  <2>1. FrameLength(c) = vts /\ RegisterLength(c) = vts \div 1  BY <1>2, <1>4
  <2> QED BY <1>2, <1>3, <1>4, <2>1
<1>5. CASE hdr = 2
  <2>1. FrameLength(c) = ((vts + 3) \div 4) * 4 /\ RegisterLength(c) = FrameLength(c) \div 2
    BY <1>2, <1>5
  <2>2. FrameLength(c) \in Int  BY <1>3, <2>1
  <2> QED BY <1>2, <1>5, <2>1, <2>2
<1>6. CASE hdr = 3
  <2>1. FrameLength(c) = ((vts + 11) \div 12) * 12 /\ RegisterLength(c) = FrameLength(c) \div 4
    BY <1>2, <1>6
  <2>2. FrameLength(c) \in Int  BY <1>3, <2>1
  <2> QED BY <1>2, <1>6, <2>1, <2>2
<1> QED BY <1>3, <1>4, <1>5, <1>6

\* The exposure control writes the exposure of a linear mode in use, and nothing else.
LEMMA WriteExposureIs ==
    ASSUME NEW s \in States
    PROVE  /\ WriteExposure(s) \in States
           /\ WriteExposure(s).c = s.c
           /\ WriteExposure(s).r.table = s.r.table /\ WriteExposure(s).r.vmax = s.r.vmax
           /\ (InUse(s.c) /\ Linear(s.c)) =>
                 WriteExposure(s).f /\ WriteExposure(s).r.shr0 = s.c.curVts - s.c.exposure
           /\ ~(InUse(s.c) /\ Linear(s.c)) => WriteExposure(s) = s
<1>1. s.c.curVts - s.c.exposure \in Int /\ s.c \in Chips /\ s.r \in Registers
  BY DEF States, Chips
<1>2. CASE InUse(s.c) /\ Linear(s.c)
  <2>1. WriteExposure(s) = [c |-> s.c, r |-> [s.r EXCEPT !.shr0 = s.c.curVts - s.c.exposure],
                            f |-> TRUE]
    BY <1>2 DEF WriteExposure, States, Registers
  <2>2. [s.r EXCEPT !.shr0 = s.c.curVts - s.c.exposure] \in Registers
    BY <1>1 DEF Registers
  <2> QED BY <1>1, <1>2, <2>1, <2>2 DEF States, Registers
<1>3. CASE ~(InUse(s.c) /\ Linear(s.c))  BY <1>3 DEF WriteExposure
<1> QED BY <1>2, <1>3

\* The exposure's range: the value is lowered to it.
LEMMA LimitExposureIs ==
    ASSUME NEW s \in States, NEW max \in Int
    PROVE  /\ LimitExposure(s, max) \in States
           /\ SameLife(s.c, LimitExposure(s, max).c)
           /\ LimitExposure(s, max).c.curVts = s.c.curVts
           /\ LimitExposure(s, max).c.vblank = s.c.vblank
           /\ LimitExposure(s, max).c.exposure <= LimitExposure(s, max).c.exposureMax
           /\ LimitExposure(s, max).r.table = s.r.table
           /\ LimitExposure(s, max).r.vmax = s.r.vmax
<1> DEFINE chosen == Lower(s.c.exposure, max)
           d == [s.c EXCEPT !.exposureMax = max, !.exposure = chosen]
           t == [c |-> d, r |-> s.r, f |-> s.f]
<1>1. s.c \in Chips /\ s.c.exposure \in Int /\ chosen \in Int /\ chosen <= max
  BY DEF States, Chips, Lower
<1>2. t = [s EXCEPT !.c.exposureMax = max, !.c.exposure = chosen]
  <2> DEFINE d1 == [s.c EXCEPT !.exposureMax = max]
             u == [c |-> d1, r |-> s.r, f |-> s.f]
  <2>1. u = [s EXCEPT !.c.exposureMax = max]  BY DEF States
  <2>2. t = [u EXCEPT !.c.exposure = chosen]  OBVIOUS
  <2>3. [s EXCEPT !.c.exposureMax = max, !.c.exposure = chosen]
          = [[s EXCEPT !.c.exposureMax = max] EXCEPT !.c.exposure = chosen]
    OBVIOUS
  <2> QED BY <2>1, <2>2, <2>3
<1>3. LimitExposure(s, max) \in {t, WriteExposure(t)}
  <2>1. [s EXCEPT !.c.exposureMax = max, !.c.exposure = Lower(@, max)]
          = [s EXCEPT !.c.exposureMax = max, !.c.exposure = chosen]
    BY <1>1 DEF States, Chips
  <2> QED BY <1>2, <2>1 DEF LimitExposure
<1> HIDE DEF chosen
<1>4. /\ d \in Chips /\ SameLife(s.c, d) /\ d.curVts = s.c.curVts /\ d.vblank = s.c.vblank
      /\ d.exposure = chosen /\ d.exposureMax = max
  BY <1>1 DEF Chips, SameLife
<1> HIDE DEF d
<1>5. t \in States  BY <1>4 DEF States
<1>6. /\ WriteExposure(t) \in States /\ WriteExposure(t).c = t.c
      /\ WriteExposure(t).r.table = t.r.table /\ WriteExposure(t).r.vmax = t.r.vmax
  BY <1>5, WriteExposureIs
<1>7. t.c = d /\ t.r = s.r  OBVIOUS
<1> HIDE DEF t
<1> QED BY <1>1, <1>3, <1>4, <1>5, <1>6, <1>7

\* The blanking control: a sensor in use gets the frame length that it asks for.
LEMMA WriteBlankingIs ==
    ASSUME NEW s \in States, s.c.exposure <= s.c.exposureMax
    PROVE  /\ WriteBlanking(s) \in States
           /\ SameLife(s.c, WriteBlanking(s).c)
           /\ WriteBlanking(s).c.vblank = s.c.vblank
           /\ WriteBlanking(s).c.exposure <= WriteBlanking(s).c.exposureMax
           /\ WriteBlanking(s).r.table = s.r.table
           /\ InUse(s.c) =>
                /\ ~WriteBlanking(s).f
                /\ Linear(s.c) =>
                     /\ WriteBlanking(s).c.curVts = Modes[s.c.mode].height + s.c.vblank
                     /\ WriteBlanking(s).r.vmax = Modes[s.c.mode].height + s.c.vblank
<1> DEFINE t == IF Linear(s.c) THEN LimitExposure(s, Mode(s.c).height + s.c.vblank - 8) ELSE s
<1>1. Mode(s.c).height + s.c.vblank - 8 \in Int
  <2>1. s.c.mode \in ModeIds /\ s.c.vblank \in Int  BY ModeTable DEF States, Chips
  <2>2. Mode(s.c).height \in Nat  BY <2>1, ModeKinds DEF Mode, ModeRecords
  <2> QED BY <2>1, <2>2
<1>2. /\ t \in States /\ SameLife(s.c, t.c) /\ t.c.vblank = s.c.vblank
      /\ t.c.exposure <= t.c.exposureMax /\ t.r.table = s.r.table
  <2>1. CASE Linear(s.c)  BY <1>1, <2>1, LimitExposureIs
  <2>2. CASE ~Linear(s.c)  BY <2>2 DEF SameLife
  <2> QED BY <2>1, <2>2
<1>3. WriteBlanking(s) = IF ~InUse(t.c) THEN t
          ELSE [t EXCEPT !.c.curVts = FrameLength(t.c), !.r.vmax = RegisterLength(t.c), !.f = FALSE]
  BY DEF WriteBlanking
<1> HIDE DEF t
<1>4. (InUse(t.c) <=> InUse(s.c)) /\ (Linear(t.c) <=> Linear(s.c)) /\ t.c.mode = s.c.mode
  BY <1>2 DEF SameLife, InUse, Linear, Mode
<1>5. CASE ~InUse(t.c)  BY <1>2, <1>3, <1>4, <1>5
<1>6. CASE InUse(t.c)
  <2> DEFINE x == FrameLength(t.c)
             y == RegisterLength(t.c)
             d == [t.c EXCEPT !.curVts = x]
             q == [t.r EXCEPT !.vmax = y]
  <2>1. t.c \in Chips /\ t.r \in Registers  BY <1>2 DEF States
  <2>2. /\ x \in Int /\ y \in Int
        /\ Linear(s.c) => x = Modes[s.c.mode].height + s.c.vblank /\ y = x
    <3>1. t.c.mode \in 1..11 /\ t.c.vblank \in Int  BY <2>1 DEF Chips
    <3> QED BY <1>2, <1>4, <3>1, LengthIs
  <2> HIDE DEF x, y
  <2>3. /\ d \in Chips /\ SameLife(t.c, d) /\ d.vblank = t.c.vblank /\ d.exposure = t.c.exposure
        /\ d.exposureMax = t.c.exposureMax /\ d.curVts = x
    BY <2>1, <2>2 DEF Chips, SameLife
  <2>4. q \in Registers /\ q.table = t.r.table /\ q.vmax = y
    BY <2>1, <2>2 DEF Registers
  <2>5. WriteBlanking(s) = [c |-> d, r |-> q, f |-> FALSE]
    BY <1>2, <1>3, <1>6 DEF States, x, y
  <2> HIDE DEF d, q
  <2>6. SameLife(s.c, d)  BY <1>2, <2>3 DEF SameLife
  <2> QED BY <1>2, <1>4, <2>2, <2>3, <2>4, <2>5, <2>6 DEF States
<1> QED BY <1>5, <1>6

\* What a new blanking value leaves of a state: the same state if it is the old one, the
\* frame length that it asks for if the sensor is in use.
Blanked(s, t, v) ==
    /\ t \in States /\ SameLife(s.c, t.c) /\ t.c.vblank = v
    /\ t.c.exposure <= t.c.exposureMax /\ t.r.table = s.r.table
    /\ v = s.c.vblank => /\ t.r = s.r /\ t.f = s.f /\ t.c.curVts = s.c.curVts
                         /\ t.c.exposure = s.c.exposure
    /\ (v # s.c.vblank /\ InUse(s.c)) =>
           /\ ~t.f
           /\ Linear(s.c) => t.c.curVts = t.r.vmax

\* Setting the control.
LEMMA SetBlankingToIs ==
    ASSUME NEW s \in States, s.c.exposure <= s.c.exposureMax, NEW v \in Int
    PROVE  Blanked(s, SetBlankingTo(s, v), v)
<1>1. CASE v = s.c.vblank  BY <1>1 DEF SetBlankingTo, Blanked, SameLife
<1>2. CASE v # s.c.vblank
  <2> DEFINE d == [s.c EXCEPT !.vblank = v]
             u == [c |-> d, r |-> s.r, f |-> s.f]
  <2>1. s.c \in Chips  BY DEF States
  <2>2. /\ d \in Chips /\ SameLife(s.c, d) /\ d.vblank = v /\ d.exposure = s.c.exposure
        /\ d.exposureMax = s.c.exposureMax
    BY <2>1 DEF Chips, SameLife
  <2>3. SetBlankingTo(s, v) = WriteBlanking(u)
    <3>1. u = [s EXCEPT !.c.vblank = v]  BY DEF States
    <3> QED BY <1>2, <3>1 DEF SetBlankingTo
  <2> HIDE DEF d
  <2>4. u \in States /\ u.c = d /\ u.r = s.r  BY <2>2 DEF States
  <2> HIDE DEF u
  <2> DEFINE t == WriteBlanking(u)
  <2>5. /\ t \in States /\ SameLife(u.c, t.c) /\ t.c.vblank = u.c.vblank
        /\ t.c.exposure <= t.c.exposureMax /\ t.r.table = u.r.table
        /\ InUse(u.c) => /\ ~t.f
                         /\ Linear(u.c) => t.c.curVts = t.r.vmax
    BY <2>2, <2>4, WriteBlankingIs
  <2> HIDE DEF t
  <2>6. (InUse(u.c) <=> InUse(s.c)) /\ (Linear(u.c) <=> Linear(s.c)) /\ SameLife(s.c, t.c)
    BY <2>2, <2>4, <2>5 DEF SameLife, InUse, Linear, Mode
  <2> QED BY <1>2, <2>2, <2>3, <2>4, <2>5, <2>6 DEF Blanked, t
<1> QED BY <1>1, <1>2

\* Raising the range's lower end.
LEMMA LimitBlankingIs ==
    ASSUME NEW s \in States, s.c.exposure <= s.c.exposureMax, NEW min \in Int
    PROVE  Blanked(s, LimitBlanking(s, min), Higher(s.c.vblank, min))
<1> DEFINE d == [s.c EXCEPT !.vblankMin = min]
           u == [c |-> d, r |-> s.r, f |-> s.f]
           v == Higher(s.c.vblank, min)
<1>1. s.c \in Chips /\ v \in Int  BY DEF States, Chips, Higher
<1>2. /\ d \in Chips /\ SameLife(s.c, d) /\ d.vblank = s.c.vblank /\ d.exposure = s.c.exposure
      /\ d.exposureMax = s.c.exposureMax /\ d.curVts = s.c.curVts
  BY <1>1 DEF Chips, SameLife
<1>3. LimitBlanking(s, min) = SetBlankingTo(u, v)
  <2>1. u = [s EXCEPT !.c.vblankMin = min]  BY DEF States
  <2> QED BY <2>1 DEF LimitBlanking
<1> HIDE DEF d, v
<1>4. u \in States /\ u.c = d /\ u.r = s.r /\ u.f = s.f  BY <1>2 DEF States
<1> HIDE DEF u
<1>5. Blanked(u, SetBlankingTo(u, v), v)  BY <1>1, <1>2, <1>4, SetBlankingToIs
<1> DEFINE t == SetBlankingTo(u, v)
<1> HIDE DEF t
<1>6. Blanked(u, t, v) => Blanked(s, t, v)
  BY <1>2, <1>4 DEF Blanked, SameLife, InUse, Linear, Mode
<1> QED BY <1>3, <1>5, <1>6 DEF t, v

--------------------------------------------------------------------------------
(* Choosing a mode, and the exposures of the other modes                    *)

\* S_FMT keeps the current mode or takes a linear one.
LEMMA BestFitIs ==
    ASSUME NEW c \in Chips, NEW code, NEW height
    PROVE  /\ BestFit(c, code, height) \in 1..11
           /\ BestFit(c, code, height) = c.mode \/ BestFit(c, code, height) \in LinearModes
           /\ (Modes[c.mode].code = code /\ Modes[c.mode].height = height) =>
                 BestFit(c, code, height) = c.mode
<1> DEFINE same == {i \in ModeIds : Modes[i].code = code}
           away(i) == Distance(Modes[i].height, height)
           nearest == {i \in same : \A j \in same : away(i) <= away(j)}
<1>1. BestFit(c, code, height) =
        IF Modes[c.mode].code = code /\ Modes[c.mode].height = height THEN c.mode
        ELSE Higher(First(nearest), 1)
  BY DEF BestFit
<1>2. c.mode \in 1..11  BY DEF Chips
<1>3. nearest \subseteq 1..11  BY ModeTable
<1>4. ASSUME NEW i \in nearest PROVE \E j \in nearest : j <= i /\ j \in {1, 7, 10}
  <2>1. i \in ModeIds  OBVIOUS
  <2>2. PICK j \in {1, 7, 10} :
          j <= i /\ Modes[j].code = Modes[i].code /\ Modes[j].height = Modes[i].height
    BY <2>1, ModeKinds
  <2>3. j \in ModeIds  BY <2>2, ModeTable
  <2>4. j \in same /\ away(j) = away(i)  BY <2>2, <2>3
  <2> QED BY <2>2, <2>4
<1> HIDE DEF nearest
<1>5. CASE nearest = {}  BY <1>1, <1>2, <1>5 DEF First, Higher, LinearModes
<1>6. CASE nearest # {}
  <2>1. First(nearest) \in nearest /\ \A j \in nearest : First(nearest) <= j
    BY <1>3, <1>6, LeastMode
  <2>2. PICK j \in nearest : j <= First(nearest) /\ j \in {1, 7, 10}  BY <1>4, <2>1
  <2>3. First(nearest) = j
    <3>1. First(nearest) <= j /\ First(nearest) \in 1..11 /\ j \in 1..11  BY <1>3, <2>1
    <3> QED BY <2>2, <3>1
  <2>4. Higher(First(nearest), 1) \in {1, 7, 10}  BY <2>2, <2>3 DEF Higher
  <2> QED BY <1>1, <1>2, <2>4 DEF LinearModes
<1> QED BY <1>5, <1>6

\* A mode that is looked for is 0, or one of those that fit.
LEMMA FirstOf ==
    ASSUME NEW modes, modes \subseteq ModeIds
    PROVE  First(modes) = 0 \/ First(modes) \in modes
<1>1. CASE modes = {}  BY <1>1 DEF First
<1>2. CASE modes # {}
  <2>1. modes \subseteq 1..11  BY ModeTable
  <2> QED BY <1>2, <2>1, LeastMode
<1> QED BY <1>1, <1>2

\* A mode that was found is one of the table, and has what it was searched for.
LEMMA ModeFound ==
    ASSUME NEW c \in Chips, NEW n
    PROVE  /\ ModeOfRate(c, n) # 0 => ModeOfRate(c, n) \in 1..11 /\ Modes[ModeOfRate(c, n)].fps = n
                                      /\ Modes[ModeOfRate(c, n)].hdr = Modes[c.mode].hdr
           /\ ModeOfHdr(c, n) # 0 => ModeOfHdr(c, n) \in 1..11
<1> DEFINE rated == {i \in SameShape(c) : Modes[i].hdr = Mode(c).hdr /\ Modes[i].fps = n}
           exposed == {i \in SameShape(c) : Modes[i].hdr = n}
<1>1. rated \subseteq ModeIds /\ exposed \subseteq ModeIds /\ ModeIds = 1..11
  BY ModeTable DEF SameShape
<1>2. /\ \A i \in rated : Modes[i].hdr = Modes[c.mode].hdr /\ Modes[i].fps = n
      /\ ModeOfRate(c, n) = First(rated) /\ ModeOfHdr(c, n) = First(exposed)
  BY DEF ModeOfRate, ModeOfHdr, Mode
<1> HIDE DEF rated, exposed
<1>3. First(rated) = 0 \/ First(rated) \in rated  BY <1>1, FirstOf
<1>4. First(exposed) = 0 \/ First(exposed) \in exposed  BY <1>1, FirstOf
<1>5. ASSUME ModeOfRate(c, n) # 0
      PROVE  /\ ModeOfRate(c, n) \in 1..11 /\ Modes[ModeOfRate(c, n)].fps = n
             /\ Modes[ModeOfRate(c, n)].hdr = Modes[c.mode].hdr
  BY <1>1, <1>2, <1>3, <1>5
<1>6. ASSUME ModeOfHdr(c, n) # 0 PROVE ModeOfHdr(c, n) \in 1..11
  BY <1>1, <1>2, <1>4, <1>6
<1> QED BY <1>5, <1>6

\* The values of rhsOld.
OldLines == [two : Int, three : Int, last : Int]

\* The operators of the exposures are on whole numbers.
LEMMA WholeNumbers ==
    /\ \A a, b \in Int : Higher(a, b) \in Int /\ Lower(a, b) \in Int
    /\ \A a \in Int : Unsigned(a) \in Int /\ Signed(a) \in Int /\ Quotient(a, 4) \in Int
    /\ \A a, b, d \in Int : ShrOf(a, b, d) \in Int /\ LongStart(a, b, d) \in Int
    /\ \A c : BasicLines(c) \in Int
    /\ \A a \in Int : (a \div 4) * 4 + 1 \in Int /\ (a \div 6) * 6 \in Int
                      /\ (a \div 6) * 6 + 1 \in Int /\ (a \div 6) * 6 + 2 \in Int
<1>1. \A a, b \in Int : Higher(a, b) \in Int /\ Lower(a, b) \in Int
  BY DEF Higher, Lower
<1>2. \A a \in Int : Unsigned(a) \in Int  BY DEF Unsigned
<1>3. \A a \in Int : Signed(a) \in Int  BY DEF Signed
<1>4. \A a \in Int : Quotient(a, 4) \in Int  BY DEF Quotient
<1>5. \A a, b, d \in Int : ShrOf(a, b, d) \in Int /\ LongStart(a, b, d) \in Int
  <2>1. \A x \in Int : Register20(x) \in Int  BY DEF Register20
  <2>2. \A a, b \in Int : a - b \in Int  OBVIOUS
  <2> QED BY <1>1, <2>1, <2>2 DEF ShrOf, LongStart
<1>6. \A c : BasicLines(c) \in Int  BY DEF BasicLines
<1>7. \A a \in Int : (a \div 4) * 4 + 1 \in Int /\ (a \div 6) * 6 \in Int
                     /\ (a \div 6) * 6 + 1 \in Int /\ (a \div 6) * 6 + 2 \in Int
  OBVIOUS
<1> QED BY <1>1, <1>2, <1>3, <1>4, <1>5, <1>6, <1>7

\* What a request writes is a number, in each register.
Writable(w) ==
    /\ w.ok \in BOOLEAN /\ w.old \in OldLines
    /\ w.ok => /\ w.rhs1 \in Int /\ w.shr1 \in Int /\ w.rhs2 \in Int /\ w.shr2 \in Int
               /\ w.shr0 \in Int

\* Two exposures.
LEMMA TwoWritable ==
    ASSUME NEW c \in Chips, NEW e \in Exposures, rhsOld \in OldLines, regs \in Registers
    PROVE  Writable(HdrTwo(c, e))
<1> DEFINE long == c.curVts - e.middle
           max == Lower(((BasicLines(c) * 2 - 1) \div 4) * 4 + 1, (Unsigned(long - 9) \div 4) * 4 + 1)
           least == Signed(Higher(17, Unsigned(rhsOld.two + 2 * BasicLines(c) - c.curVts + 2)))
           min == Quotient(least + 3, 4) * 4 + 1
           rhs1 == Lower(Higher(((9 + e.short + 3) \div 4) * 4 + 1, min), max)
<1>1. /\ c.curVts \in Int /\ e.middle \in Int /\ e.short \in Int /\ rhsOld.two \in Int
      /\ regs.rhs2 \in Int /\ regs.shr2 \in Int /\ BasicLines(c) \in Int
  BY WholeNumbers DEF Chips, Exposures, OldLines, Registers
<1>2. long \in Int  BY <1>1
<1>3. max \in Int
  <2>1. Unsigned(long - 9) \in Int  BY <1>2, WholeNumbers
  <2>2. ((BasicLines(c) * 2 - 1) \div 4) * 4 + 1 \in Int  BY <1>1
  <2>3. (Unsigned(long - 9) \div 4) * 4 + 1 \in Int  BY <2>1, WholeNumbers
  <2> QED BY <2>2, <2>3, WholeNumbers
<1>4. least \in Int
  <2>1. rhsOld.two + 2 * BasicLines(c) - c.curVts + 2 \in Int  BY <1>1
  <2>2. Unsigned(rhsOld.two + 2 * BasicLines(c) - c.curVts + 2) \in Int
    BY <2>1, WholeNumbers
  <2>3. Higher(17, Unsigned(rhsOld.two + 2 * BasicLines(c) - c.curVts + 2)) \in Int
    BY <2>2, WholeNumbers
  <2> QED BY <2>3, WholeNumbers
<1> HIDE DEF long, max, least
<1>5. min \in Int
  <2>1. Quotient(least + 3, 4) \in Int  BY <1>4, WholeNumbers
  <2> QED BY <2>1
<1> HIDE DEF min
<1>6. rhs1 \in Int
  <2>1. ((9 + e.short + 3) \div 4) * 4 + 1 \in Int  BY <1>1
  <2>2. Higher(((9 + e.short + 3) \div 4) * 4 + 1, min) \in Int
    BY <1>5, <2>1, WholeNumbers
  <2> QED BY <1>3, <2>2, WholeNumbers
<1> HIDE DEF rhs1
<1> DEFINE shr1 == ShrOf(rhs1, e.short, 9)
           shr0 == LongStart(long, rhs1 + 9, c.curVts - 8)
           old == [rhsOld EXCEPT !.two = rhs1]
<1>7. shr1 \in Int  BY <1>1, <1>6, 9 \in Int, WholeNumbers
<1>8. shr0 \in Int
  <2>1. c.curVts - 8 \in Int /\ rhs1 + 9 \in Int  BY <1>1, <1>6
  <2> QED BY <1>2, <2>1, WholeNumbers
<1>9. old \in OldLines  BY <1>6 DEF OldLines
<1>10. HdrTwo(c, e) = IF max < min THEN [ok |-> FALSE, old |-> rhsOld]
          ELSE [ok |-> TRUE, old |-> old, rhs1 |-> rhs1, shr1 |-> shr1,
                rhs2 |-> regs.rhs2, shr2 |-> regs.shr2, shr0 |-> shr0]
  BY DEF HdrTwo, long, max, least, min, rhs1
<1> HIDE DEF shr1, shr0, old
<1> QED BY <1>1, <1>6, <1>7, <1>8, <1>9, <1>10 DEF Writable

\* Three exposures.
LEMMA ThreeWritable ==
    ASSUME NEW c \in Chips, NEW e \in Exposures, rhsOld \in OldLines
    PROVE  Writable(HdrThree(c, e))
<1> DEFINE fsc == (c.curVts \div 6) * 6
           long == fsc - e.long
           limit(old, least) == Higher(old + 3 * BasicLines(c) - fsc + 3, least)
           max1 == ((BasicLines(c) * 3 - 1) \div 6) * 6 + 1
           min1 == ((limit(rhsOld.three, 25) + 5) \div 6) * 6 + 1
           rhs1 == Higher(Lower(Higher(((18 + e.middle) \div 6) * 6 + 1, 25), max1), min1)
           want2 == ((rhs1 + 18 + e.short) \div 6) * 6 + 2
           min2 == ((limit(rhsOld.last, 50) + 5) \div 6) * 6 + 2
           rhs2 == Higher(IF want2 > long - 13 THEN long - 13 ELSE Higher(want2, 50), min2)
<1>1. /\ c.curVts \in Int /\ e.long \in Int /\ e.middle \in Int /\ e.short \in Int
      /\ rhsOld.three \in Int /\ rhsOld.last \in Int /\ BasicLines(c) \in Int
  BY WholeNumbers DEF Chips, Exposures, OldLines
<1>2. fsc \in Int /\ long \in Int
  <2>1. fsc \in Int  BY <1>1, WholeNumbers
  <2> QED BY <1>1, <2>1
<1> HIDE DEF fsc
<1>3. \A old, least \in Int : limit(old, least) \in Int
  <2> SUFFICES ASSUME NEW old \in Int, NEW least \in Int PROVE limit(old, least) \in Int
    OBVIOUS
  <2>1. old + 3 * BasicLines(c) - fsc + 3 \in Int  BY <1>1, <1>2
  <2> QED BY <2>1, WholeNumbers
<1> HIDE DEF long, limit
<1>4. max1 \in Int  BY <1>1
<1>5. min1 \in Int
  <2>1. limit(rhsOld.three, 25) \in Int  BY <1>1, <1>3, 25 \in Int, 50 \in Int
  <2> HIDE DEF limit
  <2> QED BY <2>1
<1> HIDE DEF max1, min1
<1>6. rhs1 \in Int
  <2>1. ((18 + e.middle) \div 6) * 6 + 1 \in Int  BY <1>1
  <2>2. Higher(((18 + e.middle) \div 6) * 6 + 1, 25) \in Int  BY <2>1, WholeNumbers
  <2>3. Lower(Higher(((18 + e.middle) \div 6) * 6 + 1, 25), max1) \in Int
    BY <1>4, <2>2, WholeNumbers
  <2> QED BY <1>5, <2>3, WholeNumbers
<1> HIDE DEF rhs1
<1>7. want2 \in Int
  <2>1. rhs1 + 18 + e.short \in Int  BY <1>1, <1>6
  <2> QED BY <2>1, WholeNumbers
<1>8. min2 \in Int
  <2>1. limit(rhsOld.last, 50) \in Int  BY <1>1, <1>3, 25 \in Int, 50 \in Int
  <2> HIDE DEF limit
  <2> QED BY <2>1
<1> HIDE DEF want2, min2
<1>9. rhs2 \in Int
  <2>1. Higher(want2, 50) \in Int  BY <1>7, WholeNumbers
  <2>2. (IF want2 > long - 13 THEN long - 13 ELSE Higher(want2, 50)) \in Int
    BY <1>2, <2>1
  <2> QED BY <1>8, <2>2, WholeNumbers
<1> HIDE DEF rhs2
<1> DEFINE shr1 == ShrOf(rhs1, e.middle, 13)
           shr2 == ShrOf(rhs2, e.short, rhs1 + 13)
           shr0 == LongStart(long, rhs2 + 13, fsc - 12)
           old1 == [rhsOld EXCEPT !.three = rhs1]
           old2 == [rhsOld EXCEPT !.three = rhs1, !.last = rhs2]
<1>10. shr1 \in Int  BY <1>1, <1>6, 13 \in Int, WholeNumbers
<1>11. shr2 \in Int
  <2>1. rhs1 + 13 \in Int  BY <1>6
  <2> QED BY <1>1, <1>9, <2>1, WholeNumbers
<1>12. shr0 \in Int
  <2>1. fsc - 12 \in Int /\ rhs2 + 13 \in Int  BY <1>2, <1>9
  <2> QED BY <1>2, <2>1, WholeNumbers
<1>13. old1 \in OldLines /\ old2 \in OldLines  BY <1>6, <1>9 DEF OldLines
<1>14. HdrThree(c, e) =
        CASE max1 < min1 -> [ok |-> FALSE, old |-> rhsOld]
          [] max1 >= min1 /\ long - 13 < min2 -> [ok |-> FALSE, old |-> old1]
          [] OTHER -> [ok |-> TRUE, old |-> old2, rhs1 |-> rhs1, shr1 |-> shr1,
                       rhs2 |-> rhs2, shr2 |-> shr2, shr0 |-> shr0]
  BY DEF HdrThree, fsc, long, limit, max1, min1, rhs1, want2, min2, rhs2
<1> HIDE DEF shr1, shr2, shr0, old1, old2
<1>15. HdrThree(c, e) \in
        {[ok |-> FALSE, old |-> rhsOld], [ok |-> FALSE, old |-> old1],
         [ok |-> TRUE, old |-> old2, rhs1 |-> rhs1, shr1 |-> shr1,
          rhs2 |-> rhs2, shr2 |-> shr2, shr0 |-> shr0]}
  <2>1. CASE max1 < min1  BY <1>4, <1>5, <1>14, <2>1
  <2>2. CASE max1 >= min1 /\ long - 13 < min2  BY <1>4, <1>5, <1>14, <2>2
  <2>3. CASE ~(max1 < min1) /\ ~(max1 >= min1 /\ long - 13 < min2)  BY <1>14, <2>3
  <2> QED BY <2>1, <2>2, <2>3
<1> DEFINE w == HdrThree(c, e)
<1> HIDE DEF w
<1>16. CASE w = [ok |-> FALSE, old |-> rhsOld] \/ w = [ok |-> FALSE, old |-> old1]
  <2>1. w.ok = FALSE /\ w.old \in {rhsOld, old1}  BY <1>16
  <2>2. w.old \in OldLines  BY <1>13, <2>1
  <2>3. w.ok \in BOOLEAN /\ ~w.ok  BY <2>1
  <2> QED BY <2>2, <2>3 DEF Writable, w
<1>17. CASE w = [ok |-> TRUE, old |-> old2, rhs1 |-> rhs1, shr1 |-> shr1,
                 rhs2 |-> rhs2, shr2 |-> shr2, shr0 |-> shr0]
  <2>1. /\ w.ok = TRUE /\ w.old = old2 /\ w.rhs1 = rhs1 /\ w.shr1 = shr1
        /\ w.rhs2 = rhs2 /\ w.shr2 = shr2 /\ w.shr0 = shr0
    BY <1>17
  <2>2. w.old \in OldLines  BY <1>13, <2>1
  <2>3. /\ w.rhs1 \in Int /\ w.shr1 \in Int /\ w.rhs2 \in Int /\ w.shr2 \in Int
        /\ w.shr0 \in Int
    BY <1>6, <1>9, <1>10, <1>11, <1>12, <2>1
  <2>4. w.ok \in BOOLEAN  BY <2>1
  <2> QED BY <2>2, <2>3, <2>4 DEF Writable, w
<1> QED BY <1>15, <1>16, <1>17 DEF w

\* A request writes its exposures, and neither the table nor the frame length.
LEMMA HdrApplies ==
    ASSUME NEW c \in Chips, NEW e \in Exposures, NEW r \in Registers,
           rhsOld \in OldLines, regs \in Registers
    PROVE  /\ HdrWrites(c, e).ok \in BOOLEAN /\ HdrWrites(c, e).old \in OldLines
           /\ HdrApplied(r, HdrWrites(c, e)) \in Registers
           /\ HdrApplied(r, HdrWrites(c, e)).table = r.table
           /\ HdrApplied(r, HdrWrites(c, e)).vmax = r.vmax
<1> DEFINE w == HdrWrites(c, e)
<1>1. Writable(w)  BY TwoWritable, ThreeWritable DEF HdrWrites
<1> HIDE DEF w
<1>2. CASE ~w.ok
  <2>1. HdrApplied(r, w) = [r EXCEPT !.hold = TRUE]  BY <1>2 DEF HdrApplied
  <2> QED BY <1>1, <2>1 DEF Writable, Registers, w
<1>3. CASE w.ok
  <2>1. HdrApplied(r, w) = [r EXCEPT !.hold = FALSE, !.rhs1 = w.rhs1, !.shr1 = w.shr1,
                                     !.rhs2 = w.rhs2, !.shr2 = w.shr2, !.shr0 = w.shr0]
    BY <1>3 DEF HdrApplied
  <2>2. HdrApplied(r, w) = [table |-> r.table, vmax |-> r.vmax, shr0 |-> w.shr0, rhs1 |-> w.rhs1,
                            shr1 |-> w.shr1, rhs2 |-> w.rhs2, shr2 |-> w.shr2,
                            standby |-> r.standby, hold |-> FALSE]
    BY <2>1 DEF Registers
  <2> QED BY <1>1, <1>3, <2>2 DEF Writable, Registers, w
<1> QED BY <1>1, <1>2, <1>3 DEF Writable

\* A mode's table writes its number and its frame length.
LEMMA TableIs ==
    ASSUME NEW r \in Registers, NEW m \in 1..11
    PROVE  /\ Table(r, m) \in Registers /\ Table(r, m).table = m
           /\ Modes[m].hdr = 1 => Table(r, m).vmax = Modes[m].vts
<1> DEFINE c == [mode |-> m, vblank |-> DefaultBlanking(m)]
<1>1. /\ Modes[m] \in ModeRecords /\ m \in ModeIds
      /\ Modes[m].vts \in Nat /\ Modes[m].height \in Nat /\ Modes[m].rhs1 \in Nat
  BY ModeTable, ModeKinds DEF ModeRecords
<1>2. c.mode = m /\ c.vblank = DefaultBlanking(m) /\ DefaultBlanking(m) \in Int
      /\ Modes[m].height + DefaultBlanking(m) = Modes[m].vts
  BY <1>1 DEF DefaultBlanking
<1>3. Table(r, m) = [r EXCEPT !.table = m, !.shr0 = 0, !.shr1 = 0, !.rhs2 = 0, !.shr2 = 0,
                              !.rhs1 = Modes[m].rhs1, !.vmax = RegisterLength(c)]
  BY DEF Table
<1> HIDE DEF c
<1>4. /\ RegisterLength(c) \in Int
      /\ Linear(c) => RegisterLength(c) = Modes[m].vts
  BY <1>2, LengthIs
<1>5. Modes[m].hdr = 1 => Linear(c)  BY <1>2 DEF Linear, Mode
<1>6. Table(r, m) = [table |-> m, vmax |-> RegisterLength(c), shr0 |-> 0, rhs1 |-> Modes[m].rhs1,
                     shr1 |-> 0, rhs2 |-> 0, shr2 |-> 0, standby |-> r.standby, hold |-> r.hold]
  BY <1>3 DEF Registers
<1> QED BY <1>1, <1>4, <1>5, <1>6 DEF Registers

--------------------------------------------------------------------------------
(* The invariant                                                            *)

\* SET_HDR_CFG on a running stream loads the table of the mode under a blanking control
\* that asks for another frame; a later S_FMT may leave the control at its default.
Skewed(c, r) ==
    c.vblank = DefaultBlanking(c.mode) /\ r.vmax # Modes[c.mode].height + c.vblank

\* While streaming, what the driver takes for the frame length is in the register, and the
\* exposure written last is the control's.
Tuned(c, r, f) ==
    c.streaming =>
        /\ f => Linear(c)
        /\ Linear(c) => (c.curVts = r.vmax \/ Skewed(c, r))
        /\ f => (r.shr0 = r.vmax - c.exposure \/ Skewed(c, r))

\* PowerBalanced, of a chip and the counters of its power.
Powered(c, p) ==
    /\ p = IF c.active THEN [clk |-> 1, supplies |-> 1] ELSE Off
    /\ c.active => c.bound
    /\ c.usage = (IF c.powerOn THEN 1 ELSE 0) + (IF c.streaming THEN 1 ELSE 0)
    /\ c.usage > 0 => c.active

\* The rate reported is that of the mode chosen, whose table a stream has loaded.
Rated(c, r, w) ==
    w # 0 => c.bound /\ Modes[c.mode].fps = w /\ (c.streaming => r.table = c.mode)

\* The invariant of a sensor's state.
Healthy(c, r, f, p, w) ==
    /\ c \in Chips /\ r \in Registers /\ f \in BOOLEAN
    /\ c.exposure <= c.exposureMax
    /\ Powered(c, p) /\ Tuned(c, r, f) /\ Rated(c, r, w)

\* The inductive invariant.
SensorInv == Healthy(chip, regs, settled, power, wanted) /\ rhsOld \in OldLines

\* A streaming sensor is in use.
LEMMA StreamingInUse ==
    ASSUME NEW c \in Chips, NEW p, Powered(c, p), c.streaming
    PROVE  InUse(c)
<1>1. c.usage = (IF c.powerOn THEN 1 ELSE 0) + 1  BY DEF Powered
<1>2. c.usage > 0  BY <1>1
<1> QED BY <1>2 DEF Powered, InUse

\* The blanking control keeps a healthy state healthy.
LEMMA BlankedHealthy ==
    ASSUME NEW s \in States, NEW t, NEW v, NEW p, NEW w,
           Healthy(s.c, s.r, s.f, p, w), Blanked(s, t, v)
    PROVE  Healthy(t.c, t.r, t.f, p, w)
<1>1. /\ t \in States /\ t.c \in Chips /\ t.r \in Registers /\ t.f \in BOOLEAN
      /\ SameLife(s.c, t.c) /\ t.c.exposure <= t.c.exposureMax /\ t.r.table = s.r.table
  BY DEF Blanked, States
<1>2. s.c \in Chips /\ Powered(s.c, p) /\ Tuned(s.c, s.r, s.f) /\ Rated(s.c, s.r, w)
  BY DEF Healthy
<1>3. Powered(t.c, p)  BY <1>1, <1>2 DEF Powered, SameLife
<1>4. Rated(t.c, t.r, w)  BY <1>1, <1>2 DEF Rated, SameLife
<1>5. ASSUME s.c.streaming PROVE InUse(s.c)  BY <1>2, <1>5, StreamingInUse
<1>6. Tuned(t.c, t.r, t.f)
  <2>1. CASE v = s.c.vblank
    <3>1. /\ t.r = s.r /\ t.f = s.f /\ t.c.curVts = s.c.curVts /\ t.c.exposure = s.c.exposure
          /\ t.c.vblank = s.c.vblank /\ t.c.mode = s.c.mode /\ t.c.streaming = s.c.streaming
      BY <1>1, <2>1 DEF Blanked, SameLife
    <3> QED BY <1>2, <3>1 DEF Tuned, Skewed, Linear, Mode
  <2>2. CASE v # s.c.vblank
    <3>1. s.c.streaming => /\ ~t.f
                           /\ Linear(s.c) => t.c.curVts = t.r.vmax
      BY <1>5, <2>2 DEF Blanked
    <3> QED BY <1>1, <3>1 DEF Tuned, SameLife, Linear, Mode
  <2> QED BY <2>1, <2>2
<1> QED BY <1>1, <1>3, <1>4, <1>6 DEF Healthy

\* The state that calls begin with.
LEMMA NowIs ==
    ASSUME SensorInv
    PROVE  /\ Now \in States /\ Now.c = chip /\ Now.r = regs /\ Now.f = settled
           /\ chip \in Chips /\ regs \in Registers /\ settled \in BOOLEAN
           /\ chip.exposure <= chip.exposureMax
           /\ Powered(chip, power) /\ Tuned(chip, regs, settled) /\ Rated(chip, regs, wanted)
           /\ Healthy(Now.c, Now.r, Now.f, power, wanted)
  BY DEF SensorInv, Healthy, Now, States

--------------------------------------------------------------------------------
(* Power                                                                    *)

\* Without a stream the frame length and the exposure do not matter.
LEMMA IdleHealthy ==
    ASSUME NEW c \in Chips, NEW r \in Registers, NEW f \in BOOLEAN, NEW p, NEW w,
           c.exposure <= c.exposureMax, Powered(c, p), ~c.streaming,
           w # 0 => c.bound /\ Modes[c.mode].fps = w
    PROVE  Healthy(c, r, f, p, w)
  BY DEF Healthy, Tuned, Rated

\* The states before and after a probe, and the counters of the power.
LEMMA FixedChips ==
    /\ Unbound \in Chips /\ Powered(Unbound, Off) /\ Unbound.exposure <= Unbound.exposureMax
    /\ Fresh \in Chips /\ Powered(Fresh, [clk |-> 1, supplies |-> 1])
    /\ Fresh.exposure <= Fresh.exposureMax /\ Fresh.mode = 1 /\ Unbound.mode = 1
    /\ ~Unbound.streaming /\ ~Fresh.streaming /\ NoRegs \in Registers
<1>1. Modes[1].vts = 2250 /\ Modes[1].exp = 2242 /\ DefaultBlanking(1) = 58
  BY ModeTable DEF M, DefaultBlanking
<1>2. NoExposure \in Exposures  BY DEF NoExposure, Exposures
<1>3. Unbound \in Chips /\ Powered(Unbound, Off) /\ Unbound.exposure <= Unbound.exposureMax
  BY <1>2 DEF Unbound, Chips, Powered
<1> DEFINE x == Modes[1].vts
           y == DefaultBlanking(1)
           z == Modes[1].exp
           w == Modes[1].vts - 8
           on == [Unbound EXCEPT !.bound = TRUE, !.active = TRUE, !.curVts = x]
           blanked == [on EXCEPT !.vblank = y, !.vblankMin = y]
           exposed == [blanked EXCEPT !.exposure = z, !.exposureMax = w]
<1>4. x = 2250 /\ y = 58 /\ z = 2242 /\ w = 2242  BY <1>1
<1>5. Fresh = exposed  BY DEF Fresh
<1> HIDE DEF x, y, z, w
<1>6. on \in Chips /\ on.active = TRUE /\ on.bound = TRUE
  <2>1. x \in Int  BY <1>4
  <2>2. on \in Chips  BY <1>3, <2>1 DEF Chips
  <2> QED BY <1>3, <2>2 DEF Chips
<1>7. /\ on.usage = Unbound.usage /\ on.streaming = Unbound.streaming
      /\ on.powerOn = Unbound.powerOn /\ on.mode = Unbound.mode
  BY <1>3 DEF Chips
<1> HIDE DEF on
<1>8. /\ blanked \in Chips /\ SameLife(on, blanked)
  <2>1. y \in Int  BY <1>4
  <2> QED BY <1>6, <2>1 DEF Chips, SameLife
<1> HIDE DEF blanked
<1>9. /\ exposed \in Chips /\ SameLife(blanked, exposed)
      /\ exposed.exposure = z /\ exposed.exposureMax = w
  <2>1. z \in Int /\ w \in Int  BY <1>4
  <2> QED BY <1>8, <2>1 DEF Chips, SameLife
<1> HIDE DEF exposed
<1>10. /\ exposed.active = TRUE /\ exposed.bound = TRUE /\ exposed.usage = Unbound.usage
       /\ exposed.streaming = Unbound.streaming /\ exposed.powerOn = Unbound.powerOn
       /\ exposed.mode = Unbound.mode
  BY <1>6, <1>7, <1>8, <1>9 DEF SameLife
<1>11. /\ Unbound.usage = 0 /\ Unbound.streaming = FALSE /\ Unbound.powerOn = FALSE
       /\ Unbound.mode = 1 /\ NoRegs \in Registers
  BY DEF Unbound, NoRegs, Registers
<1>12. Powered(exposed, [clk |-> 1, supplies |-> 1])  BY <1>10, <1>11 DEF Powered
<1>13. exposed.exposure <= exposed.exposureMax  BY <1>4, <1>9
<1> QED BY <1>3, <1>5, <1>9, <1>10, <1>11, <1>12, <1>13

\* The invariant holds at the start.
LEMMA SensorStarts == SensorInit => SensorInv
<1> SUFFICES ASSUME SensorInit PROVE SensorInv  OBVIOUS
<1>1. rhsOld \in OldLines  BY DEF SensorInit, OldLines
<1>2. Healthy(Unbound, NoRegs, FALSE, Off, 0)  BY FixedChips, IdleHealthy
<1> QED BY <1>1, <1>2 DEF SensorInit, SensorInv

\* What the counters of power can be.
LEMMA OnOff ==
    /\ PoweredOn(Off, "none") = [clk |-> 1, supplies |-> 1]
    /\ PoweredOff([clk |-> 1, supplies |-> 1]) = Off
    /\ \A fault \in {"clock", "supplies"} : \A p : PoweredOn(p, fault) = p
  BY DEF PoweredOn, PoweredOff, Off

\* A probe binds a fresh sensor, or leaves none and the power off.
LEMMA ProbeKeeps == ASSUME SensorInv, Probe PROVE SensorInv'
<1>1. ~chip.active /\ power = Off /\ wanted = 0
  <2>1. Powered(chip, power) /\ ~chip.bound /\ chip \in Chips /\ Rated(chip, regs, wanted)
    BY NowIs DEF Probe
  <2> QED BY <2>1 DEF Powered, Rated
<1>2. UNCHANGED <<regs, rhsOld, wanted, settled>>  BY DEF Probe
<1>3. CASE chip' = Fresh /\ power' = PoweredOn(power, "none")
  <2>1. power' = [clk |-> 1, supplies |-> 1]  BY <1>1, <1>3, OnOff
  <2>2. regs \in Registers /\ settled \in BOOLEAN  BY NowIs
  <2>3. Healthy(Fresh, regs, settled, [clk |-> 1, supplies |-> 1], 0)
    BY <2>2, FixedChips, IdleHealthy
  <2> QED BY <1>1, <1>2, <1>3, <2>1, <2>3 DEF SensorInv
<1>4. CASE chip' = chip /\ power' = Off  BY <1>1, <1>2, <1>4 DEF SensorInv
<1> QED BY <1>1, <1>3, <1>4, OnOff DEF Probe
\* A removal takes the power with it, if it is still on.
LEMMA RemoveDriverKeeps == ASSUME SensorInv, RemoveDriver PROVE SensorInv'
<1>1. power' = Off
  <2>1. Powered(chip, power) /\ power' = (IF chip.active THEN PoweredOff(power) ELSE power)
    BY NowIs DEF RemoveDriver
  <2> QED BY <2>1, OnOff DEF Powered
<1>2. chip' = Unbound /\ regs' = NoRegs /\ wanted' = 0 /\ settled' = FALSE /\ rhsOld' = rhsOld
  BY DEF RemoveDriver
<1>3. Healthy(Unbound, NoRegs, FALSE, Off, 0)  BY FixedChips, IdleHealthy
<1> QED BY <1>1, <1>2, <1>3 DEF SensorInv

\* A suspend turns the power off, of a sensor that nobody uses.
LEMMA RuntimeSuspendKeeps == ASSUME SensorInv, RuntimeSuspend PROVE SensorInv'
<1> DEFINE d == [chip EXCEPT !.active = FALSE]
<1>1. /\ chip \in Chips /\ Powered(chip, power) /\ Rated(chip, regs, wanted)
      /\ chip.exposure <= chip.exposureMax
  BY NowIs
<1>2. /\ chip.active /\ chip.usage = 0 /\ power' = PoweredOff(power) /\ chip' = d
      /\ regs' = NoRegs /\ settled' = FALSE /\ rhsOld' = rhsOld /\ wanted' = wanted
  BY DEF RuntimeSuspend
<1>3. ~chip.streaming  BY <1>1, <1>2, StreamingInUse DEF InUse
<1>4. power' = Off  BY <1>1, <1>2, OnOff DEF Powered
<1>5. /\ d \in Chips /\ d.active = FALSE /\ d.usage = chip.usage /\ d.streaming = chip.streaming
      /\ d.powerOn = chip.powerOn /\ d.mode = chip.mode /\ d.exposure = chip.exposure
      /\ d.exposureMax = chip.exposureMax /\ d.bound = chip.bound
  BY <1>1 DEF Chips
<1> HIDE DEF d
<1>6. Powered(d, Off)  BY <1>1, <1>2, <1>5 DEF Powered
<1>7. Healthy(d, NoRegs, FALSE, Off, wanted)
  <2>1. wanted # 0 => d.bound /\ Modes[d.mode].fps = wanted  BY <1>1, <1>5 DEF Rated
  <2>2. ~d.streaming /\ d.exposure <= d.exposureMax  BY <1>1, <1>3, <1>5
  <2> QED BY <1>5, <1>6, <2>1, <2>2, FixedChips, IdleHealthy
<1> QED BY <1>2, <1>4, <1>7 DEF SensorInv

\* What the controls, the mode and the stream are of a chip.
SameView(c, d) ==
    /\ d.mode = c.mode /\ d.curVts = c.curVts /\ d.vblank = c.vblank /\ d.exposure = c.exposure
    /\ d.exposureMax = c.exposureMax /\ d.streaming = c.streaming /\ d.bound = c.bound

\* Power changes leave a healthy sensor as it is, if they are balanced.
LEMMA ViewHealthy ==
    ASSUME NEW c, NEW d \in Chips, NEW r, NEW f, NEW p, NEW q, NEW w,
           Healthy(c, r, f, p, w), SameView(c, d), Powered(d, q)
    PROVE  Healthy(d, r, f, q, w)
<1>1. Tuned(d, r, f)  BY DEF Healthy, SameView, Tuned, Skewed, Linear, Mode
<1>2. Rated(d, r, w)  BY DEF Healthy, SameView, Rated
<1> QED BY <1>1, <1>2 DEF Healthy, SameView

\* What a resume leaves.
LEMMA ResumedIs ==
    ASSUME SensorInv, NEW fault \in Faults, NEW g \in Resumed(fault)
    PROVE  /\ g.ok \in BOOLEAN /\ g.active \in BOOLEAN /\ g.error \in BOOLEAN
           /\ chip.active => g.active
           /\ g.ok => g.active
           /\ g.power = IF g.active THEN [clk |-> 1, supplies |-> 1] ELSE Off
<1>1. Powered(chip, power) /\ chip.error \in BOOLEAN /\ chip.active \in BOOLEAN
  BY NowIs DEF Chips
<1>2. CASE chip.active
  <2>1. g = [ok |-> TRUE, active |-> TRUE, error |-> FALSE, power |-> power]
    BY <1>2 DEF Resumed
  <2>2. power = [clk |-> 1, supplies |-> 1]  BY <1>1, <1>2 DEF Powered
  <2> QED BY <2>1, <2>2
<1>3. CASE ~chip.active
  <2> DEFINE fine == fault = "none" /\ ~chip.error
             bad == fault # "none" \/ chip.error
             p == IF chip.error THEN power ELSE PoweredOn(power, fault)
  <2>1. g = [ok |-> fine, active |-> fine, error |-> bad, power |-> p]
    BY <1>3 DEF Resumed
  <2>2. power = Off  BY <1>1, <1>3 DEF Powered
  <2>3. p = IF fine THEN [clk |-> 1, supplies |-> 1] ELSE Off  BY <2>2, OnOff DEF Faults
  <2>4. fine \in BOOLEAN /\ bad \in BOOLEAN  OBVIOUS
  <2> HIDE DEF fine, bad, p
  <2> QED BY <1>3, <2>1, <2>3, <2>4
<1> QED BY <1>2, <1>3

\* A power-up that fails takes no use of the sensor.
LEMMA PowerUpKeeps == ASSUME SensorInv, PowerUp PROVE SensorInv'
<1>1. /\ chip \in Chips /\ Powered(chip, power) /\ Healthy(chip, regs, settled, power, wanted)
      /\ rhsOld \in OldLines
  BY NowIs DEF SensorInv
<1>2. PICK fault \in Faults : \E g \in Resumed(fault) :
        /\ power' = g.power
        /\ chip' = [chip EXCEPT !.active = g.active, !.error = g.error, !.powerOn = g.ok,
                                !.usage = IF g.ok THEN @ + 1 ELSE @]
  BY DEF PowerUp
<1>3. PICK g \in Resumed(fault) :
        /\ power' = g.power
        /\ chip' = [chip EXCEPT !.active = g.active, !.error = g.error, !.powerOn = g.ok,
                                !.usage = IF g.ok THEN @ + 1 ELSE @]
  BY <1>2
<1>4. /\ g.ok \in BOOLEAN /\ g.active \in BOOLEAN /\ g.error \in BOOLEAN
      /\ chip.active => g.active
      /\ g.ok => g.active
      /\ g.power = IF g.active THEN [clk |-> 1, supplies |-> 1] ELSE Off
  BY ResumedIs
<1>5. /\ chip.bound /\ chip.powerOn = FALSE
      /\ UNCHANGED <<regs, rhsOld, wanted, settled>>
  BY <1>1 DEF PowerUp, Chips
<1> DEFINE n == IF g.ok THEN chip.usage + 1 ELSE chip.usage
           d == [chip EXCEPT !.active = g.active, !.error = g.error, !.powerOn = g.ok, !.usage = n]
<1>6. chip' = d  BY <1>3
<1>7. n \in Int /\ n = chip.usage + (IF g.ok THEN 1 ELSE 0)  BY <1>1, <1>4 DEF Chips
<1> HIDE DEF n
<1>8. /\ d \in Chips /\ d.active = g.active /\ d.powerOn = g.ok /\ d.usage = n
      /\ d.streaming = chip.streaming /\ d.bound = chip.bound
  BY <1>1, <1>4, <1>7 DEF Chips
<1>9. SameView(chip, d)  BY <1>1, <1>4, <1>7 DEF Chips, SameView
<1> HIDE DEF d
<1>10. Powered(d, g.power)
  <2>1. chip.usage = IF chip.streaming THEN 1 ELSE 0  BY <1>1, <1>5 DEF Powered, Chips
  <2>2. d.usage = (IF d.powerOn THEN 1 ELSE 0) + (IF d.streaming THEN 1 ELSE 0)
    BY <1>7, <1>8, <2>1
  <2>3. d.usage > 0 => d.active
    <3>1. CASE g.ok  BY <1>4, <1>8, <3>1
    <3>2. CASE ~g.ok
      <4>1. d.usage = chip.usage  BY <1>7, <1>8, <2>1, <3>2
      <4>2. chip.usage > 0 => chip.active  BY <1>1 DEF Powered
      <4> QED BY <1>4, <1>8, <4>1, <4>2
    <3> QED BY <3>1, <3>2
  <2>4. /\ g.power = IF d.active THEN [clk |-> 1, supplies |-> 1] ELSE Off
        /\ d.active => d.bound
    BY <1>4, <1>5, <1>8
  <2> QED BY <2>2, <2>3, <2>4 DEF Powered
<1>11. Healthy(d, regs, settled, g.power, wanted)
  BY <1>1, <1>8, <1>9, <1>10, ViewHealthy
<1> QED BY <1>1, <1>3, <1>5, <1>6, <1>11 DEF SensorInv

\* A power-down gives its use back.
LEMMA PowerDownKeeps == ASSUME SensorInv, PowerDown PROVE SensorInv'
<1> DEFINE d == [chip EXCEPT !.powerOn = FALSE, !.usage = @ - 1]
<1>1. /\ chip \in Chips /\ Powered(chip, power) /\ Healthy(chip, regs, settled, power, wanted)
      /\ rhsOld \in OldLines
  BY NowIs DEF SensorInv
<1>2. /\ chip.powerOn /\ chip' = d
      /\ UNCHANGED <<power, regs, rhsOld, wanted, settled>>
  BY DEF PowerDown
<1>3. /\ d \in Chips /\ SameView(chip, d) /\ d.active = chip.active /\ d.powerOn = FALSE
      /\ d.usage = chip.usage - 1
  <2> DEFINE n == chip.usage - 1
  <2>1. n \in Int /\ d = [chip EXCEPT !.powerOn = FALSE, !.usage = n]  BY <1>1 DEF Chips
  <2> HIDE DEF n, d
  <2>2. d \in Chips /\ d.active = chip.active /\ d.powerOn = FALSE /\ d.usage = n
    BY <1>1, <2>1 DEF Chips
  <2>3. SameView(chip, d)  BY <1>1, <2>1 DEF Chips, SameView
  <2> QED BY <2>2, <2>3 DEF n
<1> HIDE DEF d
<1>4. Powered(d, power)
  <2>1. chip.usage = 1 + (IF chip.streaming THEN 1 ELSE 0)  BY <1>1, <1>2 DEF Powered
  <2>2. d.usage = (IF d.powerOn THEN 1 ELSE 0) + (IF d.streaming THEN 1 ELSE 0)
    BY <1>3, <2>1 DEF SameView
  <2>3. chip.active  BY <1>1, <2>1 DEF Powered
  <2> QED BY <1>1, <1>3, <2>2, <2>3 DEF Powered, SameView
<1>5. Healthy(d, regs, settled, power, wanted)  BY <1>1, <1>3, <1>4, ViewHealthy
<1> QED BY <1>1, <1>2, <1>5 DEF SensorInv

--------------------------------------------------------------------------------
(* Streaming                                                                *)

\* The tables and the controls of a stream that starts.
LEMMA StreamSet ==
    ASSUME NEW s \in States, s.c.exposure <= s.c.exposureMax, InUse(s.c)
    PROVE  LET t == WriteExposure(WriteBlanking(s))
           IN  /\ t \in States /\ SameLife(s.c, t.c) /\ t.c.exposure <= t.c.exposureMax
               /\ t.r.table = s.r.table
               /\ t.f => Linear(t.c)
               /\ Linear(t.c) => t.c.curVts = t.r.vmax /\ t.r.shr0 = t.r.vmax - t.c.exposure
<1> DEFINE u == WriteBlanking(s)
           t == WriteExposure(u)
<1>1. /\ u \in States /\ SameLife(s.c, u.c) /\ u.c.exposure <= u.c.exposureMax
      /\ u.r.table = s.r.table /\ ~u.f
      /\ Linear(s.c) => u.c.curVts = u.r.vmax
  BY WriteBlankingIs
<1> HIDE DEF u
<1>2. /\ t \in States /\ t.c = u.c /\ t.r.table = u.r.table /\ t.r.vmax = u.r.vmax
      /\ (InUse(u.c) /\ Linear(u.c)) => t.f /\ t.r.shr0 = u.c.curVts - u.c.exposure
      /\ ~(InUse(u.c) /\ Linear(u.c)) => t = u
  BY <1>1, WriteExposureIs
<1> HIDE DEF t
<1>3. InUse(u.c) /\ (Linear(u.c) <=> Linear(s.c))
  BY <1>1 DEF SameLife, InUse, Linear, Mode
<1>4. /\ t \in States /\ SameLife(s.c, t.c) /\ t.c.exposure <= t.c.exposureMax
      /\ t.r.table = s.r.table
  BY <1>1, <1>2
<1>5. t.f => Linear(t.c)  BY <1>1, <1>2, <1>3
<1>6. Linear(t.c) => t.c.curVts = t.r.vmax /\ t.r.shr0 = t.r.vmax - t.c.exposure
  BY <1>1, <1>2, <1>3
<1> QED BY <1>4, <1>5, <1>6 DEF t, u

\* What a resume does to the chip.
LEMMA ResumedChip ==
    ASSUME NEW c \in Chips, NEW a \in BOOLEAN, NEW e \in BOOLEAN, NEW p, Powered(c, p),
           c.active => a, c.bound
    PROVE  LET d == [c EXCEPT !.active = a, !.error = e]
           IN  /\ d \in Chips /\ SameView(c, d)
               /\ Powered(d, IF a THEN [clk |-> 1, supplies |-> 1] ELSE Off)
<1> DEFINE d == [c EXCEPT !.active = a, !.error = e]
<1>1. d \in Chips /\ d.active = a  BY DEF Chips
<1>2. SameView(c, d) /\ d.powerOn = c.powerOn /\ d.usage = c.usage
  BY DEF Chips, SameView
<1> HIDE DEF d
<1>3. Powered(d, IF a THEN [clk |-> 1, supplies |-> 1] ELSE Off)
  <2>1. d.bound /\ d.streaming = c.streaming  BY <1>2 DEF SameView
  <2>2. d.usage = (IF d.powerOn THEN 1 ELSE 0) + (IF d.streaming THEN 1 ELSE 0)
    BY <1>2, <2>1 DEF Powered
  <2>3. d.usage > 0 => d.active  BY <1>1, <1>2 DEF Powered
  <2> QED BY <1>1, <2>1, <2>2, <2>3 DEF Powered
<1> QED BY <1>1, <1>2, <1>3 DEF d

\* A start that fails leaves no stream.
LEMMA StreamFails ==
    ASSUME SensorInv, chip.bound, ~chip.streaming, NEW fault \in Faults, NEW g \in Resumed(fault),
           power' = g.power, chip' = [chip EXCEPT !.active = g.active, !.error = g.error],
           regs' \in {regs, Table(regs, chip.mode)}, settled' = FALSE,
           UNCHANGED <<rhsOld, wanted>>
    PROVE  SensorInv'
<1> DEFINE d == [chip EXCEPT !.active = g.active, !.error = g.error]
<1>1. /\ chip \in Chips /\ Powered(chip, power) /\ Rated(chip, regs, wanted)
      /\ regs \in Registers /\ rhsOld \in OldLines /\ chip.exposure <= chip.exposureMax
  BY NowIs DEF SensorInv
<1>2. /\ g.active \in BOOLEAN /\ g.error \in BOOLEAN
      /\ chip.active => g.active
      /\ g.power = IF g.active THEN [clk |-> 1, supplies |-> 1] ELSE Off
  BY ResumedIs
<1>3. regs' \in Registers
  <2>1. chip.mode \in 1..11  BY <1>1 DEF Chips
  <2>2. Table(regs, chip.mode) \in Registers  BY <1>1, <2>1, TableIs
  <2> QED BY <1>1, <2>2
<1>4. d \in Chips /\ SameView(chip, d) /\ Powered(d, g.power)
  <2>1. /\ d \in Chips /\ SameView(chip, d)
        /\ Powered(d, IF g.active THEN [clk |-> 1, supplies |-> 1] ELSE Off)
    BY <1>1, <1>2, ResumedChip
  <2> HIDE DEF d
  <2> QED BY <1>2, <2>1
<1>6. chip' = d  OBVIOUS
<1> HIDE DEF d
<1>8. /\ d.exposure <= d.exposureMax /\ ~d.streaming
      /\ wanted # 0 => d.bound /\ Modes[d.mode].fps = wanted
  BY <1>1, <1>4 DEF SameView, Rated
<1>9. Healthy(d, regs', FALSE, g.power, wanted)  BY <1>3, <1>4, <1>8, IdleHealthy
<1> QED BY <1>1, <1>6, <1>9 DEF SensorInv

\* What a start begins with.
StreamBase(c, g, table) ==
    [c |-> [c EXCEPT !.active = g.active, !.error = g.error, !.usage = @ + 1],
     r |-> table, f |-> FALSE]

\* A start that goes through, or is refused by the HDR exposures.
LEMMA StreamGoes ==
    ASSUME SensorInv, chip.bound, ~chip.streaming, NEW fault \in Faults, NEW g \in Resumed(fault),
           g.ok, power' = g.power, UNCHANGED wanted,
           NEW set, set = WriteExposure(WriteBlanking(StreamBase(chip, g, Table(regs, chip.mode)))),
           NEW deferred \in BOOLEAN, deferred => ~Linear(chip),
           NEW w, w = HdrWrites(set.c, chip.init), NEW on, on = (~deferred \/ w.ok),
           chip' = [set.c EXCEPT !.streaming = on, !.usage = IF on THEN @ ELSE @ - 1],
           regs' = [(IF deferred THEN HdrApplied(set.r, w) ELSE set.r) EXCEPT !.standby = ~on],
           rhsOld' = (IF deferred THEN w.old ELSE rhsOld), settled' = set.f
    PROVE  SensorInv'
<1>1. /\ chip \in Chips /\ Powered(chip, power) /\ Rated(chip, regs, wanted)
      /\ regs \in Registers /\ rhsOld \in OldLines /\ chip.exposure <= chip.exposureMax
  BY NowIs DEF SensorInv
<1>2. /\ g.active = TRUE /\ g.error \in BOOLEAN /\ g.power = [clk |-> 1, supplies |-> 1]
  BY ResumedIs
<1> DEFINE n == chip.usage + 1
           b == [chip EXCEPT !.active = g.active, !.error = g.error, !.usage = n]
           base == [c |-> b, r |-> Table(regs, chip.mode), f |-> FALSE]
<1>3. set = WriteExposure(WriteBlanking(base))  BY DEF StreamBase
<1>4. n \in Int /\ chip.mode \in 1..11  BY <1>1 DEF Chips
<1> HIDE DEF n
<1>5. /\ b \in Chips /\ b.active = TRUE /\ b.usage = n /\ b.powerOn = chip.powerOn
      /\ b.init = chip.init /\ b.error = g.error
  BY <1>1, <1>2, <1>4 DEF Chips
<1>6. SameView(chip, b)  BY <1>1, <1>2, <1>4 DEF Chips, SameView
<1> HIDE DEF b
<1>7. /\ Table(regs, chip.mode) \in Registers /\ Table(regs, chip.mode).table = chip.mode
  BY <1>1, <1>4, TableIs
<1>8. base \in States /\ base.c = b /\ base.r.table = chip.mode
  BY <1>5, <1>7 DEF States
<1> HIDE DEF base
<1>9. InUse(b) /\ b.exposure <= b.exposureMax /\ n = 1 + (IF chip.powerOn THEN 1 ELSE 0)
  <2>1. chip.usage = (IF chip.powerOn THEN 1 ELSE 0)  BY <1>1 DEF Powered
  <2>2. n = 1 + (IF chip.powerOn THEN 1 ELSE 0)  BY <2>1 DEF n
  <2>3. b.usage > 0  BY <1>5, <2>2
  <2> QED BY <1>1, <1>5, <1>6, <2>2, <2>3 DEF InUse, SameView
<1>10. /\ set \in States /\ SameLife(b, set.c) /\ set.c.exposure <= set.c.exposureMax
       /\ set.r.table = chip.mode
       /\ set.f => Linear(set.c)
       /\ Linear(set.c) => set.c.curVts = set.r.vmax /\ set.r.shr0 = set.r.vmax - set.c.exposure
  BY <1>3, <1>8, <1>9, StreamSet
<1>11. set.c \in Chips /\ set.r \in Registers /\ set.f \in BOOLEAN  BY <1>10 DEF States
<1>12. set.c.mode = chip.mode /\ (Linear(set.c) <=> Linear(chip))
  BY <1>6, <1>10 DEF SameLife, SameView, Linear, Mode
<1>13. /\ w.ok \in BOOLEAN /\ w.old \in OldLines
       /\ HdrApplied(set.r, w) \in Registers /\ HdrApplied(set.r, w).table = set.r.table
  <2>1. chip.init \in Exposures  BY <1>1 DEF Chips
  <2> QED BY <1>1, <1>11, <2>1, HdrApplies
<1>14. on \in BOOLEAN /\ rhsOld' \in OldLines  BY <1>1, <1>13
<1> DEFINE m == IF on THEN set.c.usage ELSE set.c.usage - 1
           d == [set.c EXCEPT !.streaming = on, !.usage = m]
           q == IF deferred THEN HdrApplied(set.r, w) ELSE set.r
           x == [q EXCEPT !.standby = ~on]
<1>15. chip' = d /\ regs' = x  OBVIOUS
<1>16. m \in Int /\ m = (IF on THEN 1 ELSE 0) + (IF chip.powerOn THEN 1 ELSE 0)
  <2>1. set.c.usage = n  BY <1>5, <1>10 DEF SameLife
  <2> QED BY <1>9, <1>14, <2>1
<1> HIDE DEF m
<1>17. /\ d \in Chips /\ d.streaming = on /\ d.usage = m /\ d.active = set.c.active
       /\ d.bound = set.c.bound /\ d.powerOn = set.c.powerOn /\ d.mode = set.c.mode
       /\ d.curVts = set.c.curVts /\ d.vblank = set.c.vblank /\ d.exposure = set.c.exposure
       /\ d.exposureMax = set.c.exposureMax
  BY <1>11, <1>14, <1>16 DEF Chips
<1> HIDE DEF d
<1>18. q \in Registers /\ q.table = chip.mode /\ (~deferred => q = set.r)
  BY <1>10, <1>11, <1>13
<1> HIDE DEF q
<1>19. x \in Registers /\ x.table = q.table /\ x.vmax = q.vmax /\ x.shr0 = q.shr0
  <2>1. (~on) \in BOOLEAN  OBVIOUS
  <2> QED BY <1>18, <2>1 DEF Registers
<1> HIDE DEF x
<1>20. Powered(d, g.power)
  <2>1. d.active = TRUE /\ d.bound = chip.bound /\ d.powerOn = chip.powerOn
    BY <1>5, <1>6, <1>10, <1>17 DEF SameLife, SameView
  <2>2. d.usage = (IF d.powerOn THEN 1 ELSE 0) + (IF d.streaming THEN 1 ELSE 0)
    BY <1>14, <1>16, <1>17, <2>1
  <2> QED BY <1>2, <2>1, <2>2 DEF Powered
<1>21. Rated(d, x, wanted)
  <2>1. d.mode = chip.mode /\ d.bound = chip.bound /\ x.table = chip.mode
    BY <1>6, <1>10, <1>12, <1>17, <1>18, <1>19 DEF SameLife, SameView
  <2> QED BY <1>1, <2>1 DEF Rated
<1>22. Tuned(d, x, set.f)
  <2>1. Linear(d) <=> Linear(chip)  BY <1>12, <1>17 DEF Linear, Mode
  <2>2. CASE deferred
    <3>1. ~Linear(d) /\ ~set.f  BY <1>10, <1>12, <2>1, <2>2
    <3> QED BY <3>1 DEF Tuned
  <2>3. CASE ~deferred
    <3>1. x.vmax = set.r.vmax /\ x.shr0 = set.r.shr0  BY <1>18, <1>19, <2>3
    <3> QED BY <1>10, <1>12, <1>17, <2>1, <3>1 DEF Tuned
  <2> QED BY <2>2, <2>3
<1>23. Healthy(d, x, set.f, g.power, wanted)
  BY <1>10, <1>11, <1>17, <1>19, <1>20, <1>21, <1>22 DEF Healthy
<1> QED BY <1>14, <1>15, <1>23 DEF SensorInv

\* A stream starts in full, is refused by the exposures, or fails and leaves its tables.
LEMMA StreamOnKeeps == ASSUME SensorInv, StreamOn PROVE SensorInv'
<1>1. chip.bound /\ ~chip.streaming /\ UNCHANGED wanted  BY DEF StreamOn
<1> DEFINE base(g) == [c |-> [chip EXCEPT !.active = g.active, !.error = g.error, !.usage = @ + 1],
                       r |-> Table(regs, chip.mode), f |-> FALSE]
           set(g) == WriteExposure(WriteBlanking(base(g)))
           deferred == chip.hasInit /\ ~Linear(chip)
           w(g) == HdrWrites(set(g).c, chip.init)
           on(g) == ~deferred \/ w(g).ok
           fails(g) == /\ chip' = [chip EXCEPT !.active = g.active, !.error = g.error]
                       /\ regs' \in {regs, Table(regs, chip.mode)}
                       /\ settled' = FALSE
                       /\ UNCHANGED rhsOld
           goes(g) == /\ chip' = [set(g).c EXCEPT !.streaming = on(g),
                                                  !.usage = IF on(g) THEN @ ELSE @ - 1]
                      /\ regs' = [(IF deferred THEN HdrApplied(set(g).r, w(g)) ELSE set(g).r)
                                    EXCEPT !.standby = ~on(g)]
                      /\ rhsOld' = IF deferred THEN w(g).old ELSE rhsOld
                      /\ settled' = set(g).f
<1>2. PICK fault \in Faults, i2c \in BOOLEAN : \E g \in Resumed(fault) :
        /\ power' = g.power
        /\ IF i2c THEN g.ok /\ fault = "none" /\ SensorFails ELSE CountFault(fault)
        /\ IF ~g.ok \/ i2c
           THEN /\ chip' = [chip EXCEPT !.active = g.active, !.error = g.error]
                /\ regs' \in {regs, Table(regs, chip.mode)}
                /\ regs' # regs => i2c
                /\ settled' = FALSE
                /\ UNCHANGED rhsOld
           ELSE goes(g)
  BY DEF StreamOn
<1> HIDE DEF goes
<1>3. PICK g \in Resumed(fault) :
        /\ power' = g.power
        /\ IF ~g.ok \/ i2c THEN fails(g) ELSE goes(g)
  BY <1>2
<1>4. CASE fails(g)  BY <1>1, <1>3, <1>4, StreamFails
<1>5. CASE g.ok /\ goes(g)
  <2>1. deferred \in BOOLEAN /\ (deferred => ~Linear(chip))  OBVIOUS
  <2>2. set(g) = WriteExposure(WriteBlanking(StreamBase(chip, g, Table(regs, chip.mode))))
    BY DEF StreamBase
  <2> QED BY <1>1, <1>3, <1>5, <2>1, <2>2, StreamGoes DEF goes
<1> QED BY <1>3, <1>4, <1>5

\* A stream that stops gives its use back.
LEMMA StreamOffKeeps == ASSUME SensorInv, StreamOff PROVE SensorInv'
<1> DEFINE n == chip.usage - 1
           d == [chip EXCEPT !.streaming = FALSE, !.hasInit = FALSE, !.usage = n]
           x == [regs EXCEPT !.standby = TRUE]
<1>1. /\ chip \in Chips /\ Powered(chip, power) /\ Rated(chip, regs, wanted)
      /\ regs \in Registers /\ rhsOld \in OldLines /\ chip.exposure <= chip.exposureMax
      /\ settled \in BOOLEAN
  BY NowIs DEF SensorInv
<1>2. /\ chip.streaming /\ chip' = d /\ regs' = x
      /\ UNCHANGED <<power, rhsOld, wanted, settled>>
  BY DEF StreamOff
<1>3. n \in Int  BY <1>1 DEF Chips
<1> HIDE DEF n
<1>4. /\ d \in Chips /\ d.streaming = FALSE /\ d.usage = n /\ d.active = chip.active
      /\ d.bound = chip.bound /\ d.powerOn = chip.powerOn /\ d.mode = chip.mode
      /\ d.exposure = chip.exposure /\ d.exposureMax = chip.exposureMax
  BY <1>1, <1>3 DEF Chips
<1>5. x \in Registers  BY <1>1 DEF Registers
<1> HIDE DEF d, x
<1>6. Powered(d, power)
  <2>1. chip.usage = 1 + (IF chip.powerOn THEN 1 ELSE 0)  BY <1>1, <1>2 DEF Powered
  <2>2. d.usage = (IF d.powerOn THEN 1 ELSE 0) + (IF d.streaming THEN 1 ELSE 0)
    BY <1>4, <2>1 DEF n
  <2>3. chip.active  BY <1>1, <2>1 DEF Powered
  <2> QED BY <1>1, <1>4, <2>2, <2>3 DEF Powered
<1>7. wanted # 0 => d.bound /\ Modes[d.mode].fps = wanted  BY <1>1, <1>4 DEF Rated
<1>8. Healthy(d, x, settled, power, wanted)
  BY <1>1, <1>4, <1>5, <1>6, <1>7, IdleHealthy
<1> QED BY <1>1, <1>2, <1>8 DEF SensorInv

--------------------------------------------------------------------------------
(* The calls                                                                *)

\* What a call leaves, if the state it ends with is healthy.
LEMMA CallKeeps ==
    ASSUME SensorInv, SensorCall, NEW t, Becomes(t), Healthy(t.c, t.r, t.f, power, wanted'),
           UNCHANGED rhsOld
    PROVE  SensorInv'
<1>1. chip' = t.c /\ regs' = t.r /\ settled' = t.f /\ power' = power
  BY DEF Becomes, SensorCall
<1>2. rhsOld' \in OldLines  BY DEF SensorInv
<1> QED BY <1>1, <1>2 DEF SensorInv

\* The blanking control carries the frame length and the exposure's range.
LEMMA SetBlankingKeeps == ASSUME SensorInv, SetBlanking PROVE SensorInv'
<1>1. SensorCall /\ wanted' = wanted /\ rhsOld' = rhsOld  BY DEF SetBlanking
<1>2. PICK v \in Blankings : Becomes(SetBlankingTo(Now, Higher(v, chip.vblankMin)))
  BY DEF SetBlanking
<1> DEFINE x == Higher(v, chip.vblankMin)
           t == SetBlankingTo(Now, x)
<1>3. x \in Int
  <2>1. v \in Int /\ chip.vblankMin \in Int  BY NowIs, SensorAssumption DEF Chips
  <2> QED BY <2>1, WholeNumbers
<1> HIDE DEF x
<1>4. Now \in States /\ Now.c.exposure <= Now.c.exposureMax  BY NowIs
<1>5. Blanked(Now, t, x)  BY <1>3, <1>4, SetBlankingToIs
<1>6. Healthy(Now.c, Now.r, Now.f, power, wanted)  BY NowIs
<1>7. Healthy(t.c, t.r, t.f, power, wanted)  BY <1>4, <1>5, <1>6, BlankedHealthy
<1>8. Becomes(t)  BY <1>2 DEF x
<1> HIDE DEF t
<1> QED BY <1>1, <1>7, <1>8, CallKeeps

\* The exposure of the control is written, and that of the invariant.
LEMMA SetExposureKeeps == ASSUME SensorInv, SetExposure PROVE SensorInv'
<1>1. SensorCall /\ wanted' = wanted /\ rhsOld' = rhsOld  BY DEF SetExposure
<1>2. PICK v \in ExposureTimes :
        LET e == Lower(Higher(v, 4), chip.exposureMax)
        IN  Becomes(IF e = chip.exposure THEN Now
                    ELSE WriteExposure([Now EXCEPT !.c.exposure = e]))
  BY DEF SetExposure
<1> DEFINE e == Lower(Higher(v, 4), chip.exposureMax)
           d == [chip EXCEPT !.exposure = e]
           u == [c |-> d, r |-> regs, f |-> settled]
           t == WriteExposure(u)
<1>3. /\ Now = [c |-> chip, r |-> regs, f |-> settled]
      /\ chip \in Chips /\ regs \in Registers /\ settled \in BOOLEAN
      /\ chip.exposure <= chip.exposureMax
      /\ Powered(chip, power) /\ Tuned(chip, regs, settled) /\ Rated(chip, regs, wanted)
      /\ Healthy(Now.c, Now.r, Now.f, power, wanted)
  BY NowIs DEF Now
<1>4. e \in Int /\ e <= chip.exposureMax
  <2>1. v \in Int /\ chip.exposureMax \in Int  BY <1>3, SensorAssumption DEF Chips
  <2> QED BY <2>1 DEF Higher, Lower
<1>5. Becomes(Now) \/ Becomes(t)
  <2>1. u = [Now EXCEPT !.c.exposure = e]  BY <1>3
  <2> QED BY <1>2, <2>1
<1> HIDE DEF e
<1>6. /\ d \in Chips /\ SameLife(chip, d) /\ d.exposure = e /\ d.exposureMax = chip.exposureMax
      /\ d.curVts = chip.curVts /\ d.vblank = chip.vblank
  BY <1>3, <1>4 DEF Chips, SameLife
<1> HIDE DEF d
<1>7. u \in States /\ u.c = d /\ u.r = regs /\ u.f = settled  BY <1>3, <1>6 DEF States
<1> HIDE DEF u
<1>8. /\ t \in States /\ t.c = d /\ t.r.table = regs.table /\ t.r.vmax = regs.vmax
      /\ (InUse(d) /\ Linear(d)) => t.f /\ t.r.shr0 = d.curVts - d.exposure
      /\ ~(InUse(d) /\ Linear(d)) => t = u
  BY <1>7, WriteExposureIs
<1> HIDE DEF t
<1>9. Powered(d, power) /\ Rated(d, t.r, wanted)
  BY <1>3, <1>6, <1>8 DEF Powered, Rated, SameLife
<1>10. Tuned(d, t.r, t.f)
  <2>1. SUFFICES ASSUME d.streaming
                 PROVE  /\ t.f => Linear(d)
                        /\ Linear(d) => (d.curVts = t.r.vmax \/ Skewed(d, t.r))
                        /\ t.f => (t.r.shr0 = t.r.vmax - d.exposure \/ Skewed(d, t.r))
    BY DEF Tuned
  <2>2. InUse(d)  BY <1>6, <1>9, <2>1, StreamingInUse
  <2>3. (Linear(d) <=> Linear(chip)) /\ (Skewed(d, t.r) <=> Skewed(chip, regs))
    BY <1>6, <1>8 DEF Linear, Mode, SameLife, Skewed
  <2>4. /\ settled => Linear(chip)
        /\ Linear(chip) => (chip.curVts = regs.vmax \/ Skewed(chip, regs))
    BY <1>3, <1>6, <2>1 DEF Tuned, SameLife
  <2>5. CASE Linear(d)  BY <1>6, <1>8, <2>2, <2>3, <2>4, <2>5
  <2>6. CASE ~Linear(d)  BY <1>7, <1>8, <2>3, <2>4, <2>6
  <2> QED BY <2>5, <2>6
<1>11. Healthy(t.c, t.r, t.f, power, wanted)
  BY <1>4, <1>6, <1>8, <1>9, <1>10 DEF Healthy, States
<1> QED BY <1>1, <1>3, <1>5, <1>11, CallKeeps

\* HDR exposures are kept for the start, or written; of a linear mode there are none.
LEMMA SetHdrExposureKeeps == ASSUME SensorInv, SetHdrExposure PROVE SensorInv'
<1>1. SensorCall /\ UNCHANGED <<power, wanted, settled>> /\ ~Linear(chip)
  BY DEF SetHdrExposure, SensorCall
<1>2. PICK e \in HdrExposures :
        \/ chip' = [chip EXCEPT !.hasInit = TRUE, !.init = e] /\ UNCHANGED <<regs, rhsOld>>
        \/ /\ regs' \in {regs, HdrApplied(regs, HdrWrites(chip, e))}
           /\ rhsOld' = HdrWrites(chip, e).old
           /\ UNCHANGED chip
  BY DEF SetHdrExposure
<1>3. /\ chip \in Chips /\ regs \in Registers /\ settled \in BOOLEAN /\ rhsOld \in OldLines
      /\ chip.exposure <= chip.exposureMax /\ e \in Exposures
      /\ Powered(chip, power) /\ Tuned(chip, regs, settled) /\ Rated(chip, regs, wanted)
      /\ Healthy(chip, regs, settled, power, wanted)
  BY NowIs, SensorAssumption DEF SensorInv, Exposures
<1>4. CASE chip' = [chip EXCEPT !.hasInit = TRUE, !.init = e] /\ UNCHANGED <<regs, rhsOld>>
  <2> DEFINE d == [chip EXCEPT !.hasInit = TRUE, !.init = e]
  <2>1. /\ d \in Chips /\ SameView(chip, d) /\ d.active = chip.active /\ d.usage = chip.usage
        /\ d.powerOn = chip.powerOn
    BY <1>3 DEF Chips, SameView
  <2>2. chip' = d  BY <1>4
  <2> HIDE DEF d
  <2>3. Powered(d, power)  BY <1>3, <2>1 DEF Powered, SameView
  <2>4. Healthy(d, regs, settled, power, wanted)  BY <1>3, <2>1, <2>3, ViewHealthy
  <2> QED BY <1>1, <1>3, <1>4, <2>2, <2>4 DEF SensorInv
<1>5. CASE /\ regs' \in {regs, HdrApplied(regs, HdrWrites(chip, e))}
           /\ rhsOld' = HdrWrites(chip, e).old
           /\ UNCHANGED chip
  <2> DEFINE w == HdrWrites(chip, e)
             x == HdrApplied(regs, w)
  <2>1. w.old \in OldLines /\ x \in Registers /\ x.table = regs.table /\ x.vmax = regs.vmax
    BY <1>3, HdrApplies
  <2>2. regs' \in {regs, x} /\ rhsOld' = w.old  BY <1>5
  <2> HIDE DEF w, x
  <2>3. regs' \in Registers /\ regs'.table = regs.table /\ rhsOld' \in OldLines
    BY <1>3, <2>1, <2>2
  <2>4. Tuned(chip, regs', settled)  BY <1>1, <1>3 DEF Tuned
  <2>5. Rated(chip, regs', wanted)  BY <1>3, <2>3 DEF Rated
  <2>6. Healthy(chip, regs', settled, power, wanted)
    BY <1>3, <2>3, <2>4, <2>5 DEF Healthy
  <2> QED BY <1>1, <1>5, <2>3, <2>6 DEF SensorInv
<1> QED BY <1>2, <1>4, <1>5

\* Quick streaming touches the standby register alone.
LEMMA QuickStreamKeeps == ASSUME SensorInv, QuickStream PROVE SensorInv'
<1>1. UNCHANGED <<chip, power, rhsOld, wanted, settled>>  BY DEF QuickStream, SensorCall
<1>2. PICK on \in BOOLEAN : regs' = IF chip.active THEN [regs EXCEPT !.standby = ~on] ELSE regs
  BY DEF QuickStream
<1>3. /\ chip \in Chips /\ regs \in Registers /\ Tuned(chip, regs, settled)
      /\ Rated(chip, regs, wanted) /\ Healthy(chip, regs, settled, power, wanted)
      /\ rhsOld \in OldLines
  BY NowIs DEF SensorInv
<1> DEFINE x == [regs EXCEPT !.standby = ~on]
<1>4. x \in Registers /\ x.table = regs.table /\ x.vmax = regs.vmax /\ x.shr0 = regs.shr0
  <2>1. (~on) \in BOOLEAN  OBVIOUS
  <2> QED BY <1>3, <2>1 DEF Registers
<1>5. regs' \in {regs, x}  BY <1>2
<1> HIDE DEF x
<1>6. /\ regs' \in Registers /\ regs'.table = regs.table /\ regs'.vmax = regs.vmax
      /\ regs'.shr0 = regs.shr0
  BY <1>3, <1>4, <1>5
<1>7. Tuned(chip, regs', settled) /\ Rated(chip, regs', wanted)
  BY <1>3, <1>6 DEF Tuned, Skewed, Rated
<1>8. Healthy(chip, regs', settled, power, wanted)  BY <1>3, <1>6, <1>7 DEF Healthy
<1> QED BY <1>1, <1>3, <1>8 DEF SensorInv
\* A record of the driver's with its mode and frame length replaced, in two steps.
LEMMA TwoFields ==
    ASSUME NEW c, NEW r, NEW f, NEW m, NEW x
    PROVE  [[c |-> c, r |-> r, f |-> f] EXCEPT !.c.mode = m, !.c.curVts = x]
             = [c |-> [c EXCEPT !.mode = m, !.curVts = x], r |-> r, f |-> f]
<1>1. [[c |-> c, r |-> r, f |-> f] EXCEPT !.c.mode = m, !.c.curVts = x]
        = [[[c |-> c, r |-> r, f |-> f] EXCEPT !.c.mode = m] EXCEPT !.c.curVts = x]
  OBVIOUS
<1>2. [[c |-> c, r |-> r, f |-> f] EXCEPT !.c.mode = m]
        = [c |-> [c EXCEPT !.mode = m], r |-> r, f |-> f]
  OBVIOUS
<1>3. [[c |-> [c EXCEPT !.mode = m], r |-> r, f |-> f] EXCEPT !.c.curVts = x]
        = [c |-> [[c EXCEPT !.mode = m] EXCEPT !.curVts = x], r |-> r, f |-> f]
  OBVIOUS
<1>4. [[c EXCEPT !.mode = m] EXCEPT !.curVts = x] = [c EXCEPT !.mode = m, !.curVts = x]
  OBVIOUS
<1> QED BY <1>1, <1>2, <1>3, <1>4

\* Of a mode: its default blanking makes up its frame length.
LEMMA DefaultIs ==
    ASSUME NEW m \in 1..11
    PROVE  /\ DefaultBlanking(m) \in Int /\ Modes[m].vts \in Int /\ Modes[m].height \in Int
           /\ Modes[m].height + DefaultBlanking(m) = Modes[m].vts
<1>1. Modes[m].vts \in Nat /\ Modes[m].height \in Nat
  BY ModeTable, ModeKinds DEF ModeRecords
<1> QED BY <1>1 DEF DefaultBlanking

\* A rate is chosen before the stream starts, by a mode that has it.
LEMMA ConfigureFrameRateKeeps == ASSUME SensorInv, ConfigureFrameRate PROVE SensorInv'
<1>1. SensorCall /\ rhsOld' = rhsOld  BY DEF ConfigureFrameRate
<1>2. PICK fps \in Rates \cap ProductRates :
        LET m == ModeOfRate(chip, fps)
        IN  IF chip.streaming \/ m = 0 THEN UNCHANGED <<chip, regs, settled, wanted>>
            ELSE /\ Becomes(LimitBlanking([Now EXCEPT !.c.mode = m], DefaultBlanking(m)))
                 /\ wanted' = fps
  BY DEF ConfigureFrameRate
<1>3. /\ Now = [c |-> chip, r |-> regs, f |-> settled]
      /\ chip \in Chips /\ regs \in Registers /\ settled \in BOOLEAN
      /\ chip.exposure <= chip.exposureMax /\ Powered(chip, power)
      /\ chip.bound /\ power' = power
  BY <1>1, NowIs DEF Now, SensorCall
<1> DEFINE m == ModeOfRate(chip, fps)
           d == [chip EXCEPT !.mode = m, !.curVts = chip.curVts]
           u == [c |-> d, r |-> regs, f |-> settled]
           t == LimitBlanking(u, DefaultBlanking(m))
<1>4. CASE chip.streaming \/ m = 0  BY <1>1, <1>2, <1>3, <1>4 DEF SensorInv
<1>5. CASE ~chip.streaming /\ m # 0
  <2>1. m \in 1..11 /\ Modes[m].fps = fps  BY <1>3, <1>5, ModeFound
  <2>2. Becomes(t) /\ wanted' = fps
    <3>1. [chip EXCEPT !.mode = m] = d  BY <1>3 DEF Chips
    <3>2. u = [Now EXCEPT !.c.mode = m]  BY <1>3, <3>1
    <3> QED BY <1>2, <1>5, <3>2
  <2> HIDE DEF m
  <2>3. /\ d \in Chips /\ d.mode = m /\ d.curVts = chip.curVts /\ d.active = chip.active
        /\ d.bound = chip.bound /\ d.usage = chip.usage /\ d.powerOn = chip.powerOn
        /\ d.streaming = chip.streaming /\ d.vblank = chip.vblank /\ d.exposure = chip.exposure
        /\ d.exposureMax = chip.exposureMax
    <3>1. chip.curVts \in Int  BY <1>3 DEF Chips
    <3>2. chip \in Chips  BY <1>3
    <3>3. d = [chip EXCEPT !.mode = m, !.curVts = chip.curVts]  OBVIOUS
    <3> HIDE DEF d
    <3> QED BY <2>1, <3>1, <3>2, <3>3 DEF Chips
  <2> HIDE DEF d
  <2>4. Powered(d, power)  BY <1>3, <2>3 DEF Powered
  <2>5. Healthy(d, regs, settled, power, fps)
    BY <1>3, <1>5, <2>1, <2>3, <2>4, IdleHealthy
  <2>6. u \in States /\ u.c = d /\ u.r = regs /\ u.f = settled  BY <1>3, <2>3 DEF States
  <2> HIDE DEF u
  <2>7. Blanked(u, t, Higher(u.c.vblank, DefaultBlanking(m)))
    <3>1. DefaultBlanking(m) \in Int  BY <2>1, DefaultIs
    <3> QED BY <1>3, <2>3, <2>6, <3>1, LimitBlankingIs
  <2> HIDE DEF t
  <2>8. Healthy(t.c, t.r, t.f, power, fps)  BY <2>5, <2>6, <2>7, BlankedHealthy
  <2> QED BY <1>1, <2>2, <2>8, CallKeeps
<1> QED BY <1>4, <1>5

\* SET_HDR_CFG changes the mode, and while streaming the table.
LEMMA SetHdrConfigKeeps == ASSUME SensorInv, SetHdrConfig PROVE SensorInv'
<1>1. SensorCall /\ rhsOld' = rhsOld  BY DEF SetHdrConfig
<1>2. PICK hdr \in 1..3 :
        LET m == ModeOfHdr(chip, hdr)
            s == ChangeMode(Now, m)
            t == IF chip.streaming THEN [s EXCEPT !.r = [Table(@, m) EXCEPT !.hold = FALSE], !.f = FALSE]
                 ELSE s
        IN  IF m = 0 THEN UNCHANGED <<chip, regs, settled, wanted>>
            ELSE Becomes(LimitBlanking(t, DefaultBlanking(m))) /\ wanted' = 0
  BY DEF SetHdrConfig
<1>3. /\ Now = [c |-> chip, r |-> regs, f |-> settled]
      /\ chip \in Chips /\ regs \in Registers /\ settled \in BOOLEAN
      /\ chip.exposure <= chip.exposureMax /\ Powered(chip, power)
      /\ chip.bound /\ power' = power
  BY <1>1, NowIs DEF Now, SensorCall
<1> DEFINE m == ModeOfHdr(chip, hdr)
<1>4. CASE m = 0  BY <1>1, <1>2, <1>3, <1>4 DEF SensorInv
<1>5. CASE m # 0
  <2> DEFINE d == [chip EXCEPT !.mode = m, !.curVts = Modes[m].vts]
             x == [Table(regs, m) EXCEPT !.hold = FALSE]
             q == IF chip.streaming THEN x ELSE regs
             f == IF chip.streaming THEN FALSE ELSE settled
             u == [c |-> d, r |-> q, f |-> f]
             t == LimitBlanking(u, DefaultBlanking(m))
  <2>1. m \in 1..11  BY <1>3, <1>5, ModeFound
  <2>2. ChangeMode(Now, m) = [c |-> d, r |-> regs, f |-> settled]
    <3>1. ChangeMode(Now, m) = [Now EXCEPT !.c.mode = m, !.c.curVts = Modes[m].vts]
      BY DEF ChangeMode
    <3>2. Now = [c |-> chip, r |-> regs, f |-> settled]  BY <1>3
    <3> HIDE DEF m
    <3> QED BY <3>1, <3>2, TwoFields
  <2>3. Becomes(t) /\ wanted' = 0
    <3>1. (IF chip.streaming
           THEN [ChangeMode(Now, m) EXCEPT !.r = [Table(@, m) EXCEPT !.hold = FALSE], !.f = FALSE]
           ELSE ChangeMode(Now, m)) = u
      <4> HIDE DEF d
      <4>1. CASE chip.streaming
        <5>1. [ChangeMode(Now, m) EXCEPT !.r = [Table(@, m) EXCEPT !.hold = FALSE], !.f = FALSE]
                = [[c |-> d, r |-> regs, f |-> settled] EXCEPT !.r = x, !.f = FALSE]
          <6>1. [[c |-> d, r |-> regs, f |-> settled]
                   EXCEPT !.r = [Table(@, m) EXCEPT !.hold = FALSE], !.f = FALSE]
                  = [[c |-> d, r |-> regs, f |-> settled] EXCEPT !.r = x, !.f = FALSE]
            OBVIOUS
          <6> QED BY <2>2, <6>1
        <5> HIDE DEF x, m
        <5>2. [[c |-> d, r |-> regs, f |-> settled] EXCEPT !.r = x, !.f = FALSE]
                = [c |-> d, r |-> x, f |-> FALSE]
          <6>1. [[c |-> d, r |-> regs, f |-> settled] EXCEPT !.r = x, !.f = FALSE]
                  = [[[c |-> d, r |-> regs, f |-> settled] EXCEPT !.r = x] EXCEPT !.f = FALSE]
            OBVIOUS
          <6>2. [[c |-> d, r |-> regs, f |-> settled] EXCEPT !.r = x]
                  = [c |-> d, r |-> x, f |-> settled]
            OBVIOUS
          <6>3. [[c |-> d, r |-> x, f |-> settled] EXCEPT !.f = FALSE]
                  = [c |-> d, r |-> x, f |-> FALSE]
            <7>1. \A g : [[c |-> d, r |-> x, f |-> settled] EXCEPT !.f = g]
                           = [c |-> d, r |-> x, f |-> g]
              OBVIOUS
            <7> QED BY <7>1, Zenon
          <6> QED BY <6>1, <6>2, <6>3
        <5>3. q = x /\ f = FALSE  BY <4>1
        <5> QED BY <4>1, <5>1, <5>2, <5>3
      <4>2. CASE ~chip.streaming  BY <2>2, <4>2
      <4> QED BY <4>1, <4>2
    <3> HIDE DEF u
    <3> QED BY <1>2, <1>5, <3>1
  <2> HIDE DEF m
  <2>4. /\ DefaultBlanking(m) \in Int /\ Modes[m].vts \in Int
        /\ Modes[m].height + DefaultBlanking(m) = Modes[m].vts
    BY <2>1, DefaultIs
  <2>5. /\ d \in Chips /\ d.mode = m /\ d.curVts = Modes[m].vts /\ d.active = chip.active
        /\ d.bound = chip.bound /\ d.usage = chip.usage /\ d.powerOn = chip.powerOn
        /\ d.streaming = chip.streaming /\ d.vblank = chip.vblank /\ d.exposure = chip.exposure
        /\ d.exposureMax = chip.exposureMax
    <3>1. chip \in Chips /\ Modes[m].vts \in Int  BY <1>3, <2>4
    <3>2. d = [chip EXCEPT !.mode = m, !.curVts = Modes[m].vts]  OBVIOUS
    <3> HIDE DEF d
    <3> QED BY <2>1, <3>1, <3>2 DEF Chips
  <2> HIDE DEF d
  <2>6. x \in Registers /\ x.table = m /\ (Modes[m].hdr = 1 => x.vmax = Modes[m].vts)
    <3>1. /\ Table(regs, m) \in Registers /\ Table(regs, m).table = m
          /\ Modes[m].hdr = 1 => Table(regs, m).vmax = Modes[m].vts
      BY <1>3, <2>1, TableIs
    <3>2. x \in Registers /\ x.table = Table(regs, m).table /\ x.vmax = Table(regs, m).vmax
      BY <3>1 DEF Registers
    <3> HIDE DEF x
    <3> QED BY <3>1, <3>2
  <2> HIDE DEF x
  <2>7. q \in Registers /\ f \in BOOLEAN /\ (chip.streaming => q = x /\ ~f)
    BY <1>3, <2>6
  <2> HIDE DEF q, f
  <2>8. Powered(d, power)  BY <1>3, <2>5 DEF Powered
  <2>9. Tuned(d, q, f)  BY <2>5, <2>6, <2>7 DEF Tuned, Linear, Mode
  <2>10. Healthy(d, q, f, power, 0)  BY <1>3, <2>5, <2>7, <2>8, <2>9 DEF Healthy, Rated
  <2>11. u \in States /\ u.c = d /\ u.r = q /\ u.f = f  BY <2>5, <2>7 DEF States
  <2> HIDE DEF u
  <2>12. Blanked(u, t, Higher(u.c.vblank, DefaultBlanking(m)))
    BY <1>3, <2>4, <2>5, <2>11, LimitBlankingIs
  <2> HIDE DEF t
  <2>13. Healthy(t.c, t.r, t.f, power, 0)  BY <2>10, <2>11, <2>12, BlankedHealthy
  <2> QED BY <1>1, <2>3, <2>13, CallKeeps
<1> QED BY <1>4, <1>5

\* What S_FMT leaves of a stream: the control is back at the mode's default.
LEMMA FormatTuned ==
    ASSUME NEW c \in Chips, NEW r \in Registers, NEW f \in BOOLEAN, NEW p,
           Powered(c, p), Tuned(c, r, f), c.exposure <= c.exposureMax,
           NEW m \in 1..11, m = c.mode \/ m \in LinearModes,
           NEW s, NEW t, NEW v, NEW d \in Chips,
           d.mode = m, d.curVts = Modes[m].vts, d.streaming = c.streaming, d.vblank = c.vblank,
           d.exposure = c.exposure, d.usage = c.usage, d.active = c.active,
           Blanked([c |-> d, r |-> r, f |-> f], s, v), Blanked(s, t, DefaultBlanking(m))
    PROVE  Tuned(t.c, t.r, t.f)
<1> DEFINE u == [c |-> d, r |-> r, f |-> f]
<1>1. /\ s \in States /\ SameLife(d, s.c) /\ s.c.vblank = v
      /\ v = d.vblank => /\ s.r = r /\ s.f = f /\ s.c.curVts = d.curVts
                         /\ s.c.exposure = d.exposure
      /\ (v # d.vblank /\ InUse(d)) => /\ ~s.f
                                       /\ Linear(d) => s.c.curVts = s.r.vmax
  BY DEF Blanked
<1>2. /\ t \in States /\ SameLife(s.c, t.c) /\ t.c.vblank = DefaultBlanking(m)
      /\ DefaultBlanking(m) = s.c.vblank => /\ t.r = s.r /\ t.f = s.f /\ t.c.curVts = s.c.curVts
                                            /\ t.c.exposure = s.c.exposure
      /\ (DefaultBlanking(m) # s.c.vblank /\ InUse(s.c)) =>
            /\ ~t.f
            /\ Linear(s.c) => t.c.curVts = t.r.vmax
  BY DEF Blanked
<1>3. t.c.mode = m /\ s.c.mode = m /\ t.c.streaming = c.streaming
  BY <1>1, <1>2 DEF SameLife
<1> SUFFICES ASSUME c.streaming PROVE Tuned(t.c, t.r, t.f)  BY <1>3 DEF Tuned
<1>4. InUse(c) /\ InUse(d) /\ InUse(s.c)
  <2>1. InUse(c)  BY StreamingInUse
  <2> QED BY <1>1, <2>1 DEF InUse, SameLife
<1>5. (Linear(t.c) <=> Linear(d)) /\ (Linear(s.c) <=> Linear(d))
  BY <1>3 DEF Linear, Mode
<1>6. CASE DefaultBlanking(m) # s.c.vblank  BY <1>2, <1>4, <1>5, <1>6 DEF Tuned
<1>7. CASE DefaultBlanking(m) = s.c.vblank /\ v # d.vblank
  BY <1>1, <1>2, <1>4, <1>5, <1>7 DEF Tuned
<1>8. CASE DefaultBlanking(m) = s.c.vblank /\ v = d.vblank
  <2>1. /\ t.r = r /\ t.f = f /\ t.c.curVts = Modes[m].vts /\ t.c.exposure = c.exposure
        /\ t.c.vblank = DefaultBlanking(m) /\ c.vblank = DefaultBlanking(m)
    BY <1>1, <1>2, <1>8
  <2>2. Modes[m].height + DefaultBlanking(m) = Modes[m].vts  BY DefaultIs
  <2>3. f => Linear(t.c)
    <3>1. f => Linear(c)  BY DEF Tuned
    <3>2. Linear(c) => Linear(t.c)
      <4>1. CASE m = c.mode  BY <1>3, <4>1 DEF Linear, Mode
      <4>2. CASE m \in LinearModes  BY <1>3, <4>2, ModeKinds, ModeTable DEF Linear, Mode
      <4> QED BY <4>1, <4>2
    <3> QED BY <3>1, <3>2
  <2>4. t.c.curVts = t.r.vmax \/ Skewed(t.c, t.r)  BY <1>3, <2>1, <2>2 DEF Skewed
  <2>5. f => (t.r.shr0 = t.r.vmax - t.c.exposure \/ Skewed(t.c, t.r))
    <3> SUFFICES ASSUME f PROVE t.r.shr0 = t.r.vmax - t.c.exposure \/ Skewed(t.c, t.r)
      OBVIOUS
    <3>1. Linear(c) /\ (r.shr0 = r.vmax - c.exposure \/ Skewed(c, r))  BY DEF Tuned
    <3>2. CASE r.shr0 = r.vmax - c.exposure  BY <2>1, <3>2
    <3>3. CASE Skewed(c, r)
      <4>1. c.mode \in LinearModes /\ m \in LinearModes
        <5>1. c.mode \in ModeIds  BY ModeTable DEF Chips
        <5>2. c.mode \in LinearModes  BY <3>1, <5>1, ModeKinds DEF Linear, Mode
        <5> QED BY <5>2
      <4>2. DefaultBlanking(c.mode) = DefaultBlanking(m)  BY <2>1, <3>3 DEF Skewed
      <4>3. Modes[c.mode].height = Modes[m].height  BY <4>1, <4>2, ModeKinds
      <4> QED BY <1>3, <2>1, <3>3, <4>3 DEF Skewed
    <3> QED BY <3>1, <3>2, <3>3
  <2> QED BY <2>1, <2>3, <2>4, <2>5 DEF Tuned
<1> QED BY <1>6, <1>7, <1>8

\* S_FMT keeps the profile that was chosen, if it asks for its format again.
LEMMA SetFormatKeeps == ASSUME SensorInv, SetFormat PROVE SensorInv'
<1>1. SensorCall /\ rhsOld' = rhsOld  BY DEF SetFormat
<1>2. PICK a \in Formats :
        LET m == BestFit(chip, a[1], a[2])
            s == LimitBlanking(ChangeMode(Now, m), 46)
        IN  /\ Becomes(SetBlankingTo(s, DefaultBlanking(m)))
            /\ wanted' = IF a = <<Mode(chip).code, Mode(chip).height>> THEN wanted ELSE 0
  BY DEF SetFormat
<1>3. /\ Now = [c |-> chip, r |-> regs, f |-> settled]
      /\ chip \in Chips /\ regs \in Registers /\ settled \in BOOLEAN
      /\ chip.exposure <= chip.exposureMax /\ Powered(chip, power)
      /\ Tuned(chip, regs, settled) /\ Rated(chip, regs, wanted) /\ power' = power
  BY <1>1, NowIs DEF Now, SensorCall
<1> DEFINE m == BestFit(chip, a[1], a[2])
           d == [chip EXCEPT !.mode = m, !.curVts = Modes[m].vts]
           u == [c |-> d, r |-> regs, f |-> settled]
           v == Higher(u.c.vblank, 46)
           s == LimitBlanking(u, 46)
           t == SetBlankingTo(s, DefaultBlanking(m))
<1>4. /\ m \in 1..11
      /\ m = chip.mode \/ m \in LinearModes
      /\ (Modes[chip.mode].code = a[1] /\ Modes[chip.mode].height = a[2]) => m = chip.mode
  BY <1>3, BestFitIs
<1>5. ChangeMode(Now, m) = u
  <2>1. ChangeMode(Now, m) = [Now EXCEPT !.c.mode = m, !.c.curVts = Modes[m].vts]
    BY DEF ChangeMode
  <2>2. Now = [c |-> chip, r |-> regs, f |-> settled]  BY <1>3
  <2> HIDE DEF m
  <2> QED BY <2>1, <2>2, TwoFields
<1>6. Becomes(t) /\ wanted' \in {wanted, 0} /\ (wanted' # 0 => m = chip.mode)
  <2>1. /\ Becomes(t)
        /\ wanted' = IF a = <<Mode(chip).code, Mode(chip).height>> THEN wanted ELSE 0
    BY <1>2, <1>5
  <2>2. a = <<Mode(chip).code, Mode(chip).height>> => m = chip.mode
    <3>1. a = <<Mode(chip).code, Mode(chip).height>> =>
            a[1] = Mode(chip).code /\ a[2] = Mode(chip).height
      OBVIOUS
    <3> QED BY <1>4, <3>1 DEF Mode
  <2> QED BY <2>1, <2>2
<1> HIDE DEF m
<1>7. /\ DefaultBlanking(m) \in Int /\ Modes[m].vts \in Int  BY <1>4, DefaultIs
<1>8. /\ d \in Chips /\ d.mode = m /\ d.curVts = Modes[m].vts /\ d.active = chip.active
      /\ d.bound = chip.bound /\ d.usage = chip.usage /\ d.powerOn = chip.powerOn
      /\ d.streaming = chip.streaming /\ d.vblank = chip.vblank /\ d.exposure = chip.exposure
      /\ d.exposureMax = chip.exposureMax
  <2>1. chip \in Chips  BY <1>3
  <2>2. d = [chip EXCEPT !.mode = m, !.curVts = Modes[m].vts]  OBVIOUS
  <2> HIDE DEF d
  <2> QED BY <1>4, <1>7, <2>1, <2>2 DEF Chips
<1> HIDE DEF d
<1>9. u \in States /\ u.c.exposure <= u.c.exposureMax /\ u.c = d /\ u.r = regs
  BY <1>3, <1>8 DEF States
<1>10. Blanked(u, s, v)  BY <1>9, LimitBlankingIs
<1> HIDE DEF s, v
<1>11. s \in States /\ s.c.exposure <= s.c.exposureMax /\ SameLife(u.c, s.c)
       /\ s.r.table = u.r.table
  BY <1>10 DEF Blanked
<1>12. Blanked(s, t, DefaultBlanking(m))  BY <1>7, <1>11, SetBlankingToIs
<1> HIDE DEF t
<1>13. Tuned(t.c, t.r, t.f)  BY <1>3, <1>4, <1>8, <1>10, <1>12, FormatTuned
<1>14. /\ t \in States /\ t.c.exposure <= t.c.exposureMax /\ SameLife(s.c, t.c)
       /\ t.r.table = s.r.table
  BY <1>12 DEF Blanked
<1>15. /\ t.c.bound = chip.bound /\ t.c.active = chip.active /\ t.c.usage = chip.usage
       /\ t.c.streaming = chip.streaming /\ t.c.powerOn = chip.powerOn /\ t.c.mode = m
       /\ t.r.table = regs.table
  BY <1>8, <1>9, <1>11, <1>14 DEF SameLife
<1>16. Powered(t.c, power)  BY <1>3, <1>15 DEF Powered
<1>17. Rated(t.c, t.r, wanted')  BY <1>3, <1>6, <1>15 DEF Rated
<1>18. Healthy(t.c, t.r, t.f, power, wanted')
  BY <1>13, <1>14, <1>16, <1>17 DEF Healthy, States
<1> QED BY <1>1, <1>6, <1>18, CallKeeps

--------------------------------------------------------------------------------
(* The sensor's theorem                                                     *)

\* Every step of SensorDriver keeps the invariant.
LEMMA SensorStep == SensorInv /\ [SensorNext]_sensorVars => SensorInv'
<1> SUFFICES ASSUME SensorInv, [SensorNext]_sensorVars PROVE SensorInv'  OBVIOUS
<1>1. CASE UNCHANGED sensorVars  BY <1>1 DEF sensorVars, SensorInv
<1>2. CASE SensorNext
  BY <1>2, ProbeKeeps, RemoveDriverKeeps, RuntimeSuspendKeeps, PowerUpKeeps, PowerDownKeeps,
     StreamOnKeeps, StreamOffKeeps, SetFormatKeeps, ConfigureFrameRateKeeps, SetBlankingKeeps,
     SetExposureKeeps, SetHdrExposureKeeps, SetHdrConfigKeeps, QuickStreamKeeps DEF SensorNext
<1> QED BY <1>1, <1>2

\* What the invariant says of the sensor.
LEMMA SensorHolds == SensorInv => SensorKept
<1> SUFFICES ASSUME SensorInv PROVE SensorKept  OBVIOUS
<1>1. /\ chip \in Chips /\ regs \in Registers /\ chip.exposure <= chip.exposureMax
      /\ Powered(chip, power) /\ Tuned(chip, regs, settled) /\ Rated(chip, regs, wanted)
  BY NowIs
<1>2. PowerBalanced  BY <1>1 DEF PowerBalanced, Powered
<1>3. RateKept  BY <1>1 DEF RateKept, Rated
<1>4. ExposureMatches
  <2> SUFFICES ASSUME chip.streaming, settled, regs.vmax = Mode(chip).height + chip.vblank
               PROVE  /\ regs.vmax - regs.shr0 = chip.exposure
                      /\ chip.exposureMax <= regs.vmax - 8 => regs.shr0 >= 8
    BY DEF ExposureMatches
  <2>1. ~Skewed(chip, regs)  BY DEF Skewed, Mode
  <2>2. regs.shr0 = regs.vmax - chip.exposure  BY <1>1, <2>1 DEF Tuned
  <2>3. /\ regs.vmax \in Int /\ regs.shr0 \in Int /\ chip.exposure \in Int
        /\ chip.exposureMax \in Int
    BY <1>1 DEF Chips, Registers
  <2> QED BY <1>1, <2>2, <2>3
<1> QED BY <1>2, <1>3, <1>4 DEF SensorKept

\* Whatever is called in whatever order and fails, the sensor's clock and supplies are on
\* exactly while it is active, a stream runs at the rate that was configured, and, once
\* written, exposes for as long as its control says (imx415SDK/imx415.c: imx415_s_power,
\* imx415_s_stream, imx415_set_fmt, imx415_set_ctrl).
THEOREM SensorAsConfigured == SensorSpec => []SensorKept
<1> QED BY SensorStarts, SensorStep, SensorHolds, PTL DEF SensorSpec

--------------------------------------------------------------------------------
(* Counting                                                                 *)

\* Every set of natural numbers has a least one.
LEMMA LeastNumber ==
    ASSUME NEW T, T \subseteq Nat, T # {}
    PROVE  \E x \in T : \A y \in T : x <= y
<1> DEFINE R == OpToRel(<, Nat)
<1>1. \E x \in T : \A y \in T : ~(<<y, x>> \in R)
  <2>1. IsWellFoundedOn(R, Nat)  BY NatLessThanWellFounded
  <2> HIDE DEF R
  <2> QED BY <2>1, WFMin
<1>2. \A y, x \in Nat : y < x => <<y, x>> \in R  BY DEF OpToRel
<1> HIDE DEF R
<1>3. PICK x \in T : \A y \in T : ~(<<y, x>> \in R)  BY <1>1
<1>4. \A y \in T : ~(y < x)  BY <1>2, <1>3
<1> QED BY <1>4

\* Induction: a set that holds 1, and with a number the next, holds all from 1 on.
LEMMA CountsUp ==
    ASSUME NEW S, 1 \in S, \A n \in Nat \ {0} : n \in S => n + 1 \in S
    PROVE  \A n \in Nat \ {0} : n \in S
<1> SUFFICES ASSUME \E n \in Nat \ {0} : n \notin S PROVE FALSE  OBVIOUS
<1>1. PICK n \in (Nat \ {0}) \ S : \A m \in (Nat \ {0}) \ S : n <= m  BY LeastNumber
<1>2. n # 1 /\ n - 1 \in Nat \ {0}  OBVIOUS
<1>3. n - 1 \in S  BY <1>1, <1>2
<1> QED BY <1>2, <1>3

\* Induction up to a bound, from 0.
LEMMA CountsTo ==
    ASSUME NEW n \in Nat, NEW S, 0 \in S, \A i \in 1..n : i - 1 \in S => i \in S
    PROVE  \A i \in 0..n : i \in S
<1> SUFFICES ASSUME \E i \in 0..n : i \notin S PROVE FALSE  OBVIOUS
<1>1. PICK i \in (0..n) \ S : \A j \in (0..n) \ S : i <= j
  <2>1. (0..n) \ S \subseteq Nat /\ (0..n) \ S # {}  OBVIOUS
  <2> QED BY <2>1, LeastNumber
<1>2. i # 0 /\ i \in 1..n  BY <1>1
<1>3. i - 1 \in 0..n  BY <1>2
<1>4. i - 1 \in S  BY <1>1, <1>2, <1>3
<1> QED BY <1>1, <1>2, <1>4

Stepwise(g, n, base, step) == g[0] = base /\ \A i \in 1..n : g[i] = step[i][g[i - 1]]

\* A function is defined by its value at 0 and by the step from each value to the next.
LEMMA StepsExist ==
    ASSUME NEW n \in Nat, NEW V, NEW base \in V, NEW step \in [1..n -> [V -> V]]
    PROVE  \E g \in [0..n -> V] : Stepwise(g, n, base, step)
<1> DEFINE Steps(g, m) == Stepwise(g, m, base, step)
           S == {m \in 0..n : \E g \in [0..m -> V] : Steps(g, m)}
<1>1. 0 \in S
  <2>1. [i \in 0..0 |-> base] \in [0..0 -> V] /\ Steps([i \in 0..0 |-> base], 0) /\ 0 \in 0..n
    BY DEF Stepwise
  <2> QED BY <2>1
<1>2. ASSUME NEW m \in 1..n, m - 1 \in S PROVE m \in S
  <2>1. PICK g \in [0..m - 1 -> V] : Steps(g, m - 1)  BY <1>2
  <2> DEFINE h == [i \in 0..m |-> IF i < m THEN g[i] ELSE step[m][g[m - 1]]]
  <2>2. g[m - 1] \in V /\ step[m] \in [V -> V] /\ m - 1 \in 0..m - 1  OBVIOUS
  <2>3. step[m][g[m - 1]] \in V  BY <2>2
  <2>4. h \in [0..m -> V]  BY <2>3
  <2>5. /\ h[0] = g[0] /\ h[m] = step[m][g[m - 1]] /\ h[m - 1] = g[m - 1]
        /\ \A i \in 1..m - 1 : h[i] = g[i] /\ h[i - 1] = g[i - 1]
    OBVIOUS
  <2>6. g[0] = base /\ \A i \in 1..m - 1 : g[i] = step[i][g[i - 1]]
    BY <2>1 DEF Stepwise
  <2> HIDE DEF h
  <2>7. \A i \in 1..m : h[i] = step[i][h[i - 1]]
    <3>1. ASSUME NEW i \in 1..m PROVE h[i] = step[i][h[i - 1]]
      <4>1. CASE i = m  BY <2>5, <4>1
      <4>2. CASE i # m
        <5>1. i \in 1..m - 1  BY <4>2
        <5> QED BY <2>5, <2>6, <5>1
      <4> QED BY <4>1, <4>2
    <3> QED BY <3>1
  <2>8. Steps(h, m)  BY <2>5, <2>6, <2>7 DEF Stepwise
  <2>9. m \in 0..n  OBVIOUS
  <2> QED BY <2>4, <2>8, <2>9
<1>3. n \in S
  <2> HIDE DEF S
  <2>1. \A i \in 0..n : i \in S  BY <1>1, <1>2, CountsTo
  <2>2. n \in 0..n  OBVIOUS
  <2> QED BY <2>1, <2>2
<1> QED BY <1>3

--------------------------------------------------------------------------------
(* The best cell                                                            *)

Scenes == [source : Sources, first : Cells, second : Cells,
           level : Levels, other : Levels, distances : Boxes]

\* The planes are as large as the model's input holds cells.
LEMMA PlanesAre ==
    ASSUME NEW b \in DOMAIN CellStrides
    PROVE  /\ CellStrides[b] \in Nat \ {0}
           /\ Columns(b) \in Nat \ {0} /\ Rows(b) \in Nat \ {0}
           /\ Columns(b) * CellStrides[b] = Model[1] /\ Rows(b) * CellStrides[b] = Model[2]
<1> DEFINE s == CellStrides[b]
<1>1. s \in Nat \ {0} /\ Model[1] \in Nat \ {0} /\ Model[2] \in Nat \ {0}
      /\ Model[1] % s = 0 /\ Model[2] % s = 0
  BY PerceptionAssumption
<1>2. \A m, k \in Nat \ {0} : m % k = 0 => m \div k \in Nat \ {0} /\ (m \div k) * k = m
  <2>1. ASSUME NEW m \in Nat \ {0}, NEW k \in Nat \ {0}, m % k = 0
        PROVE  m \div k \in Nat \ {0} /\ (m \div k) * k = m
    <3>1. m \div k \in Int /\ m = k * (m \div k) + (m % k)  OBVIOUS
    <3>2. \A q \in Int : m = k * q + 0 => q \in Nat \ {0} /\ q * k = m
      <4>1. ASSUME NEW q \in Int, m = k * q + 0, q <= 0 PROVE FALSE
        <5>1. k * q <= 0  BY <4>1
        <5> QED BY <4>1, <5>1
      <4>2. \A q \in Int : k * q + 0 = q * k  OBVIOUS
      <4> QED BY <4>1, <4>2
    <3> QED BY <2>1, <3>1, <3>2
  <2> QED BY <2>1
<1> HIDE DEF s
<1>3. Columns(b) = Model[1] \div s /\ Rows(b) = Model[2] \div s  BY DEF Columns, Rows, s
<1>4. /\ Columns(b) \in Nat \ {0} /\ Columns(b) * s = Model[1]
      /\ Rows(b) \in Nat \ {0} /\ Rows(b) * s = Model[2]
  BY <1>1, <1>2, <1>3
<1> QED BY <1>1, <1>4 DEF s

\* A cell has its place in its branch's plane, row by row.
LEMMA CellsAre ==
    ASSUME NEW b \in DOMAIN CellStrides
    PROVE  /\ \A o \in 0 .. Columns(b) * Rows(b) - 1 :
                /\ CellAt(b, o) \in Cells /\ CellAt(b, o)[1] = b
                /\ CellAt(b, o)[3] * Columns(b) + CellAt(b, o)[2] = o
           /\ \A c \in Cells : c[1] = b =>
                /\ c[3] * Columns(b) + c[2] \in 0 .. Columns(b) * Rows(b) - 1
                /\ c = CellAt(b, c[3] * Columns(b) + c[2])
<1> DEFINE C == Columns(b)
           R == Rows(b)
           s == CellStrides[b]
<1>1. /\ s \in Nat \ {0} /\ C \in Nat \ {0} /\ R \in Nat \ {0}
      /\ C * s = Model[1] /\ R * s = Model[2] /\ Model[1] \in Nat /\ Model[2] \in Nat
  BY PlanesAre, PerceptionAssumption
<1> HIDE DEF C, R, s
<1>2. \A x, y \in Int : \A k \in Nat \ {0} : x < y <=> (x + 1) * k <= y * k
  <2>1. ASSUME NEW x \in Int, NEW y \in Int, NEW k \in Nat \ {0}
        PROVE  /\ x < y => (x + 1) * k <= y * k
               /\ x >= y => (x + 1) * k > y * k
    <3>1. ASSUME x < y PROVE (x + 1) * k <= y * k
      <4>1. PICK d \in Nat : y = (x + 1) + d
        <5>1. y - (x + 1) \in Nat /\ y = (x + 1) + (y - (x + 1))  BY <3>1
        <5> QED BY <5>1
      <4>2. y * k = (x + 1) * k + d * k /\ d * k >= 0  BY <4>1
      <4>3. y * k \in Int /\ (x + 1) * k \in Int /\ d * k \in Int  OBVIOUS
      <4> QED BY <4>2, <4>3
    <3>2. ASSUME x >= y PROVE (x + 1) * k > y * k
      <4>1. PICK d \in Nat : x = y + d
        <5>1. x - y \in Nat /\ x = y + (x - y)  BY <3>2
        <5> QED BY <5>1
      <4>2. (x + 1) * k = y * k + (d * k + k) /\ d * k >= 0  BY <4>1
      <4>3. y * k \in Int /\ (x + 1) * k \in Int /\ d * k \in Int  OBVIOUS
      <4> QED BY <4>2, <4>3
    <3> QED BY <3>1, <3>2
  <2> QED BY <2>1
<1>3. \A c \in (DOMAIN CellStrides) \X (0..Model[1]) \X (0..Model[2]) :
         c[1] = b => (c \in Cells <=> c[2] < C /\ c[3] < R)
  BY <1>1, <1>2 DEF Cells, s
<1>4. ASSUME NEW o \in 0 .. C * R - 1
      PROVE  /\ CellAt(b, o) \in Cells /\ CellAt(b, o)[1] = b
             /\ CellAt(b, o)[3] * C + CellAt(b, o)[2] = o
  <2>1. /\ o \in Nat /\ o < C * R /\ o % C \in 0..C - 1 /\ o \div C \in Int
        /\ o = C * (o \div C) + (o % C)
    BY <1>1
  <2>2. \A q \in Int, r \in 0..C - 1 : o = C * q + r => q >= 0 /\ q < R
    <3>1. ASSUME NEW q \in Int, NEW r \in 0..C - 1, o = C * q + r, q < 0 PROVE FALSE
      <4>1. C * q <= -C  BY <1>1, <3>1
      <4> QED BY <1>1, <2>1, <3>1, <4>1
    <3>2. ASSUME NEW q \in Int, NEW r \in 0..C - 1, o = C * q + r, q >= R PROVE FALSE
      <4>1. C * q >= C * R  BY <1>1, <3>2
      <4> QED BY <1>1, <2>1, <3>2, <4>1
    <3> QED BY <1>1, <3>1, <3>2
  <2>3. o \div C >= 0 /\ o \div C < R  BY <2>1, <2>2
  <2>4. C <= Model[1] /\ R <= Model[2]  BY <1>1
  <2>5. CellAt(b, o) = <<b, o % C, o \div C>>  BY DEF CellAt, C
  <2>6. o % C \in 0..Model[1] /\ o \div C \in 0..Model[2] /\ o % C < C
    BY <1>1, <2>1, <2>3, <2>4
  <2>7. CellAt(b, o) \in (DOMAIN CellStrides) \X (0..Model[1]) \X (0..Model[2])
        /\ CellAt(b, o)[1] = b /\ CellAt(b, o)[2] = o % C /\ CellAt(b, o)[3] = o \div C
    BY <2>5, <2>6
  <2>8. CellAt(b, o) \in Cells  BY <1>3, <2>3, <2>6, <2>7
  <2>9. (o \div C) * C + (o % C) = o  BY <1>1, <2>1
  <2> QED BY <2>7, <2>8, <2>9
<1>5. ASSUME NEW c \in Cells, c[1] = b
      PROVE  c[3] * C + c[2] \in 0 .. C * R - 1 /\ c = CellAt(b, c[3] * C + c[2])
  <2>1. c \in (DOMAIN CellStrides) \X (0..Model[1]) \X (0..Model[2])  BY DEF Cells
  <2>2. c[2] \in Nat /\ c[3] \in Nat /\ c[2] < C /\ c[3] < R /\ c = <<b, c[2], c[3]>>
    BY <1>1, <1>3, <1>5, <2>1
  <2> DEFINE o == c[3] * C + c[2]
  <2>3. o \in Nat /\ o < C * R
    <3>1. (c[3] + 1) * C <= R * C  BY <1>1, <1>2, <2>2
    <3>2. (c[3] + 1) * C = c[3] * C + C /\ R * C = C * R /\ c[3] * C \in Nat
      BY <1>1, <2>2
    <3> QED BY <1>1, <2>2, <3>1, <3>2
  <2>4. o % C = c[2] /\ o \div C = c[3]
    <3> HIDE DEF o
    <3>1. o % C \in 0..C - 1 /\ o \div C \in Int /\ o = C * (o \div C) + (o % C)
      BY <1>1, <2>3
    <3>2. \A q, u \in Int, r, t \in 0..C - 1 : C * q + r = C * u + t => q = u /\ r = t
      <4>1. ASSUME NEW q \in Int, NEW u \in Int, NEW r \in 0..C - 1, NEW t \in 0..C - 1,
                   C * q + r = C * u + t, q < u
            PROVE  FALSE
        <5>1. C * q + C <= C * u  BY <1>1, <4>1
        <5> QED BY <1>1, <4>1, <5>1
      <4>2. ASSUME NEW q \in Int, NEW r \in 0..C - 1, NEW t \in 0..C - 1,
                   C * q + r = C * q + t
            PROVE  r = t
        BY <1>1, <4>2
      <4> QED BY <4>1, <4>2
    <3>3. o = C * c[3] + c[2] /\ c[2] \in 0..C - 1  BY <1>1, <2>2 DEF o
    <3> QED BY <2>2, <3>1, <3>2, <3>3
  <2>5. c = CellAt(b, o) /\ o \in 0 .. C * R - 1
    <3>1. CellAt(b, o) = <<b, o % C, o \div C>>  BY DEF CellAt, C
    <3>2. C * R \in Int  BY <1>1
    <3> HIDE DEF o
    <3> QED BY <2>2, <2>3, <2>4, <3>1, <3>2
  <2> QED BY <2>5
<1> QED BY <1>4, <1>5 DEF C, R

\* Scores are natural numbers.
LEMMA ScoresAre ==
    ASSUME scene \in Scenes, NEW c PROVE Score(c) \in Nat
  BY PerceptionAssumption DEF Scenes, Score

\* FindBranchMaximum finds the first of the best cells of a plane.
LEMMA BranchMaximumIs ==
    ASSUME scene \in Scenes, NEW b \in DOMAIN CellStrides
    PROVE  \E o \in 0 .. Columns(b) * Rows(b) - 1 :
              /\ FindBranchMaximum(b) = CellAt(b, o)
              /\ \A k \in 0 .. Columns(b) * Rows(b) - 1 :
                    /\ Score(CellAt(b, k)) <= Score(CellAt(b, o))
                    /\ k < o => Score(CellAt(b, k)) < Score(CellAt(b, o))
<1> DEFINE n == Columns(b) * Rows(b) - 1
           At(o) == CellAt(b, o)
           Sc(c) == Score(c)
           Next1(o, v) == IF Sc(At(o)) > Sc(v) THEN At(o) ELSE v
           Body(h) == [o \in 0..n |->
                          IF o = 0 \/ Sc(At(o)) > Sc(h[o - 1]) THEN At(o) ELSE h[o - 1]]
           F == CHOOSE h : h = Body(h)
<1>1. n \in Nat
  <2>1. Columns(b) \in Nat \ {0} /\ Rows(b) \in Nat \ {0}  BY PlanesAre
  <2>2. \A x, y \in Nat \ {0} : x * y - 1 \in Nat
    <3>1. ASSUME NEW x \in Nat \ {0}, NEW y \in Nat \ {0} PROVE x * y >= 1 /\ x * y \in Int
      OBVIOUS
    <3> QED BY <3>1
  <2> QED BY <2>1, <2>2
<1>2. \A c : Sc(c) \in Nat  BY ScoresAre
<1>3. \A o \in 0..n : At(o) \in Cells  BY CellsAre
<1>4. FindBranchMaximum(b) = F[n]  BY DEF FindBranchMaximum
<1> HIDE DEF n, At, Sc
<1>5. F = Body(F)
  <2> DEFINE step == [i \in 1..n |-> [v \in Cells |-> Next1(i, v)]]
  <2>1. step \in [1..n -> [Cells -> Cells]]  BY <1>3
  <2>2. At(0) \in Cells  BY <1>1, <1>3
  <2>3. \A i \in 1..n : \A v \in Cells : step[i][v] = Next1(i, v)  OBVIOUS
  <2> HIDE DEF step, Body
  <2>4. PICK g \in [0..n -> Cells] : Stepwise(g, n, At(0), step)
    BY <1>1, <2>1, <2>2, StepsExist
  <2>5. ASSUME NEW i \in 0..n PROVE g[i] = Body(g)[i]
    <3>1. CASE i = 0  BY <1>1, <2>4, <3>1 DEF Body, Stepwise
    <3>2. CASE i # 0
      <4>1. i \in 1..n /\ i - 1 \in 0..n  BY <1>1, <3>2
      <4>2. g[i] = Next1(i, g[i - 1])  BY <2>3, <2>4, <4>1 DEF Stepwise
      <4> QED BY <3>2, <4>2 DEF Body
    <3> QED BY <3>1, <3>2
  <2>6. g = [i \in 0..n |-> g[i]] /\ Body(g) = [i \in 0..n |-> Body(g)[i]]  BY DEF Body
  <2>7. g = Body(g)  BY <2>5, <2>6
  <2> QED BY <2>7
<1> HIDE DEF F
<1>6. F[0] = At(0) /\ \A i \in 1..n : F[i] = Next1(i, F[i - 1])
  <2>1. \A i \in 0..n : F[i] = IF i = 0 \/ Sc(At(i)) > Sc(F[i - 1]) THEN At(i) ELSE F[i - 1]
    BY <1>5
  <2>2. 0 \in 0..n  BY <1>1
  <2> QED BY <1>1, <2>1, <2>2
<1> HIDE DEF Body
<1> DEFINE Best(i, o) == /\ F[i] = At(o)
                         /\ \A k \in 0..i : Sc(At(k)) <= Sc(At(o)) /\ (k < o => Sc(At(k)) < Sc(At(o)))
           S == {i \in 0..n : \E o \in 0..i : Best(i, o)}
<1>7. 0 \in S
  <2>1. Best(0, 0) /\ 0 \in 0..0 /\ 0 \in 0..n  BY <1>1, <1>2, <1>6
  <2> QED BY <2>1
<1>8. ASSUME NEW i \in 1..n, i - 1 \in S PROVE i \in S
  <2>1. PICK o \in 0..i - 1 : Best(i - 1, o)  BY <1>8
  <2>2. F[i] = Next1(i, At(o))  BY <1>6, <2>1
  <2>3. \A k \in 0..i : k \in 0..i - 1 \/ k = i  OBVIOUS
  <2>4. \A k \in 0..i - 1 : Sc(At(k)) <= Sc(At(o)) /\ (k < o => Sc(At(k)) < Sc(At(o)))
    BY <2>1
  <2>5. CASE Sc(At(i)) > Sc(At(o))
    <3>1. F[i] = At(i)  BY <2>2, <2>5
    <3>2. \A k \in 0..i : Sc(At(k)) <= Sc(At(i)) /\ (k < i => Sc(At(k)) < Sc(At(i)))
      BY <1>2, <2>3, <2>4, <2>5
    <3>3. Best(i, i) /\ i \in 0..i /\ i \in 0..n  BY <3>1, <3>2
    <3> QED BY <3>3
  <2>6. CASE ~(Sc(At(i)) > Sc(At(o)))
    <3>1. F[i] = At(o)  BY <2>2, <2>6
    <3>2. \A k \in 0..i : Sc(At(k)) <= Sc(At(o)) /\ (k < o => Sc(At(k)) < Sc(At(o)))
      BY <1>2, <2>3, <2>4, <2>6
    <3>3. Best(i, o) /\ o \in 0..i /\ i \in 0..n  BY <3>1, <3>2
    <3> QED BY <3>3
  <2> QED BY <2>5, <2>6
<1>9. n \in S
  <2> HIDE DEF S
  <2> QED BY <1>1, <1>7, <1>8, CountsTo
<1>10. PICK o \in 0..n : Best(n, o)  BY <1>9
<1> QED BY <1>4, <1>10 DEF n, At, Sc

\* Of a branch's cells: behind another in the scan.
Behind(c, best) ==
    \/ c[1] > best[1]
    \/ c[1] = best[1] /\ c[3] > best[3]
    \/ c[1] = best[1] /\ c[3] = best[3] /\ c[2] > best[2]

Beaten(c, best) ==
    Score(c) < Score(best) \/ (Score(c) = Score(best) /\ Behind(c, best))

\* A branch's best cell beats every other of the branch.
LEMMA BranchBeaten ==
    ASSUME scene \in Scenes, NEW b \in DOMAIN CellStrides
    PROVE  /\ FindBranchMaximum(b) \in Cells /\ FindBranchMaximum(b)[1] = b
           /\ \A c \in Cells \ {FindBranchMaximum(b)} :
                 c[1] = b => Beaten(c, FindBranchMaximum(b))
<1> DEFINE C == Columns(b)
           n == C * Rows(b) - 1
           best == FindBranchMaximum(b)
<1>1. PICK o \in 0..n : /\ best = CellAt(b, o)
                        /\ \A k \in 0..n :
                              /\ Score(CellAt(b, k)) <= Score(CellAt(b, o))
                              /\ k < o => Score(CellAt(b, k)) < Score(CellAt(b, o))
  BY BranchMaximumIs
<1>2. C \in Nat \ {0}  BY PlanesAre
<1>3. best \in Cells /\ best[1] = b /\ best[3] * C + best[2] = o  BY <1>1, CellsAre
<1>4. \A c \in Cells : c[1] \in DOMAIN CellStrides /\ c[2] \in Nat /\ c[3] \in Nat
  BY PerceptionAssumption DEF Cells
<1>5. \A c \in Cells : c[1] = b =>
         /\ c[3] * C + c[2] \in 0..n /\ c = CellAt(b, c[3] * C + c[2])
         /\ c[2] < C
  <2>1. ASSUME NEW c \in Cells, c[1] = b PROVE c[2] < C
    <3>1. (c[2] + 1) * CellStrides[b] <= C * CellStrides[b] /\ CellStrides[b] \in Nat \ {0}
      BY <2>1, PlanesAre DEF Cells
    <3>2. \A x, y \in Nat, s \in Nat \ {0} : (x + 1) * s <= y * s => x < y
      <4>1. ASSUME NEW x \in Nat, NEW y \in Nat, NEW s \in Nat \ {0}, y <= x
            PROVE  y * s < (x + 1) * s
        <5>1. PICK d \in Nat : x = y + d
          <6>1. x - y \in Nat /\ x = y + (x - y)  BY <4>1
          <6> QED BY <6>1
        <5>2. (x + 1) * s = y * s + (d * s + s) /\ d * s >= 0  BY <5>1
        <5>3. y * s \in Int /\ (x + 1) * s \in Int /\ d * s \in Int  OBVIOUS
        <5> QED BY <5>2, <5>3
      <4>2. \A x, y \in Nat, s \in Nat \ {0} : (x + 1) * s \in Int /\ y * s \in Int
        OBVIOUS
      <4> QED BY <4>1, <4>2
    <3> QED BY <1>2, <1>4, <2>1, <3>1, <3>2
  <2> QED BY <2>1, CellsAre
<1>6. Score(best) \in Nat /\ \A c : Score(c) \in Nat  BY ScoresAre
<1> HIDE DEF best, C, n
<1>7. ASSUME NEW c \in Cells \ {best}, c[1] = b PROVE Beaten(c, best)
  <2>1. PICK k \in 0..n : k = c[3] * C + c[2] /\ c = CellAt(b, k)  BY <1>5, <1>7
  <2>2. Score(c) <= Score(best) /\ (k < o => Score(c) < Score(best)) /\ k # o
    BY <1>1, <1>7, <2>1
  <2>3. CASE k > o
    <3>1. /\ c[2] \in Nat /\ c[3] \in Nat /\ best[2] \in Nat /\ best[3] \in Nat
          /\ c[2] < C /\ best[2] < C
          /\ c[3] * C + c[2] > best[3] * C + best[2]
      BY <1>3, <1>4, <1>5, <1>7, <2>1, <2>3
    <3>2. \A x, y \in Nat : x < y => x * C + C <= y * C
      <4>1. ASSUME NEW x \in Nat, NEW y \in Nat, x < y PROVE x * C + C <= y * C
        <5>1. PICK d \in Nat : y = (x + 1) + d
          <6>1. y - (x + 1) \in Nat /\ y = (x + 1) + (y - (x + 1))  BY <4>1
          <6> QED BY <6>1
        <5>2. y * C = (x * C + C) + d * C /\ d * C >= 0  BY <1>2, <5>1
        <5>3. y * C \in Int /\ x * C + C \in Int /\ d * C \in Int  BY <1>2
        <5> QED BY <5>2, <5>3
      <4> QED BY <4>1
    <3>3. ~(c[3] < best[3])
      <4>1. c[3] < best[3] => c[3] * C + C <= best[3] * C  BY <3>1, <3>2
      <4>2. c[3] * C \in Int /\ best[3] * C \in Int  BY <1>2, <3>1
      <4> QED BY <1>2, <3>1, <4>1, <4>2
    <3>4. c[3] = best[3] => c[2] > best[2]
      <4>1. c[3] * C \in Int  BY <1>2, <3>1
      <4> QED BY <3>1, <4>1
    <3>5. c[3] > best[3] \/ (c[3] = best[3] /\ c[2] > best[2])  BY <3>1, <3>3, <3>4
    <3>6. Behind(c, best)  BY <1>3, <1>7, <3>5 DEF Behind
    <3> QED BY <1>6, <2>2, <3>6 DEF Beaten
  <2>4. CASE k < o  BY <2>2, <2>4 DEF Beaten
  <2>5. o \in Int  OBVIOUS
  <2> QED BY <2>2, <2>3, <2>4, <2>5
<1> QED BY <1>3, <1>7 DEF best

\* FindBest finds the one cell that beats all others, if it is confident.
LEMMA FindBestIs ==
    ASSUME scene \in Scenes
    PROVE  \E best \in Cells :
              /\ FindBest = IF Score(best) < Threshold THEN {} ELSE {best}
              /\ \A c \in Cells \ {best} : Beaten(c, best)
<1> DEFINE n == Len(CellStrides)
           Top(b) == FindBranchMaximum(b)
           Sc(c) == Score(c)
           Better(x, y) == IsBetter(x, y)
           Next2(b, v) == IF Better(Top(b), v) THEN Top(b) ELSE v
           Body(h) == [b \in DOMAIN CellStrides |->
                          IF b = 1 \/ Better(Top(b), h[b - 1]) THEN Top(b) ELSE h[b - 1]]
           F == CHOOSE h : h = Body(h)
<1>1. n \in Nat \ {0} /\ DOMAIN CellStrides = 1..n  BY PerceptionAssumption
<1>2. \A b \in 1..n : CellStrides[b] \in Nat /\ \A a \in 1..n : a < b => CellStrides[a] < CellStrides[b]
  BY PerceptionAssumption, <1>1
<1>3. \A c : Sc(c) \in Nat  BY ScoresAre
<1>4. \A b \in 1..n : /\ Top(b) \in Cells /\ Top(b)[1] = b
                       /\ \A c \in Cells \ {Top(b)} : c[1] = b => Beaten(c, Top(b))
  BY <1>1, BranchBeaten
<1>5. FindBest = IF Sc(F[n]) < Threshold THEN {} ELSE {F[n]}  BY DEF FindBest
<1>6. \A a, b \in 1..n : a < b => (Better(Top(b), Top(a)) <=> Sc(Top(b)) > Sc(Top(a)))
  <2>1. ASSUME NEW a \in 1..n, NEW b \in 1..n, a < b
        PROVE  ~(CellStrides[Top(b)[1]] < CellStrides[Top(a)[1]])
    <3>1. CellStrides[a] < CellStrides[b] /\ CellStrides[a] \in Nat /\ CellStrides[b] \in Nat
      BY <1>2, <2>1
    <3>2. Top(b)[1] = b /\ Top(a)[1] = a  BY <1>4
    <3> HIDE DEF Top
    <3> QED BY <3>1, <3>2
  <2> QED BY <2>1 DEF IsBetter
<1> HIDE DEF n, Top, Sc, Better
<1>7. F = Body(F)
  <2> DEFINE step == [i \in 1..n - 1 |-> [v \in Cells |-> Next2(i + 1, v)]]
  <2>1. step \in [1..n - 1 -> [Cells -> Cells]]
    <3>1. \A i \in 1..n - 1 : i + 1 \in 1..n  BY <1>1
    <3> QED BY <1>4, <3>1
  <2>2. Top(1) \in Cells  BY <1>1, <1>4
  <2>3. \A i \in 1..n - 1 : \A v \in Cells : step[i][v] = Next2(i + 1, v)  OBVIOUS
  <2> HIDE DEF step, Body
  <2>4. PICK g \in [0..n - 1 -> Cells] : Stepwise(g, n - 1, Top(1), step)
    <3>1. n - 1 \in Nat  BY <1>1
    <3> QED BY <2>1, <2>2, <3>1, StepsExist
  <2> DEFINE f == [b \in 1..n |-> g[b - 1]]
  <2>5. ASSUME NEW b \in 1..n PROVE f[b] = Body(f)[b]
    <3>1. CASE b = 1
      <4>1. f[1] = g[0] /\ g[0] = Top(1)  BY <1>1, <2>4, <3>1 DEF Stepwise
      <4> HIDE DEF f
      <4> QED BY <1>1, <3>1, <4>1 DEF Body
    <3>2. CASE b # 1
      <4>1. b - 1 \in 1..n - 1 /\ b - 1 \in 1..n /\ (b - 1) - 1 \in 0..n - 1 /\ (b - 1) + 1 = b
        BY <1>1, <3>2
      <4>2. f[b] = g[b - 1] /\ f[b - 1] = g[(b - 1) - 1]  BY <4>1
      <4>3. g[b - 1] = step[b - 1][g[(b - 1) - 1]] /\ g[(b - 1) - 1] \in Cells
        BY <2>4, <4>1 DEF Stepwise
      <4>4. g[b - 1] = Next2(b, g[(b - 1) - 1])  BY <2>3, <4>1, <4>3
      <4> HIDE DEF f
      <4> QED BY <1>1, <3>2, <4>2, <4>4 DEF Body
    <3> QED BY <3>1, <3>2
  <2>6. f = [b \in 1..n |-> f[b]] /\ Body(f) = [b \in 1..n |-> Body(f)[b]]
    BY <1>1 DEF Body
  <2> HIDE DEF f
  <2>7. f = Body(f)  BY <2>5, <2>6
  <2> QED BY <2>7
<1> HIDE DEF F
<1>8. F[1] = Top(1) /\ \A b \in 2..n : F[b] = Next2(b, F[b - 1])
  <2>1. \A b \in 1..n : F[b] = IF b = 1 \/ Better(Top(b), F[b - 1]) THEN Top(b) ELSE F[b - 1]
    BY <1>1, <1>7
  <2>2. 1 \in 1..n /\ \A b \in 2..n : b \in 1..n /\ b # 1  BY <1>1
  <2> QED BY <2>1, <2>2
<1> HIDE DEF Body
<1> DEFINE Best(i, a) == /\ F[i] = Top(a)
                         /\ \A k \in 1..i : Sc(Top(k)) <= Sc(Top(a)) /\ (k < a => Sc(Top(k)) < Sc(Top(a)))
           S == {i \in 0..n - 1 : \E a \in 1..i + 1 : Best(i + 1, a)}
<1>9. 0 \in S
  <2>1. Best(1, 1) /\ 1 \in 1..0 + 1 /\ 0 \in 0..n - 1 /\ 0 + 1 = 1  BY <1>1, <1>3, <1>8
  <2> QED BY <2>1
<1>10. ASSUME NEW j \in 1..n - 1, j - 1 \in S PROVE j \in S
  <2> DEFINE i == j + 1
  <2>1. i \in 2..n /\ i - 1 = j /\ (j - 1) + 1 = i - 1 /\ i \in 1..n  BY <1>1
  <2>2. PICK a \in 1..i - 1 : Best(i - 1, a)  BY <1>10, <2>1
  <2> HIDE DEF i
  <2>3. F[i] = IF Sc(Top(i)) > Sc(Top(a)) THEN Top(i) ELSE Top(a)
    <3>1. a \in 1..n /\ a < i  BY <1>1, <2>1, <2>2
    <3>2. Better(Top(i), Top(a)) <=> Sc(Top(i)) > Sc(Top(a))  BY <1>6, <2>1, <3>1
    <3>3. F[i] = Next2(i, Top(a))  BY <1>8, <2>1, <2>2
    <3> QED BY <3>2, <3>3
  <2>4. \A k \in 1..i : k \in 1..i - 1 \/ k = i  BY <2>1
  <2>5. \A k \in 1..i - 1 : Sc(Top(k)) <= Sc(Top(a)) /\ (k < a => Sc(Top(k)) < Sc(Top(a)))
    BY <2>2
  <2>6. \E d \in 1..i : Best(i, d)
    <3>1. CASE Sc(Top(i)) > Sc(Top(a))
      <4>1. \A k \in 1..i : Sc(Top(k)) <= Sc(Top(i)) /\ (k < i => Sc(Top(k)) < Sc(Top(i)))
        BY <1>3, <2>4, <2>5, <3>1
      <4>2. Best(i, i) /\ i \in 1..i  BY <2>1, <2>3, <3>1, <4>1
      <4> QED BY <4>2
    <3>2. CASE ~(Sc(Top(i)) > Sc(Top(a)))
      <4>0. i \in Int /\ a < i  BY <2>1
      <4>1. \A k \in 1..i : Sc(Top(k)) <= Sc(Top(a)) /\ (k < a => Sc(Top(k)) < Sc(Top(a)))
        BY <1>3, <2>4, <2>5, <3>2, <4>0
      <4>2. Best(i, a) /\ a \in 1..i  BY <2>1, <2>3, <3>2, <4>1
      <4> QED BY <4>2
    <3> QED BY <3>1, <3>2
  <2> QED BY <1>1, <2>1, <2>6 DEF i
<1>11. PICK a \in 1..n : Best(n, a)
  <2>1. n - 1 \in Nat /\ n - 1 \in 0..n - 1 /\ (n - 1) + 1 = n  BY <1>1
  <2> HIDE DEF S
  <2>2. \A i \in 0..n - 1 : i \in S  BY <1>9, <1>10, <2>1, CountsTo
  <2>3. n - 1 \in S  BY <2>1, <2>2
  <2> QED BY <2>1, <2>3 DEF S
<1>12. ASSUME NEW c \in Cells \ {Top(a)} PROVE Beaten(c, Top(a))
  <2>1. PICK b \in 1..n : c[1] = b  BY <1>1 DEF Cells
  <2>2. c = Top(b) \/ Beaten(c, Top(b))  BY <1>4, <2>1
  <2>3. Top(b)[1] = b /\ Top(a)[1] = a /\ Sc(Top(b)) <= Sc(Top(a)) /\ (b < a => Sc(Top(b)) < Sc(Top(a)))
    BY <1>4, <1>11
  <2>4. Sc(c) \in Nat /\ Sc(Top(a)) \in Nat /\ Sc(Top(b)) \in Nat /\ Sc(c) <= Sc(Top(b))
    BY <1>3, <2>2 DEF Beaten, Sc
  <2>5. CASE b = a  BY <1>12, <2>2, <2>5
  <2>6. CASE b # a
    <3>1. b > a => Behind(c, Top(a))  BY <2>1, <2>3 DEF Behind
    <3>2. Sc(c) < Sc(Top(a)) \/ (b > a /\ Sc(c) = Sc(Top(a)))  BY <2>3, <2>4, <2>6
    <3> QED BY <3>1, <3>2 DEF Beaten, Sc
  <2> QED BY <2>5, <2>6
<1>13. Top(a) \in Cells /\ F[n] = Top(a)  BY <1>4, <1>11
<1> QED BY <1>5, <1>12, <1>13 DEF Sc

--------------------------------------------------------------------------------
(* The letterbox and the way back                                           *)

\* What Clamped returns.
LEMMA ClampedIs ==
    ASSUME NEW v \in Int, NEW low \in Int, NEW high \in Int, low <= high
    PROVE  Clamped(v, low, high) = IF v < low THEN low ELSE IF v > high THEN high ELSE v
<1> DEFINE m == IF v > high THEN high ELSE v
           r == IF m < low THEN low ELSE m
<1>1. Min({v, high}) = m
  <2>1. m \in {v, high} /\ \A y \in {v, high} : m <= y  OBVIOUS
  <2>2. \A x \in {v, high} : (\A y \in {v, high} : x <= y) => x = m  OBVIOUS
  <2> HIDE DEF m
  <2> QED BY <2>1, <2>2 DEF Min
<1>2. m \in Int  OBVIOUS
<1>3. Max({low, m}) = r
  <2> HIDE DEF m
  <2>1. r \in {low, m} /\ \A y \in {low, m} : r >= y  BY <1>2
  <2>2. \A x \in {low, m} : (\A y \in {low, m} : x >= y) => x = r  BY <1>2
  <2> HIDE DEF r
  <2> QED BY <2>1, <2>2 DEF Max
<1>4. Clamped(v, low, high) = r  BY <1>1, <1>3 DEF Clamped
<1> QED BY <1>4

\* Rounding to the nearest is off by a half at most.
LEMMA RoundedIs ==
    ASSUME NEW n \in Nat, NEW d \in Nat \ {0}
    PROVE  /\ Rounded(n, d) \in Int
           /\ 2 * (Rounded(n, d) * d - n) <= d /\ -d < 2 * (Rounded(n, d) * d - n)
<1> DEFINE q == (2 * n + d) \div (2 * d)
           r == (2 * n + d) % (2 * d)
<1>1. 2 * n + d \in Nat /\ 2 * d \in Nat \ {0}  OBVIOUS
<1>2. \A a \in Nat, b \in Nat \ {0} :
         a \div b \in Int /\ a % b \in 0..b - 1 /\ a = b * (a \div b) + (a % b)
  OBVIOUS
<1>3. q \in Int /\ r \in 0..2 * d - 1 /\ 2 * n + d = (2 * d) * q + r  BY <1>1, <1>2
<1> HIDE DEF q, r
<1>4. (2 * d) * q = 2 * (q * d) /\ q * d \in Int  BY <1>3
<1>5. 2 * (q * d - n) = d - r  BY <1>3, <1>4
<1> QED BY <1>3, <1>5 DEF Rounded, q

\* Of a product and a factor, what is known of the other factor.
LEMMA FactorIs ==
    ASSUME NEW q \in Int, NEW m \in Int, NEW d \in Nat \ {0}
    PROVE  /\ 2 * (q * d - m * d) <= d => q <= m
           /\ -d < 2 * (q * d - m * d) => q >= m
<1>1. ASSUME q >= m + 1 PROVE 2 * (q * d - m * d) > d
  <2>1. PICK e \in Nat : q = (m + 1) + e
    <3>1. q - (m + 1) \in Nat /\ q = (m + 1) + (q - (m + 1))  BY <1>1
    <3> QED BY <3>1
  <2>2. q * d - m * d = d + e * d /\ e * d >= 0 /\ e * d \in Int  BY <2>1
  <2>3. \A p, k \in Int : p = d + k /\ k >= 0 => 2 * p > d  OBVIOUS
  <2>4. q * d - m * d \in Int  OBVIOUS
  <2> QED BY <2>2, <2>3, <2>4
<1>2. ASSUME q <= m - 1 PROVE 2 * (q * d - m * d) <= -d
  <2>1. PICK e \in Nat : m = (q + 1) + e
    <3>1. m - (q + 1) \in Nat /\ m = (q + 1) + (m - (q + 1))  BY <1>2
    <3> QED BY <3>1
  <2>2. q * d - m * d = -(d + e * d) /\ e * d >= 0 /\ e * d \in Int  BY <2>1
  <2>3. \A p, k \in Int : p = -(d + k) /\ k >= 0 => 2 * p <= -d  OBVIOUS
  <2>4. q * d - m * d \in Int  OBVIOUS
  <2> QED BY <2>2, <2>3, <2>4
<1>3. q * d - m * d \in Int  OBVIOUS
<1>4. \A p \in Int : (q > m => p > d) /\ (q < m => p <= -d) =>
         (p <= d => q <= m) /\ (-d < p => q >= m)
  OBVIOUS
<1>5. (q > m => 2 * (q * d - m * d) > d) /\ (q < m => 2 * (q * d - m * d) <= -d)
  BY <1>1, <1>2
<1>6. 2 * (q * d - m * d) \in Int  BY <1>3
<1> QED BY <1>4, <1>5, <1>6

\* The scale is that of one axis, and the picture fits the model on the other too.
LEMMA ScaleIs ==
    ASSUME NEW source \in Sources
    PROVE  LET scale == UniformScale(source)
           IN  /\ source[1] \in Nat \ {0} /\ source[2] \in Nat \ {0}
               /\ scale.num \in Nat \ {0} /\ scale.den \in Nat \ {0}
               /\ \A axis \in 1..2 : /\ source[axis] * scale.num \in Nat
                                     /\ source[axis] * scale.num <= Model[axis] * scale.den
                                     /\ scale.den <= 2 * (source[axis] * scale.num)
               /\ \E axis \in 1..2 : source[axis] * scale.num = Model[axis] * scale.den
<1> DEFINE w == source[1]
           h == source[2]
           mw == Model[1]
           mh == Model[2]
<1>1. w \in Nat \ {0} /\ h \in Nat \ {0} /\ mw \in Nat \ {0} /\ mh \in Nat \ {0}
      /\ w <= 2 * h * mw /\ h <= 2 * w * mh
  BY PerceptionAssumption
<1>2. UniformScale(source) = IF mw * h <= mh * w THEN [num |-> mw, den |-> w]
                             ELSE [num |-> mh, den |-> h]
  BY DEF UniformScale
<1> HIDE DEF w, h, mw, mh
<1>3. /\ w * mw \in Nat /\ h * mw \in Nat /\ w * mh \in Nat /\ h * mh \in Nat
      /\ mw * w = w * mw /\ mh * w = w * mh /\ mw * h = h * mw /\ mh * h = h * mh
      /\ 2 * h * mw = 2 * (h * mw) /\ 2 * w * mh = 2 * (w * mh)
      /\ w <= w * mw /\ h <= h * mh
  <2>1. \A x, y \in Nat \ {0} : x * y \in Nat /\ y * x = x * y /\ x <= x * y
    <3>1. ASSUME NEW x \in Nat \ {0}, NEW y \in Nat \ {0} PROVE x <= x * y
      <4>1. PICK e \in Nat : y = 1 + e
        <5>1. y - 1 \in Nat /\ y = 1 + (y - 1)  OBVIOUS
        <5> QED BY <5>1
      <4>2. x * y = x + x * e /\ x * e >= 0 /\ x * e \in Int  BY <4>1
      <4> QED BY <4>2
    <3> QED BY <3>1
  <2>2. 2 * h * mw = 2 * (h * mw) /\ 2 * w * mh = 2 * (w * mh)  BY <1>1
  <2> QED BY <1>1, <2>1, <2>2
<1>4. \A axis \in 1..2 : axis = 1 \/ axis = 2  OBVIOUS
<1>5. source[1] = w /\ source[2] = h /\ Model[1] = mw /\ Model[2] = mh
  BY DEF w, h, mw, mh
<1>6. CASE mw * h <= mh * w
  <2>1. UniformScale(source) = [num |-> mw, den |-> w]  BY <1>2, <1>6
  <2>2. /\ w * mw = mw * w /\ w <= 2 * (w * mw)
        /\ h * mw <= mh * w /\ w <= 2 * (h * mw)
    BY <1>1, <1>3, <1>6
  <2>3. 1 \in 1..2  OBVIOUS
  <2> QED BY <1>1, <1>3, <1>4, <1>5, <2>1, <2>2, <2>3
<1>7. CASE ~(mw * h <= mh * w)
  <2>1. UniformScale(source) = [num |-> mh, den |-> h]  BY <1>2, <1>7
  <2>2. /\ h * mh = mh * h /\ h <= 2 * (h * mh)
        /\ w * mh <= mw * h /\ h <= 2 * (w * mh)
    BY <1>1, <1>3, <1>7
  <2>3. 2 \in 1..2  OBVIOUS
  <2> QED BY <1>1, <1>3, <1>4, <1>5, <2>1, <2>2, <2>3
<1> QED BY <1>6, <1>7

\* What the letterbox of a source is: as large as it can be, and drawn to within half a
\* pixel of its scale.
LEMMA LetterboxIs ==
    ASSUME NEW source \in Sources
    PROVE  LET lb == Letterbox(source)
           IN  /\ lb.scale = UniformScale(source)
               /\ \A axis \in 1..2 :
                     /\ lb.resized[axis] \in 1..Model[axis]
                     /\ lb.before[axis] \in Nat /\ lb.after[axis] \in Nat
                     /\ lb.before[axis] + lb.resized[axis] + lb.after[axis] = Model[axis]
                     /\ lb.after[axis] - lb.before[axis] \in {0, 1}
                     /\ LET drift == 2 * (lb.resized[axis] * lb.scale.den
                                           - source[axis] * lb.scale.num)
                        IN  drift <= lb.scale.den /\ -lb.scale.den < drift
               /\ \E axis \in 1..2 : lb.resized[axis] = Model[axis]
<1> DEFINE num == UniformScale(source).num
           den == UniformScale(source).den
           r(axis) == Rounded(source[axis] * num, den)
           lb == Letterbox(source)
<1>1. /\ den \in Nat \ {0} /\ num \in Nat \ {0}
      /\ \A axis \in 1..2 : /\ source[axis] * num \in Nat
                            /\ source[axis] * num <= Model[axis] * den
                            /\ den <= 2 * (source[axis] * num)
      /\ \E axis \in 1..2 : source[axis] * num = Model[axis] * den
  BY ScaleIs
<1>2. \A axis \in 1..2 : Model[axis] \in Nat \ {0}  BY PerceptionAssumption
<1>3. \A axis \in 1..2 :
         /\ r(axis) \in Int
         /\ 2 * (r(axis) * den - source[axis] * num) <= den
         /\ -den < 2 * (r(axis) * den - source[axis] * num)
  <2>1. ASSUME NEW axis \in 1..2
        PROVE  /\ r(axis) \in Int
               /\ 2 * (r(axis) * den - source[axis] * num) <= den
               /\ -den < 2 * (r(axis) * den - source[axis] * num)
    <3>1. source[axis] * num \in Nat /\ den \in Nat \ {0}  BY <1>1
    <3> HIDE DEF num, den
    <3> QED BY <3>1, RoundedIs
  <2> QED BY <2>1
<1> HIDE DEF num, den, r
<1>4. ASSUME NEW axis \in 1..2
      PROVE  /\ r(axis) \in 1..Model[axis]
             /\ source[axis] * num = Model[axis] * den => r(axis) = Model[axis]
  <2> DEFINE q == r(axis)
             n == source[axis] * num
             m == Model[axis]
  <2>1. q \in Int /\ n \in Nat /\ m \in Nat \ {0} /\ den \in Nat \ {0} /\ n <= m * den /\ den <= 2 * n
        /\ 2 * (q * den - n) <= den /\ -den < 2 * (q * den - n)
    BY <1>1, <1>2, <1>3
  <2>2. \A k \in Int : /\ 2 * (q * den - k * den) <= den => q <= k
                       /\ -den < 2 * (q * den - k * den) => q >= k
    BY <2>1, FactorIs
  <2>3. q * den \in Int /\ m * den \in Int  BY <2>1
  <2> HIDE DEF q, n, m
  <2>4. 2 * (q * den - m * den) <= den  BY <2>1, <2>3
  <2>5. q <= m  BY <2>1, <2>2, <2>4
  <2>6. q >= 1
    <3>1. q >= 0
      <4>1. -den < 2 * (q * den - 0 * den)
        <5>1. 0 * den = 0  BY <2>1
        <5> QED BY <2>1, <2>3, <5>1
      <4> QED BY <2>2, <4>1
    <3>2. q # 0
      <4>1. ASSUME q = 0 PROVE FALSE
        <5>1. q * den = 0  BY <2>1, <4>1
        <5> QED BY <2>1, <5>1
      <4> QED BY <4>1
    <3> QED BY <2>1, <3>1, <3>2
  <2>7. n = m * den => q >= m  BY <2>1, <2>2
  <2> QED BY <2>1, <2>5, <2>6, <2>7 DEF q, n, m
<1>5. /\ lb.scale = UniformScale(source)
      /\ \A axis \in 1..2 :
            /\ lb.resized[axis] = Clamped(Rounded(source[axis] * UniformScale(source).num,
                                                  UniformScale(source).den), 1, Model[axis])
            /\ lb.before[axis] = (Model[axis] - lb.resized[axis]) \div 2
            /\ lb.after[axis] = (Model[axis] - lb.resized[axis])
                                 - (Model[axis] - lb.resized[axis]) \div 2
  BY DEF Letterbox
<1>6. /\ lb.scale.num = num /\ lb.scale.den = den
      /\ \A axis \in 1..2 : lb.resized[axis] = Clamped(r(axis), 1, Model[axis])
  BY <1>5 DEF num, den, r
<1> HIDE DEF lb
<1>7. \A axis \in 1..2 : lb.resized[axis] = r(axis)
  <2>1. ASSUME NEW axis \in 1..2 PROVE Clamped(r(axis), 1, Model[axis]) = r(axis)
    <3>1. r(axis) \in 1..Model[axis] /\ Model[axis] \in Nat \ {0} /\ r(axis) \in Int
      BY <1>2, <1>4
    <3>2. 1 \in Int /\ Model[axis] \in Int /\ 1 <= Model[axis]  BY <3>1
    <3> QED BY <3>1, <3>2, ClampedIs
  <2> QED BY <1>6, <2>1
<1>8. ASSUME NEW axis \in 1..2
      PROVE  /\ lb.before[axis] \in Nat /\ lb.after[axis] \in Nat
             /\ lb.before[axis] + lb.resized[axis] + lb.after[axis] = Model[axis]
             /\ lb.after[axis] - lb.before[axis] \in {0, 1}
  <2>1. \A m \in Nat : \A x \in 1..m :
           /\ (m - x) \div 2 \in Nat /\ (m - x) - (m - x) \div 2 \in Nat
           /\ (m - x) \div 2 + x + ((m - x) - (m - x) \div 2) = m
           /\ ((m - x) - (m - x) \div 2) - (m - x) \div 2 \in {0, 1}
    OBVIOUS
  <2>2. Model[axis] \in Nat /\ lb.resized[axis] \in 1..Model[axis]  BY <1>2, <1>4, <1>7
  <2> QED BY <1>5, <2>1, <2>2
<1>9. \E axis \in 1..2 : lb.resized[axis] = Model[axis]  BY <1>1, <1>4, <1>7
<1> QED BY <1>3, <1>4, <1>5, <1>6, <1>7, <1>8, <1>9 DEF lb

\* The two properties of the letterbox.
LEMMA LetterboxKept == LetterboxFills /\ RoundTripClose
<1>1. LetterboxFills  BY LetterboxIs DEF LetterboxFills
<1>2. ASSUME NEW source \in Sources, NEW axis \in 1..2
      PROVE  LET lb == Letterbox(source)
                 drift == lb.resized[axis] * lb.scale.den - source[axis] * lb.scale.num
             IN  2 * Max({drift, -drift}) <= lb.scale.den
  <2> DEFINE lb == Letterbox(source)
             drift == lb.resized[axis] * lb.scale.den - source[axis] * lb.scale.num
  <2>1. /\ lb.scale.den \in Nat \ {0} /\ lb.scale.num \in Nat \ {0}
        /\ source[axis] * lb.scale.num \in Nat
    BY ScaleIs, LetterboxIs
  <2>2. lb.resized[axis] \in Int
    <3>1. lb.resized[axis] \in 1..Model[axis]  BY LetterboxIs
    <3> QED BY <3>1
  <2>3. drift \in Int  BY <2>1, <2>2
  <2>4. 2 * drift <= lb.scale.den /\ -lb.scale.den < 2 * drift  BY LetterboxIs
  <2> HIDE DEF drift, lb
  <2>5. Max({drift, -drift}) = IF drift >= 0 THEN drift ELSE -drift
    <3> DEFINE m == IF drift >= 0 THEN drift ELSE -drift
    <3>1. m \in {drift, -drift} /\ \A y \in {drift, -drift} : m >= y  BY <2>3
    <3>2. \A x \in {drift, -drift} : (\A y \in {drift, -drift} : x >= y) => x = m
      BY <2>3
    <3> HIDE DEF m
    <3>3. Max({drift, -drift}) = m  BY <3>1, <3>2 DEF Max
    <3> QED BY <3>3 DEF m
  <2>6. 2 * Max({drift, -drift}) <= lb.scale.den  BY <2>1, <2>3, <2>4, <2>5
  <2> QED BY <2>6 DEF drift, lb
<1> QED BY <1>1, <1>2 DEF RoundTripClose

\* One axis of the way back, in numbers: m is the model's size, r the picture's in the model
\* and n the source's, b and a the padding before and after it, num and den the scale, from
\* low to high the box.
Drawn(m, r, b, a, num, den, n) ==
    /\ b + r + a = m
    /\ 2 * (r * den - n * num) <= den /\ -den < 2 * (r * den - n * num)

MappedTo(b, num, den, n, edge, coordinate) ==
    coordinate = Clamped((edge - 2 * b) * den, 0, 2 * num * (n - 1))

\* A box in the padding has no area in the source, and one in the left or upper half of the
\* picture aims there.
AimsThere(m, r, b, a, num, den, n, low, high, ml, mh) ==
    /\ high <= 2 * b => mh <= ml
    /\ low >= 2 * (m - a) + (IF r * den < n * num THEN 1 ELSE 0) => mh <= ml
    /\ mh > ml /\ high <= 2 * b + r => ml + mh <= 2 * num * n

LEMMA AxisMapped ==
    ASSUME NEW m \in Nat, NEW r \in Nat, NEW b \in Nat, NEW a \in Nat,
           NEW num \in Nat \ {0}, NEW den \in Nat \ {0}, NEW n \in Nat \ {0},
           Drawn(m, r, b, a, num, den, n),
           NEW low \in Int, NEW high \in Int, low < high,
           NEW ml, NEW mh, MappedTo(b, num, den, n, low, ml), MappedTo(b, num, den, n, high, mh)
    PROVE  AimsThere(m, r, b, a, num, den, n, low, high, ml, mh)
<1> DEFINE x == low - 2 * b
           y == high - 2 * b
           tl == x * den
           th == y * den
           limit == 2 * num * (n - 1)
           rd == r * den
           nn == n * num
<1>1. /\ x \in Int /\ y \in Int /\ x < y
      /\ tl \in Int /\ th \in Int /\ rd \in Int /\ nn \in Int
  OBVIOUS
<1>2. /\ limit \in Nat /\ limit = 2 * nn - 2 * num /\ 2 * num * n = 2 * nn
  <2>1. limit = 2 * nn - 2 * num /\ 2 * num * n = 2 * nn  OBVIOUS
  <2>2. nn >= num
    <3>1. PICK e \in Nat : n = 1 + e
      <4>1. n - 1 \in Nat /\ n = 1 + (n - 1)  OBVIOUS
      <4> QED BY <4>1
    <3>2. nn = num + e * num /\ e * num >= 0 /\ e * num \in Int  BY <3>1
    <3> QED BY <3>2
  <2> HIDE DEF limit
  <2> QED BY <1>1, <2>1, <2>2 DEF limit
<1>3. /\ ml = IF tl < 0 THEN 0 ELSE IF tl > limit THEN limit ELSE tl
      /\ mh = IF th < 0 THEN 0 ELSE IF th > limit THEN limit ELSE th
  <2>1. ml = Clamped(tl, 0, limit) /\ mh = Clamped(th, 0, limit)  BY DEF MappedTo
  <2> HIDE DEF tl, th, limit
  <2>2. 0 \in Int /\ limit \in Int /\ 0 <= limit  BY <1>2
  <2> QED BY <1>1, <2>1, <2>2, ClampedIs
<1>4. \A p, q \in Int : p <= q => p * den <= q * den
  <2>1. ASSUME NEW p \in Int, NEW q \in Int, p <= q PROVE p * den <= q * den
    <3>1. PICK e \in Nat : q = p + e
      <4>1. q - p \in Nat /\ q = p + (q - p)  BY <2>1
      <4> QED BY <4>1
    <3>2. q * den = p * den + e * den /\ e * den >= 0 /\ e * den \in Int /\ p * den \in Int
      BY <3>1
    <3> QED BY <3>2
  <2> QED BY <2>1
<1>5. 0 * den = 0 /\ \A p \in Int : (p - 1) * den = p * den - den  OBVIOUS
<1>6. (2 * r) * den = 2 * rd /\ (2 * r + 1) * den = 2 * rd + den  OBVIOUS
<1>7. ASSUME high <= 2 * b PROVE mh <= ml
  <2>1. y <= 0 /\ x <= 0  BY <1>1, <1>7
  <2>2. th <= 0 /\ tl <= 0  BY <1>1, <1>4, <1>5, <2>1
  <2> HIDE DEF tl, th, limit
  <2> QED BY <1>1, <1>2, <1>3, <2>2
<1>8. ASSUME low >= 2 * (m - a) + (IF rd < nn THEN 1 ELSE 0) PROVE mh <= ml
  <2>1. x >= 2 * r + (IF rd < nn THEN 1 ELSE 0)
    <3> DEFINE e == IF rd < nn THEN 1 ELSE 0
    <3>1. e \in Int /\ low >= 2 * (m - a) + e /\ m - a = b + r  BY <1>8 DEF Drawn
    <3> HIDE DEF e
    <3>2. low - 2 * b >= 2 * r + e  BY <3>1
    <3> QED BY <3>2 DEF e
  <2>2. tl >= 2 * nn
    <3>1. CASE rd < nn
      <4>1. 2 * r + 1 <= x /\ 2 * r + 1 \in Int  BY <1>1, <2>1, <3>1
      <4>2. (2 * r + 1) * den <= tl  BY <1>1, <1>4, <4>1
      <4>3. -den < 2 * (rd - nn)  BY DEF Drawn
      <4> HIDE DEF tl, rd, nn, x
      <4> QED BY <1>1, <1>6, <4>2, <4>3
    <3>2. CASE ~(rd < nn)
      <4>1. 2 * r <= x /\ 2 * r \in Int  BY <1>1, <2>1, <3>2
      <4>2. (2 * r) * den <= tl  BY <1>1, <1>4, <4>1
      <4> HIDE DEF tl, rd, nn, x
      <4> QED BY <1>1, <1>6, <3>2, <4>2
    <3> QED BY <3>1, <3>2
  <2>3. tl <= th  BY <1>1, <1>4
  <2> HIDE DEF tl, th, limit, nn
  <2> QED BY <1>1, <1>2, <1>3, <2>2, <2>3
<1>9. ASSUME mh > ml, high <= 2 * b + r PROVE ml + mh <= 2 * num * n
  <2>1. y <= r /\ x <= r - 1  BY <1>1, <1>9
  <2>2. th <= rd /\ tl <= rd - den
    <3>1. y * den <= r * den /\ x * den <= (r - 1) * den  BY <1>1, <1>4, <2>1
    <3>2. (r - 1) * den = r * den - den  BY <1>5
    <3> QED BY <3>1, <3>2
  <2>3. 2 * (rd - nn) <= den  BY DEF Drawn
  <2> HIDE DEF tl, th, limit, nn, rd
  <2>4. ml + mh <= 2 * nn  BY <1>1, <1>2, <1>3, <1>9, <2>2, <2>3
  <2> QED BY <1>2, <2>4
<1> QED BY <1>7, <1>8, <1>9 DEF AimsThere

\* What Process makes of a frame aims where it sees.
LEMMA AimKept ==
    ASSUME scene \in Scenes, NEW cell \in Cells,
           NEW lb, lb = Letterbox(scene.source), NEW box, box = Decode(cell),
           NEW mapped, mapped = MapToOriginal(box, lb), ~BoxInvalid(box)
    PROVE  /\ \A axis \in 1..2 :
                 \/ box.high[axis] <= 2 * lb.before[axis]
                 \/ box.low[axis] >= 2 * (Model[axis] - lb.after[axis])
                        + (IF lb.resized[axis] * lb.scale.den < scene.source[axis] * lb.scale.num
                           THEN 1 ELSE 0)
                 => BoxInvalid(mapped)
           /\ ~BoxInvalid(mapped) =>
                 \A axis \in 1..2 :
                    box.high[axis] <= 2 * lb.before[axis] + lb.resized[axis]
                        => ErrorSign(mapped, lb)[axis] <= 0
<1>1. /\ scene.source \in Sources
      /\ lb.scale.num \in Nat \ {0} /\ lb.scale.den \in Nat \ {0}
      /\ \A axis \in 1..2 :
            /\ lb.resized[axis] \in 1..Model[axis]
            /\ lb.before[axis] \in Nat /\ lb.after[axis] \in Nat
            /\ lb.before[axis] + lb.resized[axis] + lb.after[axis] = Model[axis]
            /\ 2 * (lb.resized[axis] * lb.scale.den - scene.source[axis] * lb.scale.num) <= lb.scale.den
            /\ -lb.scale.den < 2 * (lb.resized[axis] * lb.scale.den - scene.source[axis] * lb.scale.num)
            /\ scene.source[axis] \in Nat \ {0} /\ Model[axis] \in Nat
  <2>1. scene.source \in Sources  BY DEF Scenes
  <2>2. \A axis \in 1..2 : scene.source[axis] \in Nat \ {0} /\ Model[axis] \in Nat
    BY <2>1, PerceptionAssumption
  <2>3. lb.scale.num \in Nat \ {0} /\ lb.scale.den \in Nat \ {0}
    BY <2>1, ScaleIs, LetterboxIs
  <2> QED BY <2>1, <2>2, <2>3, LetterboxIs
<1>2. \A axis \in 1..2 : box.low[axis] \in Int /\ box.high[axis] \in Int
  <2>1. /\ cell[1] \in DOMAIN CellStrides /\ cell[2] \in Int /\ cell[3] \in Int
        /\ CellStrides[cell[1]] \in Int
    BY PerceptionAssumption DEF Cells
  <2>2. \A i \in 1..4 : scene.distances[i] \in Int  BY PerceptionAssumption DEF Scenes
  <2>3. 1 \in 1..4 /\ 2 \in 1..4 /\ 3 \in 1..4 /\ 4 \in 1..4  OBVIOUS
  <2>4. /\ (2 * cell[2] + 1 - scene.distances[1]) * CellStrides[cell[1]] \in Int
        /\ (2 * cell[3] + 1 - scene.distances[2]) * CellStrides[cell[1]] \in Int
        /\ (2 * cell[2] + 1 + scene.distances[3]) * CellStrides[cell[1]] \in Int
        /\ (2 * cell[3] + 1 + scene.distances[4]) * CellStrides[cell[1]] \in Int
    BY <2>1, <2>2, <2>3
  <2> QED BY <2>4 DEF Decode
<1>3. \A axis \in 1..2 : box.low[axis] < box.high[axis]  BY <1>2 DEF BoxInvalid
<1>4. \A axis \in 1..2 :
         /\ mapped.low[axis] = Clamped((box.low[axis] - 2 * lb.before[axis]) * lb.scale.den, 0,
                                       2 * lb.scale.num * (scene.source[axis] - 1))
         /\ mapped.high[axis] = Clamped((box.high[axis] - 2 * lb.before[axis]) * lb.scale.den, 0,
                                        2 * lb.scale.num * (scene.source[axis] - 1))
  BY DEF MapToOriginal, ToSource
<1>5. ASSUME NEW axis \in 1..2
      PROVE  /\ box.high[axis] <= 2 * lb.before[axis] => mapped.high[axis] <= mapped.low[axis]
             /\ box.low[axis] >= 2 * (Model[axis] - lb.after[axis])
                    + (IF lb.resized[axis] * lb.scale.den < scene.source[axis] * lb.scale.num
                       THEN 1 ELSE 0)
                  => mapped.high[axis] <= mapped.low[axis]
             /\ mapped.high[axis] > mapped.low[axis]
                  /\ box.high[axis] <= 2 * lb.before[axis] + lb.resized[axis]
                  => mapped.low[axis] + mapped.high[axis] <= 2 * lb.scale.num * scene.source[axis]
             /\ mapped.low[axis] \in Int /\ mapped.high[axis] \in Int
             /\ 2 * lb.scale.num * scene.source[axis] \in Int
  <2> DEFINE m == Model[axis]
             r == lb.resized[axis]
             b == lb.before[axis]
             a == lb.after[axis]
             num == lb.scale.num
             den == lb.scale.den
             n == scene.source[axis]
             low == box.low[axis]
             high == box.high[axis]
             ml == mapped.low[axis]
             mh == mapped.high[axis]
  <2>1. /\ m \in Nat /\ r \in Nat /\ b \in Nat /\ a \in Nat
        /\ num \in Nat \ {0} /\ den \in Nat \ {0} /\ n \in Nat \ {0}
        /\ Drawn(m, r, b, a, num, den, n)
    <3>1. r \in 1..m /\ m \in Nat  BY <1>1
    <3>2. r \in Nat  BY <3>1
    <3> QED BY <1>1, <3>2 DEF Drawn
  <2>2. low \in Int /\ high \in Int /\ low < high  BY <1>2, <1>3
  <2>3. MappedTo(b, num, den, n, low, ml) /\ MappedTo(b, num, den, n, high, mh)
    BY <1>4 DEF MappedTo
  <2> HIDE DEF m, r, b, a, num, den, n, low, high, ml, mh
  <2>4. AimsThere(m, r, b, a, num, den, n, low, high, ml, mh)
    BY <2>1, <2>2, <2>3, AxisMapped
  <2>5. ml \in Int /\ mh \in Int /\ 2 * num * n \in Int
    <3>1. 0 <= 2 * num * (n - 1) /\ 2 * num * (n - 1) \in Int /\ 0 \in Int
      <4>1. \A p, q \in Nat : 2 * p * q \in Nat  OBVIOUS
      <4>2. n - 1 \in Nat /\ num \in Nat  BY <2>1
      <4>3. 2 * num * (n - 1) \in Nat  BY <4>1, <4>2
      <4> QED BY <4>3
    <3>2. (low - 2 * b) * den \in Int /\ (high - 2 * b) * den \in Int  BY <2>1, <2>2
    <3>3. 2 * num * n \in Int  BY <2>1
    <3> DEFINE limit == 2 * num * (n - 1)
               x == (low - 2 * b) * den
               y == (high - 2 * b) * den
    <3>4. ml = Clamped(x, 0, limit) /\ mh = Clamped(y, 0, limit)  BY <2>3 DEF MappedTo
    <3>5. x \in Int /\ y \in Int /\ limit \in Int /\ 0 <= limit  BY <3>1, <3>2
    <3> HIDE DEF limit, x, y
    <3>6. ml \in Int /\ mh \in Int  BY <3>4, <3>5, ClampedIs
    <3> QED BY <3>3, <3>6
  <2> QED BY <2>4, <2>5 DEF AimsThere, m, r, b, a, num, den, n, low, high, ml, mh
<1>6. \A axis \in 1..2 : mapped.high[axis] <= mapped.low[axis] => BoxInvalid(mapped)
  BY DEF BoxInvalid
<1>7. ASSUME NEW axis \in 1..2, ~BoxInvalid(mapped),
             box.high[axis] <= 2 * lb.before[axis] + lb.resized[axis]
      PROVE  ErrorSign(mapped, lb)[axis] <= 0
  <2> DEFINE d == mapped.low[axis] + mapped.high[axis] - 2 * lb.scale.num * scene.source[axis]
  <2>1. ~(mapped.high[axis] <= mapped.low[axis])  BY <1>6, <1>7
  <2>2. mapped.high[axis] > mapped.low[axis]  BY <1>5, <2>1
  <2>3. mapped.low[axis] + mapped.high[axis] <= 2 * lb.scale.num * scene.source[axis]
    BY <1>5, <1>7, <2>2
  <2>4. d <= 0 /\ d \in Int
    <3>1. \A x, y, z \in Int : x + y <= z => x + y - z <= 0 /\ x + y - z \in Int
      OBVIOUS
    <3> QED BY <1>5, <2>3, <3>1
  <2>5. ErrorSign(mapped, lb)[axis] = IF d > 0 THEN 1 ELSE IF d < 0 THEN -1 ELSE 0
    BY DEF ErrorSign
  <2> HIDE DEF d
  <2> QED BY <2>4, <2>5
<1> QED BY <1>5, <1>6, <1>7

--------------------------------------------------------------------------------
PerceptionInv ==
    /\ scene \in Scenes
    /\ BestFound /\ AimsWhereItSees

LEMMA PerceptionBegins == PerceptionInit => PerceptionInv
  BY DEF PerceptionInit, PerceptionInv, Scenes, NoResult, BestFound, AimsWhereItSees

\* The result of a frame.
LEMMA PerceptionStep == PerceptionInv /\ [PerceptionNext]_perceptionVars => PerceptionInv'
<1> SUFFICES ASSUME PerceptionInv, [PerceptionNext]_perceptionVars PROVE PerceptionInv'
  OBVIOUS
<1>1. CASE UNCHANGED perceptionVars
  BY <1>1 DEF PerceptionInv, perceptionVars, Scenes, BestFound, AimsWhereItSees, NoResult,
     Score, Decode
<1>2. CASE Process
  <2> DEFINE lb == Letterbox(scene.source)
             cell == CHOOSE c \in FindBest : TRUE
             box == Decode(cell)
             mapped == MapToOriginal(box, lb)
  <2>1. scene \in Scenes /\ scene' = scene  BY <1>2 DEF PerceptionInv, Process
  <2>2. result' =
            IF FindBest = {} THEN [at |-> "NO_TARGET", best |-> FindBest]
            ELSE IF BoxInvalid(box) THEN [at |-> "throws", best |-> FindBest]
                 ELSE IF Unusable(mapped, lb) THEN [at |-> "INVALID", best |-> FindBest]
                 ELSE [at |-> "DETECTED", best |-> FindBest, box |-> mapped,
                       error |-> ErrorSign(mapped, lb)]
    BY <1>2 DEF Process
  <2>3. PICK best \in Cells :
              /\ FindBest = IF Score(best) < Threshold THEN {} ELSE {best}
              /\ \A c \in Cells \ {best} : Beaten(c, best)
    BY <2>1, FindBestIs
  <2>4. result'.best = FindBest
    <3> HIDE DEF mapped, box, lb
    <3> QED BY <2>2
  <2>5. \A c : Score(c)' = Score(c) /\ Decode(c)' = Decode(c)  BY <2>1 DEF Score, Decode
  <2>6. BestFound'
    <3>1. CASE Score(best) < Threshold
      <4>1. ASSUME NEW c \in Cells PROVE Score(c) < Threshold
        <5>1. Score(c) \in Nat /\ Score(best) \in Nat /\ Threshold \in Nat
          BY <2>1, ScoresAre, PerceptionAssumption
        <5>2. c = best \/ Score(c) < Score(best) \/ Score(c) = Score(best)
          BY <2>3 DEF Beaten
        <5> QED BY <3>1, <5>1, <5>2
      <4>2. result'.best = {}  BY <2>3, <2>4, <3>1
      <4>3. \A c \in Cells : Score(c)' < Threshold  BY <2>5, <4>1
      <4> QED BY <4>2, <4>3 DEF BestFound
    <3>2. CASE ~(Score(best) < Threshold)
      <4>1. best \in result'.best  BY <2>3, <2>4, <3>2
      <4>2. ASSUME NEW c \in Cells \ {best}
            PROVE  \/ Score(c)' < Score(best)'
                   \/ /\ Score(c)' = Score(best)'
                      /\ \/ c[1] > best[1]
                         \/ c[1] = best[1] /\ c[3] > best[3]
                         \/ c[1] = best[1] /\ c[3] = best[3] /\ c[2] > best[2]
        <5>1. Beaten(c, best)  BY <2>3, <4>2
        <5> QED BY <2>5, <5>1 DEF Beaten, Behind
      <4> QED BY <4>1, <4>2 DEF BestFound
    <3> QED BY <3>1, <3>2
  <2>7. AimsWhereItSees'
    <3>1. CASE FindBest = {} \/ BoxInvalid(box)
      <4>1. result'.at \in {"NO_TARGET", "throws"}  BY <2>2, <3>1
      <4> QED BY <4>1 DEF AimsWhereItSees
    <3>2. CASE ~(FindBest = {} \/ BoxInvalid(box))
      <4>1. FindBest = {best} /\ cell = best  BY <2>3, <3>2
      <4>2. /\ \A axis \in 1..2 :
                 \/ box.high[axis] <= 2 * lb.before[axis]
                 \/ box.low[axis] >= 2 * (Model[axis] - lb.after[axis])
                        + (IF lb.resized[axis] * lb.scale.den < scene.source[axis] * lb.scale.num
                           THEN 1 ELSE 0)
                 => Unusable(mapped, lb)
            /\ ~Unusable(mapped, lb) =>
                 \A axis \in 1..2 :
                    box.high[axis] <= 2 * lb.before[axis] + lb.resized[axis]
                        => ErrorSign(mapped, lb)[axis] <= 0
        <5>1. cell \in Cells /\ ~BoxInvalid(box)  BY <3>2, <4>1
        <5>2. BoxInvalid(mapped) => Unusable(mapped, lb)  BY Zenon DEF Unusable
        <5> HIDE DEF cell
        <5>3. /\ \A axis \in 1..2 :
                   \/ box.high[axis] <= 2 * lb.before[axis]
                   \/ box.low[axis] >= 2 * (Model[axis] - lb.after[axis])
                          + (IF lb.resized[axis] * lb.scale.den < scene.source[axis] * lb.scale.num
                             THEN 1 ELSE 0)
                   => BoxInvalid(mapped)
              /\ ~BoxInvalid(mapped) =>
                   \A axis \in 1..2 :
                      box.high[axis] <= 2 * lb.before[axis] + lb.resized[axis]
                          => ErrorSign(mapped, lb)[axis] <= 0
          BY <2>1, <5>1, AimKept
        <5> HIDE DEF mapped, box, lb
        <5> QED BY <5>2, <5>3
      <4>3. result' = IF Unusable(mapped, lb) THEN [at |-> "INVALID", best |-> FindBest]
                      ELSE [at |-> "DETECTED", best |-> FindBest, box |-> mapped,
                            error |-> ErrorSign(mapped, lb)]
        BY <2>2, <3>2
      <4>4. (CHOOSE c \in result'.best : TRUE) = best  BY <2>4, <4>1
      <4>5. Decode(best)' = box /\ scene'.source = scene.source  BY <2>1, <2>5, <4>1
      <4>6. result'.at = IF Unusable(mapped, lb) THEN "INVALID" ELSE "DETECTED"
        <5> HIDE DEF mapped, lb
        <5> QED BY <4>3
      <4>7. ~Unusable(mapped, lb) => result'.error = ErrorSign(mapped, lb)
        <5> HIDE DEF mapped, lb
        <5> QED BY <4>3
      <4> HIDE DEF mapped, box
      <4> QED BY <4>2, <4>4, <4>5, <4>6, <4>7 DEF AimsWhereItSees
    <3> QED BY <3>1, <3>2
  <2> QED BY <2>1, <2>6, <2>7 DEF PerceptionInv, Scenes
<1> QED BY <1>1, <1>2 DEF PerceptionNext

\* For every model, every source that is not absurdly narrow, and every score and box: the
\* letterbox fills the model's input, a point drawn and mapped back stays within half a model
\* pixel, the cell chosen is the best of all branches, and a target is aimed at where the
\* picture shows it (preprocess_geometry.cpp:20-90, yolov8_postprocess.cpp:183-348).
THEOREM AimsTrue == PerceptionSpec => []PerceptionKept
<1>1. PerceptionInv => PerceptionKept
  BY LetterboxKept DEF PerceptionInv, PerceptionKept
<1> QED BY <1>1, PerceptionBegins, PerceptionStep, PTL DEF PerceptionSpec
================================================================================
