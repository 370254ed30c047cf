----------------------------- MODULE UartLinkProofs -----------------------------
(***************************************************************************)
(* Proofs about UartLink for any number of starts, requests, controller     *)
(* runs, retries and faults: its types, that a caller is refused exactly    *)
(* while a request is under way, that the link is in session only with the  *)
(* boot it negotiated with, and that it keeps what ReliableRequests         *)
(* promises the callers; and about UartFraming for any frames, line and     *)
(* faults: that every frame that arrives whole is handed on.                *)
(***************************************************************************)
EXTENDS UartLink, UartFraming, SequenceTheorems, FiniteSetTheorems,
        WellFoundedInduction, TLAPS

--------------------------------------------------------------------------------
(* The line, and what the types rest on                                     *)

Healths == {"UNKNOWN", "CONNECTING", "HEALTHY"} \cup Adverse
ReplyTypes ==
    {"HELLO_ACK", "HELLO_REFUSED", "HELLO_UNFIT", "STATUS", "PONG", "ACK", "NACK"}

\* The frames a link may have sent so far, and the answers a controller may have
\* given: an acknowledgement only of what it carried out.
KnownFrames == {f \in Frames : f.type = "RELIABLE" => f.id <= nextTxn}
TrueReplies ==
    {r \in [type : ReplyTypes, id : Nat, boot : Boots, run : Boots] :
        r.type = "ACK" => r.id \in executed}

LineTypes ==
    /\ toPeer \in Seq(KnownFrames) /\ fromPeer \in Seq(TrueReplies)
    /\ tx # <<>> => tx[1] \in KnownFrames

\* A call that was let in finds room within the bounds.
CallsBounded ==
    /\ caller = "reliable" => nextTxn < MaxRequests
    /\ caller = "ping" => nextPing < MaxPings

\* The request under way is the latest one, queued or on the line, never both; it is
\* on the line only while the port is open.
OneRequest ==
    /\ pending # <<>> => pending[1] = nextTxn /\ rel = <<>>
    /\ rel # <<>> => rel[1].id = nextTxn /\ thread = "loop" /\ open

UartTypes == UartTypeOK /\ LineTypes /\ CallsBounded /\ OneRequest /\ BusyMeansWork

\* What AtMostOne holds: nothing, or one member of the set.
LEMMA OneOf ==
    ASSUME NEW S, NEW q \in AtMostOne(S)
    PROVE  /\ q # <<>> => q[1] \in S /\ q = <<q[1]>>
           /\ <<>> \in AtMostOne(S)
BY DEF AtMostOne

\* A member of the set makes a pair of brackets around it an AtMostOne.
LEMMA OneIn ==
    ASSUME NEW S, NEW x \in S
    PROVE  <<x>> \in AtMostOne(S) /\ <<x>> # <<>> /\ <<x>>[1] = x
BY DEF AtMostOne

\* Reading, shortening and lengthening a sequence.
LEMMA SeqFacts ==
    ASSUME NEW S, NEW s \in Seq(S)
    PROVE  /\ s # <<>> => s[1] \in S /\ Tail(s) \in Seq(S)
           /\ \A x \in S : Append(s, x) \in Seq(S)
           /\ <<>> \in Seq(S)
<1>1. s # <<>> => 1 \in 1..Len(s)  BY EmptySeq
<1> QED BY <1>1, ElementOfSeq, HeadTailProperties, AppendProperties, EmptySeq

\* SetState keeps health among its values.
LEMMA HealthTypes ==
    ASSUME NEW s, NEW h \in Healths
    PROVE  HealthIn(s, h) \in Healths /\ Degraded(h) \in Healths
BY DEF HealthIn, Degraded, Healths, Adverse

\* What a transaction on the line is, and the ids it stands for.
LEMMA OutstandingIs ==
    /\ rel = <<>> => Outstanding = {}
    /\ \A r : rel = <<r>> => Outstanding = {r.id}
BY DEF Outstanding

\* Ending requests keeps the types of the outcome.
LEMMA EndTypes ==
    ASSUME UartTypeOK, NEW ids, NEW how \in {"acked", "nacked", "failed", "cancelled"},
           EndRequests(ids, how)
    PROVE  /\ busy' \in BOOLEAN
           /\ outcome' \in [Txns -> {"none", "acked", "nacked", "failed", "cancelled"}]
BY DEF UartTypeOK, EndRequests

\* The types, in parts: the flags, the status, the requests and the bus.
Flags ==
    /\ running \in BOOLEAN /\ stopReq \in BOOLEAN /\ busy \in BOOLEAN
    /\ mailbox \in BOOLEAN /\ open \in BOOLEAN /\ haveRx \in BOOLEAN
    /\ silent \in BOOLEAN
StatusTypes == state \in States /\ health \in Healths
CallTypes ==
    /\ pending \in AtMostOne(Txns) /\ nextTxn \in 0..MaxRequests
    /\ ping \in AtMostOne(1..MaxPings) /\ nextPing \in 0..MaxPings
    /\ metrics \in [accepted : Nat, overwritten : Nat, sent : Nat]
    /\ thread \in {"off", "loop", "done"}
    /\ main \in {"idle", "up", "stopping", "joining"} /\ starts \in 0..MaxStarts
    /\ caller \in {"idle", "reliable", "ping", "control", "count", "countReplaced"}
    /\ faults \in 0..MaxFaults
BusTypes ==
    /\ tx \in AtMostOne(Frames)
    /\ wait \in [kind : {"none", "HELLO_ACK", "STATUS", "PONG", "RELIABLE"}, id : Nat]
    /\ rel \in AtMostOne([id : Txns, retries : 0..MaxRetries])
    /\ tracker \in AtMostOne([boot : Boots, run : Boots])
    /\ nextHello \in 0..Hellos - 1 /\ negotiated \in 0..MaxRuns
    /\ outcome \in [Txns -> {"none", "acked", "nacked", "failed", "cancelled"}]
PeerTypes ==
    /\ peer \in [alive : BOOLEAN, run : Boots, boot : Boots, greeted : BOOLEAN]
    /\ executed \subseteq Txns


\* UartTypeOK in parts that the provers take one at a time.
LEMMA TypesInParts ==
    /\ UartTypeOK <=> Flags /\ StatusTypes /\ CallTypes /\ BusTypes /\ PeerTypes
    /\ UartTypeOK' <=> Flags' /\ StatusTypes' /\ CallTypes' /\ BusTypes' /\ PeerTypes'
BY DEF UartTypeOK, Flags, StatusTypes, CallTypes, BusTypes, PeerTypes, Healths

--------------------------------------------------------------------------------
(* Types                                                                    *)

\* The flags stay Boolean.
LEMMA FlagsStep == ASSUME Flags, [Next]_vars PROVE Flags'
<1> USE UartAssumption DEF requestVars, pingVars, controlVars, lifeVars, statusVars,
        busVars, trackVars, peerVars, lineVars, StopFrame, CallFrame, LoopFrame, EnvFrame
<1>1. CASE CallNext
  BY <1>1 DEF Flags, CallNext, Start, NoteManagedStartupNotReady, Stop, StopRequests,
     StopJoins, Call, QueueReliable, RequestPing, PutControl, CountControl
<1>2. CASE PeerNext
  BY <1>2 DEF Flags, PeerNext, PeerAnswers, LoseFrame, PeerStops, PeerStarts
<1>3. CASE ThreadExit \/ OpenPort \/ Reconnect \/ ResponseTimeout \/ Watchdog
  BY <1>3 DEF Flags, ThreadExit, OpenPort, Reconnect, ResponseTimeout, Watchdog,
     FailOutstandingReliable, EndRequests
<1>4. CASE Renegotiate \/ SendHello \/ PollReliable \/ SendReliable \/ SendHeartbeat
           \/ SendPing \/ SendControl \/ CompleteTransmit
  BY <1>4 DEF Flags, Renegotiate, SendHello, PollReliable, SendReliable, SendHeartbeat,
     SendPing, SendControl, CompleteTransmit, FailOutstandingReliable, EndRequests
<1>5. CASE IgnoreOlder \/ HandleFrame
  BY <1>5 DEF Flags, IgnoreOlder, HandleFrame, EndRequests
<1>6. CASE UNCHANGED vars  BY <1>6 DEF vars, Flags
<1> QED BY <1>1, <1>2, <1>3, <1>4, <1>5, <1>6 DEF Next, IoNext

\* The link's state and its health keep to their values.
LEMMA StatusStep == ASSUME StatusTypes, [Next]_vars PROVE StatusTypes'
<1> USE UartAssumption DEF requestVars, pingVars, controlVars, lifeVars, statusVars,
        busVars, trackVars, peerVars, lineVars, StopFrame, CallFrame, LoopFrame, EnvFrame, SetState
<1>0. \A s : HealthIn(s, health) \in Healths /\ HealthIn(s, HealthIn("OPENING", health)) \in Healths
  BY HealthTypes DEF StatusTypes
<1>1. CASE CallNext
  BY <1>0, <1>1 DEF StatusTypes, States, CallNext, Start, NoteManagedStartupNotReady,
     Stop, StopRequests, StopJoins, Call, QueueReliable, RequestPing, PutControl,
     CountControl, Healths, Adverse
<1>2. CASE PeerNext
  BY <1>2 DEF StatusTypes, PeerNext, PeerAnswers, LoseFrame, PeerStops, PeerStarts
<1>3. CASE ThreadExit \/ OpenPort \/ Reconnect \/ ResponseTimeout \/ Watchdog
  BY <1>0, <1>3 DEF StatusTypes, States, ThreadExit, OpenPort, Reconnect,
     ResponseTimeout, Watchdog, Healths, Adverse
<1>4. CASE Renegotiate \/ SendHello \/ PollReliable \/ SendReliable \/ SendHeartbeat
           \/ SendPing \/ SendControl \/ CompleteTransmit
  BY <1>0, <1>4 DEF StatusTypes, States, Renegotiate, SendHello, PollReliable,
     SendReliable, SendHeartbeat, SendPing, SendControl, CompleteTransmit
<1>5. CASE IgnoreOlder \/ HandleFrame
  <2>1. Degraded(health) \in Healths  BY HealthTypes DEF StatusTypes
  <2> QED BY <1>5, <2>1 DEF StatusTypes, States, IgnoreOlder, HandleFrame, Healths, Adverse
<1>6. CASE UNCHANGED vars  BY <1>6 DEF vars, StatusTypes
<1> QED BY <1>1, <1>2, <1>3, <1>4, <1>5, <1>6 DEF Next, IoNext

\* Counting keeps the counters' types.
LEMMA MetricsSteps ==
    ASSUME NEW m \in [accepted : Nat, overwritten : Nat, sent : Nat]
    PROVE  /\ [m EXCEPT !.accepted = @ + 1, !.overwritten = @ + 1]
                 \in [accepted : Nat, overwritten : Nat, sent : Nat]
           /\ [m EXCEPT !.accepted = @ + 1, !.overwritten = @]
                 \in [accepted : Nat, overwritten : Nat, sent : Nat]
           /\ [m EXCEPT !.sent = @ + 1]
                 \in [accepted : Nat, overwritten : Nat, sent : Nat]
<1>1. m.accepted + 1 \in Nat /\ m.overwritten + 1 \in Nat /\ m.sent + 1 \in Nat  OBVIOUS
<1>2. \A a \in Nat, o \in Nat : [m EXCEPT !.accepted = a, !.overwritten = o]
                                \in [accepted : Nat, overwritten : Nat, sent : Nat]
  OBVIOUS
<1>3. \A n \in Nat : [m EXCEPT !.sent = n]
                      \in [accepted : Nat, overwritten : Nat, sent : Nat]
  OBVIOUS
<1> QED BY <1>1, <1>2, <1>3

\* The calls and the counters behind them keep their types and their bounds.
LEMMA CallStep ==
    ASSUME CallTypes, CallsBounded, [Next]_vars
    PROVE  CallTypes' /\ CallsBounded'
<1> USE UartAssumption DEF requestVars, pingVars, controlVars, lifeVars, statusVars,
        busVars, trackVars, peerVars, lineVars, StopFrame, CallFrame, LoopFrame, EnvFrame,
        CallTypes, CallsBounded
<1>0. metrics \in [accepted : Nat, overwritten : Nat, sent : Nat]  OBVIOUS
<1>1. CASE Start \/ NoteManagedStartupNotReady \/ Stop \/ StopRequests \/ StopJoins
  BY <1>1 DEF Start, NoteManagedStartupNotReady, Stop, StopRequests, StopJoins
<1>2. CASE Call \/ PutControl  BY <1>2 DEF Call, PutControl
<1>3. CASE QueueReliable  BY <1>3 DEF QueueReliable, Txns, AtMostOne
<1>4. CASE RequestPing  BY <1>4 DEF RequestPing, AtMostOne
<1>5. CASE CountControl
  <2>1. metrics' \in [accepted : Nat, overwritten : Nat, sent : Nat]
    BY <1>0, <1>5, MetricsSteps DEF CountControl
  <2>2. caller' = "idle" /\ UNCHANGED <<requestVars, pingVars, mailbox>> /\ CallFrame
    BY <1>5 DEF CountControl
  <2> QED BY <2>1, <2>2
<1>6. CASE PeerNext
  <2>1. faults' \in 0..MaxFaults
    BY <1>6 DEF PeerNext, PeerAnswers, LoseFrame, PeerStops, PeerStarts, Fault
  <2>2. EnvFrame  BY <1>6 DEF PeerNext, PeerAnswers, LoseFrame, PeerStops, PeerStarts
  <2> QED BY <2>1, <2>2
<1>7. CASE ThreadExit \/ OpenPort \/ Reconnect \/ ResponseTimeout \/ Watchdog
  BY <1>7 DEF ThreadExit, OpenPort, Reconnect, ResponseTimeout, Watchdog, Fault, AtMostOne
<1>8. CASE Renegotiate \/ SendHello \/ PollReliable \/ SendReliable \/ SendHeartbeat
           \/ SendPing \/ SendControl
  BY <1>8 DEF Renegotiate, SendHello, PollReliable, SendReliable, SendHeartbeat,
     SendPing, SendControl, AtMostOne
<1>9. CASE CompleteTransmit
  <2>1. metrics' \in [accepted : Nat, overwritten : Nat, sent : Nat]
    BY <1>0, <1>9, MetricsSteps DEF CompleteTransmit
  <2>2. UNCHANGED <<pending, ping, faults>> /\ LoopFrame  BY <1>9 DEF CompleteTransmit
  <2> QED BY <2>1, <2>2
<1>10. CASE IgnoreOlder \/ HandleFrame  BY <1>10 DEF IgnoreOlder, HandleFrame
<1>11. CASE UNCHANGED vars  BY <1>11 DEF vars
<1> QED BY <1>1, <1>2, <1>3, <1>4, <1>5, <1>6, <1>7, <1>8, <1>9, <1>10, <1>11
        DEF Next, IoNext, CallNext

\* What a step that goes on knows of the requests never shrinks.
LEMMA TxnsGrow ==
    ASSUME UartTypes, [Next]_vars
    PROVE  nextTxn' \in 0..MaxRequests /\ nextTxn' >= nextTxn /\ KnownFrames \subseteq KnownFrames'
<1> USE UartAssumption DEF requestVars, pingVars, controlVars, lifeVars, statusVars,
        busVars, trackVars, peerVars, lineVars, StopFrame, CallFrame, LoopFrame, EnvFrame
<1>1. nextTxn \in 0..MaxRequests /\ (caller = "reliable" => nextTxn < MaxRequests)
  BY DEF UartTypes, UartTypeOK, CallsBounded
<1>2. nextTxn' = nextTxn \/ (caller = "reliable" /\ nextTxn' = nextTxn + 1)
  <2>1. CASE CallNext
    BY <2>1 DEF CallNext, Start, NoteManagedStartupNotReady, Stop, StopRequests,
       StopJoins, Call, QueueReliable, RequestPing, PutControl, CountControl
  <2>2. CASE PeerNext
    BY <2>2 DEF PeerNext, PeerAnswers, LoseFrame, PeerStops, PeerStarts
  <2>3. CASE IoNext
    BY <2>3 DEF IoNext, ThreadExit, OpenPort, Reconnect, ResponseTimeout, Watchdog,
       Renegotiate, SendHello, PollReliable, SendReliable, SendHeartbeat, SendPing,
       SendControl, CompleteTransmit, IgnoreOlder, HandleFrame
  <2>4. CASE UNCHANGED vars  BY <2>4 DEF vars
  <2> QED BY <2>1, <2>2, <2>3, <2>4 DEF Next
<1>3. nextTxn' \in 0..MaxRequests /\ nextTxn' >= nextTxn  BY <1>1, <1>2
<1>4. ASSUME NEW f \in Frames, f.type = "RELIABLE" => f.id <= nextTxn
      PROVE  f.type = "RELIABLE" => f.id <= nextTxn'
  <2>1. SUFFICES ASSUME f.type = "RELIABLE" PROVE f.id <= nextTxn'  OBVIOUS
  <2>2. f.id \in Nat  BY <2>1 DEF Frames, Txns
  <2> QED BY <1>1, <1>3, <1>4, <2>1, <2>2
<1> QED BY <1>3, <1>4 DEF KnownFrames, Frames, Txns

\* The frames the link puts in its transmit slot are known ones.
LEMMA FramesSent ==
    ASSUME UartTypes
    PROVE  /\ Frame("HELLO", nextHello) \in KnownFrames
           /\ rel # <<>> => Frame("RELIABLE", rel[1].id) \in KnownFrames
           /\ pending # <<>> => Frame("RELIABLE", pending[1]) \in KnownFrames
           /\ ping # <<>> => Frame("PING", ping[1]) \in KnownFrames
           /\ Frame("HEARTBEAT", 0) \in KnownFrames /\ Frame("CONTROL", 0) \in KnownFrames
<1>0. nextTxn \in 0..MaxRequests /\ nextHello \in 0..Hellos - 1
  BY DEF UartTypes, UartTypeOK
<1>1. rel # <<>> => rel[1].id \in Txns /\ rel[1].id = nextTxn
  <2>1. rel # <<>> => rel[1] \in [id : Txns, retries : 0..MaxRetries]
    BY OneOf DEF UartTypes, UartTypeOK
  <2> QED BY <2>1 DEF UartTypes, OneRequest
<1>2. pending # <<>> => pending[1] \in Txns /\ pending[1] = nextTxn
  BY OneOf DEF UartTypes, UartTypeOK, OneRequest
<1>3. ping # <<>> => ping[1] \in 1..MaxPings  BY OneOf DEF UartTypes, UartTypeOK
<1>4. \A i \in 0..Hellos - 1 : Frame("HELLO", i) \in KnownFrames
  BY DEF KnownFrames, Frames, Frame
<1>5. \A i \in Txns : i = nextTxn => Frame("RELIABLE", i) \in KnownFrames
  BY <1>0, UartAssumption DEF KnownFrames, Frames, Frame, Txns
<1>6. \A i \in 1..MaxPings : Frame("PING", i) \in KnownFrames
  BY DEF KnownFrames, Frames, Frame
<1>7. Frame("HEARTBEAT", 0) \in KnownFrames /\ Frame("CONTROL", 0) \in KnownFrames
  BY DEF KnownFrames, Frames, Frame
<1> QED BY <1>0, <1>1, <1>2, <1>3, <1>4, <1>5, <1>6, <1>7

\* The transmit slot holds at most one frame, a known one.
LEMMA TxStep ==
    ASSUME UartTypes, [Next]_vars
    PROVE  tx' \in AtMostOne(Frames) /\ (tx' # <<>> => tx'[1] \in KnownFrames')
<1> USE UartAssumption DEF requestVars, pingVars, controlVars, lifeVars, statusVars,
        busVars, trackVars, peerVars, lineVars, StopFrame, CallFrame, LoopFrame, EnvFrame
<1>1. tx' = tx \/ tx' = <<>> \/ \E f \in KnownFrames : tx' = <<f>>
  <2>1. CASE CallNext
    BY <2>1 DEF CallNext, Start, NoteManagedStartupNotReady, Stop, StopRequests,
       StopJoins, Call, QueueReliable, RequestPing, PutControl, CountControl
  <2>2. CASE PeerNext
    BY <2>2 DEF PeerNext, PeerAnswers, LoseFrame, PeerStops, PeerStarts
  <2>3. CASE ThreadExit \/ OpenPort \/ Reconnect \/ ResponseTimeout \/ Watchdog
             \/ Renegotiate \/ CompleteTransmit \/ IgnoreOlder \/ HandleFrame
    BY <2>3 DEF ThreadExit, OpenPort, Reconnect, ResponseTimeout, Watchdog, Renegotiate,
       CompleteTransmit, IgnoreOlder, HandleFrame
  <2>4. CASE SendHello \/ PollReliable \/ SendReliable \/ SendHeartbeat \/ SendPing \/ SendControl
    BY <2>4, FramesSent DEF SendHello, PollReliable, SendReliable, NothingReliable,
       SendHeartbeat, SendPing, SendControl
  <2>5. CASE UNCHANGED vars  BY <2>5 DEF vars
  <2> QED BY <2>1, <2>2, <2>3, <2>4, <2>5 DEF Next, IoNext
<1>2. KnownFrames \subseteq KnownFrames' /\ KnownFrames \subseteq Frames
  BY TxnsGrow DEF KnownFrames
<1>3. tx \in AtMostOne(Frames) /\ (tx # <<>> => tx[1] \in KnownFrames)
  BY DEF UartTypes, UartTypeOK, LineTypes
<1>4. ASSUME NEW f \in KnownFrames, tx' = <<f>>
      PROVE  tx' \in AtMostOne(Frames) /\ tx'[1] \in KnownFrames'
  BY <1>2, <1>4, OneIn
<1>5. <<>> \in AtMostOne(Frames)  BY DEF AtMostOne
<1> QED BY <1>1, <1>2, <1>3, <1>4, <1>5

\* The answer to be handled and the frame to be answered are ones of the line.
LEMMA LineHeads ==
    ASSUME UartTypes
    PROVE  /\ fromPeer # <<>> => fromPeer[1] \in TrueReplies /\ Tail(fromPeer) \in Seq(TrueReplies)
           /\ toPeer # <<>> => toPeer[1] \in KnownFrames /\ Tail(toPeer) \in Seq(KnownFrames)
           /\ <<>> \in Seq(KnownFrames)
<1>1. fromPeer \in Seq(TrueReplies) /\ toPeer \in Seq(KnownFrames)
  BY DEF UartTypes, LineTypes
<1> QED BY <1>1, SeqFacts

\* The transaction: at most one, with no more retries than configured.
LEMMA RelStep ==
    ASSUME UartTypes, [Next]_vars
    PROVE  rel' \in AtMostOne([id : Txns, retries : 0..MaxRetries])
<1> USE UartAssumption DEF requestVars, pingVars, controlVars, lifeVars, statusVars,
        busVars, trackVars, peerVars, lineVars, StopFrame, CallFrame, LoopFrame, EnvFrame
<1> DEFINE R == [id : Txns, retries : 0..MaxRetries]
<1> SUFFICES rel' \in AtMostOne(R)  OBVIOUS
<1>1. rel \in AtMostOne(R) /\ pending \in AtMostOne(Txns) /\ <<>> \in AtMostOne(R)
  BY DEF UartTypes, UartTypeOK, AtMostOne
<1>2. CASE CallNext \/ PeerNext \/ UNCHANGED vars
  <2>1. rel' = rel
    BY <1>2 DEF CallNext, Start, NoteManagedStartupNotReady, Stop, StopRequests,
       StopJoins, Call, QueueReliable, RequestPing, PutControl, CountControl, PeerNext,
       PeerAnswers, LoseFrame, PeerStops, PeerStarts, vars
  <2> QED BY <1>1, <2>1
<1>3. CASE ThreadExit \/ OpenPort \/ Reconnect \/ ResponseTimeout \/ Watchdog \/ IgnoreOlder
           \/ HandleFrame
  <2>1. rel' = rel \/ rel' = <<>>
    BY <1>3 DEF ThreadExit, OpenPort, Reconnect, ResponseTimeout, Watchdog, IgnoreOlder,
       HandleFrame, RelAfter, FailOutstandingReliable
  <2> QED BY <1>1, <2>1
<1>4. CASE Renegotiate \/ SendHello \/ SendHeartbeat \/ SendPing \/ SendControl \/ CompleteTransmit
  <2>1. rel' = rel
    BY <1>4 DEF Renegotiate, SendHello, SendHeartbeat, SendPing, SendControl, CompleteTransmit
  <2> QED BY <1>1, <2>1
<1>5. CASE PollReliable
  <2>1. rel # <<>> /\ rel[1] \in R  BY <1>1, <1>5, OneOf DEF PollReliable
  <2>2. \/ rel' = <<>>
        \/ rel[1].retries < MaxRetries /\ rel' = <<[rel[1] EXCEPT !.retries = @ + 1]>>
    BY <1>5 DEF PollReliable, MayRetry, FailOutstandingReliable
  <2>3. rel[1].retries < MaxRetries => [rel[1] EXCEPT !.retries = @ + 1] \in R  BY <2>1
  <2>4. CASE rel' = <<>>  BY <1>1, <2>4
  <2>5. CASE rel[1].retries < MaxRetries /\ rel' = <<[rel[1] EXCEPT !.retries = @ + 1]>>
    <3> DEFINE x == [rel[1] EXCEPT !.retries = @ + 1]
    <3>1. x \in R /\ rel' = <<x>>  BY <2>3, <2>5
    <3> HIDE DEF x, R
    <3> QED BY <3>1, OneIn
  <2> QED BY <2>2, <2>4, <2>5
<1>6. CASE SendReliable
  <2>1. pending[1] \in Txns  BY <1>1, <1>6, OneOf DEF SendReliable
  <2> DEFINE x == [id |-> pending[1], retries |-> 0]
  <2>2. x \in R /\ rel' = <<x>>  BY <1>6, <2>1 DEF SendReliable
  <2> HIDE DEF x, R
  <2> QED BY <2>2, OneIn
<1> QED BY <1>2, <1>3, <1>4, <1>5, <1>6 DEF Next, IoNext

WaitTypes == [kind : {"none", "HELLO_ACK", "STATUS", "PONG", "RELIABLE"}, id : Nat]
OutcomeTypes == [Txns -> {"none", "acked", "nacked", "failed", "cancelled"}]

\* The response window, the boot tracker and the HELLO number keep their types.
LEMMA WindowStep ==
    ASSUME UartTypes, [Next]_vars
    PROVE  /\ wait' \in WaitTypes /\ tracker' \in AtMostOne([boot : Boots, run : Boots])
           /\ nextHello' \in 0..Hellos - 1 /\ negotiated' \in 0..MaxRuns
<1> USE UartAssumption DEF requestVars, pingVars, controlVars, lifeVars, statusVars,
        busVars, trackVars, peerVars, lineVars, StopFrame, CallFrame, LoopFrame, EnvFrame
<1> DEFINE T == [boot : Boots, run : Boots]
<1>1. /\ wait \in WaitTypes /\ tracker \in AtMostOne(T) /\ nextHello \in 0..Hellos - 1
      /\ negotiated \in 0..MaxRuns /\ <<>> \in AtMostOne(T) /\ NoWait \in WaitTypes
  BY DEF UartTypes, UartTypeOK, AtMostOne, NoWait, WaitTypes
<1>2. CASE CallNext \/ PeerNext \/ UNCHANGED vars
  <2>1. UNCHANGED <<wait, tracker, nextHello, negotiated>>
    BY <1>2 DEF CallNext, Start, NoteManagedStartupNotReady, Stop, StopRequests,
       StopJoins, Call, QueueReliable, RequestPing, PutControl, CountControl, PeerNext,
       PeerAnswers, LoseFrame, PeerStops, PeerStarts, vars
  <2> QED BY <1>1, <2>1
<1>3. CASE ThreadExit \/ OpenPort \/ Reconnect \/ ResponseTimeout \/ Watchdog \/ IgnoreOlder
           \/ Renegotiate \/ PollReliable \/ SendReliable \/ SendHeartbeat \/ SendPing \/ SendControl
  <2>1. /\ wait' \in {wait, NoWait} /\ tracker' \in {tracker, <<>>}
        /\ UNCHANGED <<nextHello, negotiated>>
    BY <1>3 DEF ThreadExit, OpenPort, Reconnect, ResponseTimeout, Watchdog, IgnoreOlder,
       Renegotiate, PollReliable, SendReliable, SendHeartbeat, SendPing, SendControl
  <2> QED BY <1>1, <2>1
<1>4. CASE SendHello
  <2>1. nextHello' = (nextHello + 1) % Hellos /\ UNCHANGED <<wait, tracker, negotiated>>
    BY <1>4 DEF SendHello
  <2>2. nextHello' \in 0..Hellos - 1  BY <1>1, <2>1
  <2> QED BY <1>1, <2>1, <2>2
<1>5. CASE CompleteTransmit
  <2>1. tx # <<>> /\ tx[1].id \in Nat
    BY <1>5, UartAssumption DEF CompleteTransmit, UartTypes, LineTypes, KnownFrames, Frames, Txns
  <2>2. \/ wait' = wait
        \/ wait' = [kind |-> Response(tx[1].type), id |-> tx[1].id]
    BY <1>5 DEF CompleteTransmit
  <2>3. [kind |-> Response(tx[1].type), id |-> tx[1].id] \in WaitTypes
    BY <2>1 DEF WaitTypes, Response
  <2>4. UNCHANGED <<tracker, nextHello, negotiated>>  BY <1>5 DEF CompleteTransmit
  <2> QED BY <1>1, <2>2, <2>3, <2>4
<1>6. CASE HandleFrame
  <2> DEFINE f == fromPeer[1]
  <2>1. f.boot \in Boots /\ f.run \in Boots
    BY <1>6, LineHeads DEF HandleFrame, TrueReplies
  <2>2. wait' \in {wait, NoWait}  BY <1>6 DEF HandleFrame, WaitAfter
  <2> DEFINE x == [boot |-> f.boot, run |-> f.run]
  <2>3. tracker' = <<x>> /\ x \in T  BY <1>6, <2>1 DEF HandleFrame
  <2>4. negotiated' \in {negotiated, f.boot} /\ nextHello' = nextHello
    BY <1>6 DEF HandleFrame
  <2>5. tracker' \in AtMostOne(T)
    <3> HIDE DEF x, T
    <3> QED BY <2>3, OneIn
  <2>6. negotiated' \in 0..MaxRuns  BY <1>1, <2>1, <2>4 DEF Boots
  <2> QED BY <1>1, <2>2, <2>4, <2>5, <2>6
<1> QED BY <1>2, <1>3, <1>4, <1>5, <1>6 DEF Next, IoNext

\* Each request keeps one of the outcomes.
LEMMA OutcomeStep ==
    ASSUME UartTypes, [Next]_vars
    PROVE  outcome' \in OutcomeTypes
<1> USE UartAssumption DEF requestVars, pingVars, controlVars, lifeVars, statusVars,
        busVars, trackVars, peerVars, lineVars, StopFrame, CallFrame, LoopFrame, EnvFrame
<1>1. outcome \in OutcomeTypes  BY DEF UartTypes, UartTypeOK, OutcomeTypes
<1>2. \A ids : \A how \in {"acked", "nacked", "failed", "cancelled"} :
         EndRequests(ids, how) => outcome' \in OutcomeTypes
  BY EndTypes DEF UartTypes, OutcomeTypes
<1>3. CASE CallNext \/ PeerNext \/ UNCHANGED vars
  <2>1. UNCHANGED outcome
    BY <1>3 DEF CallNext, Start, NoteManagedStartupNotReady, Stop, StopRequests,
       StopJoins, Call, QueueReliable, RequestPing, PutControl, CountControl, PeerNext,
       PeerAnswers, LoseFrame, PeerStops, PeerStarts, vars
  <2> QED BY <1>1, <2>1
<1>4. CASE OpenPort \/ ResponseTimeout \/ IgnoreOlder \/ Renegotiate \/ SendHello
           \/ SendReliable \/ SendHeartbeat \/ SendPing \/ SendControl \/ CompleteTransmit
  <2>1. UNCHANGED outcome
    BY <1>4 DEF OpenPort, ResponseTimeout, IgnoreOlder, Renegotiate, SendHello,
       SendReliable, SendHeartbeat, SendPing, SendControl, CompleteTransmit
  <2> QED BY <1>1, <2>1
<1>5. CASE Reconnect \/ Watchdog \/ PollReliable
  <2>1. UNCHANGED outcome \/ EndRequests(Outstanding, "failed")
    BY <1>5 DEF Reconnect, Watchdog, PollReliable, FailOutstandingReliable
  <2> QED BY <1>1, <1>2, <2>1
<1>6. CASE HandleFrame
  <2>1. \E ids : \E how \in {"failed", "acked", "nacked"} : EndRequests(ids, how)
    BY <1>6 DEF HandleFrame
  <2> QED BY <1>2, <2>1
<1>7. CASE ThreadExit  BY <1>1, <1>7 DEF ThreadExit, OutcomeTypes
<1> QED BY <1>3, <1>4, <1>5, <1>6, <1>7 DEF Next, IoNext

\* A frame added to the line, or taken from it.
LEMMA LineGrows ==
    ASSUME NEW S, NEW T, S \subseteq T, NEW s \in Seq(S)
    PROVE  s \in Seq(T) /\ (s # <<>> => Tail(s) \in Seq(T)) /\ \A x \in T : Append(s, x) \in Seq(T)
BY SeqMonotonic, SeqFacts

\* The controller's state keeps its types, and it only ever carries out requests.
LEMMA PeerStep ==
    ASSUME UartTypes, [Next]_vars
    PROVE  PeerTypes' /\ executed \subseteq executed'
<1> USE UartAssumption DEF requestVars, pingVars, controlVars, lifeVars, statusVars,
        busVars, trackVars, peerVars, lineVars, StopFrame, CallFrame, LoopFrame, EnvFrame
<1>1. PeerTypes  BY TypesInParts DEF UartTypes
<1>2. CASE CallNext \/ UNCHANGED vars
  <2>1. UNCHANGED peerVars
    BY <1>2 DEF CallNext, Start, NoteManagedStartupNotReady, Stop, StopRequests,
       StopJoins, Call, QueueReliable, RequestPing, PutControl, CountControl, vars
  <2> QED BY <1>1, <2>1 DEF PeerTypes
<1>3. CASE IoNext
  <2>1. UNCHANGED peerVars
    BY <1>3 DEF IoNext, ThreadExit, OpenPort, Reconnect, ResponseTimeout, Watchdog,
       Renegotiate, SendHello, PollReliable, SendReliable, SendHeartbeat, SendPing,
       SendControl, CompleteTransmit, IgnoreOlder, HandleFrame
  <2> QED BY <1>1, <2>1 DEF PeerTypes
<1>4. CASE PeerAnswers
  <2>1. toPeer[1].type = "RELIABLE" => toPeer[1].id \in Txns
    BY <1>4, LineHeads DEF PeerAnswers, KnownFrames, Frames, Txns
  <2>2. \/ executed' = executed
        \/ toPeer[1].type = "RELIABLE" /\ executed' = executed \cup {toPeer[1].id}
    BY <1>4, Zenon DEF PeerAnswers
  <2>3. peer' = peer \/ peer' = [peer EXCEPT !.greeted = TRUE]  BY <1>4 DEF PeerAnswers
  <2> QED BY <1>1, <2>1, <2>2, <2>3 DEF PeerTypes
<1>5. CASE LoseFrame \/ PeerStops  BY <1>1, <1>5 DEF LoseFrame, PeerStops, PeerTypes
<1>6. CASE PeerStarts
  <2>1. peer.run + 1 \in Boots /\ \A b \in 1..(peer.run + 1) : b \in Boots
    BY <1>1, <1>6 DEF PeerStarts, PeerTypes, Boots
  <2>2. PICK b \in (IF UniqueBoots THEN {peer.run + 1} ELSE 1..(peer.run + 1)) :
          peer' = [alive |-> TRUE, run |-> peer.run + 1, boot |-> b, greeted |-> FALSE]
    BY <1>6 DEF PeerStarts
  <2>3. b \in Boots  BY <2>1, <2>2
  <2>4. executed' = executed  BY <1>6 DEF PeerStarts
  <2>5. peer' \in [alive : BOOLEAN, run : Boots, boot : Boots, greeted : BOOLEAN]
    BY <2>1, <2>2, <2>3
  <2> QED BY <1>1, <2>4, <2>5 DEF PeerTypes
<1> QED BY <1>2, <1>3, <1>4, <1>5, <1>6 DEF Next, PeerNext

\* What the controller replies is a true reply.
LEMMA TrueReply ==
    ASSUME UartTypes, UartTypeOK', toPeer # <<>>, NEW type \in ReplyTypes,
           type = "ACK" => toPeer[1].id \in executed'
    PROVE  [type |-> type, id |-> toPeer[1].id, boot |-> peer.boot, run |-> peer.run]
                \in TrueReplies'
<1>1. toPeer[1].id \in Nat  BY LineHeads, UartAssumption DEF KnownFrames, Frames, Txns
<1>2. peer.boot \in Boots /\ peer.run \in Boots  BY DEF UartTypes, UartTypeOK
<1> QED BY <1>1, <1>2 DEF TrueReplies

\* The line carries only frames the link sent and answers the controller gave.
LEMMA LineStep ==
    ASSUME UartTypes, [Next]_vars, UartTypeOK'
    PROVE  LineTypes'
<1> USE UartAssumption DEF requestVars, pingVars, controlVars, lifeVars, statusVars,
        busVars, trackVars, peerVars, lineVars, StopFrame, CallFrame, LoopFrame, EnvFrame
<1>1. KnownFrames \subseteq KnownFrames' /\ TrueReplies \subseteq TrueReplies'
  BY TxnsGrow, PeerStep DEF TrueReplies
<1>2. toPeer \in Seq(KnownFrames) /\ fromPeer \in Seq(TrueReplies)
  BY DEF UartTypes, LineTypes
<1>3. /\ toPeer \in Seq(KnownFrames') /\ (toPeer # <<>> => Tail(toPeer) \in Seq(KnownFrames'))
      /\ (\A x \in KnownFrames' : Append(toPeer, x) \in Seq(KnownFrames'))
      /\ fromPeer \in Seq(TrueReplies')
      /\ (fromPeer # <<>> => Tail(fromPeer) \in Seq(TrueReplies'))
      /\ (\A x \in TrueReplies' : Append(fromPeer, x) \in Seq(TrueReplies'))
  BY <1>1, <1>2, LineGrows
<1>4. <<>> \in Seq(KnownFrames')  BY EmptySeq
<1>5. SUFFICES toPeer' \in Seq(KnownFrames') /\ fromPeer' \in Seq(TrueReplies')
  BY TxStep DEF LineTypes
<1>6. CASE CallNext \/ UNCHANGED vars
  <2>1. UNCHANGED lineVars
    BY <1>6 DEF CallNext, Start, NoteManagedStartupNotReady, Stop, StopRequests,
       StopJoins, Call, QueueReliable, RequestPing, PutControl, CountControl, vars
  <2> QED BY <1>3, <2>1
<1>7. CASE ThreadExit \/ OpenPort \/ Reconnect \/ ResponseTimeout \/ Watchdog
           \/ Renegotiate \/ SendHello \/ PollReliable \/ SendReliable \/ SendHeartbeat
           \/ SendPing \/ SendControl
  <2>1. UNCHANGED lineVars
    BY <1>7 DEF ThreadExit, OpenPort, Reconnect, ResponseTimeout, Watchdog, Renegotiate,
       SendHello, PollReliable, SendReliable, SendHeartbeat, SendPing, SendControl
  <2> QED BY <1>3, <2>1
<1>8. CASE CompleteTransmit
  <2>1. tx[1] \in KnownFrames'  BY <1>1, <1>8 DEF CompleteTransmit, UartTypes, LineTypes
  <2>2. toPeer' \in {toPeer, Append(toPeer, tx[1])} /\ fromPeer' = fromPeer
    BY <1>8 DEF CompleteTransmit
  <2> QED BY <1>3, <2>1, <2>2
<1>9. CASE IgnoreOlder \/ HandleFrame
  <2>1. fromPeer # <<>> /\ fromPeer' = Tail(fromPeer) /\ toPeer' = toPeer
    BY <1>9 DEF IgnoreOlder, HandleFrame
  <2> QED BY <1>3, <2>1
<1>10. CASE PeerAnswers
  <2>1. toPeer # <<>> /\ toPeer' = Tail(toPeer)  BY <1>10 DEF PeerAnswers
  <2>2. \/ fromPeer' = fromPeer
        \/ \E type \in ReplyTypes : Reply(type) /\ (type = "ACK" => toPeer[1].id \in executed')
    BY <1>10 DEF PeerAnswers, ReplyTypes
  <2>3. CASE fromPeer' = fromPeer  BY <1>3, <2>1, <2>3
  <2>4. ASSUME NEW type \in ReplyTypes, Reply(type), type = "ACK" => toPeer[1].id \in executed'
        PROVE  fromPeer' \in Seq(TrueReplies')
    BY <1>3, <2>1, <2>4, TrueReply DEF Reply
  <2> QED BY <1>3, <2>1, <2>2, <2>3, <2>4
<1>11. CASE LoseFrame  BY <1>3, <1>11 DEF LoseFrame
<1>12. CASE PeerStops \/ PeerStarts  BY <1>3, <1>4, <1>12 DEF PeerStops, PeerStarts
<1> QED BY <1>6, <1>7, <1>8, <1>9, <1>10, <1>11, <1>12 DEF Next, IoNext, PeerNext

\* One request is under way at a time: it is the latest, it is queued or on the line,
\* and busy says so. The handlers that drop the transaction release busy with it, and
\* a request that comes while it is set is refused.
LEMMA RequestStep ==
    ASSUME UartTypes, [Next]_vars
    PROVE  OneRequest' /\ BusyMeansWork'
<1> USE UartAssumption DEF requestVars, pingVars, controlVars, lifeVars, statusVars,
        busVars, trackVars, peerVars, lineVars, StopFrame, CallFrame, LoopFrame, EnvFrame
<1>1. OneRequest /\ BusyMeansWork /\ (rel = <<>> => Outstanding = {})
  BY OutstandingIs DEF UartTypes
<1>2. rel # <<>> => rel[1].id \in Outstanding
  <2>1. rel # <<>> => rel = <<rel[1]>>  BY OneOf DEF UartTypes, UartTypeOK
  <2> QED BY <2>1, OutstandingIs
<1>3. \A x : <<x>> # <<>> /\ <<x>>[1] = x  OBVIOUS
<1>4. CASE Start \/ NoteManagedStartupNotReady \/ Stop \/ StopRequests \/ StopJoins
  <2>1. UNCHANGED <<pending, rel, nextTxn, busy, open>>
    BY <1>4 DEF Start, NoteManagedStartupNotReady, Stop, StopRequests, StopJoins
  <2>2. thread' = thread \/ thread' = "loop" \/ (thread = "done" /\ thread' = "off")
    BY <1>4 DEF Start, NoteManagedStartupNotReady, Stop, StopRequests, StopJoins
  <2>3. rel' # <<>> => thread' = "loop"  BY <1>1, <2>1, <2>2 DEF OneRequest
  <2> QED BY <1>1, <2>1, <2>3 DEF OneRequest, BusyMeansWork
<1>5. CASE Call \/ RequestPing \/ PutControl \/ CountControl \/ PeerNext \/ UNCHANGED vars
  <2>1. UNCHANGED <<pending, rel, nextTxn, busy, thread, open>>
    BY <1>5 DEF Call, RequestPing, PutControl, CountControl, PeerNext, PeerAnswers,
       LoseFrame, PeerStops, PeerStarts, vars
  <2> QED BY <1>1, <2>1 DEF OneRequest, BusyMeansWork
<1>6. CASE QueueReliable
  BY <1>1, <1>3, <1>6 DEF QueueReliable, OneRequest, BusyMeansWork
<1>7. CASE ThreadExit  BY <1>1, <1>7 DEF ThreadExit, OneRequest, BusyMeansWork
<1>8. CASE OpenPort
  <2>1. rel = <<>> /\ rel' = <<>> /\ UNCHANGED <<pending, nextTxn, busy>>
    BY <1>1, <1>8 DEF OpenPort, OneRequest
  <2> QED BY <1>1, <2>1 DEF OneRequest, BusyMeansWork
<1>9. CASE Reconnect \/ Watchdog
  <2>1. rel' = <<>> /\ UNCHANGED <<pending, nextTxn>> /\ EndRequests(Outstanding, "failed")
    BY <1>9 DEF Reconnect, Watchdog, FailOutstandingReliable
  <2>2. busy' = IF rel = <<>> THEN busy ELSE FALSE  BY <1>1, <1>2, <2>1 DEF EndRequests
  <2> QED BY <1>1, <2>1, <2>2 DEF OneRequest, BusyMeansWork
<1>10. CASE ResponseTimeout \/ Renegotiate \/ SendHello \/ SendHeartbeat \/ SendPing \/ SendControl
            \/ CompleteTransmit \/ IgnoreOlder
  <2>1. UNCHANGED <<pending, rel, nextTxn, busy, thread, open>>
    BY <1>10 DEF ResponseTimeout, Renegotiate, SendHello, SendHeartbeat, SendPing,
       SendControl, CompleteTransmit, IgnoreOlder
  <2> QED BY <1>1, <2>1 DEF OneRequest, BusyMeansWork
<1>11. CASE PollReliable
  <2>1. rel # <<>> /\ UNCHANGED <<pending, nextTxn, thread, open>> /\ thread = "loop" /\ open
    BY <1>11 DEF PollReliable, BusFree
  <2>2. CASE MayRetry
    <3>1. rel' = <<[rel[1] EXCEPT !.retries = @ + 1]>> /\ busy' = busy
      BY <1>11, <2>2 DEF PollReliable
    <3>2. rel' # <<>> /\ rel'[1].id = rel[1].id
      <4>1. rel[1] \in [id : Txns, retries : 0..MaxRetries]
        BY <2>1, OneOf DEF UartTypes, UartTypeOK
      <4> QED BY <3>1, <4>1
    <3> QED BY <1>1, <2>1, <3>1, <3>2 DEF OneRequest, BusyMeansWork
  <2>3. CASE ~MayRetry
    <3>1. rel' = <<>> /\ EndRequests(Outstanding, "failed")
      BY <1>11, <2>3 DEF PollReliable, FailOutstandingReliable
    <3>2. busy' = FALSE  BY <1>2, <2>1, <3>1 DEF EndRequests
    <3> QED BY <1>1, <2>1, <3>1, <3>2 DEF OneRequest, BusyMeansWork
  <2> QED BY <2>2, <2>3
<1>12. CASE SendReliable
  <2>1. /\ rel' = <<[id |-> pending[1], retries |-> 0]>> /\ pending' = <<>> /\ pending # <<>>
        /\ UNCHANGED <<nextTxn, busy, thread, open>> /\ thread = "loop" /\ open
    BY <1>12 DEF SendReliable, BusFree
  <2>2. rel'[1].id = pending[1] /\ rel' # <<>>  BY <2>1
  <2> QED BY <1>1, <2>1, <2>2 DEF OneRequest, BusyMeansWork
<1>13. CASE HandleFrame
  <2> DEFINE f == fromPeer[1]
             ended == (Answers(f) /\ f.type \in {"ACK", "NACK"}) \/ BootChanged(f)
  <2>1. /\ UNCHANGED <<pending, nextTxn, thread, open>>
        /\ rel' = IF ended THEN <<>> ELSE rel
        /\ \E how : EndRequests(IF ended THEN Outstanding ELSE {}, how)
    <3>1. UNCHANGED <<pending, nextTxn, thread, open>>  BY <1>13 DEF HandleFrame
    <3>2. rel' = IF ended THEN <<>> ELSE rel  BY <1>13 DEF HandleFrame, RelAfter
    <3>3. \E how : EndRequests(IF ended THEN Outstanding ELSE {}, how)
      BY <1>13 DEF HandleFrame
    <3> QED BY <3>1, <3>2, <3>3
  <2>2. busy' = IF ended /\ rel # <<>> THEN FALSE ELSE busy
    BY <1>1, <1>2, <2>1 DEF EndRequests
  <2> HIDE DEF ended
  <2> QED BY <1>1, <2>1, <2>2 DEF OneRequest, BusyMeansWork
<1> QED BY <1>4, <1>5, <1>6, <1>7, <1>8, <1>9, <1>10, <1>11, <1>12, <1>13
        DEF Next, IoNext, CallNext

\* At the start nothing is queued, nothing is on the line.
LEMMA InitTypes == Init => UartTypes
<1> SUFFICES ASSUME Init PROVE UartTypes  OBVIOUS
<1> USE UartAssumption DEF Init
<1>1. Flags /\ StatusTypes  BY DEF Flags, StatusTypes, States, Healths
<1>2. CallTypes  BY DEF CallTypes, AtMostOne
<1>3. BusTypes  BY DEF BusTypes, AtMostOne, NoWait
<1>4. PeerTypes  BY DEF PeerTypes, Boots
<1>5. LineTypes  BY EmptySeq DEF LineTypes
<1>6. CallsBounded /\ OneRequest /\ BusyMeansWork
  BY DEF CallsBounded, OneRequest, BusyMeansWork
<1> QED BY <1>1, <1>2, <1>3, <1>4, <1>5, <1>6, TypesInParts DEF UartTypes

\* Every step keeps the types, the line and the one request.
LEMMA TypesStep == ASSUME UartTypes, [Next]_vars PROVE UartTypes'
<1>1. UartTypeOK'
  <2>1. Flags' /\ StatusTypes' /\ CallTypes' /\ PeerTypes' /\ CallsBounded'
    BY TypesInParts, FlagsStep, StatusStep, CallStep, PeerStep DEF UartTypes
  <2>2. BusTypes'
    BY TxStep, RelStep, WindowStep, OutcomeStep DEF BusTypes, WaitTypes, OutcomeTypes
  <2> QED BY <2>1, <2>2, TypesInParts
<1>2. CallsBounded'  BY TypesInParts, CallStep DEF UartTypes
<1> QED BY <1>1, <1>2, LineStep, RequestStep DEF UartTypes

\* All of the link's variables keep their types, whatever the constants: at most one
\* request, frame, window and transaction, no more retries than configured, and on the
\* line only frames the link sent and answers the controller gave.
THEOREM UartTypeCorrect == Spec => []UartTypeOK
<1>1. UartTypes => UartTypeOK  BY DEF UartTypes
<1> QED BY <1>1, InitTypes, TypesStep, PTL DEF Spec

\* A caller is refused exactly while a request is queued or on the line: no lost link,
\* restart of the controller or Stop that races with a call leaves the busy flag set
\* with nothing to clear it, or clears it too early.
THEOREM BusyIsWork == Spec => []BusyMeansWork
<1>1. UartTypes => BusyMeansWork  BY DEF UartTypes
<1> QED BY <1>1, InitTypes, TypesStep, PTL DEF Spec

--------------------------------------------------------------------------------
(* What the callers are promised                                            *)

\* Ending the request under way is one End step of the abstract specification.
LEMMA EndIsEnd ==
    ASSUME UartTypes, busy, busy' = FALSE, UNCHANGED <<nextTxn, executed>>,
           NEW how, outcome' = [t \in Txns |-> IF t = nextTxn THEN how ELSE outcome[t]]
    PROVE  Requests!End(how)
<1>1. outcome' = [outcome EXCEPT ![nextTxn] = how]  BY DEF UartTypes, UartTypeOK
<1> QED BY <1>1 DEF Requests!End

\* Ending the transaction on the line ends the request, or there was none to end.
LEMMA EndOutstanding ==
    ASSUME UartTypes, NEW how, EndRequests(Outstanding, how), UNCHANGED <<nextTxn, executed>>
    PROVE  (rel # <<>> /\ Requests!End(how)) \/ UNCHANGED <<nextTxn, busy, outcome, executed>>
<1>1. rel = <<>> => Outstanding = {}  BY OutstandingIs
<1>2. rel # <<>> => Outstanding = {nextTxn} /\ busy
  <2>1. rel # <<>> => rel = <<rel[1]>> /\ rel[1].id = nextTxn
    BY OneOf DEF UartTypes, UartTypeOK, OneRequest
  <2> QED BY <2>1, OutstandingIs DEF UartTypes, BusyMeansWork
<1>3. rel # <<>> => busy' = FALSE /\ outcome' = [t \in Txns |-> IF t = nextTxn THEN how ELSE outcome[t]]
  BY <1>2 DEF EndRequests
<1>4. rel = <<>> => UNCHANGED <<busy, outcome>>  BY <1>1 DEF EndRequests
<1> QED BY <1>2, <1>3, <1>4, EndIsEnd

\* Every step of the link is a step of the abstract requests, or leaves them alone.
LEMMA StepIsRequests ==
    ASSUME UartTypes, [Next]_vars
    PROVE  [Requests!Next]_(Requests!requestVars)
<1> USE DEF requestVars, pingVars, controlVars, lifeVars, statusVars,
        busVars, trackVars, peerVars, lineVars, StopFrame, CallFrame, LoopFrame, EnvFrame
<1> DEFINE same == UNCHANGED <<nextTxn, busy, outcome, executed>>
<1>0. same => UNCHANGED Requests!requestVars  BY DEF Requests!requestVars
<1>1. ASSUME NEW how \in {"failed", "nacked", "cancelled"}, Requests!End(how)
      PROVE  Requests!Next
  BY <1>1 DEF Requests!Next, Requests!NotAcknowledged
<1>2. CASE Start \/ NoteManagedStartupNotReady \/ Stop \/ StopRequests \/ StopJoins
           \/ Call \/ RequestPing \/ PutControl \/ CountControl \/ LoseFrame
           \/ PeerStops \/ PeerStarts \/ UNCHANGED vars
  BY <1>0, <1>2 DEF Start, NoteManagedStartupNotReady, Stop, StopRequests, StopJoins,
     Call, RequestPing, PutControl, CountControl, LoseFrame, PeerStops, PeerStarts, vars
<1>3. CASE OpenPort \/ ResponseTimeout \/ IgnoreOlder \/ Renegotiate \/ SendHello
           \/ SendReliable \/ SendHeartbeat \/ SendPing \/ SendControl \/ CompleteTransmit
  BY <1>0, <1>3 DEF OpenPort, ResponseTimeout, IgnoreOlder, Renegotiate, SendHello,
     SendReliable, SendHeartbeat, SendPing, SendControl, CompleteTransmit
<1>4. CASE QueueReliable
  <2>1. CASE ~busy /\ pending = <<>>
    <3>1. nextTxn < MaxRequests  BY <1>4 DEF QueueReliable, UartTypes, CallsBounded
    <3> QED BY <1>4, <2>1, <3>1 DEF QueueReliable, Requests!Next, Requests!Accept
  <2>2. CASE ~(~busy /\ pending = <<>>)  BY <1>0, <1>4, <2>2 DEF QueueReliable
  <2> QED BY <2>1, <2>2
<1>5. CASE ThreadExit
  <2>1. /\ busy' = FALSE /\ UNCHANGED <<nextTxn, executed>>
        /\ outcome' = [t \in Txns |-> IF t \in Outstanding \/ pending = <<t>>
                                      THEN "cancelled" ELSE outcome[t]]
    BY <1>5 DEF ThreadExit
  <2>2. CASE busy
    <3>1. \A t : t \in Outstanding \/ pending = <<t>> <=> t = nextTxn
      <4>1. CASE rel # <<>>
        <5>1. rel = <<rel[1]>> /\ rel[1].id = nextTxn /\ pending = <<>>
          BY <4>1, OneOf DEF UartTypes, UartTypeOK, OneRequest
        <5>2. Outstanding = {nextTxn}  BY <5>1, OutstandingIs
        <5> QED BY <5>1, <5>2
      <4>2. CASE rel = <<>>
        <5>1. pending # <<>> /\ Outstanding = {}
          BY <2>2, <4>2, OutstandingIs DEF UartTypes, BusyMeansWork
        <5>2. pending = <<pending[1]>> /\ pending[1] = nextTxn
          BY <5>1, OneOf DEF UartTypes, UartTypeOK, OneRequest
        <5> QED BY <5>1, <5>2
      <4> QED BY <4>1, <4>2
    <3>2. outcome' = [t \in Txns |-> IF t = nextTxn THEN "cancelled" ELSE outcome[t]]
      BY <2>1, <3>1
    <3> QED BY <1>1, <2>1, <2>2, <3>2, EndIsEnd
  <2>3. CASE ~busy
    <3>1. pending = <<>> /\ Outstanding = {}
      BY <2>3, OutstandingIs DEF UartTypes, BusyMeansWork
    <3>2. outcome \in [Txns -> {"none", "acked", "nacked", "failed", "cancelled"}]
      BY DEF UartTypes, UartTypeOK
    <3>3. outcome' = outcome  BY <2>1, <3>1, <3>2
    <3>4. busy = FALSE  BY <2>3 DEF UartTypes, UartTypeOK
    <3> QED BY <1>0, <2>1, <3>3, <3>4
  <2> QED BY <2>2, <2>3
<1>6. CASE Reconnect \/ Watchdog \/ PollReliable
  <2>1. UNCHANGED <<busy, outcome>> \/ EndRequests(Outstanding, "failed")
    BY <1>6 DEF Reconnect, Watchdog, PollReliable, FailOutstandingReliable
  <2>2. UNCHANGED <<nextTxn, executed>>  BY <1>6 DEF Reconnect, Watchdog, PollReliable
  <2> QED BY <1>0, <1>1, <2>1, <2>2, EndOutstanding
<1>7. CASE HandleFrame
  <2> DEFINE f == fromPeer[1]
             answer == Answers(f) /\ f.type \in {"ACK", "NACK"}
             how == IF BootChanged(f) THEN "failed"
                    ELSE IF f.type = "ACK" THEN "acked" ELSE "nacked"
  <2>1. EndRequests(IF answer \/ BootChanged(f) THEN Outstanding ELSE {}, how)
    BY <1>7 DEF HandleFrame
  <2>2. UNCHANGED <<nextTxn, executed>>  BY <1>7 DEF HandleFrame
  <2>3. CASE ~(answer \/ BootChanged(f))
    <3>1. UNCHANGED <<busy, outcome>>  BY <2>1, <2>3 DEF EndRequests
    <3> QED BY <1>0, <2>2, <3>1
  <2>4. CASE (answer \/ BootChanged(f)) /\ (BootChanged(f) \/ f.type # "ACK")
    <3>1. how \in {"failed", "nacked"}  BY <2>4
    <3>2. EndRequests(Outstanding, how)
      <4> HIDE DEF how
      <4> QED BY <2>1, <2>4
    <3> HIDE DEF how
    <3> QED BY <1>0, <1>1, <2>2, <3>1, <3>2, EndOutstanding
  <2>5. CASE answer /\ ~BootChanged(f) /\ f.type = "ACK"
    <3>1. EndRequests(Outstanding, "acked")  BY <2>1, <2>5
    <3>2. rel # <<>> /\ rel[1].id = f.id  BY <2>5 DEF Answers, RelAfter
    <3>3. f.id \in executed  BY <1>7, <2>5, LineHeads DEF HandleFrame, TrueReplies
    <3>4. nextTxn \in executed  BY <3>2, <3>3 DEF UartTypes, OneRequest
    <3>5. Requests!End("acked") => Requests!Next
      BY <3>4 DEF Requests!Next, Requests!Acknowledged
    <3> QED BY <1>0, <2>2, <3>1, <3>5, EndOutstanding
  <2> QED BY <2>3, <2>4, <2>5
<1>8. CASE PeerAnswers
  <2>1. UNCHANGED <<nextTxn, busy, outcome>>  BY <1>8 DEF PeerAnswers
  <2>2. \/ executed' = executed
        \/ toPeer # <<>> /\ toPeer[1].type = "RELIABLE" /\ executed' = executed \cup {toPeer[1].id}
    BY <1>8, Zenon DEF PeerAnswers
  <2>3. toPeer # <<>> /\ toPeer[1].type = "RELIABLE" => toPeer[1].id \in 1..nextTxn
    <3>1. toPeer # <<>> => toPeer[1] \in KnownFrames  BY LineHeads
    <3>2. \A g \in KnownFrames : g.type = "RELIABLE" => g.id \in Txns /\ g.id <= nextTxn
      BY DEF KnownFrames, Frames
    <3>3. nextTxn \in 0..MaxRequests  BY DEF UartTypes, UartTypeOK
    <3> QED BY <3>1, <3>2, <3>3, UartAssumption DEF Txns
  <2>4. CASE executed' = executed  BY <1>0, <2>1, <2>4
  <2>5. CASE toPeer # <<>> /\ toPeer[1].type = "RELIABLE" /\ executed' = executed \cup {toPeer[1].id}
    <3>1. Requests!Execute  BY <2>1, <2>3, <2>5 DEF Requests!Execute
    <3> QED BY <3>1 DEF Requests!Next
  <2> QED BY <2>2, <2>4, <2>5
<1> QED BY <1>2, <1>3, <1>4, <1>5, <1>6, <1>7, <1>8 DEF Next, IoNext, CallNext, PeerNext

\* The promise to the callers is kept: one request at a time, each ends exactly once,
\* and an acknowledged one was carried out by the controller, whatever late answers to
\* earlier requests, reboots and lost frames there are.
THEOREM RequestsRefined == Spec => RequestSpec
<1>1. Init => Requests!Init  BY DEF Init, Requests!Init, Txns, Requests!Ids
<1> QED BY <1>1, InitTypes, TypesStep, StepIsRequests, PTL DEF Spec, RequestSpec, Requests!Spec

--------------------------------------------------------------------------------
(* What the link says of itself                                             *)

SessionFrame == tx # <<>> /\ tx[1].type # "HELLO"
HelloFrame == tx # <<>> /\ tx[1].type = "HELLO"
SessionWait == wait.kind \in {"STATUS", "PONG", "RELIABLE"}

\* One frame is under way at a time: sent, or waited for.
OneUnderWay ==
    /\ wait.kind = "none" => wait = NoWait
    /\ tx # <<>> => wait = NoWait

\* Session frames, and the session itself, belong to the boot that was negotiated,
\* and that boot is the one the tracker follows.
OneBoot ==
    InSession \/ SessionFrame \/ SessionWait =>
        tracker # <<>> /\ tracker[1].boot = negotiated

\* A HELLO is under way only outside a session.
HelloFirst == HelloFrame \/ wait.kind = "HELLO_ACK" => ~InSession

HealthTold ==
    /\ health = "HEALTHY" => state \in {"READY", "STOPPING", "CLOSED"}
    /\ state = "READY" => health = "HEALTHY"

SessionInv == OneUnderWay /\ OneBoot /\ HelloFirst /\ HealthTold

\* The steps of the callers and of Start and Stop: no session begins.
LEMMA SessionCalls ==
    ASSUME UartTypes, SessionInv, CallNext \/ PeerNext \/ UNCHANGED vars
    PROVE  SessionInv'
<1> USE DEF requestVars, pingVars, controlVars, lifeVars, statusVars,
        busVars, trackVars, peerVars, lineVars, StopFrame, CallFrame, EnvFrame
<1>1. UNCHANGED <<tx, wait, tracker, negotiated>>
  BY DEF CallNext, Start, NoteManagedStartupNotReady, Stop, StopRequests, StopJoins, Call,
     QueueReliable, RequestPing, PutControl, CountControl, PeerNext, PeerAnswers, LoseFrame,
     PeerStops, PeerStarts, vars
<1>2. \/ UNCHANGED <<state, health>>
      \/ state' \in {"STOPPING", "CLOSED"} /\ health' = health
      \/ state # "READY" /\ state' = state /\ health' = "UNHEALTHY"
  BY DEF CallNext, Start, NoteManagedStartupNotReady, Stop, StopRequests, StopJoins, Call,
     QueueReliable, RequestPing, PutControl, CountControl, PeerNext, PeerAnswers, LoseFrame,
     PeerStops, PeerStarts, vars, SetState, HealthIn
<1>3. InSession' => InSession  BY <1>2 DEF InSession
<1>4. SessionFrame' = SessionFrame /\ SessionWait' = SessionWait /\ HelloFrame' = HelloFrame
  BY <1>1 DEF SessionFrame, SessionWait, HelloFrame
<1>5. OneUnderWay' /\ OneBoot' /\ HelloFirst'
  BY <1>1, <1>3, <1>4 DEF SessionInv, OneUnderWay, OneBoot, HelloFirst
<1>6. HealthTold'  BY <1>2 DEF SessionInv, HealthTold
<1> QED BY <1>5, <1>6 DEF SessionInv

\* The steps of the I/O thread that end a session or leave the bus empty.
LEMMA SessionEnds ==
    ASSUME UartTypes, SessionInv,
           ThreadExit \/ OpenPort \/ Reconnect \/ ResponseTimeout \/ Watchdog \/ Renegotiate
    PROVE  SessionInv'
<1> USE DEF requestVars, pingVars, controlVars, lifeVars, statusVars,
        busVars, trackVars, peerVars, lineVars, LoopFrame
<1>0. health \in Healths  BY DEF UartTypes, UartTypeOK, Healths
<1>1. CASE ThreadExit
  BY <1>1 DEF ThreadExit, SessionInv, OneUnderWay, OneBoot, HelloFirst, HealthTold,
     SessionFrame, SessionWait, HelloFrame, InSession, NoWait
<1>2. CASE OpenPort
  <2>1. CASE tx' = <<>> /\ wait' = NoWait /\ state' = "NEGOTIATING"
              /\ health' = HealthIn("NEGOTIATING", HealthIn("OPENING", health))
    <3>1. health' # "HEALTHY"  BY <2>1 DEF HealthIn, Adverse
    <3> QED BY <2>1, <3>1 DEF SessionInv, OneUnderWay, OneBoot, HelloFirst, HealthTold,
         SessionFrame, SessionWait, HelloFrame, InSession, NoWait
  <2>2. CASE UNCHANGED <<busVars, trackVars, negotiated>> /\ state' = "OPENING" /\ health' = "UNHEALTHY"
    BY <2>2 DEF SessionInv, OneUnderWay, OneBoot, HelloFirst, HealthTold, SessionFrame,
       SessionWait, HelloFrame, InSession, NoWait
  <2> QED BY <1>2, <2>1, <2>2 DEF OpenPort
<1>3. CASE Reconnect \/ Watchdog
  <2>1. tx' = <<>> /\ wait' = NoWait /\ state' = "LINK_LOST" /\ health' = "UNHEALTHY"
    BY <1>3 DEF Reconnect, Watchdog, SetState, HealthIn
  <2> QED BY <2>1 DEF SessionInv, OneUnderWay, OneBoot, HelloFirst, HealthTold,
         SessionFrame, SessionWait, HelloFrame, InSession, NoWait
<1>4. CASE ResponseTimeout
  <2>1. wait # NoWait /\ wait' = NoWait /\ UNCHANGED <<tx, tracker, negotiated>>
    BY <1>4 DEF ResponseTimeout
  <2>2. tx = <<>>  BY <2>1 DEF SessionInv, OneUnderWay
  <2>3. CASE wait.kind = "HELLO_ACK"
    <3>1. state' = "NEGOTIATING" /\ health' # "HEALTHY"
      BY <1>0, <1>4, <2>3 DEF ResponseTimeout, SetState, HealthIn, Adverse
    <3> QED BY <2>1, <2>2, <3>1 DEF SessionInv, OneUnderWay, OneBoot, HelloFirst, HealthTold,
         SessionFrame, SessionWait, HelloFrame, InSession, NoWait
  <2>4. CASE wait.kind # "HELLO_ACK"
    <3>1. state' = "DEGRADED" /\ health' # "HEALTHY"
      BY <1>0, <1>4, <2>4 DEF ResponseTimeout, SetState, HealthIn, Adverse
    <3>2. SessionWait
      BY <2>1, <2>4 DEF SessionInv, OneUnderWay, SessionWait, UartTypes, UartTypeOK
    <3>3. tracker' # <<>> /\ tracker'[1].boot = negotiated'
      BY <2>1, <3>2 DEF SessionInv, OneBoot
    <3> QED BY <2>1, <2>2, <3>1, <3>3 DEF SessionInv, OneUnderWay, OneBoot, HelloFirst, HealthTold,
         SessionFrame, SessionWait, HelloFrame, InSession, NoWait
  <2> QED BY <2>3, <2>4
<1>5. CASE Renegotiate
  <2>1. state' = "NEGOTIATING" /\ health' # "HEALTHY" /\ UNCHANGED <<tx, wait, tracker, negotiated>>
    BY <1>0, <1>5 DEF Renegotiate, SetState, HealthIn, Adverse
  <2> QED BY <2>1 DEF SessionInv, OneUnderWay, OneBoot, HelloFirst, HealthTold,
         SessionFrame, SessionWait, HelloFrame, InSession, NoWait
<1> QED BY <1>1, <1>2, <1>3, <1>4, <1>5

\* A frame of the session is sent in the session; a HELLO outside it.
LEMMA SessionSends ==
    ASSUME UartTypes, SessionInv,
           SendHello \/ PollReliable \/ SendReliable \/ SendHeartbeat \/ SendPing \/ SendControl
           \/ CompleteTransmit
    PROVE  SessionInv'
<1> USE DEF requestVars, pingVars, controlVars, lifeVars, statusVars,
        busVars, trackVars, peerVars, lineVars, LoopFrame
<1>0. UNCHANGED <<state, health, tracker, negotiated>>
  BY DEF SendHello, PollReliable, SendReliable, SendHeartbeat, SendPing, SendControl, CompleteTransmit
<1>1. InSession' = InSession /\ HealthTold'
  BY <1>0 DEF SessionInv, HealthTold, InSession
<1>2. CASE SendHello
  <2>1. state = "NEGOTIATING" /\ wait = NoWait /\ wait' = wait
        /\ tx' = <<Frame("HELLO", nextHello)>>
    BY <1>2 DEF SendHello, BusFree
  <2>2. tx'[1].type = "HELLO" /\ tx' # <<>>  BY <2>1 DEF Frame
  <2> QED BY <1>0, <1>1, <2>1, <2>2 DEF SessionInv, OneUnderWay, OneBoot, HelloFirst,
         SessionFrame, SessionWait, HelloFrame, InSession, NoWait
<1>3. CASE PollReliable \/ SendReliable \/ SendHeartbeat \/ SendPing \/ SendControl
  <2>1. InSession /\ wait = NoWait /\ wait' = wait
    BY <1>3 DEF PollReliable, SendReliable, SendHeartbeat, SendPing, SendControl, NothingReliable, BusFree
  <2>2. \/ tx' = tx
        \/ \E type \in {"RELIABLE", "HEARTBEAT", "PING", "CONTROL"} : \E id : tx' = <<Frame(type, id)>>
    BY <1>3 DEF PollReliable, SendReliable, SendHeartbeat, SendPing, SendControl
  <2>3. ~HelloFrame'
    <3>1. CASE tx' = tx  BY <2>1, <3>1 DEF SessionInv, HelloFirst, HelloFrame
    <3>2. CASE \E type \in {"RELIABLE", "HEARTBEAT", "PING", "CONTROL"} : \E id : tx' = <<Frame(type, id)>>
      BY <3>2 DEF HelloFrame, Frame
    <3> QED BY <2>2, <3>1, <3>2
  <2>4. tracker' # <<>> /\ tracker'[1].boot = negotiated'
    BY <1>0, <2>1 DEF SessionInv, OneBoot
  <2> QED BY <1>0, <1>1, <2>1, <2>3, <2>4 DEF SessionInv, OneUnderWay, OneBoot, HelloFirst, NoWait
<1>4. CASE CompleteTransmit
  <2>1. tx # <<>> /\ tx' = <<>>
        /\ wait' = IF Response(tx[1].type) = "none" THEN wait
                   ELSE [kind |-> Response(tx[1].type), id |-> tx[1].id]
    BY <1>4 DEF CompleteTransmit
  <2>2. wait = NoWait  BY <2>1 DEF SessionInv, OneUnderWay
  <2>3. CASE HelloFrame
    <3>1. wait'.kind = "HELLO_ACK" /\ ~InSession
      BY <2>1, <2>3 DEF HelloFrame, Response, SessionInv, HelloFirst
    <3> QED BY <1>0, <1>1, <2>1, <3>1 DEF SessionInv, OneUnderWay, OneBoot, HelloFirst,
           SessionFrame, SessionWait, HelloFrame
  <2>4. CASE ~HelloFrame
    <3>1. wait'.kind # "HELLO_ACK" /\ (wait'.kind = "none" => wait' = NoWait)
      BY <2>1, <2>2, <2>4 DEF HelloFrame, Response, NoWait
    <3>2. SessionFrame  BY <2>1, <2>4 DEF HelloFrame, SessionFrame
    <3>3. tracker' # <<>> /\ tracker'[1].boot = negotiated'
      BY <1>0, <3>2 DEF SessionInv, OneBoot
    <3> QED BY <1>1, <2>1, <3>1, <3>3 DEF SessionInv, OneUnderWay, OneBoot, HelloFirst, HelloFrame
  <2> QED BY <2>3, <2>4
<1> QED BY <1>2, <1>3, <1>4

\* An answer is taken only in the window of its own boot, so it is the answer of the
\* boot that was negotiated, or the HELLO_ACK that negotiates one.
LEMMA SessionHandles ==
    ASSUME UartTypes, SessionInv, IgnoreOlder \/ HandleFrame
    PROVE  SessionInv'
<1> USE DEF requestVars, pingVars, controlVars, lifeVars, statusVars,
        busVars, trackVars, peerVars, lineVars, LoopFrame
<1>1. CASE IgnoreOlder
  BY <1>1 DEF IgnoreOlder, SessionInv, OneUnderWay, OneBoot, HelloFirst, HealthTold,
     SessionFrame, SessionWait, HelloFrame, InSession
<1>2. CASE HandleFrame
  <2> DEFINE f == fromPeer[1]
  <2>1. /\ tracker' = <<[boot |-> f.boot, run |-> f.run]>>
        /\ tx' = IF BootChanged(f) THEN <<>> ELSE tx
        /\ wait' = IF Answers(f) THEN NoWait ELSE WaitAfter(f)
        /\ state' = IF Answers(f) THEN "READY"
                    ELSE IF BootChanged(f) THEN "NEGOTIATING" ELSE state
        /\ health' = IF Answers(f) THEN "HEALTHY" ELSE IF Refuses(f) THEN "UNHEALTHY"
                     ELSE IF BootChanged(f) THEN Degraded(health) ELSE health
        /\ negotiated' = IF Answers(f) /\ f.type = "HELLO_ACK" THEN f.boot ELSE negotiated
    BY <1>2 DEF HandleFrame
  <2>2. tracker' # <<>> /\ tracker'[1].boot = f.boot  BY <2>1
  <2>3. CASE BootChanged(f)
    <3>1. WaitAfter(f) = NoWait  BY <2>3 DEF WaitAfter
    <3>2. ~Answers(f)  BY <3>1 DEF Answers, NoWait
    <3>3. tx' = <<>> /\ wait' = NoWait /\ state' = "NEGOTIATING" /\ health' # "HEALTHY"
      BY <2>1, <2>3, <3>1, <3>2 DEF Degraded
    <3> QED BY <3>3 DEF SessionInv, OneUnderWay, OneBoot, HelloFirst, HealthTold,
           SessionFrame, SessionWait, HelloFrame, InSession, NoWait
  <2>4. CASE ~BootChanged(f) /\ Answers(f)
    <3>1. wait # NoWait /\ (f.type # "HELLO_ACK" => SessionWait)
      BY <2>4 DEF Answers, WaitAfter, NoWait, SessionWait
    <3>2. tx' = <<>> /\ wait' = NoWait /\ state' = "READY" /\ health' = "HEALTHY"
      BY <2>1, <2>4, <3>1 DEF SessionInv, OneUnderWay
    <3>3. tracker'[1].boot = negotiated'
      <4>1. CASE f.type = "HELLO_ACK"  BY <2>1, <2>2, <2>4, <4>1
      <4>2. CASE f.type # "HELLO_ACK"
        <5>1. tracker # <<>> /\ tracker[1].boot = negotiated
          BY <3>1, <4>2 DEF SessionInv, OneBoot
        <5>2. f.boot = negotiated  BY <2>4, <5>1 DEF BootChanged
        <5> QED BY <2>1, <2>2, <4>2, <5>2
      <4> QED BY <4>1, <4>2
    <3> QED BY <2>2, <3>2, <3>3 DEF SessionInv, OneUnderWay, OneBoot, HelloFirst, HealthTold,
           SessionFrame, SessionWait, HelloFrame, InSession, NoWait
  <2>5. CASE ~BootChanged(f) /\ ~Answers(f)
    <3>1. UNCHANGED <<tx, wait, state, negotiated>>  BY <2>1, <2>5 DEF WaitAfter
    <3>2. health' = health \/ (health' = "UNHEALTHY" /\ state # "READY")
      <4>1. CASE Refuses(f)
        <5>1. wait.kind = "HELLO_ACK"  BY <2>5, <4>1 DEF Refuses, WaitAfter
        <5>2. ~InSession  BY <5>1 DEF SessionInv, HelloFirst
        <5> QED BY <2>1, <2>5, <4>1, <5>2 DEF InSession
      <4>2. CASE ~Refuses(f)  BY <2>1, <2>5, <4>2
      <4> QED BY <4>1, <4>2
    <3>3. tracker # <<>> => tracker'[1].boot = tracker[1].boot
      BY <2>2, <2>5 DEF BootChanged
    <3> QED BY <2>2, <3>1, <3>2, <3>3 DEF SessionInv, OneUnderWay, OneBoot, HelloFirst, HealthTold,
           SessionFrame, SessionWait, HelloFrame, InSession
  <2> QED BY <2>3, <2>4, <2>5
<1> QED BY <1>1, <1>2

\* What the link says of itself is true, for any number of restarts of the controller:
\* it is in session only with the boot it negotiated with, and it reports HEALTHY
\* exactly while it is READY (a stopping link keeps its last status).
THEOREM SessionIsTrue == Spec => []SessionToldTruly
<1>1. Init => SessionInv
  BY DEF Init, SessionInv, OneUnderWay, OneBoot, HelloFirst, HealthTold,
     SessionFrame, SessionWait, HelloFrame, InSession, NoWait
<1>2. UartTypes /\ SessionInv /\ [Next]_vars => SessionInv'
  BY SessionCalls, SessionEnds, SessionSends, SessionHandles DEF Next, IoNext
<1>3. SessionInv => SessionToldTruly
  BY DEF SessionInv, OneBoot, HealthTold, SessionToldTruly
<1> QED BY <1>1, <1>2, <1>3, InitTypes, TypesStep, PTL DEF Spec

--------------------------------------------------------------------------------
(* No control is lost without a fault                                       *)

Undisturbed == faults = 0 /\ ~stopReq /\ starts < 2

\* Before the first Start nobody asked the link to stop.
NotStarted == starts = 0 => main = "idle" /\ ~stopReq

\* The first run of the controller still runs, and the tracker follows no other.
FirstRun ==
    /\ peer.alive /\ peer.boot = 1 /\ peer.run = 1 /\ ~silent
    /\ tracker # <<>> => tracker[1].boot = 1 /\ tracker[1].run = 1

\* The controller is in session whenever the link believes so.
Greeted ==
    /\ InSession \/ SessionFrame \/ SessionWait => peer.greeted
    /\ fromPeer # <<>> /\ fromPeer[1].type = "HELLO_ACK" => peer.greeted

\* What is sent or waited for as reliable is the transaction.
OwnTransaction ==
    /\ wait.kind = "RELIABLE" => rel # <<>> /\ rel[1].id = wait.id
    /\ tx # <<>> /\ tx[1].type = "RELIABLE" => rel # <<>> /\ rel[1].id = tx[1].id

AwaitedKind(r) == IF r.type \in {"ACK", "NACK"} THEN "RELIABLE" ELSE r.type

Asked == \E f : /\ toPeer = <<f>> /\ f.type # "CONTROL"
                /\ wait = [kind |-> Response(f.type), id |-> f.id]
Answered == \E r : /\ fromPeer = <<r>> /\ r.boot = 1 /\ r.run = 1
                   /\ wait.kind = AwaitedKind(r) /\ wait.id = r.id

\* The line carries the frame that is to be answered, then its answer, else nothing.
LineQuiet ==
    \/ wait = NoWait /\ toPeer = <<>> /\ fromPeer = <<>>
    \/ wait # NoWait /\ fromPeer = <<>> /\ Asked
    \/ wait # NoWait /\ toPeer = <<>> /\ Answered

PortQuiet == ~open => tx = <<>> /\ wait = NoWait

ControlFrame == tx = <<Frame("CONTROL", 0)>>

Balance ==
    metrics.accepted + (IF caller \in {"count", "countReplaced"} THEN 1 ELSE 0)
        = metrics.overwritten + (IF caller = "countReplaced" THEN 1 ELSE 0)
          + metrics.sent + (IF mailbox THEN 1 ELSE 0)
          + (IF ControlFrame THEN 1 ELSE 0)

Quiet == FirstRun /\ Greeted /\ OwnTransaction /\ LineQuiet /\ PortQuiet /\ Balance

QuietInv == NotStarted /\ (Undisturbed => Quiet)

LinkInv == UartTypes /\ SessionInv /\ QuietInv

\* A step after which no fault happened comes from a state where none had.
LEMMA UndisturbedBefore ==
    ASSUME LinkInv, [Next]_vars
    PROVE  /\ NotStarted'
           /\ Undisturbed' => Undisturbed /\ Quiet /\ faults' = faults /\ ~ThreadExit
<1> USE DEF requestVars, pingVars, controlVars, lifeVars, statusVars,
        busVars, trackVars, peerVars, lineVars, StopFrame, CallFrame, LoopFrame, EnvFrame
<1>0. faults \in Nat /\ starts \in Nat /\ stopReq \in BOOLEAN /\ NotStarted
  BY DEF LinkInv, QuietInv, UartTypes, UartTypeOK
<1>1. \/ UNCHANGED lifeVars
      \/ starts' = starts + 1 /\ main' # "idle" /\ stopReq' = FALSE
      \/ starts' = starts /\ main # "idle"
  <2>1. CASE CallNext
    BY <2>1 DEF CallNext, Start, NoteManagedStartupNotReady, Stop, StopRequests,
       StopJoins, Call, QueueReliable, RequestPing, PutControl, CountControl
  <2>2. CASE PeerNext
    BY <2>2 DEF PeerNext, PeerAnswers, LoseFrame, PeerStops, PeerStarts
  <2>3. CASE IoNext
    BY <2>3 DEF IoNext, ThreadExit, OpenPort, Reconnect, ResponseTimeout, Watchdog,
       Renegotiate, SendHello, PollReliable, SendReliable, SendHeartbeat, SendPing,
       SendControl, CompleteTransmit, IgnoreOlder, HandleFrame
  <2>4. CASE UNCHANGED vars  BY <2>4 DEF vars
  <2> QED BY <2>1, <2>2, <2>3, <2>4 DEF Next
<1>2. stopReq' = stopReq \/ stopReq' = TRUE \/ starts' = starts + 1
  <2>1. CASE CallNext
    BY <2>1 DEF CallNext, Start, NoteManagedStartupNotReady, Stop, StopRequests,
       StopJoins, Call, QueueReliable, RequestPing, PutControl, CountControl
  <2>2. CASE PeerNext
    BY <2>2 DEF PeerNext, PeerAnswers, LoseFrame, PeerStops, PeerStarts
  <2>3. CASE IoNext
    BY <2>3 DEF IoNext, ThreadExit, OpenPort, Reconnect, ResponseTimeout, Watchdog,
       Renegotiate, SendHello, PollReliable, SendReliable, SendHeartbeat, SendPing,
       SendControl, CompleteTransmit, IgnoreOlder, HandleFrame
  <2>4. CASE UNCHANGED vars  BY <2>4 DEF vars
  <2> QED BY <2>1, <2>2, <2>3, <2>4 DEF Next
<1>3. faults' = faults \/ faults' = faults + 1
  <2>1. CASE CallNext
    BY <2>1 DEF CallNext, Start, NoteManagedStartupNotReady, Stop, StopRequests,
       StopJoins, Call, QueueReliable, RequestPing, PutControl, CountControl
  <2>2. CASE PeerNext
    BY <2>2 DEF PeerNext, PeerAnswers, LoseFrame, PeerStops, PeerStarts, Fault
  <2>3. CASE IoNext
    BY <2>3 DEF IoNext, ThreadExit, OpenPort, Reconnect, ResponseTimeout, Watchdog,
       Renegotiate, SendHello, PollReliable, SendReliable, SendHeartbeat, SendPing,
       SendControl, CompleteTransmit, IgnoreOlder, HandleFrame, Fault
  <2>4. CASE UNCHANGED vars  BY <2>4 DEF vars
  <2> QED BY <2>1, <2>2, <2>3, <2>4 DEF Next
<1>4. NotStarted'  BY <1>0, <1>1 DEF NotStarted
<1>5. Undisturbed' => Undisturbed /\ faults' = faults
  BY <1>0, <1>1, <1>2, <1>3 DEF Undisturbed, NotStarted
<1>6. ThreadExit => ~Undisturbed  BY DEF ThreadExit, Undisturbed
<1> QED BY <1>4, <1>5, <1>6 DEF LinkInv, QuietInv

\* The balance speaks of the counters, the call, the mailbox and the transmit slot.
LEMMA BalanceKept ==
    ASSUME Balance, UNCHANGED <<metrics, caller, mailbox>>, (ControlFrame' <=> ControlFrame)
    PROVE  Balance'
BY DEF Balance

\* The callers change the counters and the mailbox, and end sessions; no more.
LEMMA QuietCalls ==
    ASSUME LinkInv, Quiet, CallNext \/ UNCHANGED vars
    PROVE  Quiet'
<1> USE DEF requestVars, pingVars, controlVars, lifeVars, statusVars,
        busVars, trackVars, peerVars, lineVars, StopFrame, CallFrame
<1>1. UNCHANGED <<tx, wait, rel, tracker, silent, peer, toPeer, fromPeer, open>>
  BY DEF CallNext, Start, NoteManagedStartupNotReady, Stop, StopRequests, StopJoins, Call,
     QueueReliable, RequestPing, PutControl, CountControl, vars
<1>2. InSession' => InSession
  <2>1. state' = state \/ state' \in {"STOPPING", "CLOSED"}
    BY DEF CallNext, Start, NoteManagedStartupNotReady, Stop, StopRequests, StopJoins, Call,
       QueueReliable, RequestPing, PutControl, CountControl, vars, SetState
  <2> QED BY <2>1 DEF InSession
<1>3. FirstRun' /\ OwnTransaction' /\ PortQuiet'
  BY <1>1 DEF Quiet, FirstRun, OwnTransaction, PortQuiet
<1>4. Greeted'  BY <1>1, <1>2 DEF Quiet, Greeted, SessionFrame, SessionWait
<1>5. LineQuiet'  BY <1>1 DEF Quiet, LineQuiet, Asked, Answered, AwaitedKind
<1>6. Balance'
  <2>0. metrics \in [accepted : Nat, overwritten : Nat, sent : Nat] /\ Balance
    BY DEF LinkInv, UartTypes, UartTypeOK, Quiet
  <2>1. CASE PutControl  BY <1>1, <2>0, <2>1 DEF PutControl, Balance, ControlFrame
  <2>2. CASE CountControl
    <3>1. /\ metrics'.accepted = metrics.accepted + 1 /\ metrics'.sent = metrics.sent
          /\ metrics'.overwritten = IF caller = "countReplaced" THEN metrics.overwritten + 1
                                    ELSE metrics.overwritten
      BY <2>0, <2>2 DEF CountControl
    <3>2. caller' = "idle" /\ mailbox' = mailbox /\ tx' = tx /\ caller \in {"count", "countReplaced"}
      BY <1>1, <2>2 DEF CountControl
    <3>3. /\ metrics.accepted \in Nat /\ metrics.overwritten \in Nat /\ metrics.sent \in Nat
      BY <2>0
    <3> QED BY <2>0, <3>1, <3>2, <3>3 DEF Balance, ControlFrame
  <2>3. CASE Call \/ QueueReliable \/ RequestPing
    <3>1. UNCHANGED <<metrics, mailbox>> /\ caller \notin {"count", "countReplaced"}
          /\ caller' \notin {"count", "countReplaced"}
      BY <2>3 DEF Call, QueueReliable, RequestPing
    <3> QED BY <1>1, <2>0, <3>1 DEF Balance, ControlFrame
  <2>4. CASE Start \/ NoteManagedStartupNotReady \/ Stop \/ StopRequests \/ StopJoins \/ UNCHANGED vars
    <3>1. UNCHANGED <<metrics, mailbox, caller>>
      BY <2>4 DEF Start, NoteManagedStartupNotReady, Stop, StopRequests, StopJoins, vars
    <3> QED BY <1>1, <2>0, <3>1 DEF Balance, ControlFrame
  <2> QED BY <2>1, <2>2, <2>3, <2>4 DEF CallNext
<1> QED BY <1>3, <1>4, <1>5, <1>6 DEF Quiet

\* The controller answers the frame it was sent; nothing else happens on the line.
LEMMA QuietPeer ==
    ASSUME LinkInv, Quiet, PeerNext, faults' = faults
    PROVE  Quiet'
<1> USE DEF requestVars, pingVars, controlVars, lifeVars, statusVars,
        busVars, trackVars, peerVars, lineVars, EnvFrame
<1>0. faults \in Nat /\ ~Fault  BY DEF LinkInv, UartTypes, UartTypeOK, Fault
<1>1. PeerAnswers
  BY <1>0 DEF PeerNext, LoseFrame, PeerStops, PeerStarts, Quiet, FirstRun
<1>2. /\ UNCHANGED <<tx, wait, rel, tracker, silent, open, state, metrics, caller, mailbox>>
      /\ toPeer # <<>> /\ toPeer' = Tail(toPeer)
  BY <1>1 DEF PeerAnswers
<1>3. wait # NoWait /\ fromPeer = <<>> /\ Asked  BY <1>2 DEF Quiet, LineQuiet
<1>4. PICK f \in KnownFrames : toPeer = <<f>> /\ f.type # "CONTROL" /\ wait = [kind |-> Response(f.type), id |-> f.id]
  <2>1. PICK f : toPeer = <<f>> /\ f.type # "CONTROL" /\ wait = [kind |-> Response(f.type), id |-> f.id]
    BY <1>3 DEF Asked
  <2>2. f \in KnownFrames  BY <1>2, <2>1, LineHeads DEF LinkInv
  <2> QED BY <2>1, <2>2
<1>5. toPeer[1] = f /\ toPeer' = <<>>  BY <1>2, <1>4
<1>6. peer.boot = 1 /\ peer.run = 1 /\ peer.alive  BY DEF Quiet, FirstRun
<1>7. f.type # "HELLO" => peer.greeted
  <2>1. f.type # "HELLO" => SessionWait
    BY <1>4 DEF KnownFrames, Frames, Response, SessionWait
  <2> QED BY <2>1 DEF Quiet, Greeted
<1>8. \E type : /\ Reply(type)
                /\ type = Response(f.type) \/ (f.type = "RELIABLE" /\ type \in {"ACK", "NACK"})
                /\ \/ peer' = peer /\ type # "HELLO_ACK"
                   \/ peer' = [peer EXCEPT !.greeted = TRUE]
  BY <1>0, <1>1, <1>5, <1>7 DEF PeerAnswers, Response
<1>9. PICK type : /\ Reply(type)
                  /\ type = Response(f.type) \/ (f.type = "RELIABLE" /\ type \in {"ACK", "NACK"})
                  /\ \/ peer' = peer /\ type # "HELLO_ACK"
                     \/ peer' = [peer EXCEPT !.greeted = TRUE]
  BY <1>8
<1> DEFINE r == [type |-> type, id |-> f.id, boot |-> 1, run |-> 1]
<1>10. fromPeer' = <<r>>  BY <1>3, <1>5, <1>6, <1>9 DEF Reply
<1>11. wait'.kind = AwaitedKind(r) /\ wait'.id = r.id
  <2>1. wait.kind = Response(f.type) /\ wait.id = f.id  BY <1>4
  <2>2. AwaitedKind(r) = Response(f.type)
    BY <1>4, <1>9 DEF AwaitedKind, Response, KnownFrames, Frames
  <2> QED BY <1>2, <2>1, <2>2
<1>12. Answered'
  <2>1. r.boot = 1 /\ r.run = 1  OBVIOUS
  <2> HIDE DEF r
  <2> QED BY <1>10, <1>11, <2>1 DEF Answered, AwaitedKind
<1>13. LineQuiet'  BY <1>2, <1>3, <1>5, <1>12 DEF LineQuiet
<1>14. FirstRun' /\ (peer.greeted => peer'.greeted) /\ (type = "HELLO_ACK" => peer'.greeted)
  <2>1. peer \in [alive : BOOLEAN, run : Boots, boot : Boots, greeted : BOOLEAN]
    BY DEF LinkInv, UartTypes, UartTypeOK
  <2>2. peer'.alive = peer.alive /\ peer'.boot = peer.boot /\ peer'.run = peer.run
    BY <1>9, <2>1
  <2>3. (peer.greeted => peer'.greeted) /\ (type = "HELLO_ACK" => peer'.greeted)
    BY <1>9, <2>1
  <2> QED BY <1>2, <2>2, <2>3 DEF FirstRun, Quiet
<1>15. Greeted'
  <2>1. InSession' = InSession /\ SessionFrame' = SessionFrame /\ SessionWait' = SessionWait
    BY <1>2 DEF InSession, SessionFrame, SessionWait
  <2>2. fromPeer'[1].type = type  BY <1>10
  <2> QED BY <1>14, <2>1, <2>2 DEF Greeted, Quiet
<1>16. OwnTransaction' /\ PortQuiet' /\ Balance'
  BY <1>2 DEF Quiet, OwnTransaction, PortQuiet, Balance, ControlFrame
<1> QED BY <1>13, <1>14, <1>15, <1>16 DEF Quiet

\* Opening, scheduling and sending: the transmit slot, and with it the line, hold one
\* frame, and a control leaves the mailbox for the slot, the slot for the line.
LEMMA QuietSends ==
    ASSUME LinkInv, Quiet, faults' = faults,
           OpenPort \/ Renegotiate \/ SendHello \/ PollReliable \/ SendReliable
           \/ SendHeartbeat \/ SendPing \/ SendControl \/ CompleteTransmit
    PROVE  Quiet'
<1> USE DEF requestVars, pingVars, controlVars, lifeVars, statusVars,
        busVars, trackVars, peerVars, lineVars, LoopFrame
<1>0. ~Fault /\ Balance  BY DEF LinkInv, UartTypes, UartTypeOK, Fault, Quiet
<1>1. peer' = peer /\ caller' = caller
  BY DEF OpenPort, Renegotiate, SendHello, PollReliable, SendReliable, SendHeartbeat,
     SendPing, SendControl, CompleteTransmit
<1>2. CASE OpenPort
  <2>1. /\ ~open /\ open' = TRUE /\ state' = "NEGOTIATING" /\ tx' = <<>> /\ wait' = NoWait
        /\ tracker' = <<>> /\ silent' = FALSE /\ UNCHANGED <<metrics, mailbox, lineVars>>
    BY <1>0, <1>2 DEF OpenPort
  <2>2. wait = NoWait /\ tx = <<>>  BY <2>1 DEF Quiet, PortQuiet
  <2>3. LineQuiet'  BY <2>1, <2>2 DEF Quiet, LineQuiet
  <2>4. Greeted' /\ OwnTransaction' /\ PortQuiet'
    BY <1>1, <2>1, <2>2 DEF Quiet, Greeted, LineQuiet, InSession, SessionFrame,
       SessionWait, OwnTransaction, PortQuiet, NoWait
  <2>5. (ControlFrame' <=> ControlFrame)  BY <2>1, <2>2 DEF ControlFrame
  <2>6. Balance'  BY <1>0, <1>1, <2>1, <2>5, BalanceKept
  <2> QED BY <1>1, <2>1, <2>3, <2>4, <2>6 DEF Quiet, FirstRun
<1>3. CASE Renegotiate
  <2>1. UNCHANGED <<tx, wait, rel, tracker, silent, lineVars, open, metrics, mailbox>> /\ state' = "NEGOTIATING"
    BY <1>3 DEF Renegotiate, SetState
  <2>2. Greeted' /\ FirstRun' /\ OwnTransaction' /\ PortQuiet'
    BY <1>1, <2>1 DEF Quiet, Greeted, InSession, SessionFrame, SessionWait, OwnTransaction, PortQuiet, FirstRun
  <2>3. LineQuiet' /\ Balance'
    BY <1>1, <2>1 DEF Quiet, LineQuiet, Asked, Answered, AwaitedKind, Balance, ControlFrame
  <2> QED BY <2>2, <2>3 DEF Quiet
<1>4. CASE SendHello \/ PollReliable \/ SendReliable \/ SendHeartbeat \/ SendPing \/ SendControl
  <2>1. /\ tx = <<>> /\ wait = NoWait /\ open
        /\ UNCHANGED <<wait, tracker, silent, lineVars, open, metrics, state>>
    BY <1>4 DEF SendHello, PollReliable, SendReliable, SendHeartbeat, SendPing,
       SendControl, NothingReliable, BusFree
  <2>2. LineQuiet'  BY <2>1 DEF Quiet, LineQuiet
  <2>3. FirstRun' /\ PortQuiet'  BY <1>1, <2>1 DEF Quiet, FirstRun, PortQuiet
  <2>4. Greeted'
    <3>1. CASE SendHello
      <4>1. ~SessionFrame'  BY <3>1 DEF SendHello, SessionFrame, Frame
      <4> QED BY <1>1, <2>1, <4>1 DEF Quiet, Greeted, InSession, SessionWait
    <3>2. CASE ~SendHello
      <4>1. InSession
        BY <1>4, <3>2 DEF PollReliable, SendReliable, SendHeartbeat, SendPing, SendControl, NothingReliable
      <4> QED BY <1>1, <2>1, <4>1 DEF Quiet, Greeted
    <3> QED BY <3>1, <3>2
  <2>5. OwnTransaction'
    <3>1. wait'.kind # "RELIABLE"  BY <2>1 DEF NoWait
    <3>2. CASE SendHello \/ SendHeartbeat \/ SendPing \/ SendControl
      <4>1. tx' # <<>> => tx'[1].type # "RELIABLE"
        BY <3>2 DEF SendHello, SendHeartbeat, SendPing, SendControl, Frame
      <4> QED BY <3>1, <4>1 DEF OwnTransaction
    <3>3. CASE SendReliable
      <4>1. rel'[1].id = pending[1] /\ rel' # <<>> /\ tx'[1].id = pending[1]
        BY <3>3 DEF SendReliable, Frame
      <4> QED BY <3>1, <4>1 DEF OwnTransaction
    <3>4. CASE PollReliable /\ MayRetry
      <4>1. rel[1] \in [id : Txns, retries : 0..MaxRetries]
        BY <3>4, OneOf DEF PollReliable, LinkInv, UartTypes, UartTypeOK
      <4>2. rel' = <<[rel[1] EXCEPT !.retries = @ + 1]>> /\ tx' = <<Frame("RELIABLE", rel[1].id)>>
        BY <3>4 DEF PollReliable
      <4>3. rel'[1].id = rel[1].id /\ rel' # <<>> /\ tx'[1].id = rel[1].id
        BY <4>1, <4>2 DEF Frame
      <4> QED BY <3>1, <4>3 DEF OwnTransaction
    <3>5. CASE PollReliable /\ ~MayRetry
      <4>1. tx' = <<>>  BY <2>1, <3>5 DEF PollReliable
      <4> QED BY <3>1, <4>1 DEF OwnTransaction
    <3> QED BY <1>4, <3>2, <3>3, <3>4, <3>5
  <2>6. Balance'
    <3>0. ~ControlFrame  BY <2>1 DEF ControlFrame
    <3>1. CASE SendControl
      <4>1. mailbox = TRUE /\ mailbox' = FALSE /\ ControlFrame'
        BY <3>1, FlagsStep DEF SendControl, ControlFrame, LinkInv, UartTypes, UartTypeOK
      <4>2. metrics \in [accepted : Nat, overwritten : Nat, sent : Nat]
        BY DEF LinkInv, UartTypes, UartTypeOK
      <4>3. metrics.accepted \in Nat /\ metrics.overwritten \in Nat /\ metrics.sent \in Nat
        BY <4>2
      <4> QED BY <1>0, <1>1, <2>1, <3>0, <4>1, <4>3 DEF Balance
    <3>2. CASE ~SendControl
      <4>1. mailbox' = mailbox
        BY <1>4, <3>2 DEF SendHello, PollReliable, SendReliable, SendHeartbeat, SendPing
      <4>2. tx' # <<>> => tx'[1].type # "CONTROL"
        BY <1>4, <2>1, <3>2 DEF SendHello, PollReliable, SendReliable, SendHeartbeat, SendPing, Frame
      <4>3. ~ControlFrame'  BY <4>2 DEF ControlFrame, Frame
      <4> QED BY <1>0, <1>1, <2>1, <3>0, <4>1, <4>3 DEF Balance
    <3> QED BY <3>1, <3>2
  <2> QED BY <2>2, <2>3, <2>4, <2>5, <2>6 DEF Quiet
<1>5. CASE CompleteTransmit
  <2> DEFINE f == tx[1]
  <2>1. /\ tx # <<>> /\ tx' = <<>> /\ open
        /\ UNCHANGED <<rel, tracker, silent, fromPeer, open, mailbox, state>>
    BY <1>5 DEF CompleteTransmit
  <2>2. /\ wait' = IF Response(f.type) = "none" THEN wait ELSE [kind |-> Response(f.type), id |-> f.id]
        /\ toPeer' = IF peer.alive /\ f.type # "CONTROL" THEN Append(toPeer, f) ELSE toPeer
        /\ metrics' = IF f.type = "CONTROL" THEN [metrics EXCEPT !.sent = @ + 1] ELSE metrics
    BY <1>5 DEF CompleteTransmit
  <2>3. wait = NoWait /\ toPeer = <<>> /\ fromPeer = <<>> /\ peer.alive
    BY <2>1 DEF LinkInv, SessionInv, OneUnderWay, Quiet, LineQuiet, FirstRun
  <2>4. f \in Frames /\ tx = <<f>>  BY <2>1, OneOf DEF LinkInv, UartTypes, UartTypeOK
  <2>5. FirstRun' /\ PortQuiet'  BY <1>1, <2>1 DEF Quiet, FirstRun, PortQuiet
  <2>6. CASE f.type = "CONTROL"
    <3>1. wait' = NoWait /\ toPeer' = <<>> /\ f = Frame("CONTROL", 0)
      BY <2>2, <2>3, <2>4, <2>6 DEF Response, Frames, Frame
    <3>2. LineQuiet' /\ OwnTransaction'
      BY <2>1, <2>3, <3>1 DEF LineQuiet, OwnTransaction, NoWait
    <3>3. Greeted'
      BY <1>1, <2>1, <2>3, <3>1 DEF Quiet, Greeted, InSession, SessionFrame, SessionWait, NoWait
    <3>4. Balance'
      <4>1. metrics \in [accepted : Nat, overwritten : Nat, sent : Nat]
        BY DEF LinkInv, UartTypes, UartTypeOK
      <4>2. /\ metrics.accepted \in Nat /\ metrics.overwritten \in Nat /\ metrics.sent \in Nat
            /\ metrics'.accepted = metrics.accepted /\ metrics'.overwritten = metrics.overwritten
            /\ metrics'.sent = metrics.sent + 1
        BY <2>2, <2>6, <4>1
      <4>3. ControlFrame /\ ~ControlFrame'  BY <2>1, <2>4, <3>1 DEF ControlFrame
      <4> QED BY <1>0, <1>1, <2>1, <4>2, <4>3 DEF Balance
    <3> QED BY <2>5, <3>2, <3>3, <3>4 DEF Quiet
  <2>7. CASE f.type # "CONTROL"
    <3>1. /\ Response(f.type) # "none" /\ toPeer' = <<f>>
          /\ wait' = [kind |-> Response(f.type), id |-> f.id] /\ metrics' = metrics
      BY <2>2, <2>3, <2>4, <2>7 DEF Response, Frames
    <3>2. wait' # NoWait  BY <3>1 DEF NoWait
    <3>3. LineQuiet'
      <4>1. Asked'
        <5> HIDE DEF f
        <5> QED BY <2>7, <3>1 DEF Asked
      <4> QED BY <2>1, <2>3, <3>2, <4>1 DEF LineQuiet
    <3>4. OwnTransaction'
      <4>1. wait'.kind = "RELIABLE" => f.type = "RELIABLE" /\ wait'.id = f.id
        BY <2>4, <3>1 DEF Response, Frames
      <4> QED BY <2>1, <4>1 DEF Quiet, OwnTransaction
    <3>5. Greeted'
      <4>1. SessionWait' => SessionFrame
        BY <2>1, <2>4, <3>1 DEF SessionWait, SessionFrame, Response, Frames
      <4> QED BY <1>1, <2>1, <4>1 DEF Quiet, Greeted, InSession, SessionFrame
    <3>6. Balance'
      <4>1. ~ControlFrame /\ ~ControlFrame'  BY <2>1, <2>4, <2>7 DEF ControlFrame, Frame
      <4> QED BY <1>0, <1>1, <2>1, <3>1, <4>1, BalanceKept
    <3> QED BY <2>5, <3>3, <3>4, <3>5, <3>6 DEF Quiet
  <2> QED BY <2>6, <2>7
<1> QED BY <1>2, <1>3, <1>4, <1>5

\* The only frame that can be handled is the awaited answer.
LEMMA QuietHandles ==
    ASSUME LinkInv, Quiet, IgnoreOlder \/ HandleFrame
    PROVE  Quiet'
<1> USE DEF requestVars, pingVars, controlVars, lifeVars, statusVars,
        busVars, trackVars, peerVars, lineVars, LoopFrame
<1> DEFINE f == fromPeer[1]
<1>1. fromPeer # <<>> /\ fromPeer' = Tail(fromPeer) /\ toPeer' = toPeer
  BY DEF IgnoreOlder, HandleFrame
<1>2. wait # NoWait /\ toPeer = <<>> /\ Answered  BY <1>1 DEF Quiet, LineQuiet, Asked
<1>3. /\ fromPeer = <<f>> /\ f.boot = 1 /\ f.run = 1
      /\ wait.kind = AwaitedKind(f) /\ wait.id = f.id
  <2>1. PICK r : fromPeer = <<r>> /\ r.boot = 1 /\ r.run = 1
                 /\ wait.kind = AwaitedKind(r) /\ wait.id = r.id
    BY <1>2 DEF Answered
  <2>2. f = r  BY <2>1
  <2> QED BY <2>1, <2>2
<1>4. fromPeer' = <<>> /\ toPeer' = <<>>
  <2> HIDE DEF f
  <2> QED BY <1>1, <1>2, <1>3
<1>5. ~BootChanged(f) /\ ~MayBeOlder(f)
  BY <1>3 DEF Quiet, FirstRun, BootChanged, MayBeOlder
<1>6. HandleFrame  BY <1>5 DEF IgnoreOlder
<1>7. f.type \in ReplyTypes /\ wait \in WaitTypes
  BY <1>1, LineHeads DEF LinkInv, UartTypes, UartTypeOK, TrueReplies, WaitTypes
<1>8. f.type \in {"HELLO_ACK", "STATUS", "PONG", "ACK", "NACK"} /\ wait = [kind |-> AwaitedKind(f), id |-> f.id]
  <2>1. f.type # "HELLO_REFUSED" /\ f.type # "HELLO_UNFIT"
    BY <1>3, <1>7 DEF AwaitedKind, WaitTypes
  <2>2. wait = [kind |-> wait.kind, id |-> wait.id]  BY <1>7 DEF WaitTypes
  <2> QED BY <1>3, <1>7, <2>1, <2>2 DEF ReplyTypes
<1>9. WaitAfter(f) = wait /\ RelAfter(f) = rel  BY <1>5 DEF WaitAfter, RelAfter
<1>10. Answers(f)
  <2>1. CASE f.type \in {"HELLO_ACK", "PONG"}
    BY <1>8, <1>9, <2>1 DEF Answers, AwaitedKind
  <2>2. CASE f.type = "STATUS"  BY <1>3, <1>9, <2>2 DEF Answers, AwaitedKind
  <2>3. CASE f.type \in {"ACK", "NACK"}
    <3>1. wait.kind = "RELIABLE"  BY <1>3, <2>3 DEF AwaitedKind
    <3>2. rel # <<>> /\ rel[1].id = f.id  BY <1>3, <3>1 DEF Quiet, OwnTransaction
    <3> QED BY <1>9, <2>3, <3>1, <3>2 DEF Answers
  <2> QED BY <1>8, <2>1, <2>2, <2>3
<1>11. /\ tracker' = <<[boot |-> f.boot, run |-> f.run]>> /\ tx' = tx /\ wait' = NoWait
       /\ silent' = FALSE /\ UNCHANGED <<peer, open, metrics, mailbox, caller>>
  <2>1. tracker' = <<[boot |-> f.boot, run |-> f.run]>> /\ silent' = FALSE
        /\ UNCHANGED <<peer, open, metrics, mailbox, caller>>
    BY <1>6 DEF HandleFrame
  <2>2. tx' = (IF BootChanged(f) THEN <<>> ELSE tx) /\ wait' = IF Answers(f) THEN NoWait ELSE WaitAfter(f)
    BY <1>6 DEF HandleFrame
  <2> QED BY <1>5, <1>10, <2>1, <2>2
<1>12. tx = <<>>  BY <1>2 DEF LinkInv, SessionInv, OneUnderWay
<1>13. peer.greeted
  <2>1. f.type # "HELLO_ACK" => SessionWait  BY <1>3, <1>8 DEF AwaitedKind, SessionWait
  <2> QED BY <1>1, <2>1 DEF Quiet, Greeted
<1>14. FirstRun'
  <2>1. tracker'[1].boot = 1 /\ tracker'[1].run = 1  BY <1>3, <1>11
  <2> QED BY <1>11, <2>1 DEF Quiet, FirstRun
<1>15. Greeted' /\ OwnTransaction' /\ PortQuiet' /\ LineQuiet'
  BY <1>4, <1>11, <1>12, <1>13 DEF Greeted, OwnTransaction, PortQuiet, LineQuiet, NoWait
<1>16. Balance'
  <2>1. ControlFrame' <=> ControlFrame  BY <1>11 DEF ControlFrame
  <2> QED BY <1>11, <2>1, BalanceKept DEF Quiet
<1> QED BY <1>14, <1>15, <1>16 DEF Quiet

\* Without a fault nothing ends a session, resets the port or expires a window.
LEMMA QuietStep ==
    ASSUME LinkInv, [Next]_vars
    PROVE  QuietInv'
<1>1. NotStarted'  BY UndisturbedBefore
<1>2. ASSUME Undisturbed'
      PROVE  Quiet'
  <2>1. Quiet /\ faults' = faults /\ ~ThreadExit  BY <1>2, UndisturbedBefore
  <2>2. ~Fault  BY <2>1 DEF LinkInv, UartTypes, UartTypeOK, Fault
  <2>3. ~Reconnect /\ ~Watchdog  BY <2>1, <2>2 DEF Reconnect, Watchdog, Quiet, FirstRun
  <2>4. ~ResponseTimeout
    BY <2>1, <2>2 DEF ResponseTimeout, Quiet, LineQuiet, Asked, Answered
  <2>5. CASE CallNext \/ UNCHANGED vars  BY <2>1, <2>5, QuietCalls
  <2>6. CASE PeerNext  BY <2>1, <2>6, QuietPeer
  <2>7. CASE IoNext  BY <2>1, <2>3, <2>4, <2>7, QuietSends, QuietHandles DEF IoNext
  <2> QED BY <2>5, <2>6, <2>7 DEF Next
<1> QED BY <1>1, <1>2 DEF QuietInv

\* Without a fault and before the link is stopped no accepted control is lost: it was
\* overwritten by a newer one, was sent, or is in the mailbox or the transmit slot.
THEOREM ControlsAccounted == Spec => []ControlsBalance
<1>1. Init => LinkInv
  <2>1. Init => SessionInv
    BY DEF Init, SessionInv, OneUnderWay, OneBoot, HelloFirst, HealthTold,
       SessionFrame, SessionWait, HelloFrame, InSession, NoWait
  <2>2. Init => QuietInv
    BY DEF Init, QuietInv, NotStarted, Undisturbed, Quiet, FirstRun, Greeted, OwnTransaction,
       LineQuiet, PortQuiet, Balance, ControlFrame, InSession, SessionFrame, SessionWait, NoWait
  <2> QED BY <2>1, <2>2, InitTypes DEF LinkInv
<1>2. LinkInv /\ [Next]_vars => LinkInv'
  <2>1. UartTypes /\ SessionInv /\ [Next]_vars => SessionInv'
    BY SessionCalls, SessionEnds, SessionSends, SessionHandles DEF Next, IoNext
  <2> QED BY <2>1, TypesStep, QuietStep DEF LinkInv
<1>3. LinkInv => ControlsBalance
  BY DEF LinkInv, QuietInv, Undisturbed, Quiet, Balance, ControlFrame, ControlsBalance
<1> QED BY <1>1, <1>2, <1>3, PTL DEF Spec

--------------------------------------------------------------------------------
(* Counting, and sequences joined to one                                     *)

\* Every set of natural numbers has a least one.
LEMMA LeastNumber ==
    ASSUME NEW T, T \subseteq Nat, T # {}
    PROVE  \E x \in T : \A y \in T : x <= y
<1> DEFINE R == OpToRel(<, Nat)
<1>1. \E x \in T : \A y \in T : ~(<<y, x>> \in R)
  <2>1. IsWellFoundedOn(R, Nat)  BY NatLessThanWellFounded
  <2> HIDE DEF R
  <2> QED BY <2>1, WFMin
<1>2. \A y, x \in Nat : y < x => <<y, x>> \in R  BY DEF OpToRel
<1> HIDE DEF R
<1>3. PICK x \in T : \A y \in T : ~(<<y, x>> \in R)  BY <1>1
<1>4. \A y \in T : ~(y < x)  BY <1>2, <1>3
<1> QED BY <1>4

\* Induction: a set that holds 1, and with a number the next, holds all from 1 on.
LEMMA CountsUp ==
    ASSUME NEW S, 1 \in S, \A n \in Nat \ {0} : n \in S => n + 1 \in S
    PROVE  \A n \in Nat \ {0} : n \in S
<1> SUFFICES ASSUME \E n \in Nat \ {0} : n \notin S PROVE FALSE  OBVIOUS
<1>1. PICK n \in (Nat \ {0}) \ S : \A m \in (Nat \ {0}) \ S : n <= m  BY LeastNumber
<1>2. n # 1 /\ n - 1 \in Nat \ {0}  OBVIOUS
<1>3. n - 1 \in S  BY <1>1, <1>2
<1> QED BY <1>2, <1>3

\* What is left when the first i sequences of several are joined, for each i.
Joined(seqs, g, n) ==
    g[1] = seqs[1] /\ \A i \in 2..n : g[i] = g[i - 1] \o seqs[i]

\* The partial concatenations of a sequence of sequences exist.
LEMMA JoinedExists ==
    ASSUME NEW X, NEW seqs \in Seq(Seq(X)), NEW n \in Nat \ {0}
    PROVE  n <= Len(seqs) => \E g \in [1..n -> Seq(X)] : Joined(seqs, g, n)
<1> DEFINE S == {m \in Nat \ {0} : m <= Len(seqs) => \E g \in [1..m -> Seq(X)] : Joined(seqs, g, m)}
<1>1. 1 \in S
  <2>1. ASSUME 1 <= Len(seqs) PROVE \E g \in [1..1 -> Seq(X)] : Joined(seqs, g, 1)
    <3>1. [i \in 1..1 |-> seqs[1]] \in [1..1 -> Seq(X)]  BY <2>1
    <3>2. Joined(seqs, [i \in 1..1 |-> seqs[1]], 1)  BY DEF Joined
    <3> QED BY <3>1, <3>2
  <2> QED BY <2>1
<1>2. ASSUME NEW m \in Nat \ {0}, m \in S PROVE m + 1 \in S
  <2>1. ASSUME m + 1 <= Len(seqs) PROVE \E g \in [1..m + 1 -> Seq(X)] : Joined(seqs, g, m + 1)
    <3>1. PICK g \in [1..m -> Seq(X)] : Joined(seqs, g, m)  BY <1>2, <2>1
    <3> DEFINE h == [i \in 1..m + 1 |-> IF i <= m THEN g[i] ELSE g[m] \o seqs[m + 1]]
    <3>2. h \in [1..m + 1 -> Seq(X)]
      <4>1. seqs[m + 1] \in Seq(X) /\ g[m] \in Seq(X)  BY <2>1
      <4>2. g[m] \o seqs[m + 1] \in Seq(X)  BY <4>1
      <4> QED BY <4>2
    <3>3. Joined(seqs, h, m + 1)
      <4>1. h[1] = seqs[1]  BY <3>1 DEF Joined
      <4>2. ASSUME NEW i \in 2..m + 1 PROVE h[i] = h[i - 1] \o seqs[i]
        <5>1. i - 1 \in 1..m /\ i \in 1..m + 1 /\ h[i - 1] = g[i - 1]  BY <4>2
        <5>2. CASE i <= m
          <6>1. i \in 2..m /\ h[i] = g[i]  BY <5>1, <5>2
          <6>2. g[i] = g[i - 1] \o seqs[i]  BY <3>1, <6>1 DEF Joined
          <6> HIDE DEF h
          <6> QED BY <5>1, <6>1, <6>2
        <5>3. CASE i = m + 1
          <6>1. h[i] = g[m] \o seqs[m + 1] /\ i - 1 = m  BY <5>1, <5>3
          <6> HIDE DEF h
          <6>2. h[i - 1] = g[m]  BY <5>1, <6>1
          <6>3. seqs[i] = seqs[m + 1]  BY <5>3
          <6> QED BY <6>1, <6>2, <6>3
        <5>4. i <= m \/ i = m + 1  OBVIOUS
        <5> HIDE DEF h
        <5> QED BY <5>2, <5>3, <5>4
      <4> QED BY <4>1, <4>2 DEF Joined
    <3> QED BY <3>2, <3>3
  <2> QED BY <2>1
<1>3. n \in S
  <2> HIDE DEF S
  <2> QED BY <1>1, <1>2, CountsUp
<1> QED BY <1>3

\* FlattenSeq joins them all.
LEMMA FlattenJoins ==
    ASSUME NEW X, NEW seqs \in Seq(Seq(X)), seqs # <<>>
    PROVE  \E g \in [1..Len(seqs) -> Seq(X)] :
              Joined(seqs, g, Len(seqs)) /\ FlattenSeq(seqs) = g[Len(seqs)]
<1> DEFINE n == Len(seqs)
           Body(h) == [i \in 1..n |-> IF i = 1 THEN seqs[i] ELSE h[i - 1] \o seqs[i]]
           F == CHOOSE h : h = Body(h)
<1>1. n \in Nat \ {0}  OBVIOUS
<1>2. PICK g \in [1..n -> Seq(X)] : Joined(seqs, g, n)  BY <1>1, JoinedExists
<1>3. g = Body(g)
  <2>1. ASSUME NEW i \in 1..n PROVE g[i] = Body(g)[i]
    <3>1. Body(g)[i] = IF i = 1 THEN seqs[i] ELSE g[i - 1] \o seqs[i]  OBVIOUS
    <3> HIDE DEF Body
    <3>2. g[1] = seqs[1] /\ \A k \in 2..n : g[k] = g[k - 1] \o seqs[k]
      BY <1>2 DEF Joined
    <3>3. CASE i = 1  BY <3>1, <3>2, <3>3
    <3>4. CASE i # 1
      <4>1. i \in 2..n  BY <1>1, <3>4
      <4> HIDE DEF n
      <4> QED BY <3>1, <3>2, <3>4, <4>1
    <3> QED BY <3>3, <3>4
  <2>2. DOMAIN g = 1..n /\ DOMAIN Body(g) = 1..n /\ g = [i \in 1..n |-> g[i]]
        /\ Body(g) = [i \in 1..n |-> Body(g)[i]]
    BY <1>2
  <2> HIDE DEF Body
  <2> QED BY <2>1, <2>2
<1>4. FlattenSeq(seqs) = F[n]  BY <1>1 DEF FlattenSeq
<1>5. F = Body(F)  BY <1>3
<1>6. \A i \in 1..n : F[i] = IF i = 1 THEN seqs[i] ELSE F[i - 1] \o seqs[i]
  <2> HIDE DEF F
  <2> QED BY <1>5
<1> HIDE DEF F
<1>7. \A i \in 1..n : F[i] = g[i]
  <2> DEFINE S == {i \in Nat \ {0} : i <= n => F[i] = g[i]}
  <2>1. 1 \in S  BY <1>1, <1>2, <1>6 DEF Joined
  <2>2. ASSUME NEW i \in Nat \ {0}, i \in S PROVE i + 1 \in S
    <3> SUFFICES ASSUME i + 1 <= n PROVE F[i + 1] = g[i + 1]  OBVIOUS
    <3>1. F[i] = g[i]  BY <1>1, <2>2
    <3>2. i + 1 \in 1..n /\ i + 1 \in 2..n /\ i + 1 # 1 /\ (i + 1) - 1 = i
      BY <1>1, <2>2
    <3>3. F[i + 1] = F[i] \o seqs[i + 1]  BY <1>6, <3>2
    <3>4. \A k \in 2..n : g[k] = g[k - 1] \o seqs[k]  BY <1>2 DEF Joined
    <3>5. g[i + 1] = g[i] \o seqs[i + 1]
      <4> HIDE DEF n
      <4> QED BY <3>2, <3>4
    <3> QED BY <3>1, <3>3, <3>5
  <2>3. \A i \in Nat \ {0} : i \in S
    <3> HIDE DEF S
    <3> QED BY <2>1, <2>2, CountsUp
  <2> QED BY <1>1, <2>3
<1>8. F[n] = g[n]  BY <1>1, <1>7
<1> QED BY <1>2, <1>4, <1>8

\* Where each sequence lies when they are joined: one behind the other, and nothing between.
Laid(seqs, flat, P, n) ==
    /\ P[1] = 0 /\ Len(flat) = P[n] + Len(seqs[n])
    /\ \A i \in 1..n : i < n => P[i + 1] = P[i] + Len(seqs[i])
    /\ \A i, k \in 1..n : i < k => P[i] + Len(seqs[i]) <= P[k]
    /\ \A i \in 1..n : P[i] + Len(seqs[i]) <= Len(flat)
    /\ \A i \in 1..n : \A j \in 1..Len(seqs[i]) : flat[P[i] + j] = seqs[i][j]
    /\ \A q \in 1..Len(flat) : \E i \in 1..n : \E j \in 1..Len(seqs[i]) : q = P[i] + j

\* One sequence more.
LEMMA OneMoreLaid ==
    ASSUME NEW X, NEW seqs \in Seq(Seq(X)), NEW m \in Nat \ {0}, m + 1 <= Len(seqs),
           NEW P \in [1..Len(seqs) -> Nat], NEW flat \in Seq(X), Laid(seqs, flat, P, m),
           P[m + 1] = Len(flat)
    PROVE  Laid(seqs, flat \o seqs[m + 1], P, m + 1)
<1> DEFINE s == seqs[m + 1]
           new == flat \o s
<1>1. /\ s \in Seq(X) /\ Len(s) \in Nat /\ Len(flat) \in Nat /\ new \in Seq(X)
      /\ Len(new) = Len(flat) + Len(s)
      /\ \A q \in 1..Len(flat) : new[q] = flat[q]
      /\ \A j \in 1..Len(s) : new[Len(flat) + j] = s[j]
  OBVIOUS
<1>2. /\ \A i \in 1..m : i \in 1..Len(seqs) /\ P[i] \in Nat /\ Len(seqs[i]) \in Nat
      /\ m + 1 \in 1..Len(seqs) /\ P[m + 1] = Len(flat)
  <2>1. Len(seqs) \in Nat /\ \A i \in 1..Len(seqs) : seqs[i] \in Seq(X)  OBVIOUS
  <2>2. \A i \in 1..Len(seqs) : Len(seqs[i]) \in Nat /\ P[i] \in Nat
    <3> SUFFICES ASSUME NEW i \in 1..Len(seqs) PROVE Len(seqs[i]) \in Nat /\ P[i] \in Nat
      OBVIOUS
    <3>1. seqs[i] \in Seq(X)  BY <2>1
    <3>2. Len(seqs[i]) \in Nat  BY <3>1
    <3> QED BY <3>2
  <2>3. m + 1 \in 1..Len(seqs) /\ \A i \in 1..m : i \in 1..Len(seqs)  BY <2>1
  <2> QED BY <2>2, <2>3
<1> HIDE DEF new, s
<1>3. /\ P[1] = 0 /\ Len(flat) = P[m] + Len(seqs[m])
      /\ \A i \in 1..m : i < m => P[i + 1] = P[i] + Len(seqs[i])
      /\ \A i, k \in 1..m : i < k => P[i] + Len(seqs[i]) <= P[k]
      /\ \A i \in 1..m : P[i] + Len(seqs[i]) <= Len(flat)
      /\ \A i \in 1..m : \A j \in 1..Len(seqs[i]) : flat[P[i] + j] = seqs[i][j]
      /\ \A q \in 1..Len(flat) : \E i \in 1..m : \E j \in 1..Len(seqs[i]) : q = P[i] + j
  BY DEF Laid
<1>4. Len(new) = P[m + 1] + Len(seqs[m + 1])  BY <1>1, <1>2 DEF s
<1>5. ASSUME NEW i \in 1..m + 1, i < m + 1 PROVE P[i + 1] = P[i] + Len(seqs[i])
  <2>1. CASE i < m
    <3>1. i \in 1..m  BY <2>1
    <3> QED BY <1>3, <2>1, <3>1
  <2>2. CASE i = m  BY <1>2, <1>3, <2>2
  <2> QED BY <1>5, <2>1, <2>2
<1>6. ASSUME NEW i \in 1..m + 1, NEW k \in 1..m + 1, i < k PROVE P[i] + Len(seqs[i]) <= P[k]
  <2>1. i \in 1..m  BY <1>6
  <2>2. CASE k \in 1..m  BY <1>3, <1>6, <2>1, <2>2
  <2>3. CASE k = m + 1  BY <1>2, <1>3, <2>1, <2>3
  <2> QED BY <2>2, <2>3
<1>7. ASSUME NEW i \in 1..m + 1 PROVE P[i] + Len(seqs[i]) <= Len(new)
  <2>1. CASE i \in 1..m
    <3>1. P[i] + Len(seqs[i]) <= Len(flat) /\ P[i] \in Nat /\ Len(seqs[i]) \in Nat
      BY <1>2, <1>3, <2>1
    <3> QED BY <1>1, <3>1
  <2>2. CASE i = m + 1
    <3>1. P[m + 1] \in Nat /\ Len(seqs[m + 1]) \in Nat  BY <1>1, <1>2 DEF s
    <3> QED BY <1>4, <2>2, <3>1
  <2> QED BY <2>1, <2>2
<1>8. ASSUME NEW i \in 1..m + 1, NEW j \in 1..Len(seqs[i]) PROVE new[P[i] + j] = seqs[i][j]
  <2>1. CASE i \in 1..m
    <3>1. P[i] + Len(seqs[i]) <= Len(flat) /\ P[i] \in Nat /\ Len(seqs[i]) \in Nat
      BY <1>2, <1>3, <2>1
    <3>2. P[i] + j \in 1..Len(flat)
      <4>1. Len(flat) \in Nat /\ j \in Int /\ 1 <= j /\ j <= Len(seqs[i])  BY <1>1, <3>1
      <4> QED BY <3>1, <4>1
    <3>3. flat[P[i] + j] = seqs[i][j]  BY <1>3, <2>1
    <3> QED BY <1>1, <3>2, <3>3
  <2>2. CASE i = m + 1  BY <1>1, <1>2, <2>2 DEF s
  <2> QED BY <2>1, <2>2
<1>9. ASSUME NEW q \in 1..Len(new)
      PROVE  \E i \in 1..m + 1 : \E j \in 1..Len(seqs[i]) : q = P[i] + j
  <2>1. CASE q <= Len(flat)
    <3>0. q \in 1..Len(flat)  BY <1>1, <2>1
    <3>1. PICK i \in 1..m : \E j \in 1..Len(seqs[i]) : q = P[i] + j  BY <1>3, <3>0
    <3>2. i \in 1..m + 1  OBVIOUS
    <3> QED BY <3>1, <3>2
  <2>2. CASE q > Len(flat)
    <3>1. q - Len(flat) \in 1..Len(s) /\ q = P[m + 1] + (q - Len(flat))
      <4>1. P[m + 1] = Len(flat)  OBVIOUS
      <4> QED BY <1>1, <2>2, <4>1
    <3>2. m + 1 \in 1..m + 1 /\ Len(s) = Len(seqs[m + 1])  BY DEF s
    <3> QED BY <3>1, <3>2
  <2> QED BY <1>1, <2>1, <2>2
<1> QED BY <1>3, <1>4, <1>5, <1>6, <1>7, <1>8, <1>9 DEF Laid, new, s

\* Where the parts of a flattened sequence lie.
LEMMA FlattenLays ==
    ASSUME NEW X, NEW seqs \in Seq(Seq(X)), seqs # <<>>
    PROVE  /\ FlattenSeq(seqs) \in Seq(X)
           /\ \E P \in [1..Len(seqs) -> Nat] : Laid(seqs, FlattenSeq(seqs), P, Len(seqs))
<1> DEFINE n == Len(seqs)
<1>1. n \in Nat \ {0}  OBVIOUS
<1>2. PICK g \in [1..n -> Seq(X)] : Joined(seqs, g, n) /\ FlattenSeq(seqs) = g[n]
  BY FlattenJoins
<1> DEFINE P == [i \in 1..n |-> IF i = 1 THEN 0 ELSE Len(g[i - 1])]
<1>3. P \in [1..n -> Nat]
  <2>1. ASSUME NEW i \in 1..n, i # 1 PROVE Len(g[i - 1]) \in Nat
    <3>1. i - 1 \in 1..n  BY <1>1, <2>1
    <3>2. g[i - 1] \in Seq(X)  BY <3>1
    <3> QED BY <3>2
  <2> QED BY <2>1
<1>4. P[1] = 0 /\ \A i \in 1..n : i < n => P[i + 1] = Len(g[i])  BY <1>1
<1> HIDE DEF P
<1> DEFINE S == {m \in Nat \ {0} : m <= n => Laid(seqs, g[m], P, m)}
<1>5. 1 \in S
  <2>1. g[1] = seqs[1] /\ seqs[1] \in Seq(X) /\ Len(seqs[1]) \in Nat
    BY <1>1, <1>2 DEF Joined
  <2>2. \A q \in 1..Len(seqs[1]) : q = P[1] + q  BY <1>4, <2>1
  <2>3. Laid(seqs, g[1], P, 1)  BY <1>1, <1>4, <2>1, <2>2 DEF Laid
  <2> QED BY <2>3
<1>6. ASSUME NEW m \in Nat \ {0}, m \in S PROVE m + 1 \in S
  <2> SUFFICES ASSUME m + 1 <= n PROVE Laid(seqs, g[m + 1], P, m + 1)  OBVIOUS
  <2>1. m \in 1..n /\ m < n /\ g[m] \in Seq(X) /\ Laid(seqs, g[m], P, m)
    <3>1. m \in 1..n /\ m < n /\ m <= n  BY <1>1
    <3> QED BY <1>6, <3>1
  <2>2. P[m + 1] = Len(g[m])  BY <1>4, <2>1
  <2>3. g[m + 1] = g[m] \o seqs[m + 1]
    <3>1. m + 1 \in 2..n /\ (m + 1) - 1 = m  BY <1>1, <2>1
    <3>2. \A k \in 2..n : g[k] = g[k - 1] \o seqs[k]  BY <1>2 DEF Joined
    <3> HIDE DEF n
    <3> QED BY <3>1, <3>2
  <2>4. Laid(seqs, g[m] \o seqs[m + 1], P, m + 1)  BY <1>3, <2>1, <2>2, OneMoreLaid
  <2> QED BY <2>3, <2>4
<1>7. n \in S
  <2> HIDE DEF S
  <2> QED BY <1>1, <1>5, <1>6, CountsUp
<1>8. Laid(seqs, g[n], P, n) /\ g[n] \in Seq(X)
  <2>1. n <= n /\ n \in 1..n  BY <1>1
  <2> QED BY <1>7, <2>1
<1> QED BY <1>2, <1>3, <1>8

--------------------------------------------------------------------------------
(* The order of the bytes on the line                                       *)

\* Bytes: those of a frame have its number, which is not 0.
Bytes == {<<k, f, i>> : k \in {"flag", "escape", "plain", "flagValue", "escValue"},
                        f \in 0..Len(Bodies), i \in Nat}
Cells == [byte : Bytes, frame : 1..Len(Bodies), opening : BOOLEAN]
Token(b) == b[2] # 0
Parsers == [collecting : BOOLEAN, escape : BOOLEAN, discard : BOOLEAN, active : BOOLEAN,
            raw : Seq(Bytes)]

\* A byte of a frame is sent before another.
Sooner(a, b) == Token(a) /\ Token(b) => a[2] < b[2] \/ (a[2] = b[2] /\ a[3] < b[3])

\* Each byte's parts.
LEMMA BytesAre ==
    /\ \A b \in Bytes : b[2] \in 0..Len(Bodies) /\ b[3] \in Nat
    /\ Flag \in Bytes /\ Escape \in Bytes /\ <<"plain", 0, 0>> \in Bytes
    /\ NoiseBytes \subseteq Bytes /\ \A b \in NoiseBytes : ~Token(b)
    /\ Len(Bodies) \in Nat
<1>1. Len(Bodies) \in Nat  BY FramingAssumption
<1>2. \A b \in Bytes : b[2] \in 0..Len(Bodies) /\ b[3] \in Nat  BY DEF Bytes
<1>3. /\ <<"flag", 0, 0>> \in Bytes /\ <<"escape", 0, 0>> \in Bytes
      /\ <<"plain", 0, 0>> \in Bytes /\ <<"flagValue", 0, 0>> \in Bytes
  BY <1>1 DEF Bytes
<1>4. \A b \in NoiseBytes : ~Token(b)  BY DEF NoiseBytes, Token, Flag, Escape
<1> QED BY <1>1, <1>2, <1>3, <1>4 DEF NoiseBytes, Flag, Escape

\* A frame's bytes.
LEMMA RawFrameIs ==
    ASSUME NEW f \in 1..Len(Bodies)
    PROVE  /\ Bodies[f] \in Seq(ByteKinds) /\ Len(Bodies[f]) \in Nat \ {0}
           /\ Len(Bodies[f]) <= MaxRaw
           /\ RawFrame(f) \in Seq(Bytes) /\ Len(RawFrame(f)) = Len(Bodies[f])
           /\ \A i \in 1..Len(Bodies[f]) :
                 /\ Bodies[f][i] \in ByteKinds
                 /\ RawFrame(f)[i] = <<Bodies[f][i], f, i>>
                 /\ RawFrame(f)[i] \in Bytes /\ Token(RawFrame(f)[i])
<1>1. /\ Bodies[f] \in Seq(ByteKinds) /\ Bodies[f] # <<>> /\ Len(Bodies[f]) <= MaxRaw
  BY FramingAssumption
<1>2. Len(Bodies[f]) \in Nat \ {0} /\ \A i \in 1..Len(Bodies[f]) : Bodies[f][i] \in ByteKinds
  BY <1>1
<1>3. ASSUME NEW i \in 1..Len(Bodies[f])
      PROVE  <<Bodies[f][i], f, i>> \in Bytes /\ Token(<<Bodies[f][i], f, i>>)
  <2>1. Bodies[f][i] \in {"flag", "escape", "plain", "flagValue", "escValue"}
    BY <1>2 DEF ByteKinds
  <2>2. f \in 0..Len(Bodies) /\ i \in Nat /\ f # 0  BY <1>2, BytesAre
  <2> QED BY <2>1, <2>2 DEF Bytes, Token
<1>4. /\ RawFrame(f) = [i \in 1..Len(Bodies[f]) |-> <<Bodies[f][i], f, i>>]
  BY <1>1 DEF RawFrame
<1>5. RawFrame(f) \in Seq(Bytes) /\ Len(RawFrame(f)) = Len(Bodies[f])
  BY <1>2, <1>3, <1>4
<1> QED BY <1>1, <1>2, <1>3, <1>4, <1>5

\* The frame that is decoded is the one the raw bytes are.
LEMMA DecodedIs ==
    ASSUME NEW raw
    PROVE  /\ DecodeRawFrame(raw) # 0 => /\ DecodeRawFrame(raw) \in 1..Len(Bodies)
                                         /\ raw = RawFrame(DecodeRawFrame(raw))
           /\ \A f \in 1..Len(Bodies) : raw = RawFrame(f) => DecodeRawFrame(raw) = f
<1> DEFINE fits == {f \in 1..Len(Bodies) : raw = RawFrame(f)}
<1>1. DecodeRawFrame(raw) = IF fits = {} THEN 0 ELSE CHOOSE f \in fits : TRUE
  <2>1. DOMAIN Bodies = 1..Len(Bodies)  BY FramingAssumption
  <2> QED BY <2>1 DEF DecodeRawFrame
<1>2. ASSUME NEW f \in 1..Len(Bodies), raw = RawFrame(f), NEW g \in fits PROVE g = f
  <2>1. RawFrame(f)[1] = <<Bodies[f][1], f, 1>> /\ RawFrame(g)[1] = <<Bodies[g][1], g, 1>>
    <3>1. 1 \in 1..Len(Bodies[f]) /\ 1 \in 1..Len(Bodies[g])  BY RawFrameIs
    <3> QED BY <3>1, RawFrameIs
  <2> QED BY <1>2, <2>1
<1>3. fits # {} => (CHOOSE f \in fits : TRUE) \in fits  OBVIOUS
<1> DEFINE d == CHOOSE f \in fits : TRUE
<1>4. ASSUME fits # {} PROVE d \in 1..Len(Bodies) /\ raw = RawFrame(d)  BY <1>3, <1>4
<1>5. \A f \in 1..Len(Bodies) : raw = RawFrame(f) => f \in fits  OBVIOUS
<1> HIDE DEF fits, d
<1>6. fits = {} => DecodeRawFrame(raw) = 0  BY <1>1
<1>7. fits # {} => DecodeRawFrame(raw) = d  BY <1>1 DEF d
<1>8. ASSUME NEW f \in 1..Len(Bodies), raw = RawFrame(f) PROVE DecodeRawFrame(raw) = f
  <2>1. f \in fits  BY <1>5, <1>8
  <2>2. d \in fits  BY <1>3, <2>1 DEF d
  <2> QED BY <1>2, <1>7, <1>8, <2>1, <2>2
<1> QED BY <1>4, <1>6, <1>7, <1>8

--------------------------------------------------------------------------------
(* A frame as it is sent                                                    *)

Width(f, t) == IF Bodies[f][t] = "plain" THEN 1 ELSE 2

\* Where the bytes of a frame are sent: byte t before place P[t + 1], behind its escape.
Escaped(f, bytes, P) ==
    /\ P \in [1..Len(Bodies[f]) + 1 -> Nat] /\ P[1] = 0
    /\ Len(bytes) = P[Len(Bodies[f]) + 1] + 2
    /\ bytes[1] = Flag /\ bytes[Len(bytes)] = Flag
    /\ \A t \in 1..Len(Bodies[f]) :
          /\ P[t + 1] = P[t] + Width(f, t) /\ P[t + 1] <= P[Len(Bodies[f]) + 1]
          /\ bytes[P[t + 1] + 1] = RawFrame(f)[t]
          /\ Width(f, t) = 2 => bytes[P[t] + 2] = Escape
    /\ \A t, u \in 1..Len(Bodies[f]) : t < u => P[t + 1] < P[u + 1]
    /\ \A q \in 1..Len(bytes) : Token(bytes[q]) => \E t \in 1..Len(Bodies[f]) : q = P[t + 1] + 1

\* What is sent of one byte.
LEMMA PieceIs ==
    ASSUME NEW f \in 1..Len(Bodies), NEW t \in 1..Len(Bodies[f])
    PROVE  /\ AppendEscaped(RawFrame(f)[t]) \in Seq(Bytes)
           /\ Len(AppendEscaped(RawFrame(f)[t])) = Width(f, t) /\ Width(f, t) \in {1, 2}
           /\ AppendEscaped(RawFrame(f)[t])[Width(f, t)] = RawFrame(f)[t]
           /\ Width(f, t) = 2 => AppendEscaped(RawFrame(f)[t])[1] = Escape
<1> DEFINE token == RawFrame(f)[t]
<1>1. token = <<Bodies[f][t], f, t>> /\ token \in Bytes /\ Escape \in Bytes
  BY RawFrameIs, BytesAre
<1>2. token[1] = Bodies[f][t]  BY <1>1
<1> HIDE DEF token
<1>3. CASE Bodies[f][t] = "plain"
  <2>1. AppendEscaped(token) = <<token>> /\ Width(f, t) = 1
    BY <1>2, <1>3 DEF AppendEscaped, Width
  <2>2. <<token>> \in Seq(Bytes) /\ Len(<<token>>) = 1 /\ <<token>>[1] = token  BY <1>1
  <2>3. Width(f, t) \in {1, 2} /\ Width(f, t) # 2  BY <2>1
  <2>4. /\ AppendEscaped(token) \in Seq(Bytes) /\ Len(AppendEscaped(token)) = Width(f, t)
        /\ AppendEscaped(token)[Width(f, t)] = token
    BY <2>1, <2>2
  <2> QED BY <2>3, <2>4 DEF token
<1>4. CASE Bodies[f][t] # "plain"
  <2>1. AppendEscaped(token) = <<Escape, token>> /\ Width(f, t) = 2
    BY <1>2, <1>4 DEF AppendEscaped, Width
  <2>2. /\ <<Escape, token>> \in Seq(Bytes) /\ Len(<<Escape, token>>) = 2
        /\ <<Escape, token>>[2] = token /\ <<Escape, token>>[1] = Escape
    BY <1>1
  <2>3. /\ AppendEscaped(token) \in Seq(Bytes) /\ Len(AppendEscaped(token)) = Width(f, t)
        /\ AppendEscaped(token)[Width(f, t)] = token /\ AppendEscaped(token)[1] = Escape
    BY <2>1, <2>2
  <2> QED BY <2>1, <2>3 DEF token
<1> QED BY <1>3, <1>4

\* EncodeFrame sends the bytes of a frame between two flags.
LEMMA EncodedIs ==
    ASSUME NEW f \in 1..Len(Bodies)
    PROVE  EncodeFrame(f) \in Seq(Bytes) /\ \E P : Escaped(f, EncodeFrame(f), P)
<1> DEFINE n == Len(Bodies[f])
           seqs == [i \in 1..n |-> AppendEscaped(RawFrame(f)[i])]
           flat == FlattenSeq(seqs)
<1>1. n \in Nat \ {0} /\ DOMAIN Bodies[f] = 1..n  BY RawFrameIs
<1>2. \A t \in 1..n : /\ seqs[t] \in Seq(Bytes) /\ Len(seqs[t]) = Width(f, t)
                      /\ Width(f, t) \in {1, 2} /\ seqs[t][Width(f, t)] = RawFrame(f)[t]
                      /\ Width(f, t) = 2 => seqs[t][1] = Escape
  BY PieceIs
<1>3. seqs \in Seq(Seq(Bytes)) /\ Len(seqs) = n /\ seqs # <<>>
  <2>1. seqs = [i \in 1..n |-> seqs[i]]  OBVIOUS
  <2> HIDE DEF seqs, n
  <2>2. seqs \in [1..n -> Seq(Bytes)]  BY <1>2, <2>1
  <2>3. seqs \in Seq(Seq(Bytes)) /\ Len(seqs) = n  BY <1>1, <2>2
  <2>4. Len(<<>>) = 0  OBVIOUS
  <2> QED BY <1>1, <2>3, <2>4
<1>4. EncodeFrame(f) = (<<Flag>> \o flat) \o <<Flag>>  BY <1>1 DEF EncodeFrame
<1> HIDE DEF seqs
<1>5. flat \in Seq(Bytes) /\ \E P \in [1..n -> Nat] : Laid(seqs, flat, P, n)
  BY <1>3, FlattenLays
<1>6. PICK Q \in [1..n -> Nat] : Laid(seqs, flat, Q, n)  BY <1>5
<1> DEFINE B == Len(flat)
           P == [t \in 1..n + 1 |-> IF t = n + 1 THEN B ELSE Q[t]]
           bytes == EncodeFrame(f)
<1> HIDE DEF flat, n
<1>7. B \in Nat /\ P \in [1..n + 1 -> Nat] /\ P[n + 1] = B /\ \A t \in 1..n : P[t] = Q[t]
  BY <1>1, <1>5
<1>8. /\ bytes \in Seq(Bytes) /\ Len(bytes) = B + 2 /\ bytes[1] = Flag /\ bytes[B + 2] = Flag
      /\ \A q \in 1..B : bytes[q + 1] = flat[q]
  BY <1>4, <1>5, BytesAre
<1> HIDE DEF bytes, B, P
<1>9. ASSUME NEW t \in 1..n
      PROVE  /\ P[t + 1] = P[t] + Width(f, t) /\ P[t + 1] <= B
             /\ bytes[P[t + 1] + 1] = RawFrame(f)[t]
             /\ Width(f, t) = 2 => bytes[P[t] + 2] = Escape
             /\ Q[t] \in Nat /\ P[t + 1] \in Nat
  <2>1. /\ Width(f, t) \in {1, 2} /\ Len(seqs[t]) = Width(f, t)
        /\ seqs[t][Width(f, t)] = RawFrame(f)[t]
        /\ Width(f, t) = 2 => seqs[t][1] = Escape
    BY <1>2
  <2>2. P[t] = Q[t] /\ Q[t] \in Nat /\ t \in Nat \ {0} /\ t <= n  BY <1>1, <1>6, <1>7
  <2>3. P[t + 1] = Q[t] + Width(f, t)
    <3>1. CASE t = n
      <4>1. B = Q[n] + Len(seqs[n])  BY <1>6 DEF Laid, B
      <4> QED BY <1>7, <2>1, <3>1, <4>1
    <3>2. CASE t # n
      <4>1. t + 1 \in 1..n /\ t < n  BY <1>1, <2>2, <3>2
      <4>2. Q[t + 1] = Q[t] + Len(seqs[t])  BY <1>6, <4>1 DEF Laid
      <4> QED BY <1>7, <2>1, <4>1, <4>2
    <3> QED BY <3>1, <3>2
  <2>4. Q[t] + Width(f, t) <= B  BY <1>6, <2>1 DEF Laid, B
  <2>5. \A j \in 1..Width(f, t) : flat[Q[t] + j] = seqs[t][j]  BY <1>6, <2>1 DEF Laid
  <2>6. flat[Q[t] + Width(f, t)] = RawFrame(f)[t] /\ (Width(f, t) = 2 => flat[Q[t] + 1] = Escape)
    BY <2>1, <2>5
  <2>7. /\ bytes[Q[t] + Width(f, t) + 1] = RawFrame(f)[t]
        /\ Width(f, t) = 2 => bytes[Q[t] + 2] = Escape
    <3>1. Q[t] + Width(f, t) \in 1..B /\ Q[t] + 1 \in 1..B /\ (Q[t] + 1) + 1 = Q[t] + 2
      BY <1>7, <2>1, <2>2, <2>4
    <3> QED BY <1>8, <2>6, <3>1
  <2> QED BY <2>1, <2>2, <2>3, <2>4, <2>7
<1>10. ASSUME NEW t \in 1..n, NEW u \in 1..n, t < u PROVE P[t + 1] < P[u + 1]
  <2>1. Q[t] + Len(seqs[t]) <= Q[u]  BY <1>6, <1>10 DEF Laid
  <2>2. /\ Q[t] \in Nat /\ Q[u] \in Nat /\ Width(f, t) \in {1, 2} /\ Width(f, u) \in {1, 2}
        /\ P[t + 1] = P[t] + Width(f, t) /\ P[u + 1] = P[u] + Width(f, u)
        /\ P[t] = Q[t] /\ P[u] = Q[u] /\ Len(seqs[t]) = Width(f, t)
    BY <1>2, <1>7, <1>9
  <2> QED BY <2>1, <2>2
<1>11. ASSUME NEW q \in 1..Len(bytes), Token(bytes[q]) PROVE \E t \in 1..n : q = P[t + 1] + 1
  <2>1. ~Token(Flag) /\ ~Token(Escape)  BY DEF Token, Flag, Escape
  <2>2. q # 1 /\ q # B + 2 /\ q \in 1..B + 2  BY <1>8, <1>11, <2>1
  <2>3. q - 1 \in 1..B /\ (q - 1) + 1 = q  BY <1>7, <2>2
  <2>4. PICK t \in 1..n : \E j \in 1..Len(seqs[t]) : q - 1 = Q[t] + j
    BY <1>6, <2>3 DEF Laid, B
  <2>5. PICK j \in 1..Len(seqs[t]) : q - 1 = Q[t] + j  BY <2>4
  <2>6. /\ Width(f, t) \in {1, 2} /\ Len(seqs[t]) = Width(f, t) /\ Q[t] \in Nat
        /\ P[t] = Q[t] /\ P[t + 1] = P[t] + Width(f, t)
        /\ Width(f, t) = 2 => bytes[P[t] + 2] = Escape
    BY <1>2, <1>7, <1>9
  <2>7. CASE j = Width(f, t)  BY <2>3, <2>5, <2>6, <2>7
  <2>8. CASE j # Width(f, t)
    <3>1. j = 1 /\ Width(f, t) = 2  BY <2>5, <2>6, <2>8
    <3>2. q = Q[t] + 2  BY <2>5, <2>6, <3>1, <2>3
    <3> QED BY <1>11, <2>1, <2>6, <3>1, <3>2
  <2> QED BY <2>7, <2>8
<1>12. P[1] = 0
  <2>1. Q[1] = 0  BY <1>6 DEF Laid
  <2> QED BY <1>1, <1>7, <2>1
<1>13. Escaped(f, bytes, P)
  BY <1>1, <1>7, <1>8, <1>9, <1>10, <1>11, <1>12 DEF Escaped, n
<1> QED BY <1>8, <1>13 DEF bytes

--------------------------------------------------------------------------------
(* The line before anything is read                                         *)

Sent(f) == [i \in DOMAIN EncodeFrame(f) |->
               [byte |-> EncodeFrame(f)[i], frame |-> f, opening |-> i = 1]]
Line == FlattenSeq([f \in DOMAIN Bodies |-> Sent(f)])

\* Frame f is the bytes behind place F[f].
OnLine(F) ==
    /\ Line \in Seq(Cells) /\ F \in [1..Len(Bodies) -> Nat]
    /\ \A f \in 1..Len(Bodies) :
          /\ F[f] + Len(EncodeFrame(f)) <= Len(Line)
          /\ \A j \in 1..Len(EncodeFrame(f)) :
                Line[F[f] + j] = [byte |-> EncodeFrame(f)[j], frame |-> f, opening |-> j = 1]
    /\ \A f, g \in 1..Len(Bodies) : f < g => F[f] + Len(EncodeFrame(f)) <= F[g]
    /\ \A q \in 1..Len(Line) :
          \E f \in 1..Len(Bodies) : \E j \in 1..Len(EncodeFrame(f)) : q = F[f] + j

\* The frames are sent one behind the other.
LEMMA LineIs == \E F : OnLine(F)
<1> DEFINE n == Len(Bodies)
           seqs == [f \in 1..n |-> Sent(f)]
<1>1. n \in Nat /\ DOMAIN Bodies = 1..n  BY FramingAssumption
<1>2. Line = FlattenSeq(seqs)  BY <1>1 DEF Line
<1>3. ASSUME NEW f \in 1..n
      PROVE  /\ seqs[f] \in Seq(Cells) /\ Len(seqs[f]) = Len(EncodeFrame(f))
             /\ \A j \in 1..Len(EncodeFrame(f)) :
                   seqs[f][j] = [byte |-> EncodeFrame(f)[j], frame |-> f, opening |-> j = 1]
  <2>1. EncodeFrame(f) \in Seq(Bytes)  BY EncodedIs
  <2>2. DOMAIN EncodeFrame(f) = 1..Len(EncodeFrame(f)) /\ Len(EncodeFrame(f)) \in Nat
    BY <2>1
  <2>3. Sent(f) = [i \in 1..Len(EncodeFrame(f)) |->
                      [byte |-> EncodeFrame(f)[i], frame |-> f, opening |-> i = 1]]
    BY <2>2 DEF Sent
  <2>4. seqs[f] = Sent(f)  OBVIOUS
  <2>5. \A i \in 1..Len(EncodeFrame(f)) :
           [byte |-> EncodeFrame(f)[i], frame |-> f, opening |-> i = 1] \in Cells
    BY <2>1 DEF Cells
  <2>6. Sent(f) \in Seq(Cells) /\ Len(Sent(f)) = Len(EncodeFrame(f))
    BY <2>2, <2>3, <2>5
  <2>7. \A j \in 1..Len(EncodeFrame(f)) :
           Sent(f)[j] = [byte |-> EncodeFrame(f)[j], frame |-> f, opening |-> j = 1]
    BY <2>3
  <2> HIDE DEF seqs
  <2> QED BY <2>4, <2>6, <2>7
<1>4. CASE n = 0
  <2>1. seqs = <<>>  BY <1>4
  <2>2. Line = <<>>  BY <1>2, <2>1 DEF FlattenSeq
  <2>3. 1..n = {}  BY <1>4
  <2>4. OnLine([f \in 1..n |-> 0])  BY <2>2, <2>3 DEF OnLine
  <2> QED BY <2>4
<1>5. CASE n # 0
  <2>1. seqs \in Seq(Seq(Cells)) /\ Len(seqs) = n /\ seqs # <<>>
    <3>1. seqs = [f \in 1..n |-> seqs[f]]  OBVIOUS
    <3> HIDE DEF seqs, n
    <3>2. seqs \in [1..n -> Seq(Cells)]  BY <1>3, <3>1
    <3>3. seqs \in Seq(Seq(Cells)) /\ Len(seqs) = n  BY <1>1, <3>2
    <3>4. Len(<<>>) = 0  OBVIOUS
    <3> QED BY <1>5, <3>3, <3>4
  <2> HIDE DEF seqs, n
  <2>2. Line \in Seq(Cells) /\ \E F \in [1..n -> Nat] : Laid(seqs, Line, F, n)
    BY <1>2, <2>1, FlattenLays
  <2>3. PICK F \in [1..n -> Nat] : Laid(seqs, Line, F, n)  BY <2>2
  <2>4. \A f \in 1..n : F[f] + Len(EncodeFrame(f)) <= Len(Line)  BY <1>3, <2>3 DEF Laid
  <2>5. ASSUME NEW f \in 1..n, NEW j \in 1..Len(EncodeFrame(f))
        PROVE  Line[F[f] + j] = [byte |-> EncodeFrame(f)[j], frame |-> f, opening |-> j = 1]
    <3>1. Len(seqs[f]) = Len(EncodeFrame(f))  BY <1>3
    <3>2. Line[F[f] + j] = seqs[f][j]  BY <2>3, <3>1 DEF Laid
    <3>3. seqs[f][j] = [byte |-> EncodeFrame(f)[j], frame |-> f, opening |-> j = 1]
      BY <1>3
    <3> QED BY <3>2, <3>3
  <2>6. \A f, g \in 1..n : f < g => F[f] + Len(EncodeFrame(f)) <= F[g]
    BY <1>3, <2>3 DEF Laid
  <2>7. \A q \in 1..Len(Line) : \E f \in 1..n : \E j \in 1..Len(EncodeFrame(f)) : q = F[f] + j
    BY <1>3, <2>3 DEF Laid
  <2>8. OnLine(F)  BY <2>2, <2>3, <2>4, <2>5, <2>6, <2>7 DEF OnLine, n
  <2> QED BY <2>8
<1> QED BY <1>4, <1>5

\* The bytes of the frames are on the line in order.
LEMMA LineInOrder ==
    /\ Line \in Seq(Cells) /\ Len(Line) \in Nat
    /\ \A q \in 1..Len(Line) :
          /\ Line[q].byte \in Bytes
          /\ Token(Line[q].byte) =>
                /\ Line[q].byte[2] \in 1..Len(Bodies)
                /\ Line[q].byte[3] \in 1..Len(Bodies[Line[q].byte[2]])
    /\ \A p, q \in 1..Len(Line) : p < q => Sooner(Line[p].byte, Line[q].byte)
<1>1. PICK F : OnLine(F)  BY LineIs
<1>2. ASSUME NEW q \in 1..Len(Line), Token(Line[q].byte)
      PROVE  \E f \in 1..Len(Bodies) : \E t \in 1..Len(Bodies[f]) :
                \E j \in 1..Len(EncodeFrame(f)) :
                   /\ q = F[f] + j /\ Line[q].byte = RawFrame(f)[t]
                   /\ \A P : Escaped(f, EncodeFrame(f), P) => j = P[t + 1] + 1
  <2>0. PICK f \in 1..Len(Bodies) : \E j \in 1..Len(EncodeFrame(f)) : q = F[f] + j
    BY <1>1 DEF OnLine
  <2>1. PICK j \in 1..Len(EncodeFrame(f)) : q = F[f] + j  BY <2>0
  <2>2. Line[q].byte = EncodeFrame(f)[j]
    <3>1. Line[q] = [byte |-> EncodeFrame(f)[j], frame |-> f, opening |-> j = 1]
      BY <1>1, <2>1 DEF OnLine
    <3> QED BY <3>1
  <2>3. PICK P : Escaped(f, EncodeFrame(f), P)  BY EncodedIs
  <2>4. PICK t \in 1..Len(Bodies[f]) : j = P[t + 1] + 1  BY <1>2, <2>2, <2>3 DEF Escaped
  <2>5. EncodeFrame(f)[j] = RawFrame(f)[t]  BY <2>3, <2>4 DEF Escaped
  <2>6. ASSUME NEW Q, Escaped(f, EncodeFrame(f), Q) PROVE j = Q[t + 1] + 1
    <3>1. PICK u \in 1..Len(Bodies[f]) : j = Q[u + 1] + 1
      BY <1>2, <2>2, <2>6 DEF Escaped
    <3>2. EncodeFrame(f)[j] = RawFrame(f)[u]  BY <2>6, <3>1 DEF Escaped
    <3>3. RawFrame(f)[u][3] = u /\ RawFrame(f)[t][3] = t  BY RawFrameIs
    <3>4. u = t  BY <2>5, <3>2, <3>3
    <3> QED BY <3>1, <3>4
  <2> QED BY <2>1, <2>2, <2>5, <2>6
<1>3. ASSUME NEW q \in 1..Len(Line)
      PROVE  /\ Line[q].byte \in Bytes
             /\ Token(Line[q].byte) =>
                   /\ Line[q].byte[2] \in 1..Len(Bodies)
                   /\ Line[q].byte[3] \in 1..Len(Bodies[Line[q].byte[2]])
  <2>1. Line[q] \in Cells  BY <1>1 DEF OnLine
  <2>2. Line[q].byte \in Bytes  BY <2>1 DEF Cells
  <2>3. ASSUME Token(Line[q].byte)
        PROVE  /\ Line[q].byte[2] \in 1..Len(Bodies)
               /\ Line[q].byte[3] \in 1..Len(Bodies[Line[q].byte[2]])
    <3>0. PICK f \in 1..Len(Bodies) : \E t \in 1..Len(Bodies[f]) : Line[q].byte = RawFrame(f)[t]
      BY <1>2, <2>3
    <3>1. PICK t \in 1..Len(Bodies[f]) : Line[q].byte = RawFrame(f)[t]  BY <3>0
    <3>2. Line[q].byte[2] = f /\ Line[q].byte[3] = t  BY <3>1, RawFrameIs
    <3> QED BY <3>2
  <2> QED BY <2>2, <2>3
<1>4. ASSUME NEW p \in 1..Len(Line), NEW q \in 1..Len(Line), p < q,
             Token(Line[p].byte), Token(Line[q].byte)
      PROVE  \/ Line[p].byte[2] < Line[q].byte[2]
             \/ Line[p].byte[2] = Line[q].byte[2] /\ Line[p].byte[3] < Line[q].byte[3]
  <2>1a. PICK f \in 1..Len(Bodies) :
           \E t \in 1..Len(Bodies[f]) : \E i \in 1..Len(EncodeFrame(f)) :
           /\ p = F[f] + i /\ Line[p].byte = RawFrame(f)[t]
           /\ \A P : Escaped(f, EncodeFrame(f), P) => i = P[t + 1] + 1
    BY <1>2, <1>4
  <2>1b. PICK t \in 1..Len(Bodies[f]) : \E i \in 1..Len(EncodeFrame(f)) :
           /\ p = F[f] + i /\ Line[p].byte = RawFrame(f)[t]
           /\ \A P : Escaped(f, EncodeFrame(f), P) => i = P[t + 1] + 1
    BY <2>1a
  <2>1. PICK i \in 1..Len(EncodeFrame(f)) :
           /\ p = F[f] + i /\ Line[p].byte = RawFrame(f)[t]
           /\ \A P : Escaped(f, EncodeFrame(f), P) => i = P[t + 1] + 1
    BY <2>1b
  <2>2a. PICK g \in 1..Len(Bodies) :
           \E u \in 1..Len(Bodies[g]) : \E j \in 1..Len(EncodeFrame(g)) :
           /\ q = F[g] + j /\ Line[q].byte = RawFrame(g)[u]
           /\ \A P : Escaped(g, EncodeFrame(g), P) => j = P[u + 1] + 1
    BY <1>2, <1>4
  <2>2b. PICK u \in 1..Len(Bodies[g]) : \E j \in 1..Len(EncodeFrame(g)) :
           /\ q = F[g] + j /\ Line[q].byte = RawFrame(g)[u]
           /\ \A P : Escaped(g, EncodeFrame(g), P) => j = P[u + 1] + 1
    BY <2>2a
  <2>2. PICK j \in 1..Len(EncodeFrame(g)) :
           /\ q = F[g] + j /\ Line[q].byte = RawFrame(g)[u]
           /\ \A P : Escaped(g, EncodeFrame(g), P) => j = P[u + 1] + 1
    BY <2>2b
  <2>3. /\ Line[p].byte[2] = f /\ Line[p].byte[3] = t /\ Line[q].byte[2] = g /\ Line[q].byte[3] = u
    <3>1. RawFrame(f)[t] = <<Bodies[f][t], f, t>> /\ RawFrame(g)[u] = <<Bodies[g][u], g, u>>
      BY RawFrameIs
    <3> QED BY <2>1, <2>2, <3>1
  <2>4. f \in Nat /\ g \in Nat /\ t \in Nat /\ u \in Nat /\ Len(Bodies) \in Nat
    BY BytesAre, RawFrameIs
  <2>5. /\ Len(EncodeFrame(f)) \in Nat /\ Len(EncodeFrame(g)) \in Nat
        /\ F[f] \in Nat /\ F[g] \in Nat /\ i \in Nat /\ j \in Nat
        /\ i <= Len(EncodeFrame(f)) /\ j <= Len(EncodeFrame(g)) /\ i > 0 /\ j > 0
    <3>1. EncodeFrame(f) \in Seq(Bytes) /\ EncodeFrame(g) \in Seq(Bytes)  BY EncodedIs
    <3>2. Len(EncodeFrame(f)) \in Nat /\ Len(EncodeFrame(g)) \in Nat  BY <3>1
    <3>3. F[f] \in Nat /\ F[g] \in Nat  BY <1>1 DEF OnLine
    <3>4. i \in 1..Len(EncodeFrame(f)) /\ j \in 1..Len(EncodeFrame(g))  OBVIOUS
    <3> QED BY <3>2, <3>3, <3>4
  <2>6. CASE f < g  BY <2>3, <2>6
  <2>7. CASE g < f
    <3>1. F[g] + Len(EncodeFrame(g)) <= F[f]  BY <1>1, <2>7 DEF OnLine
    <3>2. p = F[f] + i /\ q = F[g] + j /\ p < q  BY <1>4, <2>1, <2>2
    <3>3. F[g] + j <= F[f]  BY <2>5, <3>1
    <3>4. F[f] + i < F[g] + j  BY <3>2
    <3> QED BY <2>5, <3>3, <3>4
  <2>8. CASE f = g
    <3>1. PICK P : Escaped(f, EncodeFrame(f), P)  BY EncodedIs
    <3>2. i = P[t + 1] + 1 /\ j = P[u + 1] + 1 /\ i < j
      BY <1>4, <2>1, <2>2, <2>5, <2>8, <3>1
    <3>3. u < t => P[u + 1] < P[t + 1]  BY <2>8, <3>1 DEF Escaped
    <3>4. P[t + 1] \in Nat /\ P[u + 1] \in Nat
      <4>1. P \in [1..Len(Bodies[f]) + 1 -> Nat]  BY <3>1 DEF Escaped
      <4>2. t + 1 \in 1..Len(Bodies[f]) + 1 /\ u + 1 \in 1..Len(Bodies[f]) + 1
        BY <2>8, RawFrameIs
      <4> QED BY <4>1, <4>2
    <3>5. ~(u < t) /\ u # t
      <4>1. P[t + 1] + 1 < P[u + 1] + 1  BY <3>2
      <4>0. \A x, y \in Nat : x + 1 < y + 1 => ~(y < x) /\ x # y  OBVIOUS
      <4>2. ~(P[u + 1] < P[t + 1]) /\ P[t + 1] # P[u + 1]  BY <3>4, <4>0, <4>1
      <4>3. u # t  BY <4>2
      <4> QED BY <3>3, <4>2, <4>3
    <3> QED BY <2>3, <2>4, <2>8, <3>5
  <2> QED BY <2>4, <2>6, <2>7, <2>8
<1>5. Line \in Seq(Cells) /\ Len(Line) \in Nat  BY <1>1 DEF OnLine
<1> QED BY <1>3, <1>4, <1>5 DEF Sooner

--------------------------------------------------------------------------------
(* What the parser holds, and what was received                             *)

\* The bytes held are sent before place k, of frames later than those received; those
\* are in order, and before every frame a byte of which is still to come.
HeldInOrder(k, raw, rec) ==
    /\ raw \in Seq(Bytes) /\ rec \in Seq(1..Len(Bodies))
    /\ \A x \in 1..Len(raw) : Token(raw[x]) => /\ \E q \in 1..k : Line[q].byte = raw[x]
                                               /\ rec # <<>> => raw[x][2] > rec[Len(rec)]
    /\ \A i, j \in 1..Len(rec) : i < j => rec[i] < rec[j]
    /\ rec # <<>> => \A q \in k + 1..Len(Line) :
                        Token(Line[q].byte) => Line[q].byte[2] > rec[Len(rec)]

\* What is held stays in order as the line is read, and when it is given up.
LEMMA HeldLonger ==
    ASSUME NEW k \in 0..Len(Line), NEW m \in 0..Len(Line), k <= m, NEW raw, NEW rec,
           HeldInOrder(k, raw, rec)
    PROVE  HeldInOrder(m, raw, rec) /\ HeldInOrder(m, <<>>, rec)
<1>1. \A q \in 1..k : q \in 1..m  BY LineInOrder
<1>2. \A q \in m + 1..Len(Line) : q \in k + 1..Len(Line)  BY LineInOrder
<1>3. <<>> \in Seq(Bytes) /\ 1..Len(<<>>) = {}  OBVIOUS
<1>4. /\ raw \in Seq(Bytes) /\ rec \in Seq(1..Len(Bodies))
      /\ \A i, j \in 1..Len(rec) : i < j => rec[i] < rec[j]
  BY DEF HeldInOrder
<1>5. rec # <<>> => \A q \in m + 1..Len(Line) :
                        Token(Line[q].byte) => Line[q].byte[2] > rec[Len(rec)]
  BY <1>2 DEF HeldInOrder
<1>6. \A x \in 1..Len(raw) : Token(raw[x]) => /\ \E q \in 1..m : Line[q].byte = raw[x]
                                              /\ rec # <<>> => raw[x][2] > rec[Len(rec)]
  BY <1>1 DEF HeldInOrder
<1> QED BY <1>3, <1>4, <1>5, <1>6 DEF HeldInOrder

\* One byte more is held.
LEMMA HeldMore ==
    ASSUME NEW k \in 0..Len(Line), NEW raw, NEW rec, HeldInOrder(k, raw, rec), NEW b \in Bytes,
           Token(b) => /\ \E q \in 1..k : Line[q].byte = b
                       /\ rec # <<>> => b[2] > rec[Len(rec)]
    PROVE  HeldInOrder(k, Append(raw, b), rec)
<1>1. raw \in Seq(Bytes)  BY DEF HeldInOrder
<1>2. /\ Append(raw, b) \in Seq(Bytes) /\ Len(Append(raw, b)) = Len(raw) + 1 /\ Len(raw) \in Nat
      /\ \A x \in 1..Len(raw) : Append(raw, b)[x] = raw[x]
      /\ Append(raw, b)[Len(raw) + 1] = b
  BY <1>1
<1>3. ASSUME NEW x \in 1..Len(Append(raw, b)), Token(Append(raw, b)[x])
      PROVE  /\ \E q \in 1..k : Line[q].byte = Append(raw, b)[x]
             /\ rec # <<>> => Append(raw, b)[x][2] > rec[Len(rec)]
  <2>1. x \in 1..Len(raw) \/ x = Len(raw) + 1  BY <1>2
  <2>2. CASE x = Len(raw) + 1
    <3>1. Append(raw, b)[x] = b  BY <1>2, <2>2
    <3> QED BY <1>3, <3>1
  <2>3. CASE x \in 1..Len(raw)
    <3>1. Append(raw, b)[x] = raw[x]  BY <1>2, <2>3
    <3>2. Token(raw[x])  BY <1>3, <3>1
    <3>3. /\ \E q \in 1..k : Line[q].byte = raw[x]
          /\ rec # <<>> => raw[x][2] > rec[Len(rec)]
      BY <2>3, <3>2 DEF HeldInOrder
    <3> QED BY <3>1, <3>3
  <2> QED BY <2>1, <2>2, <2>3
<1>4. /\ rec \in Seq(1..Len(Bodies))
      /\ \A i, j \in 1..Len(rec) : i < j => rec[i] < rec[j]
      /\ rec # <<>> => \A q \in k + 1..Len(Line) :
                          Token(Line[q].byte) => Line[q].byte[2] > rec[Len(rec)]
  BY DEF HeldInOrder
<1> QED BY <1>2, <1>3, <1>4 DEF HeldInOrder

\* A frame completed is later than those received, and nothing of it is to come.
LEMMA HeldReceived ==
    ASSUME NEW k \in 0..Len(Line), NEW raw, NEW rec, HeldInOrder(k, raw, rec),
           DecodeRawFrame(raw) # 0
    PROVE  /\ DecodeRawFrame(raw) \in 1..Len(Bodies)
           /\ HeldInOrder(k, <<>>, Append(rec, DecodeRawFrame(raw)))
           /\ rec # <<>> => DecodeRawFrame(raw) > rec[Len(rec)]
<1> DEFINE f == DecodeRawFrame(raw)
           more == Append(rec, f)
<1>1. f \in 1..Len(Bodies) /\ raw = RawFrame(f)  BY DecodedIs
<1> HIDE DEF f
<1>2. PICK n \in Nat \ {0} : n = Len(Bodies[f]) /\ Len(raw) = n  BY <1>1, RawFrameIs
<1>3. raw[n] = <<Bodies[f][n], f, n>> /\ Token(raw[n]) /\ n \in 1..Len(raw)
  BY <1>1, <1>2, RawFrameIs
<1>4. /\ \E q \in 1..k : Line[q].byte = raw[n]
      /\ rec # <<>> => raw[n][2] > rec[Len(rec)]
  BY <1>3 DEF HeldInOrder
<1>5. PICK p \in 1..k : Line[p].byte = raw[n]  BY <1>4
<1>6. rec # <<>> => f > rec[Len(rec)]  BY <1>3, <1>4
<1>7. ASSUME NEW q \in k + 1..Len(Line), Token(Line[q].byte) PROVE Line[q].byte[2] > f
  <2>1. p \in 1..Len(Line) /\ q \in 1..Len(Line) /\ p < q  BY LineInOrder
  <2>2. Sooner(Line[p].byte, Line[q].byte)  BY <2>1, LineInOrder
  <2>3. Line[p].byte[2] = f /\ Line[p].byte[3] = n /\ Token(Line[p].byte)  BY <1>3, <1>5
  <2>4. f < Line[q].byte[2] \/ (f = Line[q].byte[2] /\ n < Line[q].byte[3])
    BY <1>7, <2>2, <2>3 DEF Sooner
  <2>5. Line[q].byte[2] \in 1..Len(Bodies) /\ Line[q].byte[3] \in 1..Len(Bodies[Line[q].byte[2]])
    BY <1>7, <2>1, LineInOrder
  <2>6. ASSUME f = Line[q].byte[2], n < Line[q].byte[3] PROVE FALSE
    <3>1. Line[q].byte[3] \in 1..n  BY <1>2, <2>5, <2>6
    <3> QED BY <2>6, <3>1
  <2> QED BY <1>1, <2>4, <2>5, <2>6
<1>8. rec \in Seq(1..Len(Bodies)) /\ \A i, j \in 1..Len(rec) : i < j => rec[i] < rec[j]
  BY DEF HeldInOrder
<1>9. /\ more \in Seq(1..Len(Bodies)) /\ Len(more) = Len(rec) + 1 /\ Len(rec) \in Nat
      /\ \A i \in 1..Len(rec) : more[i] = rec[i] /\ rec[i] \in 1..Len(Bodies)
      /\ more[Len(rec) + 1] = f
  BY <1>1, <1>8
<1>10. ASSUME NEW i \in 1..Len(more), NEW j \in 1..Len(more), i < j PROVE more[i] < more[j]
  <2>1. i \in 1..Len(rec) /\ (j \in 1..Len(rec) \/ j = Len(rec) + 1)  BY <1>9, <1>10
  <2>2. CASE j \in 1..Len(rec)  BY <1>8, <1>9, <1>10, <2>1, <2>2
  <2>3. CASE j = Len(rec) + 1
    <3>1. rec # <<>> /\ Len(rec) \in 1..Len(rec)  BY <1>8, <2>1
    <3>2. rec[Len(rec)] < f /\ rec[Len(rec)] \in 1..Len(Bodies)
      BY <1>1, <1>6, <1>9, <3>1
    <3>3. rec[i] = rec[Len(rec)] \/ rec[i] < rec[Len(rec)]
      <4>1. i = Len(rec) \/ i < Len(rec)  BY <1>9, <2>1
      <4> QED BY <1>8, <2>1, <3>1, <4>1
    <3>4. more[i] = rec[i] /\ more[j] = f /\ rec[i] \in 1..Len(Bodies)
      BY <1>9, <2>1, <2>3
    <3> QED BY <1>1, <3>2, <3>3, <3>4
  <2> QED BY <2>1, <2>2, <2>3
<1> HIDE DEF more
<1>11. HeldInOrder(k, <<>>, more)
  <2>1. <<>> \in Seq(Bytes) /\ 1..Len(<<>>) = {}  OBVIOUS
  <2>2. more[Len(more)] = f  BY <1>9
  <2>3. \A q \in k + 1..Len(Line) : Token(Line[q].byte) => Line[q].byte[2] > more[Len(more)]
    BY <1>7, <2>2
  <2> QED BY <1>9, <1>10, <2>1, <2>3 DEF HeldInOrder
<1> QED BY <1>1, <1>6, <1>11 DEF f, more

--------------------------------------------------------------------------------
(* The parser's steps                                                       *)

\* DiscardUntilFlag drops what the parser holds.
LEMMA DiscardIs ==
    ASSUME NEW p \in Parsers
    PROVE  DiscardUntilFlag(p) \in Parsers /\ DiscardUntilFlag(p).raw = <<>>
<1>1. <<>> \in Seq(Bytes)  OBVIOUS
<1> QED BY <1>1 DEF DiscardUntilFlag, Parsers

\* AppendRaw appends a byte or, at the limit, drops the candidate.
LEMMA AppendRawIs ==
    ASSUME NEW p \in Parsers, NEW b \in Bytes
    PROVE  /\ AppendRaw(p, b) \in Parsers
           /\ AppendRaw(p, b).raw \in {<<>>, Append(p.raw, b)}
           /\ Len(p.raw) < MaxRaw =>
                 /\ AppendRaw(p, b).raw = Append(p.raw, b)
                 /\ AppendRaw(p, b).collecting = p.collecting
                 /\ AppendRaw(p, b).escape = p.escape /\ AppendRaw(p, b).discard = p.discard
<1>1. CASE Len(p.raw) >= MaxRaw
  <2>1. AppendRaw(p, b) = DiscardUntilFlag(p)  BY <1>1 DEF AppendRaw
  <2>2. ~(Len(p.raw) < MaxRaw)
    <3>1. Len(p.raw) \in Nat /\ MaxRaw \in Nat
      <4>1. p.raw \in Seq(Bytes)  BY DEF Parsers
      <4> QED BY <4>1, FramingAssumption
    <3> QED BY <1>1, <3>1
  <2> QED BY <2>1, <2>2, DiscardIs
<1>2. CASE ~(Len(p.raw) >= MaxRaw)
  <2>1. AppendRaw(p, b) = [p EXCEPT !.raw = Append(p.raw, b)]  BY <1>2 DEF AppendRaw
  <2>2. Append(p.raw, b) \in Seq(Bytes)  BY DEF Parsers
  <2>3. AppendRaw(p, b) \in Parsers /\ AppendRaw(p, b).raw = Append(p.raw, b)
    BY <2>1, <2>2 DEF Parsers
  <2>4. /\ AppendRaw(p, b).collecting = p.collecting
        /\ AppendRaw(p, b).escape = p.escape /\ AppendRaw(p, b).discard = p.discard
    BY <2>1 DEF Parsers
  <2> QED BY <2>3, <2>4
<1> QED BY <1>1, <1>2

\* Feed holds at most one byte more, the one that was fed or noise.
LEMMA FeedIs ==
    ASSUME NEW p \in Parsers, NEW b \in Bytes
    PROVE  /\ Feed(p, b) \in Parsers
           /\ Feed(p, b).raw \in {p.raw, <<>>, Append(p.raw, b), Append(p.raw, <<"plain", 0, 0>>)}
<1> DEFINE q == [p EXCEPT !.active = TRUE]
           r == [q EXCEPT !.escape = FALSE]
           e == [q EXCEPT !.escape = TRUE]
<1>1. \A g \in BOOLEAN : [p EXCEPT !.active = g] \in Parsers /\ [p EXCEPT !.active = g].raw = p.raw
  BY DEF Parsers
<1>2. q \in Parsers /\ q.raw = p.raw
  <2>1. TRUE \in BOOLEAN  OBVIOUS
  <2> QED BY <1>1, <2>1, Zenon
<1> HIDE DEF q
<1>3. \A g \in BOOLEAN : [q EXCEPT !.escape = g] \in Parsers /\ [q EXCEPT !.escape = g].raw = q.raw
  BY <1>2 DEF Parsers
<1>4. r \in Parsers /\ e \in Parsers /\ r.raw = p.raw /\ e.raw = p.raw
  <2>1. TRUE \in BOOLEAN /\ FALSE \in BOOLEAN  OBVIOUS
  <2> QED BY <1>2, <1>3, <2>1, Zenon
<1> HIDE DEF r, e
<1> DEFINE noise == <<"plain", 0, 0>>
           c == IF b[1] = "plain" THEN b ELSE noise
<1>5. noise \in Bytes /\ c \in Bytes /\ c \in {b, noise}  BY BytesAre
<1> HIDE DEF c, noise
<1>6. Feed(p, b) \in {p, q, e, AppendRaw(r, b), AppendRaw(q, c), DiscardUntilFlag(q)}
  BY DEF Feed, q, r, e, c, noise
<1>7. /\ AppendRaw(r, b) \in Parsers /\ AppendRaw(r, b).raw \in {<<>>, Append(p.raw, b)}
      /\ AppendRaw(q, c) \in Parsers /\ AppendRaw(q, c).raw \in {<<>>, Append(p.raw, c)}
      /\ DiscardUntilFlag(q) \in Parsers /\ DiscardUntilFlag(q).raw = <<>>
  <2>1. AppendRaw(r, b) \in Parsers /\ AppendRaw(r, b).raw \in {<<>>, Append(r.raw, b)}
    BY <1>4, AppendRawIs
  <2>2. AppendRaw(q, c) \in Parsers /\ AppendRaw(q, c).raw \in {<<>>, Append(q.raw, c)}
    BY <1>2, <1>5, AppendRawIs
  <2>3. DiscardUntilFlag(q) \in Parsers /\ DiscardUntilFlag(q).raw = <<>>
    BY <1>2, DiscardIs
  <2> QED BY <1>2, <1>4, <2>1, <2>2, <2>3
<1>8. Append(p.raw, c) \in {Append(p.raw, b), Append(p.raw, noise)}  BY <1>5
<1>9. /\ Feed(p, b) \in Parsers
      /\ Feed(p, b).raw \in {p.raw, <<>>, Append(p.raw, b), Append(p.raw, noise)}
  BY <1>2, <1>4, <1>6, <1>7, <1>8
<1> QED BY <1>9 DEF noise

\* A flag leaves the parser collecting an empty candidate.
LEMMA HandleFlagIs ==
    ASSUME NEW p \in Parsers
    PROVE  /\ HandleFlag(p) \in Parsers /\ HandleFlag(p).raw = <<>>
           /\ HandleFlag(p).collecting /\ ~HandleFlag(p).escape /\ ~HandleFlag(p).discard
<1>1. CASE p.collecting /\ ~p.escape /\ ~p.discard /\ p.raw = <<>>
  <2>1. HandleFlag(p) = p  BY <1>1 DEF HandleFlag
  <2> QED BY <1>1, <2>1
<1>2. CASE ~(p.collecting /\ ~p.escape /\ ~p.discard /\ p.raw = <<>>)
  <2>1. HandleFlag(p) = [collecting |-> TRUE, escape |-> FALSE, discard |-> FALSE,
                         active |-> FALSE, raw |-> <<>>]
    BY <1>2 DEF HandleFlag, ResetCandidate
  <2>2. <<>> \in Seq(Bytes)  OBVIOUS
  <2> QED BY <2>1, <2>2 DEF Parsers
<1> QED BY <1>1, <1>2

--------------------------------------------------------------------------------
(* The gap counter                                                          *)

Counted(first, rec, t) ==
    /\ t \in [baseline : BOOLEAN, last : Int, gaps : Int]
    /\ IF rec = <<>> THEN ~t.baseline /\ t.gaps = 0
       ELSE /\ t.baseline /\ t.last = (first + rec[Len(rec)]) % SeqModulus
            /\ t.gaps = rec[Len(rec)] - rec[1] + 1 - Len(rec)

\* Two numbers less than a turn apart, on the circle.
LEMMA TurnsApart ==
    ASSUME NEW m \in Nat \ {0}, NEW a \in Nat, NEW b \in Nat, a < b, b - a < m
    PROVE  ((b % m) - (a % m)) % m = b - a
<1> DEFINE x == a % m  y == b % m  u == a \div m  v == b \div m  w == v - u
<1>1. x \in 0..m - 1 /\ y \in 0..m - 1 /\ u \in Int /\ v \in Int /\ a = m * u + x /\ b = m * v + y
  OBVIOUS
<1>2. b - a = m * w + (y - x) /\ w \in Int  BY <1>1
<1> HIDE DEF x, y, u, v, w
<1>3. \A z \in Int : m * z + (y - x) \in 1..m - 1 => z = 0 \/ z = 1
  <2> SUFFICES ASSUME NEW z \in Int, m * z + (y - x) \in 1..m - 1 PROVE z = 0 \/ z = 1
    OBVIOUS
  <2>1. z >= 2 => m * z >= 2 * m  OBVIOUS
  <2>2. z <= -1 => m * z <= -m  OBVIOUS
  <2> QED BY <1>1, <2>1, <2>2
<1>4. w = 0 \/ w = 1  BY <1>1, <1>2, <1>3
<1>5. CASE w = 0
  <2>1. y - x = b - a  BY <1>1, <1>2, <1>5
  <2>2. \A z \in 0..m - 1 : z % m = z  OBVIOUS
  <2> QED BY <2>1, <2>2 DEF x, y
<1>6. CASE w = 1
  <2>1. y - x = b - a - m  BY <1>1, <1>2, <1>6
  <2>2. \A z \in 1..m - 1 : (z - m) % m = z  OBVIOUS
  <2> QED BY <2>1, <2>2 DEF x, y
<1> QED BY <1>4, <1>5, <1>6

\* The tracker counts the frames that were left out.
LEMMA CountsOn ==
    ASSUME NEW first \in Nat, NEW rec \in Seq(1..Len(Bodies)), NEW t, Counted(first, rec, t),
           NEW f \in 1..Len(Bodies), rec # <<>> => f > rec[Len(rec)]
    PROVE  Counted(first, Append(rec, f), ObserveSequence(t, (first + f) % SeqModulus))
<1> DEFINE seq == (first + f) % SeqModulus
           more == Append(rec, f)
           o == ObserveSequence(t, seq)
<1>1. /\ Len(rec) \in Nat /\ Len(more) = Len(rec) + 1 /\ more[Len(rec) + 1] = f /\ more # <<>>
      /\ rec # <<>> => more[1] = rec[1] /\ rec[1] \in 1..Len(Bodies)
                       /\ rec[Len(rec)] \in 1..Len(Bodies)
      /\ rec = <<>> => Len(rec) = 0
  OBVIOUS
<1>2. seq \in Int /\ SeqModulus \in Nat \ {0, 1} /\ Len(Bodies) \in Nat
      /\ Len(Bodies) <= SeqModulus \div 2 /\ SeqModulus \div 2 <= SeqModulus
      /\ SeqModulus \div 2 \in Nat
  BY FramingAssumption
<1>3. /\ t \in [baseline : BOOLEAN, last : Int, gaps : Int]
      /\ rec = <<>> => ~t.baseline /\ t.gaps = 0
      /\ rec # <<>> => /\ t.baseline /\ t.last = (first + rec[Len(rec)]) % SeqModulus
                       /\ t.gaps = rec[Len(rec)] - rec[1] + 1 - Len(rec)
  BY DEF Counted
<1>4. CASE rec = <<>>
  <2>1. o = [baseline |-> TRUE, last |-> seq, gaps |-> 0]
    BY <1>3, <1>4 DEF ObserveSequence
  <2>2. more[1] = f /\ Len(more) = 1 /\ f \in Nat  BY <1>1, <1>2, <1>4
  <2> HIDE DEF o, seq
  <2>3. /\ o \in [baseline : BOOLEAN, last : Int, gaps : Int] /\ o.baseline
        /\ o.last = seq /\ o.gaps = 0
    BY <1>2, <2>1
  <2>4. more[Len(more)] = f /\ f - f + 1 - 1 = 0  BY <1>2, <2>2
  <2> HIDE DEF o, seq, more
  <2>5. Counted(first, more, o)  BY <1>1, <2>2, <2>3, <2>4 DEF Counted, seq
  <2> QED BY <2>5 DEF o, seq, more
<1>5. CASE rec # <<>>
  <2> DEFINE g == rec[Len(rec)]
             d == (seq - t.last) % SeqModulus
  <2>1. g \in 1..Len(Bodies) /\ g < f /\ f - g < SeqModulus \div 2  BY <1>1, <1>2, <1>5
  <2>2. d = f - g
    <3>1. (first + g) \in Nat /\ (first + f) \in Nat /\ first + g < first + f
          /\ (first + f) - (first + g) = f - g /\ f - g < SeqModulus
      BY <1>2, <2>1
    <3>2. t.last = (first + g) % SeqModulus  BY <1>3, <1>5
    <3> HIDE DEF g
    <3>3. (((first + f) % SeqModulus) - ((first + g) % SeqModulus)) % SeqModulus
             = (first + f) - (first + g)
      BY <1>2, <3>1, TurnsApart
    <3>4. d = (((first + f) % SeqModulus) - ((first + g) % SeqModulus)) % SeqModulus
      BY <3>2
    <3> HIDE DEF d
    <3> QED BY <3>1, <3>3, <3>4
  <2> HIDE DEF g, d
  <2>3. SequenceIsNewer(seq, t.last)
    <3>1. d # 0 /\ d < SeqModulus \div 2  BY <1>2, <2>1, <2>2
    <3> QED BY <3>1 DEF SequenceIsNewer, d
  <2>4. o = [t EXCEPT !.last = seq, !.gaps = @ + d - 1]
    BY <1>3, <1>5, <2>3 DEF ObserveSequence, d
  <2> HIDE DEF o, seq, more
  <2>5. /\ o \in [baseline : BOOLEAN, last : Int, gaps : Int] /\ o.baseline
        /\ o.last = seq /\ o.gaps = t.gaps + d - 1
    <3>1. d \in Int /\ t.gaps \in Int /\ t.gaps + d - 1 \in Int
      BY <1>2, <1>3, <2>1, <2>2
    <3> DEFINE s == t.gaps + d - 1
    <3>2. o = [t EXCEPT !.last = seq, !.gaps = s]  BY <2>4
    <3> HIDE DEF s
    <3> QED BY <1>2, <1>3, <1>5, <3>1, <3>2 DEF s
  <2>6. more[Len(more)] = f /\ more[1] = rec[1] /\ rec[1] \in Nat  BY <1>1, <1>2, <1>5
  <2>7. t.gaps = g - rec[1] + 1 - Len(rec)  BY <1>3, <1>5 DEF g
  <2>8. o.gaps = f - rec[1] + 1 - Len(more)  BY <1>1, <1>2, <2>1, <2>2, <2>5, <2>6, <2>7
  <2>9. Counted(first, more, o)  BY <1>1, <2>5, <2>6, <2>8 DEF Counted, seq
  <2> QED BY <2>9 DEF o, seq, more
<1> QED BY <1>4, <1>5

--------------------------------------------------------------------------------
(* A frame on its way through the parser                                    *)

\* The first j bytes behind the opening flag of frame f were read.
Midway(f, P, j, p) ==
    /\ p.collecting /\ ~p.discard
    /\ \E t \in 1..Len(Bodies[f]) + 1 :
          /\ Len(p.raw) = t - 1 /\ \A i \in 1..t - 1 : p.raw[i] = RawFrame(f)[i]
          /\ \/ ~p.escape /\ j = P[t]
             \/ p.escape /\ t <= Len(Bodies[f]) /\ Width(f, t) = 2 /\ j = P[t] + 1

\* The opening flag, whatever came before it.
LEMMA MidwayOpens ==
    ASSUME NEW f \in 1..Len(Bodies), NEW P, P[1] = 0, NEW p \in Parsers
    PROVE  Midway(f, P, 0, HandleFlag(p))
<1>1. 1 \in 1..Len(Bodies[f]) + 1 /\ Len(<<>>) = 0 /\ 1..1 - 1 = {} /\ 0 = 1 - 1
  BY RawFrameIs
<1> QED BY <1>1, HandleFlagIs DEF Midway

\* The next byte of the frame.
LEMMA MidwayFeeds ==
    ASSUME NEW f \in 1..Len(Bodies), NEW P, Escaped(f, EncodeFrame(f), P),
           NEW j \in Nat, j < P[Len(Bodies[f]) + 1], NEW p \in Parsers, Midway(f, P, j, p)
    PROVE  /\ EncodeFrame(f)[j + 2] # Flag
           /\ Midway(f, P, j + 1, Feed(p, EncodeFrame(f)[j + 2]))
<1> DEFINE n == Len(Bodies[f])
           bytes == EncodeFrame(f)
           b == bytes[j + 2]
           q == [p EXCEPT !.active = TRUE]
<1>1. PICK t \in 1..n + 1 :
         /\ Len(p.raw) = t - 1 /\ \A i \in 1..t - 1 : p.raw[i] = RawFrame(f)[i]
         /\ \/ ~p.escape /\ j = P[t]
            \/ p.escape /\ t <= n /\ Width(f, t) = 2 /\ j = P[t] + 1
  BY DEF Midway
<1>2. n \in Nat \ {0} /\ n <= MaxRaw /\ MaxRaw \in Nat  BY RawFrameIs, FramingAssumption
<1>3. t \in 1..n  BY <1>1, <1>2
<1>4. /\ P[t + 1] = P[t] + Width(f, t) /\ bytes[P[t + 1] + 1] = RawFrame(f)[t]
      /\ Width(f, t) = 2 => bytes[P[t] + 2] = Escape
      /\ P[t] \in Nat /\ P[t + 1] \in Nat
  <2>1. P \in [1..n + 1 -> Nat] /\ t + 1 \in 1..n + 1  BY <1>2, <1>3 DEF Escaped
  <2> QED BY <1>3, <2>1 DEF Escaped
<1>5. /\ RawFrame(f)[t] = <<Bodies[f][t], f, t>> /\ Bodies[f][t] \in ByteKinds
      /\ RawFrame(f)[t] \in Bytes
  BY <1>3, RawFrameIs
<1>6. /\ RawFrame(f)[t][1] = Bodies[f][t] /\ RawFrame(f)[t] # Flag /\ RawFrame(f)[t] # Escape
      /\ Escape # Flag
  BY <1>5 DEF Flag, Escape
<1>7. q \in Parsers /\ q.raw = p.raw /\ q.collecting = p.collecting /\ q.discard = p.discard
      /\ q.escape = p.escape
  <2>1. \A g \in BOOLEAN : LET r == [p EXCEPT !.active = g]
                           IN  r \in Parsers /\ r.raw = p.raw /\ r.collecting = p.collecting
                               /\ r.discard = p.discard /\ r.escape = p.escape
    BY DEF Parsers
  <2>2. TRUE \in BOOLEAN  OBVIOUS
  <2> QED BY <2>1, <2>2, Zenon
<1> HIDE DEF q, n
<1>8. p.collecting /\ ~p.discard  BY DEF Midway
<1>9. /\ p.raw \in Seq(Bytes) /\ Len(p.raw) < MaxRaw
  <2>1. p.raw \in Seq(Bytes)  BY DEF Parsers
  <2> QED BY <1>1, <1>2, <1>3, <2>1
<1>10. ASSUME NEW r \in Parsers, r.collecting, ~r.discard, ~r.escape,
              r.raw = Append(p.raw, RawFrame(f)[t]), j + 1 = P[t + 1]
       PROVE  Midway(f, P, j + 1, r)
  <2>1. Len(r.raw) = t /\ (t + 1) - 1 = t /\ t + 1 \in 1..n + 1
    BY <1>1, <1>2, <1>3, <1>9, <1>10
  <2>2. \A i \in 1..t : r.raw[i] = RawFrame(f)[i]
    <3> SUFFICES ASSUME NEW i \in 1..t PROVE r.raw[i] = RawFrame(f)[i]  OBVIOUS
    <3>1. CASE i = t
      <4>1. t = Len(p.raw) + 1  BY <1>1, <1>3
      <4> QED BY <1>9, <1>10, <3>1, <4>1
    <3>2. CASE i # t
      <4>1. i \in 1..Len(p.raw) /\ i \in 1..t - 1  BY <1>1, <1>3, <3>2
      <4>2. r.raw[i] = p.raw[i]  BY <1>9, <1>10, <4>1
      <4> QED BY <1>1, <4>1, <4>2
    <3> QED BY <3>1, <3>2
  <2> QED BY <1>10, <2>1, <2>2 DEF Midway, n
<1>11. CASE ~p.escape /\ Bodies[f][t] = "plain"
  <2>1. Width(f, t) = 1 /\ j = P[t]  BY <1>1, <1>11 DEF Width
  <2>2. b = RawFrame(f)[t] /\ j + 1 = P[t + 1]
    <3>1. j + 2 = P[t + 1] + 1 /\ j + 1 = P[t + 1]  BY <1>4, <2>1
    <3> QED BY <1>4, <3>1
  <2> HIDE DEF b
  <2>3. Feed(p, b) = AppendRaw(q, b)  BY <1>5, <1>6, <1>8, <1>11, <2>2 DEF Feed, q
  <2>4. /\ AppendRaw(q, b) \in Parsers /\ AppendRaw(q, b).raw = Append(p.raw, b)
        /\ AppendRaw(q, b).collecting /\ ~AppendRaw(q, b).escape /\ ~AppendRaw(q, b).discard
    BY <1>5, <1>7, <1>8, <1>9, <1>11, <2>2, AppendRawIs
  <2>5. Midway(f, P, j + 1, AppendRaw(q, b))  BY <1>10, <2>2, <2>4
  <2> QED BY <1>6, <2>2, <2>3, <2>5 DEF b
<1>12. CASE ~p.escape /\ Bodies[f][t] # "plain"
  <2>1. Width(f, t) = 2 /\ j = P[t]  BY <1>1, <1>12 DEF Width
  <2>2. b = Escape  BY <1>4, <2>1
  <2> HIDE DEF b
  <2> DEFINE r == [q EXCEPT !.escape = TRUE]
  <2>3. Feed(p, b) = r  BY <1>6, <1>8, <1>12, <2>2 DEF Feed, q
  <2>4. r.raw = p.raw /\ r.collecting = p.collecting /\ r.discard = p.discard /\ r.escape = TRUE
    <3>1. \A g \in BOOLEAN : LET o == [q EXCEPT !.escape = g]
                             IN  o.raw = q.raw /\ o.collecting = q.collecting
                                 /\ o.discard = q.discard /\ o.escape = g
      BY <1>7 DEF Parsers
    <3>2. TRUE \in BOOLEAN  OBVIOUS
    <3> QED BY <1>7, <3>1, <3>2, Zenon
  <2> HIDE DEF r
  <2>5. Midway(f, P, j + 1, r)  BY <1>1, <1>3, <1>8, <2>1, <2>4 DEF Midway, n
  <2> QED BY <1>6, <2>2, <2>3, <2>5 DEF b
<1>13. CASE p.escape
  <2>1. Width(f, t) = 2 /\ j = P[t] + 1  BY <1>1, <1>13
  <2>2. b = RawFrame(f)[t] /\ j + 1 = P[t + 1]
    <3>1. j + 2 = P[t + 1] + 1 /\ j + 1 = P[t + 1]  BY <1>4, <2>1
    <3> QED BY <1>4, <3>1
  <2>3. b[1] \in {"flagValue", "escValue"}
    <3>1. Bodies[f][t] # "plain"  BY <2>1 DEF Width
    <3> QED BY <1>5, <1>6, <2>2, <3>1 DEF ByteKinds
  <2> HIDE DEF b
  <2> DEFINE r == [q EXCEPT !.escape = FALSE]
  <2>4. /\ r \in Parsers /\ r.raw = p.raw /\ r.collecting = p.collecting
        /\ r.discard = p.discard /\ r.escape = FALSE
    <3>1. \A g \in BOOLEAN : LET o == [q EXCEPT !.escape = g]
                             IN  o \in Parsers /\ o.raw = q.raw /\ o.collecting = q.collecting
                                 /\ o.discard = q.discard /\ o.escape = g
      BY <1>7 DEF Parsers
    <3>2. FALSE \in BOOLEAN  OBVIOUS
    <3> QED BY <1>7, <3>1, <3>2, Zenon
  <2>5. Feed(p, b) = AppendRaw(r, b)  BY <1>7, <1>8, <1>13, <2>3 DEF Feed, q
  <2> HIDE DEF r
  <2>6. /\ AppendRaw(r, b) \in Parsers /\ AppendRaw(r, b).raw = Append(p.raw, b)
        /\ AppendRaw(r, b).collecting /\ ~AppendRaw(r, b).escape /\ ~AppendRaw(r, b).discard
    BY <1>5, <1>8, <1>9, <2>2, <2>4, AppendRawIs
  <2>7. Midway(f, P, j + 1, AppendRaw(r, b))  BY <1>10, <2>2, <2>6
  <2> QED BY <1>6, <2>2, <2>5, <2>7 DEF b
<1> QED BY <1>11, <1>12, <1>13

\* All bytes of the frame are its raw frame.
LEMMA MidwayEnds ==
    ASSUME NEW f \in 1..Len(Bodies), NEW P, Escaped(f, EncodeFrame(f), P),
           NEW p \in Parsers, Midway(f, P, P[Len(Bodies[f]) + 1], p)
    PROVE  Completed(p) = f
<1> DEFINE n == Len(Bodies[f])
<1>1. PICK t \in 1..n + 1 :
         /\ Len(p.raw) = t - 1 /\ \A i \in 1..t - 1 : p.raw[i] = RawFrame(f)[i]
         /\ \/ ~p.escape /\ P[n + 1] = P[t]
            \/ p.escape /\ t <= n /\ Width(f, t) = 2 /\ P[n + 1] = P[t] + 1
  BY DEF Midway
<1>2. n \in Nat \ {0} /\ P \in [1..n + 1 -> Nat]  BY RawFrameIs DEF Escaped
<1>3. ASSUME t <= n PROVE FALSE
  <2>1. t \in 1..n /\ P[t] \in Nat /\ P[n + 1] \in Nat  BY <1>1, <1>2, <1>3
  <2>2. P[t + 1] = P[t] + Width(f, t) /\ P[t + 1] <= P[n + 1] /\ Width(f, t) \in {1, 2}
    BY <2>1, PieceIs DEF Escaped
  <2> QED BY <1>1, <2>1, <2>2
<1>4. t = n + 1 /\ ~p.escape  BY <1>1, <1>2, <1>3
<1>5. p.raw = RawFrame(f)
  <2>1. p.raw \in Seq(Bytes) /\ RawFrame(f) \in Seq(Bytes) /\ Len(RawFrame(f)) = n
    BY RawFrameIs DEF Parsers
  <2>2. Len(p.raw) = n /\ \A i \in 1..n : p.raw[i] = RawFrame(f)[i]  BY <1>1, <1>2, <1>4
  <2> HIDE DEF n
  <2> QED BY <2>1, <2>2
<1>6. DecodeRawFrame(p.raw) = f  BY <1>5, DecodedIs
<1> QED BY <1>4, <1>6 DEF Completed, Midway

--------------------------------------------------------------------------------
(* The invariant                                                            *)

\* What is not read yet is as it was sent, but for a damaged byte at its head.
Unread(line, h) ==
    /\ line \in Seq(Cells) /\ Len(line) <= Len(Line)
    /\ \A i \in 1..Len(line) :
          LET sent == Line[Len(Line) - Len(line) + i]
          IN  /\ line[i].frame = sent.frame /\ line[i].opening = sent.opening
              /\ line[i].byte = sent.byte \/ (i = 1 /\ line[i].frame \in h /\ ~Token(line[i].byte))

Holds(rec, f) == \E i \in 1..Len(rec) : rec[i] = f

\* After k bytes of the line every frame that was not hurt is received, under way or to come.
BroughtOn(f, n, p, rec) ==
    /\ n >= Len(EncodeFrame(f)) => Holds(rec, f)
    /\ 0 < n /\ n < Len(EncodeFrame(f)) =>
          \A P : Escaped(f, EncodeFrame(f), P) => Midway(f, P, n - 1, p)

CameThrough(F, k, h, p, rec) ==
    \A f \in 1..Len(Bodies) : f \notin h => BroughtOn(f, k - F[f], p, rec)

FramingInv ==
    /\ firstSeq \in Nat /\ parser \in Parsers
    /\ Unread(encoded, hurt)
    /\ HeldInOrder(Len(Line) - Len(encoded), parser.raw, received)
    /\ Counted(firstSeq, received, seqTracker)
    /\ \A F : OnLine(F) => CameThrough(F, Len(Line) - Len(encoded), hurt, parser, received)

\* The place of a frame on the line.
LEMMA StartIs ==
    ASSUME NEW F, OnLine(F), NEW f \in 1..Len(Bodies)
    PROVE  F[f] \in Nat
BY DEF OnLine

\* A frame has at least its two flags.
LEMMA FrameLength ==
    ASSUME NEW f \in 1..Len(Bodies)
    PROVE  Len(EncodeFrame(f)) \in Nat /\ Len(EncodeFrame(f)) >= 2
<1>1. PICK P : Escaped(f, EncodeFrame(f), P)  BY EncodedIs
<1>2. P \in [1..Len(Bodies[f]) + 1 -> Nat] /\ Len(EncodeFrame(f)) = P[Len(Bodies[f]) + 1] + 2
  BY <1>1 DEF Escaped
<1>3. Len(Bodies[f]) + 1 \in 1..Len(Bodies[f]) + 1  BY RawFrameIs
<1>4. P[Len(Bodies[f]) + 1] \in Nat  BY <1>2, <1>3
<1> QED BY <1>2, <1>4

\* Before anything is read.
LEMMA FramingBegins == FramingInit => FramingInv
<1> SUFFICES ASSUME FramingInit PROVE FramingInv  OBVIOUS
<1>1. encoded = Line  BY DEF FramingInit, Line, Sent
<1>2. Line \in Seq(Cells) /\ Len(Line) \in Nat /\ Len(Line) - Len(Line) = 0
  BY LineInOrder
<1>3. Unread(encoded, hurt)
  <2>1. \A i \in 1..Len(Line) : Len(Line) - Len(Line) + i = i  BY <1>2
  <2> QED BY <1>1, <1>2, <2>1 DEF Unread
<1>4. firstSeq \in Nat  BY FramingAssumption DEF FramingInit
<1>5. <<>> \in Seq(Bytes) /\ <<>> \in Seq(1..Len(Bodies)) /\ 1..Len(<<>>) = {}  OBVIOUS
<1>6. parser \in Parsers /\ parser.raw = <<>> /\ received = <<>>
  BY <1>5 DEF FramingInit, Parsers
<1>7. HeldInOrder(0, <<>>, <<>>)  BY <1>5 DEF HeldInOrder
<1>8. Counted(firstSeq, received, seqTracker)  BY DEF FramingInit, Counted
<1>9. ASSUME NEW F, OnLine(F) PROVE CameThrough(F, 0, hurt, parser, received)
  <2>1. ASSUME NEW f \in 1..Len(Bodies)
        PROVE  ~(0 - F[f] >= Len(EncodeFrame(f))) /\ ~(0 < 0 - F[f])
    <3>1. F[f] \in Nat  BY <1>9 DEF OnLine
    <3>2. Len(EncodeFrame(f)) \in Nat /\ Len(EncodeFrame(f)) >= 2  BY FrameLength
    <3> QED BY <3>1, <3>2
  <2> QED BY <2>1 DEF CameThrough, BroughtOn
<1> QED BY <1>1, <1>2, <1>3, <1>4, <1>6, <1>7, <1>8, <1>9 DEF FramingInv

\* A byte reaches the parser.
LEMMA ReceivesKeeps ==
    ASSUME firstSeq \in Nat, parser \in Parsers, NEW k \in 0..Len(Line),
           HeldInOrder(k, parser.raw, received), Counted(firstSeq, received, seqTracker),
           NEW b \in Bytes, Receives(b),
           Token(b) => /\ \E q \in 1..k : Line[q].byte = b
                       /\ received # <<>> => b[2] > received[Len(received)]
    PROVE  /\ parser' \in Parsers /\ HeldInOrder(k, parser'.raw, received')
           /\ Counted(firstSeq, received', seqTracker')
           /\ \A f : Holds(received, f) => Holds(received', f)
           /\ IF b = Flag THEN /\ parser' = HandleFlag(parser)
                               /\ Completed(parser) # 0 => Holds(received', Completed(parser))
              ELSE parser' = Feed(parser, b)
<1>1. HeldInOrder(k, <<>>, received)  BY LineInOrder, HeldLonger
<1>2. CASE b # Flag
  <2>1. parser' = Feed(parser, b) /\ received' = received /\ seqTracker' = seqTracker
    BY <1>2 DEF Receives
  <2>2. <<"plain", 0, 0>> \in Bytes /\ ~Token(<<"plain", 0, 0>>)  BY BytesAre DEF Token
  <2>3. /\ HeldInOrder(k, Append(parser.raw, b), received)
        /\ HeldInOrder(k, Append(parser.raw, <<"plain", 0, 0>>), received)
    BY <2>2, HeldMore
  <2>4. HeldInOrder(k, parser'.raw, received')  BY <1>1, <2>1, <2>3, FeedIs
  <2>5. parser' \in Parsers  BY <2>1, FeedIs
  <2> QED BY <1>2, <2>1, <2>4, <2>5
<1>3. CASE b = Flag
  <2>1. parser' = HandleFlag(parser)  BY <1>3 DEF Receives
  <2>2. parser' \in Parsers /\ parser'.raw = <<>>  BY <2>1, HandleFlagIs
  <2>3. CASE Completed(parser) = 0
    <3>1. received' = received /\ seqTracker' = seqTracker  BY <1>3, <2>3 DEF Receives
    <3> QED BY <1>1, <1>3, <2>1, <2>2, <2>3, <3>1
  <2>4. CASE Completed(parser) # 0
    <3> DEFINE f == Completed(parser)
    <3>1. /\ received' = Append(received, f)
          /\ seqTracker' = ObserveSequence(seqTracker, (firstSeq + f) % SeqModulus)
      BY <1>3, <2>4 DEF Receives
    <3>2. f = DecodeRawFrame(parser.raw)  BY <2>4 DEF Completed
    <3>3. /\ f \in 1..Len(Bodies) /\ HeldInOrder(k, <<>>, Append(received, f))
          /\ received # <<>> => f > received[Len(received)]
      BY <2>4, <3>2, HeldReceived
    <3> HIDE DEF f
    <3>4. received \in Seq(1..Len(Bodies))  BY DEF HeldInOrder
    <3>5. Counted(firstSeq, received', seqTracker')  BY <3>1, <3>3, <3>4, CountsOn
    <3>6. Holds(received', f) /\ \A g : Holds(received, g) => Holds(received', g)
      <4>1. /\ Len(received') = Len(received) + 1 /\ Len(received) \in Nat
            /\ \A i \in 1..Len(received) : received'[i] = received[i]
            /\ received'[Len(received) + 1] = f
        BY <3>1, <3>3, <3>4
      <4>2. Len(received) + 1 \in 1..Len(received')  BY <4>1
      <4>3. \A i \in 1..Len(received) : i \in 1..Len(received')  BY <4>1
      <4> QED BY <4>1, <4>2, <4>3 DEF Holds
    <3>7. HeldInOrder(k, parser'.raw, received')  BY <2>2, <3>1, <3>3
    <3> QED BY <1>3, <2>1, <2>2, <3>5, <3>6, <3>7 DEF f
  <2> QED BY <2>3, <2>4
<1> QED BY <1>2, <1>3

\* The frame the next byte belongs to.
LEMMA HeadIs ==
    ASSUME NEW F, OnLine(F), NEW line, NEW h, Unread(line, h), NEW f \in 1..Len(Bodies),
           F[f] <= Len(Line) - Len(line),
           Len(Line) - Len(line) < F[f] + Len(EncodeFrame(f))
    PROVE  /\ line # <<>> /\ Head(line) = line[1] /\ Head(line).frame = f
           /\ Head(line).opening <=> Len(Line) - Len(line) = F[f]
           /\ f \notin h =>
                 Head(line).byte = EncodeFrame(f)[Len(Line) - Len(line) - F[f] + 1]
<1> DEFINE k == Len(Line) - Len(line)
           L == Len(EncodeFrame(f))
           j == k - F[f] + 1
<1>1. Len(line) \in Nat /\ line \in Seq(Cells) /\ Len(Line) \in Nat /\ k \in 0..Len(Line)
  BY LineInOrder DEF Unread
<1>2. F[f] \in Nat /\ L \in Nat /\ F[f] + L <= Len(Line)
  <2>1. F[f] \in Nat /\ F[f] + Len(EncodeFrame(f)) <= Len(Line)  BY DEF OnLine
  <2> QED BY <2>1, FrameLength
<1>3. j \in 1..L /\ k + 1 = F[f] + j /\ (j = 1 <=> k = F[f])
  <2>1. F[f] <= k /\ k < F[f] + L /\ k \in Int  BY <1>1
  <2>2. \A x, y, z \in Int : x <= y /\ y < x + z =>
           y - x + 1 \in 1..z /\ y + 1 = x + (y - x + 1) /\ (y - x + 1 = 1 <=> y = x)
    OBVIOUS
  <2>3. F[f] \in Int /\ L \in Int  BY <1>2
  <2> HIDE DEF k, L
  <2> QED BY <2>1, <2>2, <2>3
<1>4. Line[k + 1] = [byte |-> EncodeFrame(f)[j], frame |-> f, opening |-> j = 1]
  BY <1>3 DEF OnLine
<1>5. line # <<>> /\ 1 \in 1..Len(line) /\ Head(line) = line[1]
  <2>1. Len(line) # 0  BY <1>1, <1>2, <1>3
  <2> QED BY <1>1, <2>1
<1> HIDE DEF j, L
<1>6. /\ line[1].frame = Line[k + 1].frame /\ line[1].opening = Line[k + 1].opening
      /\ line[1].byte = Line[k + 1].byte \/ line[1].frame \in h
  BY <1>5 DEF Unread
<1>7. /\ Line[k + 1].frame = f /\ Line[k + 1].opening = (j = 1)
      /\ Line[k + 1].byte = EncodeFrame(f)[j]
  BY <1>4
<1> QED BY <1>3, <1>5, <1>6, <1>7 DEF j

\* The line without its first byte, or with another one in its place.
LEMMA UnreadKept ==
    ASSUME NEW line, NEW h, NEW more, h \subseteq more, Unread(line, h)
    PROVE  /\ Unread(line, more)
           /\ line # <<>> =>
                 /\ Unread(Tail(line), more) /\ Len(Tail(line)) = Len(line) - 1
                 /\ \A b \in NoiseBytes : Head(line).frame \in more =>
                       LET new == <<[Head(line) EXCEPT !.byte = b]>> \o Tail(line)
                       IN  Unread(new, more) /\ Len(new) = Len(line)
<1> DEFINE sent(i) == Line[Len(Line) - Len(line) + i]
<1>1. /\ line \in Seq(Cells) /\ Len(line) \in Nat /\ Len(line) <= Len(Line) /\ Len(Line) \in Nat
      /\ \A i \in 1..Len(line) :
            /\ line[i].frame = sent(i).frame /\ line[i].opening = sent(i).opening
            /\ line[i].byte = sent(i).byte \/ (i = 1 /\ line[i].frame \in h /\ ~Token(line[i].byte))
  BY LineInOrder DEF Unread
<1>2. Unread(line, more)  BY <1>1 DEF Unread
<1> HIDE DEF sent
<1>3. ASSUME line # <<>>
      PROVE  Unread(Tail(line), more) /\ Len(Tail(line)) = Len(line) - 1
  <2>1. /\ Tail(line) \in Seq(Cells) /\ Len(Tail(line)) = Len(line) - 1 /\ Len(line) >= 1
        /\ \A i \in 1..Len(Tail(line)) : Tail(line)[i] = line[i + 1] /\ i + 1 \in 1..Len(line)
    BY <1>1, <1>3
  <2>2. ASSUME NEW i \in 1..Len(Tail(line))
        PROVE  /\ Tail(line)[i].frame = sent(i + 1).frame
               /\ Tail(line)[i].opening = sent(i + 1).opening
               /\ Tail(line)[i].byte = sent(i + 1).byte
               /\ Line[Len(Line) - Len(Tail(line)) + i] = sent(i + 1)
    <3>1. i + 1 \in 1..Len(line) /\ i + 1 # 1 /\ Tail(line)[i] = line[i + 1]  BY <2>1
    <3>2. Len(Line) - Len(Tail(line)) + i = Len(Line) - Len(line) + (i + 1)
      BY <1>1, <2>1
    <3> QED BY <1>1, <3>1, <3>2 DEF sent
  <2>3. Len(Tail(line)) <= Len(Line)  BY <1>1, <2>1
  <2> QED BY <2>1, <2>2, <2>3 DEF Unread
<1>4. ASSUME line # <<>>, NEW b \in NoiseBytes, Head(line).frame \in more
      PROVE  LET new == <<[Head(line) EXCEPT !.byte = b]>> \o Tail(line)
             IN  Unread(new, more) /\ Len(new) = Len(line)
  <2> DEFINE c == [Head(line) EXCEPT !.byte = b]
             new == <<c>> \o Tail(line)
  <2>1. b \in Bytes /\ ~Token(b)  BY BytesAre
  <2>2. line[1] \in Cells /\ Head(line) = line[1] /\ Len(line) >= 1  BY <1>1, <1>4
  <2>3. c \in Cells /\ c.byte = b /\ c.frame = line[1].frame /\ c.opening = line[1].opening
    BY <2>1, <2>2 DEF Cells
  <2> HIDE DEF c
  <2>4. /\ new \in Seq(Cells) /\ Len(new) = Len(line) /\ new[1] = c
        /\ \A i \in 2..Len(line) : new[i] = line[i]
    <3>1. /\ Tail(line) \in Seq(Cells) /\ Len(Tail(line)) = Len(line) - 1
          /\ \A i \in 1..Len(line) - 1 : Tail(line)[i] = line[i + 1]
      BY <1>1, <2>2
    <3>2. <<c>> \in Seq(Cells) /\ Len(<<c>>) = 1 /\ <<c>>[1] = c  BY <2>3
    <3>3. /\ new \in Seq(Cells) /\ Len(new) = Len(line) /\ new[1] = c
      BY <1>1, <2>2, <3>1, <3>2
    <3>4. ASSUME NEW i \in 2..Len(line) PROVE new[i] = line[i]
      <4>1. new[i] = Tail(line)[i - 1]  BY <1>1, <3>1, <3>2
      <4>2. i - 1 \in 1..Len(line) - 1 /\ (i - 1) + 1 = i  BY <1>1
      <4> QED BY <3>1, <4>1, <4>2
    <3> QED BY <3>3, <3>4
  <2> HIDE DEF new
  <2>5. ASSUME NEW i \in 1..Len(new)
        PROVE  /\ new[i].frame = sent(i).frame /\ new[i].opening = sent(i).opening
               /\ new[i].byte = sent(i).byte
                     \/ (i = 1 /\ new[i].frame \in more /\ ~Token(new[i].byte))
    <3>1. i \in 1..Len(line) /\ (i = 1 \/ i \in 2..Len(line))  BY <1>1, <2>4
    <3>2. CASE i = 1  BY <1>1, <1>4, <2>1, <2>2, <2>3, <2>4, <3>1, <3>2
    <3>3. CASE i \in 2..Len(line)
      <4>1. new[i] = line[i] /\ i # 1  BY <2>4, <3>3
      <4> QED BY <1>1, <3>1, <4>1
    <3> QED BY <3>1, <3>2, <3>3
  <2>6. Unread(new, more)  BY <1>1, <2>4, <2>5 DEF Unread, sent
  <2> QED BY <2>4, <2>6 DEF new, c
<1> QED BY <1>2, <1>3, <1>4

\* A step that hurts the frame under way, if there is one.
LEMMA CameKept ==
    ASSUME NEW F, OnLine(F), NEW k \in 0..Len(Line), NEW m \in {k, k + 1},
           NEW h, NEW more, h \subseteq more, NEW p, NEW q, NEW rec, NEW new,
           CameThrough(F, k, h, p, rec), \A f : Holds(rec, f) => Holds(new, f),
           \A f \in 1..Len(Bodies) :
              F[f] <= k /\ k < F[f] + Len(EncodeFrame(f)) /\ (m = k + 1 \/ F[f] < k) => f \in more
    PROVE  CameThrough(F, m, more, q, new)
<1> SUFFICES ASSUME NEW f \in 1..Len(Bodies), f \notin more
             PROVE  BroughtOn(f, m - F[f], q, new)
  BY DEF CameThrough
<1>1. F[f] \in Nat /\ Len(EncodeFrame(f)) \in Nat /\ Len(EncodeFrame(f)) >= 2 /\ k \in Nat
      /\ m \in Nat
  BY FrameLength, LineInOrder DEF OnLine
<1>2. ~(F[f] <= k /\ k < F[f] + Len(EncodeFrame(f)) /\ (m = k + 1 \/ F[f] < k))  OBVIOUS
<1>3. k - F[f] >= Len(EncodeFrame(f)) => Holds(new, f)  BY DEF CameThrough, BroughtOn
<1>4. /\ m - F[f] >= Len(EncodeFrame(f)) => Holds(new, f)
      /\ ~(0 < m - F[f] /\ m - F[f] < Len(EncodeFrame(f)))
  BY <1>1, <1>2, <1>3
<1> QED BY <1>4 DEF BroughtOn

\* An assembly that times out hurts the frame under way only.
LEMMA TickFrames ==
    ASSUME FramingInv, Tick
    PROVE  FramingInv'
<1> DEFINE k == Len(Line) - Len(encoded)
<1>1. /\ firstSeq \in Nat /\ parser \in Parsers /\ Unread(encoded, hurt)
      /\ HeldInOrder(k, parser.raw, received) /\ Counted(firstSeq, received, seqTracker)
      /\ \A F : OnLine(F) => CameThrough(F, k, hurt, parser, received)
  BY DEF FramingInv
<1>2. k \in 0..Len(Line)  BY <1>1, LineInOrder DEF Unread
<1>3. /\ parser' = ResetCandidate(FALSE) /\ hurt' = hurt \cup Started
      /\ UNCHANGED <<firstSeq, encoded, received, seqTracker>>
  BY DEF Tick
<1>4. parser' \in Parsers /\ parser'.raw = <<>>
  <2>1. <<>> \in Seq(Bytes)  OBVIOUS
  <2> QED BY <1>3, <2>1 DEF ResetCandidate, Parsers
<1>5. Unread(encoded, hurt')  BY <1>1, <1>3, UnreadKept
<1>6. HeldInOrder(k, <<>>, received)  BY <1>1, <1>2, HeldLonger
<1>7. ASSUME NEW F, OnLine(F) PROVE CameThrough(F, k, hurt', parser', received)
  <2>1. ASSUME NEW f \in 1..Len(Bodies), F[f] <= k, k < F[f] + Len(EncodeFrame(f))
        PROVE  f \in hurt'
    <3>1. encoded # <<>> /\ Head(encoded).frame = f  BY <1>1, <1>7, <2>1, HeadIs
    <3> QED BY <1>3, <3>1 DEF Started
  <2>2. hurt \subseteq hurt'  BY <1>3
  <2> HIDE DEF k
  <2> QED BY <1>1, <1>2, <1>7, <2>1, <2>2, CameKept
<1> QED BY <1>1, <1>3, <1>4, <1>5, <1>6, <1>7 DEF FramingInv

\* A damaged or lost byte hurts its own frame only.
LEMMA DamageFrames ==
    ASSUME FramingInv, Damage
    PROVE  FramingInv'
<1> DEFINE k == Len(Line) - Len(encoded)
           m == Len(Line) - Len(encoded')
<1>1. /\ firstSeq \in Nat /\ parser \in Parsers /\ Unread(encoded, hurt)
      /\ HeldInOrder(k, parser.raw, received) /\ Counted(firstSeq, received, seqTracker)
      /\ \A F : OnLine(F) => CameThrough(F, k, hurt, parser, received)
  BY DEF FramingInv
<1>2. k \in 0..Len(Line) /\ Len(encoded) \in Nat /\ Len(Line) \in Nat
  BY <1>1, LineInOrder DEF Unread
<1>3. /\ hurt' = hurt \cup Started /\ encoded # <<>>
      /\ UNCHANGED <<firstSeq, parser, received, seqTracker>>
      /\ \/ \E byte \in NoiseBytes :
               encoded' = <<[Head(encoded) EXCEPT !.byte = byte]>> \o Tail(encoded)
         \/ encoded' = Tail(encoded)
  BY DEF Damage
<1>4. hurt \subseteq hurt' /\ Head(encoded).frame \in hurt'  BY <1>3 DEF Started
<1>5. Unread(encoded', hurt') /\ (Len(encoded') = Len(encoded) \/ Len(encoded') = Len(encoded) - 1)
  <2>1. CASE \E byte \in NoiseBytes :
               encoded' = <<[Head(encoded) EXCEPT !.byte = byte]>> \o Tail(encoded)
    <3>1. PICK byte \in NoiseBytes :
             encoded' = <<[Head(encoded) EXCEPT !.byte = byte]>> \o Tail(encoded)
      BY <2>1
    <3>2. LET new == <<[Head(encoded) EXCEPT !.byte = byte]>> \o Tail(encoded)
          IN  Unread(new, hurt') /\ Len(new) = Len(encoded)
      BY <1>1, <1>3, <1>4, UnreadKept
    <3> QED BY <3>1, <3>2
  <2>2. CASE encoded' = Tail(encoded)
    <3>1. Unread(Tail(encoded), hurt') /\ Len(Tail(encoded)) = Len(encoded) - 1
      BY <1>1, <1>3, <1>4, UnreadKept
    <3> QED BY <2>2, <3>1
  <2> QED BY <1>3, <2>1, <2>2
<1>6. m \in {k, k + 1} /\ m \in 0..Len(Line) /\ k <= m
  <2>1. m \in 0..Len(Line)  BY <1>5, LineInOrder DEF Unread
  <2> QED BY <1>2, <1>5, <2>1
<1> HIDE DEF m
<1>7. HeldInOrder(m, parser.raw, received)
  <2> HIDE DEF k
  <2> QED BY <1>1, <1>2, <1>6, HeldLonger
<1>8. ASSUME NEW F, OnLine(F) PROVE CameThrough(F, m, hurt', parser, received)
  <2>1. ASSUME NEW f \in 1..Len(Bodies), F[f] <= k, k < F[f] + Len(EncodeFrame(f))
        PROVE  f \in hurt'
    <3>1. encoded # <<>> /\ Head(encoded).frame = f  BY <1>1, <1>8, <2>1, HeadIs
    <3> QED BY <1>4, <3>1
  <2> HIDE DEF k
  <2> QED BY <1>1, <1>2, <1>4, <1>6, <1>8, <2>1, CameKept
<1>9. /\ firstSeq' \in Nat /\ parser' \in Parsers /\ parser'.raw = parser.raw
      /\ Counted(firstSeq', received', seqTracker')
      /\ HeldInOrder(m, parser'.raw, received')
      /\ \A F : OnLine(F) => CameThrough(F, m, hurt', parser', received')
  BY <1>1, <1>3, <1>7, <1>8
<1> QED BY <1>5, <1>9 DEF FramingInv, m

\* A byte that slips in hurts the frame it lands in only.
LEMMA NoiseFrames ==
    ASSUME FramingInv, Noise
    PROVE  FramingInv'
<1> DEFINE k == Len(Line) - Len(encoded)
<1>1. /\ firstSeq \in Nat /\ parser \in Parsers /\ Unread(encoded, hurt)
      /\ HeldInOrder(k, parser.raw, received) /\ Counted(firstSeq, received, seqTracker)
      /\ \A F : OnLine(F) => CameThrough(F, k, hurt, parser, received)
  BY DEF FramingInv
<1>2. k \in 0..Len(Line)  BY <1>1, LineInOrder DEF Unread
<1>3. /\ hurt' = IF Head(encoded).opening THEN hurt ELSE hurt \cup Started
      /\ UNCHANGED <<firstSeq, encoded>>
  BY DEF Noise
<1>4. PICK b \in NoiseBytes : Receives(b)  BY DEF Noise
<1>5. b \in Bytes /\ ~Token(b)  BY BytesAre
<1> HIDE DEF k
<1>6. /\ parser' \in Parsers /\ HeldInOrder(k, parser'.raw, received')
      /\ Counted(firstSeq, received', seqTracker')
      /\ \A f : Holds(received, f) => Holds(received', f)
  BY <1>1, <1>2, <1>4, <1>5, ReceivesKeeps
<1>7. hurt \subseteq hurt'  BY <1>3
<1>8. Unread(encoded, hurt')  BY <1>1, <1>7, UnreadKept
<1>9. ASSUME NEW F, OnLine(F) PROVE CameThrough(F, k, hurt', parser', received')
  <2>1. ASSUME NEW f \in 1..Len(Bodies), F[f] < k, k < F[f] + Len(EncodeFrame(f))
        PROVE  f \in hurt'
    <3>1. F[f] <= k /\ F[f] # k
      <4>1. F[f] \in Nat /\ k \in Nat  BY <1>2, <1>9 DEF OnLine
      <4> QED BY <2>1, <4>1
    <3>2. encoded # <<>> /\ Head(encoded).frame = f /\ ~Head(encoded).opening
      BY <1>1, <1>9, <2>1, <3>1, HeadIs DEF k
    <3> QED BY <1>3, <3>2 DEF Started
  <2>2. k # k + 1  BY <1>2
  <2> QED BY <1>1, <1>2, <1>6, <1>7, <1>9, <2>1, <2>2, CameKept
<1> QED BY <1>1, <1>3, <1>6, <1>8, <1>9 DEF FramingInv, k

\* A byte of the line read by the parser brings its frame on.
LEMMA ByteBringsOn ==
    ASSUME FramingInv, encoded # <<>>, Head(encoded).byte \in Bytes,
           NEW F, OnLine(F), NEW k \in 0..Len(Line), k = Len(Line) - Len(encoded),
           NEW p, NEW new, \A f : Holds(received, f) => Holds(new, f),
           IF Head(encoded).byte = Flag
           THEN /\ p = HandleFlag(parser)
                /\ Completed(parser) # 0 => Holds(new, Completed(parser))
           ELSE p = Feed(parser, Head(encoded).byte),
           NEW f \in 1..Len(Bodies), f \notin hurt
    PROVE  BroughtOn(f, (k + 1) - F[f], p, new)
<1> DEFINE b == Head(encoded).byte
           L == Len(EncodeFrame(f))
           n == k - F[f]
           m == (k + 1) - F[f]
<1>1. F[f] \in Nat /\ L \in Nat /\ L >= 2 /\ k \in Nat /\ n \in Int /\ m = n + 1
  <2>1. F[f] \in Nat /\ k \in Nat
    <3>1. k \in Nat  BY LineInOrder
    <3> QED BY <3>1, StartIs
  <2>2. L \in Nat /\ L >= 2  BY FrameLength
  <2> HIDE DEF L
  <2> QED BY <2>1, <2>2
<1>2. BroughtOn(f, n, parser, received)  BY DEF FramingInv, CameThrough
<1>3. parser \in Parsers /\ Unread(encoded, hurt)  BY DEF FramingInv
<1>4. ASSUME 0 <= n, n < L PROVE b = EncodeFrame(f)[n + 1]
  <2>1. F[f] <= k /\ k < F[f] + L  BY <1>1, <1>4
  <2> QED BY <1>3, <2>1, HeadIs
<1>5. ASSUME NEW P, Escaped(f, EncodeFrame(f), P)
      PROVE  /\ P[1] = 0 /\ P[Len(Bodies[f]) + 1] = L - 2 /\ EncodeFrame(f)[1] = Flag
             /\ EncodeFrame(f)[L] = Flag
  <2>1. /\ P[1] = 0 /\ L = P[Len(Bodies[f]) + 1] + 2 /\ EncodeFrame(f)[1] = Flag
        /\ EncodeFrame(f)[L] = Flag /\ P \in [1..Len(Bodies[f]) + 1 -> Nat]
    BY <1>5 DEF Escaped
  <2>2. Len(Bodies[f]) + 1 \in 1..Len(Bodies[f]) + 1  BY RawFrameIs
  <2>3. P[Len(Bodies[f]) + 1] \in Nat  BY <2>1, <2>2
  <2> HIDE DEF L
  <2> QED BY <2>1, <2>3
<1>6. b = Flag => /\ p = HandleFlag(parser)
                  /\ Completed(parser) # 0 => Holds(new, Completed(parser))
  OBVIOUS
<1>7. b # Flag => p = Feed(parser, b)  OBVIOUS
<1> HIDE DEF b, n, m
<1>8. ASSUME m >= L PROVE Holds(new, f)
  <2>1. CASE n >= L  BY <1>2, <2>1 DEF BroughtOn
  <2>2. CASE ~(n >= L)
    <3>1. n = L - 1 /\ 0 < n /\ n < L /\ n - 1 = L - 2 /\ n + 1 = L /\ 0 <= n
      BY <1>1, <1>8, <2>2
    <3>2. PICK P : Escaped(f, EncodeFrame(f), P)  BY EncodedIs
    <3>3. Midway(f, P, P[Len(Bodies[f]) + 1], parser)
      <4>1. Midway(f, P, n - 1, parser)  BY <1>2, <3>1, <3>2 DEF BroughtOn
      <4> QED BY <1>5, <3>1, <3>2, <4>1
    <3>4. Completed(parser) = f  BY <1>3, <3>2, <3>3, MidwayEnds
    <3>5. b = Flag  BY <1>4, <1>5, <3>1, <3>2
    <3>6. f # 0  OBVIOUS
    <3> QED BY <1>6, <3>4, <3>5, <3>6
  <2> QED BY <2>1, <2>2
<1>9. ASSUME 0 < m, m < L, NEW P, Escaped(f, EncodeFrame(f), P)
      PROVE  Midway(f, P, m - 1, p)
  <2>1. CASE n = 0
    <3>1. n + 1 = 1 /\ 0 <= n /\ n < L /\ m - 1 = 0  BY <1>1, <1>9, <2>1
    <3>2. b = Flag  BY <1>4, <1>5, <1>9, <3>1
    <3>3. Midway(f, P, 0, HandleFlag(parser))  BY <1>3, <1>5, <1>9, MidwayOpens
    <3> QED BY <1>6, <3>1, <3>2, <3>3
  <2>2. CASE n # 0
    <3> DEFINE j == n - 1
    <3>1. /\ 0 < n /\ 0 <= n /\ n < L /\ j \in Nat /\ j < L - 2
          /\ n + 1 = j + 2 /\ m - 1 = j + 1
      BY <1>1, <1>9, <2>2
    <3>2. Midway(f, P, j, parser)  BY <1>2, <1>9, <3>1 DEF BroughtOn
    <3> HIDE DEF j
    <3>3. b = EncodeFrame(f)[j + 2]  BY <1>4, <3>1
    <3>4. j < P[Len(Bodies[f]) + 1]  BY <1>5, <1>9, <3>1
    <3>5. b # Flag /\ Midway(f, P, j + 1, Feed(parser, b))
      BY <1>3, <1>9, <3>1, <3>2, <3>3, <3>4, MidwayFeeds
    <3> QED BY <1>7, <3>1, <3>5
  <2> QED BY <2>1, <2>2
<1>10. BroughtOn(f, m, p, new)  BY <1>8, <1>9 DEF L, BroughtOn
<1> QED BY <1>10 DEF m

\* Reading the line.
LEMMA ByteArrivesFrames ==
    ASSUME FramingInv, ByteArrives
    PROVE  FramingInv'
<1> DEFINE k == Len(Line) - Len(encoded)
           b == Head(encoded).byte
<1>1. /\ firstSeq \in Nat /\ parser \in Parsers /\ Unread(encoded, hurt)
      /\ HeldInOrder(k, parser.raw, received) /\ Counted(firstSeq, received, seqTracker)
  BY DEF FramingInv
<1>2. /\ encoded # <<>> /\ Receives(b) /\ encoded' = Tail(encoded)
      /\ UNCHANGED <<firstSeq, hurt, damages>>
  BY DEF ByteArrives
<1>3. Unread(encoded', hurt) /\ Len(encoded') = Len(encoded) - 1
  BY <1>1, <1>2, UnreadKept
<1>4. /\ k \in 0..Len(Line) /\ k + 1 \in 0..Len(Line) /\ Len(encoded) \in Nat /\ Len(encoded) >= 1
      /\ Len(Line) \in Nat /\ encoded \in Seq(Cells) /\ Len(Line) - Len(encoded') = k + 1
      /\ 1 \in 1..Len(encoded) /\ Head(encoded) = encoded[1]
  <2>1. encoded \in Seq(Cells) /\ Len(encoded) <= Len(Line) /\ Len(Line) \in Nat
    BY <1>1, LineInOrder DEF Unread
  <2>2. Len(encoded) \in Nat /\ Len(encoded) >= 1 /\ Head(encoded) = encoded[1]
    BY <1>2, <2>1
  <2> QED BY <1>3, <2>1, <2>2
<1>5. b \in Bytes
  <2>1. encoded[1] \in Cells  BY <1>4
  <2> QED BY <1>4, <2>1 DEF Cells
<1>6. ASSUME Token(b)
      PROVE  /\ \E q \in 1..k + 1 : Line[q].byte = b
             /\ received # <<>> => b[2] > received[Len(received)]
  <2>1. b = Line[k + 1].byte  BY <1>1, <1>4, <1>6 DEF Unread
  <2>2. k + 1 \in 1..k + 1 /\ k + 1 \in k + 1..Len(Line)  BY <1>4
  <2> HIDE DEF k, b
  <2>3. received # <<>> => Line[k + 1].byte[2] > received[Len(received)]
    BY <1>1, <1>6, <2>1, <2>2 DEF HeldInOrder
  <2> QED BY <2>1, <2>2, <2>3
<1> HIDE DEF b
<1>7. HeldInOrder(k + 1, parser.raw, received)
  <2>1. k <= k + 1  BY <1>4
  <2> HIDE DEF k
  <2> QED BY <1>1, <1>4, <2>1, HeldLonger
<1>8. /\ parser' \in Parsers /\ HeldInOrder(k + 1, parser'.raw, received')
      /\ Counted(firstSeq, received', seqTracker')
      /\ \A f : Holds(received, f) => Holds(received', f)
      /\ IF b = Flag THEN /\ parser' = HandleFlag(parser)
                          /\ Completed(parser) # 0 => Holds(received', Completed(parser))
         ELSE parser' = Feed(parser, b)
  <2> HIDE DEF k
  <2> QED BY <1>1, <1>2, <1>4, <1>5, <1>6, <1>7, ReceivesKeeps
<1> DEFINE m == k + 1
<1>9. ASSUME NEW F, OnLine(F) PROVE CameThrough(F, m, hurt, parser', received')
  <2>1. ASSUME NEW f \in 1..Len(Bodies), f \notin hurt
        PROVE  BroughtOn(f, m - F[f], parser', received')
    <3>1. k = Len(Line) - Len(encoded)  OBVIOUS
    <3>2. encoded # <<>> /\ k \in 0..Len(Line) /\ Head(encoded).byte \in Bytes
      BY <1>2, <1>4, <1>5 DEF b
    <3>3. /\ \A g : Holds(received, g) => Holds(received', g)
          /\ IF Head(encoded).byte = Flag
             THEN /\ parser' = HandleFlag(parser)
                  /\ Completed(parser) # 0 => Holds(received', Completed(parser))
             ELSE parser' = Feed(parser, Head(encoded).byte)
      BY <1>8 DEF b
    <3> HIDE DEF k
    <3>4. BroughtOn(f, (k + 1) - F[f], parser', received')
      BY <1>9, <2>1, <3>1, <3>2, <3>3, ByteBringsOn
    <3> QED BY <3>4 DEF m
  <2> HIDE DEF m
  <2> QED BY <2>1 DEF CameThrough
<1> HIDE DEF k
<1> QED BY <1>1, <1>2, <1>3, <1>4, <1>8, <1>9 DEF FramingInv

--------------------------------------------------------------------------------
(* The payload layouts                                                      *)

FieldNames ==
    {"role", "minimum", "maximum", "reserved", "max_payload", "max_control_rate",
     "capability_bits", "major", "minor", "patch", "hello_sequence", "accepted",
     "selected", "result", "session", "frame", "v4l2_sequence", "target_state",
     "flags", "dx", "dy", "error_x", "error_y", "confidence", "age", "mcu_state",
     "link_state", "stop_latched", "control_valid", "last_rx", "last_control",
     "valid", "crc", "length", "version", "unknown", "gap", "overflow", "overwrite",
     "tick", "pan", "tilt", "transaction", "reason", "acked_type", "detail", "ping",
     "ping_sequence"}
Fields == FieldNames \X Nat

\* How many fields of a width two layouts have, one behind the other.
LEMMA WideJoins ==
    ASSUME NEW a \in Seq(Fields), NEW b \in Seq(Fields), NEW w
    PROVE  /\ Wide(a \o b, w) = Wide(a, w) + Wide(b, w)
           /\ Wide(a, w) \in Nat /\ Wide(b, w) \in Nat
<1> DEFINE A == {i \in 1..Len(a) : a[i][2] = w}
           B == {i \in 1..Len(b) : b[i][2] = w}
           C == {i \in 1..Len(a \o b) : (a \o b)[i][2] = w}
           D == {i \in Len(a) + 1..Len(a) + Len(b) : b[i - Len(a)][2] = w}
           f == [i \in B |-> i + Len(a)]
<1>1. /\ Len(a) \in Nat /\ Len(b) \in Nat /\ Len(a \o b) = Len(a) + Len(b)
      /\ DOMAIN a = 1..Len(a) /\ DOMAIN b = 1..Len(b) /\ DOMAIN (a \o b) = 1..Len(a \o b)
      /\ \A i \in 1..Len(a) : (a \o b)[i] = a[i]
      /\ \A i \in Len(a) + 1..Len(a) + Len(b) : (a \o b)[i] = b[i - Len(a)]
  OBVIOUS
<1>2. Wide(a, w) = Cardinality(A) /\ Wide(b, w) = Cardinality(B) /\ Wide(a \o b, w) = Cardinality(C)
  BY <1>1 DEF Wide
<1>3. IsFiniteSet(A) /\ Cardinality(A) \in Nat
  <2>1. 1 \in Int /\ Len(a) \in Int  BY <1>1
  <2>2. IsFiniteSet(1..Len(a))  BY <2>1, FS_Interval
  <2>3. A \in SUBSET (1..Len(a))  OBVIOUS
  <2> HIDE DEF A
  <2>4. IsFiniteSet(A)  BY <2>2, <2>3, FS_Subset
  <2> QED BY <2>4, FS_CardinalityType
<1>4. IsFiniteSet(B) /\ Cardinality(B) \in Nat
  <2>1. 1 \in Int /\ Len(b) \in Int  BY <1>1
  <2>2. IsFiniteSet(1..Len(b))  BY <2>1, FS_Interval
  <2>3. B \in SUBSET (1..Len(b))  OBVIOUS
  <2> HIDE DEF B
  <2>4. IsFiniteSet(B)  BY <2>2, <2>3, FS_Subset
  <2> QED BY <2>4, FS_CardinalityType
<1>5. C = A \cup D /\ A \cap D = {}  BY <1>1
<1>6. f \in Injection(B, D) /\ f \in Surjection(B, D)
  <2>1. f \in [B -> D]
    <3>1. ASSUME NEW i \in B PROVE i + Len(a) \in D
      <4>1. (i + Len(a)) - Len(a) = i /\ i + Len(a) \in Len(a) + 1..Len(a) + Len(b)
        BY <1>1
      <4> QED BY <4>1
    <3> HIDE DEF B, D
    <3> QED BY <3>1
  <2>2. \A i, j \in B : f[i] = f[j] => i = j  BY <1>1
  <2>3. ASSUME NEW i \in D PROVE \E j \in B : f[j] = i
    <3>1. i - Len(a) \in B /\ (i - Len(a)) + Len(a) = i  BY <1>1
    <3> QED BY <3>1
  <2> HIDE DEF B, D, f
  <2> QED BY <2>1, <2>2, <2>3 DEF Injection, Surjection, IsInjective
<1> HIDE DEF A, B, C, D, f
<1>7. IsFiniteSet(D) /\ Cardinality(D) = Cardinality(B)  BY <1>4, <1>6, FS_Surjection
<1>8. Cardinality(C) = Cardinality(A) + Cardinality(D)
  <2>1. Cardinality(A \cup D) = Cardinality(A) + Cardinality(D) - Cardinality({})
    BY <1>3, <1>5, <1>7, FS_Union
  <2> QED BY <1>3, <1>4, <1>5, <1>7, <2>1, FS_EmptySet
<1> QED BY <1>2, <1>3, <1>4, <1>7, <1>8

\* Layouts of fields of known widths.
Layout(fields, size) == fields \in Seq(Fields) /\ Size(fields) = size

\* The size of two layouts, one behind the other.
LEMMA LayoutsJoin ==
    ASSUME NEW a, NEW b, NEW m \in Nat, NEW n \in Nat, Layout(a, m), Layout(b, n)
    PROVE  Layout(a \o b, m + n)
<1>1. a \in Seq(Fields) /\ b \in Seq(Fields) /\ a \o b \in Seq(Fields)  BY DEF Layout
<1>2. \A w : /\ Wide(a \o b, w) = Wide(a, w) + Wide(b, w)
             /\ Wide(a, w) \in Nat /\ Wide(b, w) \in Nat
  BY <1>1, WideJoins
<1> DEFINE A(w) == Wide(a, w)  B(w) == Wide(b, w)  C(w) == Wide(a \o b, w)
<1>3. /\ C(1) = A(1) + B(1) /\ C(2) = A(2) + B(2) /\ C(4) = A(4) + B(4)
      /\ A(1) \in Nat /\ A(2) \in Nat /\ A(4) \in Nat
      /\ B(1) \in Nat /\ B(2) \in Nat /\ B(4) \in Nat
  BY <1>2
<1>4. /\ m = A(1) + 2 * A(2) + 4 * A(4) /\ n = B(1) + 2 * B(2) + 4 * B(4)
      /\ Size(a \o b) = C(1) + 2 * C(2) + 4 * C(4)
  BY DEF Layout, Size
<1> HIDE DEF A, B, C
<1>5. Size(a \o b) = m + n  BY <1>3, <1>4
<1> QED BY <1>1, <1>5 DEF Layout

\* The size of a layout of fields of one width.
LEMMA AllWide ==
    ASSUME NEW names \in Seq(FieldNames), NEW n, n = Len(names), NEW v \in {1, 2, 4}, NEW fields,
           fields = [i \in DOMAIN names |-> <<names[i], v>>]
    PROVE  Layout(fields, v * n) /\ n \in Nat
<1>1. n \in Nat /\ DOMAIN names = 1..n /\ \A i \in 1..n : names[i] \in FieldNames
  OBVIOUS
<1>2. \A i \in 1..n : <<names[i], v>> \in Fields  BY <1>1 DEF Fields
<1>3. /\ fields \in Seq(Fields) /\ DOMAIN fields = 1..n
      /\ \A i \in 1..n : fields[i] = <<names[i], v>>
  BY <1>1, <1>2
<1>4. \A i \in 1..n : fields[i][2] = v  BY <1>3
<1>5. Cardinality(1..n) = n /\ Cardinality({}) = 0
  <2>1. 1 \in Int /\ n \in Int  BY <1>1
  <2>2. Cardinality(1..n) = IF 1 > n THEN 0 ELSE n - 1 + 1  BY <2>1, FS_Interval
  <2> QED BY <1>1, <2>2, FS_EmptySet
<1>6. Wide(fields, v) = n
  <2>1. {i \in DOMAIN fields : fields[i][2] = v} = 1..n  BY <1>3, <1>4
  <2> QED BY <1>5, <2>1 DEF Wide
<1>7. ASSUME NEW w, w # v PROVE Wide(fields, w) = 0
  <2>1. {i \in DOMAIN fields : fields[i][2] = w} = {}  BY <1>3, <1>4, <1>7
  <2> QED BY <1>5, <2>1 DEF Wide
<1>8. Size(fields) = v * n
  <2>1. v = 1 \/ v = 2 \/ v = 4  OBVIOUS
  <2>2. Size(fields) = Wide(fields, 1) + 2 * Wide(fields, 2) + 4 * Wide(fields, 4)
    BY DEF Size
  <2>3. CASE v = 1
    <3>1. Wide(fields, 1) = n /\ Wide(fields, 2) = 0 /\ Wide(fields, 4) = 0
      BY <1>6, <1>7, <2>3
    <3>2. n + 2 * 0 + 4 * 0 = 1 * n  BY <1>1
    <3>3. Size(fields) = n + 2 * 0 + 4 * 0  BY <2>2, <3>1
    <3> QED BY <2>3, <3>2, <3>3
  <2>4. CASE v = 2
    <3>1. Wide(fields, 1) = 0 /\ Wide(fields, 2) = n /\ Wide(fields, 4) = 0
      BY <1>6, <1>7, <2>4
    <3>2. 0 + 2 * n + 4 * 0 = 2 * n  BY <1>1
    <3>3. Size(fields) = 0 + 2 * n + 4 * 0  BY <2>2, <3>1
    <3> QED BY <2>4, <3>2, <3>3
  <2>5. CASE v = 4
    <3>1. Wide(fields, 1) = 0 /\ Wide(fields, 2) = 0 /\ Wide(fields, 4) = n
      BY <1>6, <1>7, <2>5
    <3>2. 0 + 2 * 0 + 4 * n = 4 * n  BY <1>1
    <3>3. Size(fields) = 0 + 2 * 0 + 4 * n  BY <2>2, <3>1
    <3> QED BY <2>5, <3>2, <3>3
  <2> QED BY <2>1, <2>3, <2>4, <2>5
<1> QED BY <1>1, <1>3, <1>8 DEF Layout

\* The sizes that U8, U16 and U32 append.
LEMMA LayoutsAre ==
    ASSUME NEW names \in Seq(FieldNames), NEW n, n = Len(names)
    PROVE  /\ Layout(U8(names), n) /\ Layout(U16(names), 2 * n) /\ Layout(U32(names), 4 * n)
           /\ n \in Nat
<1>1. Layout(U8(names), 1 * n) /\ n \in Nat  BY AllWide DEF U8
<1>2. 1 * n = n  BY <1>1
<1>3. Layout(U16(names), 2 * n)  BY AllWide DEF U16
<1>4. Layout(U32(names), 4 * n)  BY AllWide DEF U32
<1> QED BY <1>1, <1>2, <1>3, <1>4

\* Every message decodes to what was encoded, at the size that is required.
LEMMA PayloadsDo == PayloadsAgree
<1>1. Layout(Terms, 16)
  <2> DEFINE a == U16(<<"max_payload", "max_control_rate">>)
             b == U32(<<"capability_bits">>)
             c == U16(<<"major", "minor", "patch", "reserved">>)
  <2>1. Layout(a, 4)
    <3> DEFINE names == <<"max_payload", "max_control_rate">>
    <3>1. names \in Seq(FieldNames) /\ Len(names) = 2  BY DEF FieldNames
    <3>2. a = U16(names)  OBVIOUS
    <3> HIDE DEF names, a
    <3>3. Layout(a, 2 * 2)  BY <3>1, <3>2, LayoutsAre
    <3> QED BY <3>3
  <2>2. Layout(b, 4)
    <3> DEFINE names == <<"capability_bits">>
    <3>1. names \in Seq(FieldNames) /\ Len(names) = 1  BY DEF FieldNames
    <3>2. b = U32(names)  OBVIOUS
    <3> HIDE DEF names, b
    <3>3. Layout(b, 4 * 1)  BY <3>1, <3>2, LayoutsAre
    <3> QED BY <3>3
  <2>3. Layout(c, 8)
    <3> DEFINE names == <<"major", "minor", "patch", "reserved">>
    <3>1. names \in Seq(FieldNames) /\ Len(names) = 4  BY DEF FieldNames
    <3>2. c = U16(names)  OBVIOUS
    <3> HIDE DEF names, c
    <3>3. Layout(c, 2 * 4)  BY <3>1, <3>2, LayoutsAre
    <3> QED BY <3>3
  <2> HIDE DEF a, b, c
  <2>4. Layout(a \o b, 8)
    <3>1. Layout(a \o b, 4 + 4)  BY <2>1, <2>2, LayoutsJoin
    <3> QED BY <3>1
  <2>5. Layout((a \o b) \o c, 16)
    <3>1. Layout((a \o b) \o c, 8 + 8)  BY <2>4, <2>3, LayoutsJoin
    <3> QED BY <3>1
  <2> QED BY <2>5 DEF a, b, c, Terms
<1>2. Layout(EncodePayload.Hello, 20)
  <2> DEFINE a == U8(<<"role", "minimum", "maximum", "reserved">>)
             b == Terms
  <2>1. Layout(a, 4)
    <3> DEFINE names == <<"role", "minimum", "maximum", "reserved">>
    <3>1. names \in Seq(FieldNames) /\ Len(names) = 4  BY DEF FieldNames
    <3>2. a = U8(names)  OBVIOUS
    <3> HIDE DEF names, a
    <3>3. Layout(a, 4)  BY <3>1, <3>2, LayoutsAre
    <3> QED BY <3>3
  <2>2. Layout(b, 16)  BY <1>1
  <2> HIDE DEF a, b
  <2>3. Layout(a \o b, 20)
    <3>1. Layout(a \o b, 4 + 16)  BY <2>1, <2>2, LayoutsJoin
    <3> QED BY <3>1
  <2> QED BY <2>3 DEF a, b, EncodePayload
<1>3. Layout(EncodePayload.HelloAck, 24)
  <2> DEFINE a == U32(<<"hello_sequence">>)
             b == U8(<<"accepted", "selected", "role", "result">>)
             c == Terms
  <2>1. Layout(a, 4)
    <3> DEFINE names == <<"hello_sequence">>
    <3>1. names \in Seq(FieldNames) /\ Len(names) = 1  BY DEF FieldNames
    <3>2. a = U32(names)  OBVIOUS
    <3> HIDE DEF names, a
    <3>3. Layout(a, 4 * 1)  BY <3>1, <3>2, LayoutsAre
    <3> QED BY <3>3
  <2>2. Layout(b, 4)
    <3> DEFINE names == <<"accepted", "selected", "role", "result">>
    <3>1. names \in Seq(FieldNames) /\ Len(names) = 4  BY DEF FieldNames
    <3>2. b = U8(names)  OBVIOUS
    <3> HIDE DEF names, b
    <3>3. Layout(b, 4)  BY <3>1, <3>2, LayoutsAre
    <3> QED BY <3>3
  <2>3. Layout(c, 16)  BY <1>1
  <2> HIDE DEF a, b, c
  <2>4. Layout(a \o b, 8)
    <3>1. Layout(a \o b, 4 + 4)  BY <2>1, <2>2, LayoutsJoin
    <3> QED BY <3>1
  <2>5. Layout((a \o b) \o c, 24)
    <3>1. Layout((a \o b) \o c, 8 + 16)  BY <2>4, <2>3, LayoutsJoin
    <3> QED BY <3>1
  <2> QED BY <2>5 DEF a, b, c, EncodePayload
<1>4. Layout(EncodePayload.ControlUpdate, 26)
  <2> DEFINE a == U32(<<"session", "frame", "v4l2_sequence">>)
             b == U8(<<"target_state", "flags">>)
             c == U16(<<"dx", "dy", "error_x", "error_y", "confidence", "age">>)
  <2>1. Layout(a, 12)
    <3> DEFINE names == <<"session", "frame", "v4l2_sequence">>
    <3>1. names \in Seq(FieldNames) /\ Len(names) = 3  BY DEF FieldNames
    <3>2. a = U32(names)  OBVIOUS
    <3> HIDE DEF names, a
    <3>3. Layout(a, 4 * 3)  BY <3>1, <3>2, LayoutsAre
    <3> QED BY <3>3
  <2>2. Layout(b, 2)
    <3> DEFINE names == <<"target_state", "flags">>
    <3>1. names \in Seq(FieldNames) /\ Len(names) = 2  BY DEF FieldNames
    <3>2. b = U8(names)  OBVIOUS
    <3> HIDE DEF names, b
    <3>3. Layout(b, 2)  BY <3>1, <3>2, LayoutsAre
    <3> QED BY <3>3
  <2>3. Layout(c, 12)
    <3> DEFINE names == <<"dx", "dy", "error_x", "error_y", "confidence", "age">>
    <3>1. names \in Seq(FieldNames) /\ Len(names) = 6  BY DEF FieldNames
    <3>2. c = U16(names)  OBVIOUS
    <3> HIDE DEF names, c
    <3>3. Layout(c, 2 * 6)  BY <3>1, <3>2, LayoutsAre
    <3> QED BY <3>3
  <2> HIDE DEF a, b, c
  <2>4. Layout(a \o b, 14)
    <3>1. Layout(a \o b, 12 + 2)  BY <2>1, <2>2, LayoutsJoin
    <3> QED BY <3>1
  <2>5. Layout((a \o b) \o c, 26)
    <3>1. Layout((a \o b) \o c, 14 + 12)  BY <2>4, <2>3, LayoutsJoin
    <3> QED BY <3>1
  <2> QED BY <2>5 DEF a, b, c, EncodePayload
<1>5. Layout(EncodePayload.Status, 52)
  <2> DEFINE a == U8(<<"mcu_state", "link_state", "stop_latched", "control_valid">>)
             b == U32(<<"last_rx", "last_control", "valid", "crc", "length", "version",
                        "unknown", "gap", "overflow", "overwrite", "tick">>)
             c == U16(<<"pan", "tilt">>)
  <2>1. Layout(a, 4)
    <3> DEFINE names == <<"mcu_state", "link_state", "stop_latched", "control_valid">>
    <3>1. names \in Seq(FieldNames) /\ Len(names) = 4  BY DEF FieldNames
    <3>2. a = U8(names)  OBVIOUS
    <3> HIDE DEF names, a
    <3>3. Layout(a, 4)  BY <3>1, <3>2, LayoutsAre
    <3> QED BY <3>3
  <2>2. Layout(b, 44)
    <3> DEFINE names == <<"last_rx", "last_control", "valid", "crc", "length", "version",
                          "unknown", "gap", "overflow", "overwrite", "tick">>
    <3>1. names \in Seq(FieldNames) /\ Len(names) = 11  BY DEF FieldNames
    <3>2. b = U32(names)  OBVIOUS
    <3> HIDE DEF names, b
    <3>3. Layout(b, 4 * 11)  BY <3>1, <3>2, LayoutsAre
    <3> QED BY <3>3
  <2>3. Layout(c, 4)
    <3> DEFINE names == <<"pan", "tilt">>
    <3>1. names \in Seq(FieldNames) /\ Len(names) = 2  BY DEF FieldNames
    <3>2. c = U16(names)  OBVIOUS
    <3> HIDE DEF names, c
    <3>3. Layout(c, 2 * 2)  BY <3>1, <3>2, LayoutsAre
    <3> QED BY <3>3
  <2> HIDE DEF a, b, c
  <2>4. Layout(a \o b, 48)
    <3>1. Layout(a \o b, 4 + 44)  BY <2>1, <2>2, LayoutsJoin
    <3> QED BY <3>1
  <2>5. Layout((a \o b) \o c, 52)
    <3>1. Layout((a \o b) \o c, 48 + 4)  BY <2>4, <2>3, LayoutsJoin
    <3> QED BY <3>1
  <2> QED BY <2>5 DEF a, b, c, EncodePayload
<1>6. Layout(EncodePayload.RemoteStopRequest, 8)
  <2> DEFINE a == U32(<<"transaction">>)
             b == U16(<<"reason", "reserved">>)
  <2>1. Layout(a, 4)
    <3> DEFINE names == <<"transaction">>
    <3>1. names \in Seq(FieldNames) /\ Len(names) = 1  BY DEF FieldNames
    <3>2. a = U32(names)  OBVIOUS
    <3> HIDE DEF names, a
    <3>3. Layout(a, 4 * 1)  BY <3>1, <3>2, LayoutsAre
    <3> QED BY <3>3
  <2>2. Layout(b, 4)
    <3> DEFINE names == <<"reason", "reserved">>
    <3>1. names \in Seq(FieldNames) /\ Len(names) = 2  BY DEF FieldNames
    <3>2. b = U16(names)  OBVIOUS
    <3> HIDE DEF names, b
    <3>3. Layout(b, 2 * 2)  BY <3>1, <3>2, LayoutsAre
    <3> QED BY <3>3
  <2> HIDE DEF a, b
  <2>3. Layout(a \o b, 8)
    <3>1. Layout(a \o b, 4 + 4)  BY <2>1, <2>2, LayoutsJoin
    <3> QED BY <3>1
  <2> QED BY <2>3 DEF a, b, EncodePayload
<1>7. Layout(EncodePayload.ClearRemoteStop, 4)
  <2> DEFINE a == U32(<<"transaction">>)
  <2>1. Layout(a, 4)
    <3> DEFINE names == <<"transaction">>
    <3>1. names \in Seq(FieldNames) /\ Len(names) = 1  BY DEF FieldNames
    <3>2. a = U32(names)  OBVIOUS
    <3> HIDE DEF names, a
    <3>3. Layout(a, 4 * 1)  BY <3>1, <3>2, LayoutsAre
    <3> QED BY <3>3
  <2> HIDE DEF a
  <2> QED BY <2>1 DEF a, EncodePayload
<1>8. Layout(EncodePayload.Ack, 12)
  <2> DEFINE a == U8(<<"acked_type", "reserved">>)
             b == U16(<<"result">>)
             c == U32(<<"transaction">>)
             d == U16(<<"detail", "reserved">>)
  <2>1. Layout(a, 2)
    <3> DEFINE names == <<"acked_type", "reserved">>
    <3>1. names \in Seq(FieldNames) /\ Len(names) = 2  BY DEF FieldNames
    <3>2. a = U8(names)  OBVIOUS
    <3> HIDE DEF names, a
    <3>3. Layout(a, 2)  BY <3>1, <3>2, LayoutsAre
    <3> QED BY <3>3
  <2>2. Layout(b, 2)
    <3> DEFINE names == <<"result">>
    <3>1. names \in Seq(FieldNames) /\ Len(names) = 1  BY DEF FieldNames
    <3>2. b = U16(names)  OBVIOUS
    <3> HIDE DEF names, b
    <3>3. Layout(b, 2 * 1)  BY <3>1, <3>2, LayoutsAre
    <3> QED BY <3>3
  <2>3. Layout(c, 4)
    <3> DEFINE names == <<"transaction">>
    <3>1. names \in Seq(FieldNames) /\ Len(names) = 1  BY DEF FieldNames
    <3>2. c = U32(names)  OBVIOUS
    <3> HIDE DEF names, c
    <3>3. Layout(c, 4 * 1)  BY <3>1, <3>2, LayoutsAre
    <3> QED BY <3>3
  <2>4. Layout(d, 4)
    <3> DEFINE names == <<"detail", "reserved">>
    <3>1. names \in Seq(FieldNames) /\ Len(names) = 2  BY DEF FieldNames
    <3>2. d = U16(names)  OBVIOUS
    <3> HIDE DEF names, d
    <3>3. Layout(d, 2 * 2)  BY <3>1, <3>2, LayoutsAre
    <3> QED BY <3>3
  <2> HIDE DEF a, b, c, d
  <2>5. Layout(a \o b, 4)
    <3>1. Layout(a \o b, 2 + 2)  BY <2>1, <2>2, LayoutsJoin
    <3> QED BY <3>1
  <2>6. Layout((a \o b) \o c, 8)
    <3>1. Layout((a \o b) \o c, 4 + 4)  BY <2>5, <2>3, LayoutsJoin
    <3> QED BY <3>1
  <2>7. Layout(((a \o b) \o c) \o d, 12)
    <3>1. Layout(((a \o b) \o c) \o d, 8 + 4)  BY <2>6, <2>4, LayoutsJoin
    <3> QED BY <3>1
  <2> QED BY <2>7 DEF a, b, c, d, EncodePayload
<1>9. Layout(EncodePayload.Ping, 4)
  <2> DEFINE a == U32(<<"ping">>)
  <2>1. Layout(a, 4)
    <3> DEFINE names == <<"ping">>
    <3>1. names \in Seq(FieldNames) /\ Len(names) = 1  BY DEF FieldNames
    <3>2. a = U32(names)  OBVIOUS
    <3> HIDE DEF names, a
    <3>3. Layout(a, 4 * 1)  BY <3>1, <3>2, LayoutsAre
    <3> QED BY <3>3
  <2> HIDE DEF a
  <2> QED BY <2>1 DEF a, EncodePayload
<1>10. Layout(EncodePayload.Pong, 8)
  <2> DEFINE a == U32(<<"ping", "ping_sequence">>)
  <2>1. Layout(a, 8)
    <3> DEFINE names == <<"ping", "ping_sequence">>
    <3>1. names \in Seq(FieldNames) /\ Len(names) = 2  BY DEF FieldNames
    <3>2. a = U32(names)  OBVIOUS
    <3> HIDE DEF names, a
    <3>3. Layout(a, 4 * 2)  BY <3>1, <3>2, LayoutsAre
    <3> QED BY <3>3
  <2> HIDE DEF a
  <2> QED BY <2>1 DEF a, EncodePayload
<1>11. Layout(EncodePayload.Heartbeat, 0)
  <2>1. <<>> \in Seq(Fields) /\ DOMAIN <<>> = {}  OBVIOUS
  <2>2. \A w : Wide(<<>>, w) = 0
    <3>1. \A w : {i \in DOMAIN <<>> : <<>>[i][2] = w} = {}  BY <2>1
    <3> QED BY <3>1, FS_EmptySet DEF Wide
  <2>3. Layout(<<>>, 0)  BY <2>1, <2>2 DEF Layout, Size
  <2> QED BY <2>3 DEF EncodePayload
<1>12. ASSUME NEW m \in DOMAIN PayloadSize
      PROVE  m \in {"Hello", "HelloAck", "ControlUpdate", "Status", "RemoteStopRequest",
                    "ClearRemoteStop", "Ack", "Ping", "Pong", "Heartbeat"}
  BY DEF PayloadSize
<1>13. /\ PayloadSize.Hello = 20
      /\ PayloadSize.HelloAck = 24
      /\ PayloadSize.ControlUpdate = 26
      /\ PayloadSize.Status = 52
      /\ PayloadSize.RemoteStopRequest = 8
      /\ PayloadSize.ClearRemoteStop = 4
      /\ PayloadSize.Ack = 12
      /\ PayloadSize.Ping = 4
      /\ PayloadSize.Pong = 8
      /\ PayloadSize.Heartbeat = 0
  BY DEF PayloadSize
<1>14. /\ DecodePayload.Hello = EncodePayload.Hello
      /\ DecodePayload.HelloAck = EncodePayload.HelloAck
      /\ DecodePayload.ControlUpdate = EncodePayload.ControlUpdate
      /\ DecodePayload.Status = EncodePayload.Status
      /\ DecodePayload.RemoteStopRequest = EncodePayload.RemoteStopRequest
      /\ DecodePayload.ClearRemoteStop = EncodePayload.ClearRemoteStop
      /\ DecodePayload.Ack = EncodePayload.Ack
      /\ DecodePayload.Ping = EncodePayload.Ping
      /\ DecodePayload.Pong = EncodePayload.Pong
      /\ DecodePayload.Heartbeat = EncodePayload.Heartbeat
  BY DEF DecodePayload, EncodePayload, ReadHello, ReadHelloAck, ReadAckLike, ReadStatus,
     ReadControlUpdate
<1>15. /\ Size(EncodePayload.Hello) = 20
      /\ Size(EncodePayload.HelloAck) = 24
      /\ Size(EncodePayload.ControlUpdate) = 26
      /\ Size(EncodePayload.Status) = 52
      /\ Size(EncodePayload.RemoteStopRequest) = 8
      /\ Size(EncodePayload.ClearRemoteStop) = 4
      /\ Size(EncodePayload.Ack) = 12
      /\ Size(EncodePayload.Ping) = 4
      /\ Size(EncodePayload.Pong) = 8
      /\ Size(EncodePayload.Heartbeat) = 0
  BY <1>2, <1>3, <1>4, <1>5, <1>6, <1>7, <1>8, <1>9, <1>10, <1>11 DEF Layout
<1> QED BY <1>12, <1>13, <1>14, <1>15 DEF PayloadsAgree

--------------------------------------------------------------------------------
(* The theorem                                                              *)

\* The invariant of the byte layer.
LEMMA FramingHolds == FramingSpec => []FramingInv
<1>1. FramingInv /\ [FramingNext]_framingVars => FramingInv'
  <2> SUFFICES ASSUME FramingInv, [FramingNext]_framingVars PROVE FramingInv'  OBVIOUS
  <2>1. CASE ByteArrives  BY <2>1, ByteArrivesFrames
  <2>2. CASE Tick  BY <2>2, TickFrames
  <2>3. CASE Damage  BY <2>3, DamageFrames
  <2>4. CASE Noise  BY <2>4, NoiseFrames
  <2>5. CASE UNCHANGED framingVars  BY <2>5 DEF framingVars, FramingInv
  <2> QED BY <2>1, <2>2, <2>3, <2>4, <2>5 DEF FramingNext
<1> QED BY <1>1, FramingBegins, PTL DEF FramingSpec

\* What the invariant says of the property.
LEMMA FramingFollows == FramingInv => FramingKept
<1> SUFFICES ASSUME FramingInv PROVE FramingKept  OBVIOUS
<1> DEFINE k == Len(Line) - Len(encoded)
<1>1. /\ Unread(encoded, hurt) /\ HeldInOrder(k, parser.raw, received)
      /\ Counted(firstSeq, received, seqTracker)
      /\ \A F : OnLine(F) => CameThrough(F, k, hurt, parser, received)
  BY DEF FramingInv
<1>2. /\ encoded \in Seq(Cells) /\ Len(encoded) \in Nat /\ DOMAIN encoded = 1..Len(encoded)
      /\ Len(Line) \in Nat /\ Len(encoded) <= Len(Line)
      /\ DOMAIN Bodies = 1..Len(Bodies)
  BY <1>1, LineInOrder, FramingAssumption DEF Unread
<1>3. received \in Seq(1..Len(Bodies)) /\ DOMAIN received = 1..Len(received)
  BY <1>1 DEF HeldInOrder
<1>4. \A i, j \in DOMAIN received : i < j => received[i] < received[j]
  BY <1>1, <1>3 DEF HeldInOrder
<1>5. ASSUME NEW f \in 1..Len(Bodies), \A i \in DOMAIN encoded : encoded[i].frame > f,
             f \notin hurt
      PROVE  f \in ToSet(received)
  <2>1. PICK F : OnLine(F)  BY LineIs
  <2> DEFINE L == Len(EncodeFrame(f))
  <2>2. F[f] \in Nat /\ L \in Nat /\ L >= 2 /\ F[f] + L <= Len(Line)
    <3>1. F[f] + L <= Len(Line)  BY <2>1 DEF OnLine
    <3>2. L \in Nat /\ L >= 2  BY FrameLength
    <3> HIDE DEF L
    <3> QED BY <2>1, <3>1, <3>2, StartIs
  <2>3. k - F[f] >= L
    <3> SUFFICES ASSUME ~(k - F[f] >= L) PROVE FALSE  OBVIOUS
    <3> DEFINE i == F[f] + L - k
    <3>1. i \in 1..Len(encoded) /\ (Len(Line) - Len(encoded)) + i = F[f] + L
      <4> HIDE DEF L
      <4> QED BY <1>2, <2>2
    <3> HIDE DEF i
    <3>2. encoded[i].frame = Line[F[f] + L].frame  BY <1>1, <3>1 DEF Unread
    <3>3. Line[F[f] + L].frame = f
      <4>1. L \in 1..Len(EncodeFrame(f))  BY <2>2
      <4>2. Line[F[f] + L] = [byte |-> EncodeFrame(f)[L], frame |-> f, opening |-> L = 1]
        BY <2>1, <4>1 DEF OnLine
      <4> HIDE DEF L
      <4> QED BY <4>2
    <3>4. encoded[i].frame > f  BY <1>2, <1>5, <3>1
    <3> QED BY <3>2, <3>3, <3>4
  <2>4. Holds(received, f)  BY <1>1, <1>5, <2>1, <2>3 DEF CameThrough, BroughtOn
  <2> QED BY <1>3, <2>4 DEF Holds, ToSet
<1>6. FramesRecovered  BY <1>2, <1>4, <1>5 DEF FramesRecovered
<1>7. GapsCounted
  <2> SUFFICES ASSUME received # <<>>
               PROVE  seqTracker.gaps = Last(received) - Head(received) + 1 - Len(received)
    BY DEF GapsCounted
  <2>1. Last(received) = received[Len(received)] /\ Head(received) = received[1]
    BY <1>3 DEF Last
  <2> QED BY <1>1, <2>1 DEF Counted
<1> QED BY <1>6, <1>7, PayloadsDo DEF FramingKept

\* Whatever the line drops, changes or adds, and whatever assemblies time out, a frame whose
\* own bytes arrive whole and in time is handed on, what is handed on was sent, once and in
\* order, and the gap counter is the number of frames missing
\* (uart_protocol.cpp:200-330, 796-824).
THEOREM FramesComeThrough == FramingSpec => []FramingKept
<1> QED BY FramingHolds, FramingFollows, PTL
================================================================================
