----------------------------- MODULE UartFraming -----------------------------
(***************************************************************************)
(* The byte layer of the serial protocol                                   *)
(* (src/visionram/src/control/uart_protocol.cpp): EncodeFrame, the         *)
(* FrameParser state machine, the wire sequence tracker and the payload    *)
(* layouts, over a line that damages, drops and adds bytes.                *)
(*                                                                         *)
(* A byte is the flag, the escape or a token <<kind, frame, place>> of the *)
(* raw frame it carries: a frame's header, payload and CRC are its tokens, *)
(* and DecodeRawFrame's length and CRC tests are taken to accept exactly   *)
(* the complete, undamaged raw frames of the sender. The sequence numbers  *)
(* wrap at SeqModulus, in the code at 2^32.                                *)
(***************************************************************************)
EXTENDS Integers, SequencesExt, FiniteSetsExt

CONSTANTS Bodies,       \* the raw frames sent: sequences of byte kinds
          MaxRaw,       \* kMaxRawFrameSize
          SeqModulus,   \* 2^32
          FirstSeqs,    \* wire sequence numbers the sender may start from
          MaxDamage     \* bound: faults of the line

\* A raw frame has a header and a CRC, and fits. So many frames are not sent
\* that one could be taken for older than the one received before it.
ByteKinds == {"plain", "flagValue", "escValue"}

ASSUME FramingAssumption ==
    /\ MaxRaw \in Nat /\ MaxDamage \in Nat
    /\ SeqModulus \in Nat \ {0, 1} /\ FirstSeqs \subseteq 0 .. SeqModulus - 1
    /\ Bodies \in Seq(Seq(ByteKinds)) /\ Len(Bodies) <= SeqModulus \div 2
    /\ \A f \in DOMAIN Bodies : Bodies[f] # <<>> /\ Len(Bodies[f]) <= MaxRaw

VARIABLES firstSeq,     \* the sender's first wire sequence number
          encoded,      \* bytes on the line, each with its frame's number
          parser,       \* the FrameParser
          received,     \* frames handed on, oldest first
          seqTracker,   \* SequenceTracker
          hurt,         \* frames the line damaged or delayed (history)
          damages       \* faults so far

framingVars == <<firstSeq, encoded, parser, received, seqTracker, hurt, damages>>

-----------------------------------------------------------------------------
(* EncodeFrame: a flag, the escaped raw bytes, a flag.                     *)
Flag == <<"flag", 0, 0>>
Escape == <<"escape", 0, 0>>

\* AppendEscaped of one raw byte.
AppendEscaped(token) ==
    IF token[1] = "plain" THEN <<token>> ELSE <<Escape, token>>

RawFrame(f) == [i \in DOMAIN Bodies[f] |-> <<Bodies[f][i], f, i>>]

EncodeFrame(f) ==
    <<Flag>> \o FlattenSeq([i \in DOMAIN Bodies[f] |-> AppendEscaped(RawFrame(f)[i])])
             \o <<Flag>>

\* DecodeRawFrame: the frame the raw bytes are, 0 when they are refused.
DecodeRawFrame(raw) ==
    LET fits == {f \in DOMAIN Bodies : raw = RawFrame(f)}
    IN  IF fits = {} THEN 0 ELSE CHOOSE f \in fits : TRUE

FramingInit ==
    /\ firstSeq \in FirstSeqs
    /\ encoded = FlattenSeq([f \in DOMAIN Bodies |->
                    LET bytes == EncodeFrame(f)
                    IN  [i \in DOMAIN bytes |-> [byte |-> bytes[i], frame |-> f,
                                               opening |-> i = 1]]])
    /\ parser = [collecting |-> FALSE, escape |-> FALSE, discard |-> FALSE,
                 active |-> FALSE, raw |-> <<>>]
    /\ received = <<>>
    /\ seqTracker = [baseline |-> FALSE, last |-> 0, gaps |-> 0]
    /\ hurt = {} /\ damages = 0

-----------------------------------------------------------------------------
(* The FrameParser.                                                        *)
ResetCandidate(collecting) ==
    [collecting |-> collecting, escape |-> FALSE, discard |-> FALSE,
     active |-> FALSE, raw |-> <<>>]

DiscardUntilFlag(p) == [p EXCEPT !.discard = TRUE, !.escape = FALSE, !.raw = <<>>]

AppendRaw(p, token) ==
    IF Len(p.raw) >= MaxRaw THEN DiscardUntilFlag(p)
    ELSE [p EXCEPT !.raw = Append(@, token)]

\* A plausible bug: a flag after a pending escape is taken as data.
HandleFlagEscaped(p) ==
    IF p.escape THEN AppendRaw([p EXCEPT !.escape = FALSE], Flag)
    ELSE IF p.collecting /\ ~p.discard /\ p.raw = <<>> THEN p
    ELSE ResetCandidate(TRUE)

\* HandleFlag: whatever the state, a flag leaves the parser collecting an
\* empty candidate.
HandleFlag(p) ==
    IF p.collecting /\ ~p.escape /\ ~p.discard /\ p.raw = <<>> THEN p
    ELSE ResetCandidate(TRUE)

\* The frame a flag completes, 0 if none.
Completed(p) ==
    IF p.collecting /\ ~p.escape /\ ~p.discard THEN DecodeRawFrame(p.raw) ELSE 0

\* One byte of Feed that is not a flag. After an escape only the two escaped
\* values are legal.
Feed(p, byte) ==
    LET q == [p EXCEPT !.active = TRUE]
    IN  IF ~p.collecting THEN p
        ELSE IF p.discard THEN q
        ELSE IF p.escape
             THEN IF byte[1] \in {"flagValue", "escValue"}
                  THEN AppendRaw([q EXCEPT !.escape = FALSE], byte)
                  ELSE DiscardUntilFlag(q)
        ELSE IF byte = Escape THEN [q EXCEPT !.escape = TRUE]
        ELSE AppendRaw(q, IF byte[1] = "plain" THEN byte ELSE <<"plain", 0, 0>>)

\* SequenceIsNewer compares modulo 2^32: half the circle is newer.
SequenceIsNewer(candidate, reference) ==
    LET delta == (candidate - reference) % SeqModulus
    IN  delta # 0 /\ delta < SeqModulus \div 2

\* SequenceTracker::Observe, of frames of one boot.
ObserveSequence(t, seq) ==
    IF ~t.baseline THEN [baseline |-> TRUE, last |-> seq, gaps |-> t.gaps]
    ELSE IF ~SequenceIsNewer(seq, t.last) THEN t
    ELSE [t EXCEPT !.last = seq, !.gaps = @ + ((seq - t.last) % SeqModulus) - 1]

\* The next byte reaches the parser.
Receives(byte) ==
    IF byte = Flag
    THEN /\ parser' = HandleFlag(parser)
         /\ LET f == Completed(parser)
            IN  IF f = 0 THEN UNCHANGED <<received, seqTracker>>
                ELSE /\ received' = Append(received, f)
                     /\ seqTracker' =
                          ObserveSequence(seqTracker, (firstSeq + f) % SeqModulus)
    ELSE parser' = Feed(parser, byte) /\ UNCHANGED <<received, seqTracker>>

ByteArrives ==
    /\ encoded # <<>>
    /\ Receives(Head(encoded).byte)
    /\ encoded' = Tail(encoded)
    /\ UNCHANGED <<firstSeq, hurt, damages>>

\* Tick after a pause longer than the assembly timeout: the frame under way
\* is given up.
Started == IF encoded = <<>> THEN {} ELSE {Head(encoded).frame}

Tick ==
    /\ parser.collecting /\ parser.active /\ damages < MaxDamage
    /\ parser' = ResetCandidate(FALSE)
    /\ hurt' = hurt \cup Started
    /\ damages' = damages + 1
    /\ UNCHANGED <<firstSeq, encoded, received, seqTracker>>

-----------------------------------------------------------------------------
(* The line (external): a byte of a frame is changed, lost, or another one *)
(* slips in before it, between two frames or within one.                   *)
NoiseBytes == {Flag, Escape, <<"plain", 0, 0>>, <<"flagValue", 0, 0>>}

Damage ==
    /\ encoded # <<>> /\ damages < MaxDamage /\ damages' = damages + 1
    /\ hurt' = hurt \cup Started
    /\ \/ \E byte \in NoiseBytes \ {Head(encoded).byte} :
             encoded' = <<[Head(encoded) EXCEPT !.byte = byte]>> \o Tail(encoded)
       \/ encoded' = Tail(encoded)
    /\ UNCHANGED <<firstSeq, parser, received, seqTracker>>

\* Noise before the opening flag of a frame hurts no frame.
Noise ==
    /\ encoded # <<>> /\ damages < MaxDamage /\ damages' = damages + 1
    /\ hurt' = IF Head(encoded).opening THEN hurt ELSE hurt \cup Started
    /\ \E byte \in NoiseBytes : Receives(byte)
    /\ UNCHANGED <<firstSeq, encoded>>

FramingNext == ByteArrives \/ Tick \/ Damage \/ Noise

FramingSpec == FramingInit /\ [][FramingNext]_framingVars

-----------------------------------------------------------------------------
\* A frame whose own bytes arrive whole and in time is received, whatever came
\* before it on the line; what is received was sent, once and in order
\* (uart_protocol.cpp:200-330).
FramesRecovered ==
    /\ \A i, j \in DOMAIN received : i < j => received[i] < received[j]
    /\ \A f \in DOMAIN Bodies :
          (\A i \in DOMAIN encoded : encoded[i].frame > f)
             => f \in hurt \cup ToSet(received)

\* The gap counter is the number of frames missing between the first and the
\* last one received, across the wrap of the sequence numbers
\* (uart_protocol.cpp:796-824).
GapsCounted ==
    received # <<>> =>
        seqTracker.gaps = Last(received) - Head(received) + 1 - Len(received)

-----------------------------------------------------------------------------
(* The payload layouts, field by field as <<name, width>>: what            *)
(* EncodePayload appends and DecodePayload reads for each message, and the *)
(* size DecodePayload requires. Ack is also the layout of NACK.            *)
U8(names) == [i \in DOMAIN names |-> <<names[i], 1>>]
U16(names) == [i \in DOMAIN names |-> <<names[i], 2>>]
U32(names) == [i \in DOMAIN names |-> <<names[i], 4>>]

PayloadSize == [Hello |-> 20, HelloAck |-> 24, Heartbeat |-> 0, ControlUpdate |-> 26,
                Status |-> 52, RemoteStopRequest |-> 8, ClearRemoteStop |-> 4,
                Ack |-> 12, Ping |-> 4, Pong |-> 8]

Terms == U16(<<"max_payload", "max_control_rate">>) \o U32(<<"capability_bits">>)
         \o U16(<<"major", "minor", "patch", "reserved">>)

EncodePayload ==
    [Hello |-> U8(<<"role", "minimum", "maximum", "reserved">>) \o Terms,
     HelloAck |-> U32(<<"hello_sequence">>)
         \o U8(<<"accepted", "selected", "role", "result">>) \o Terms,
     Heartbeat |-> <<>>,
     ControlUpdate |-> U32(<<"session", "frame", "v4l2_sequence">>)
         \o U8(<<"target_state", "flags">>)
         \o U16(<<"dx", "dy", "error_x", "error_y", "confidence", "age">>),
     Status |-> U8(<<"mcu_state", "link_state", "stop_latched", "control_valid">>)
         \o U32(<<"last_rx", "last_control", "valid", "crc", "length", "version",
                  "unknown", "gap", "overflow", "overwrite", "tick">>)
         \o U16(<<"pan", "tilt">>),
     RemoteStopRequest |-> U32(<<"transaction">>) \o U16(<<"reason", "reserved">>),
     ClearRemoteStop |-> U32(<<"transaction">>),
     Ack |-> U8(<<"acked_type", "reserved">>) \o U16(<<"result">>)
         \o U32(<<"transaction">>) \o U16(<<"detail", "reserved">>),
     Ping |-> U32(<<"ping">>),
     Pong |-> U32(<<"ping", "ping_sequence">>)]

ReadHello == U8(<<"role", "minimum", "maximum", "reserved">>) \o Terms
ReadHelloAck ==
    U32(<<"hello_sequence">>) \o U8(<<"accepted", "selected", "role", "result">>)
    \o Terms
ReadAckLike ==
    U8(<<"acked_type", "reserved">>) \o U16(<<"result">>) \o U32(<<"transaction">>)
    \o U16(<<"detail", "reserved">>)
ReadStatus ==
    U8(<<"mcu_state", "link_state", "stop_latched", "control_valid">>)
    \o U32(<<"last_rx", "last_control", "valid", "crc", "length", "version",
             "unknown", "gap", "overflow", "overwrite", "tick">>)
    \o U16(<<"pan", "tilt">>)
ReadControlUpdate ==
    U32(<<"session", "frame", "v4l2_sequence">>) \o U8(<<"target_state", "flags">>)
    \o U16(<<"dx", "dy", "error_x", "error_y", "confidence", "age">>)

DecodePayload ==
    [Hello |-> ReadHello, HelloAck |-> ReadHelloAck, Heartbeat |-> <<>>,
     ControlUpdate |-> ReadControlUpdate, Status |-> ReadStatus,
     RemoteStopRequest |-> U32(<<"transaction">>) \o U16(<<"reason", "reserved">>),
     ClearRemoteStop |-> U32(<<"transaction">>), Ack |-> ReadAckLike,
     Ping |-> U32(<<"ping">>), Pong |-> U32(<<"ping", "ping_sequence">>)]

\* Fields are one, two or four bytes wide.
Wide(fields, width) == Cardinality({i \in DOMAIN fields : fields[i][2] = width})
Size(fields) == Wide(fields, 1) + 2 * Wide(fields, 2) + 4 * Wide(fields, 4)

\* Every message decodes to what was encoded: the two sides agree on each
\* field's place and on the size that is required.
PayloadsAgree ==
    \A m \in DOMAIN PayloadSize :
        /\ DecodePayload[m] = EncodePayload[m]
        /\ Size(EncodePayload[m]) = PayloadSize[m]

FramingKept == FramesRecovered /\ GapsCounted /\ PayloadsAgree
=============================================================================
