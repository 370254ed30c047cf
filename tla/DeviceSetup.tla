----------------------------- MODULE DeviceSetup -----------------------------
(***************************************************************************)
(* How the process gets hold of its devices and libraries, and what each   *)
(* component gives back when a call of opening fails, when it is closed    *)
(* and when it is opened again: the camera (v4l2_camera.cpp), the PCM      *)
(* (audio_capture.cpp), the AAC codec (audio_encode.cpp), the two muxers   *)
(* (mp4_recorder.cpp, network_stream.cpp), the telemetry socket            *)
(* (telemetry.cpp), the serial port (uart_transport.cpp), and the brackets *)
(* around CPU access to a DMA-BUF (dmabuf.cpp).                            *)
(*                                                                         *)
(* What exists in the kernel and the libraries, "objects", is kept apart   *)
(* from what the code can still reach: "members" are the objects that a    *)
(* member refers to, "locals" those that only a local variable does. A     *)
(* clean-up closes the objects it names; what it sets to null without      *)
(* naming it, and what a local refers to when its function returns, is     *)
(* out of reach from then on. An object is                                 *)
(* <<component, what it is, the call and the opening that made it>>.       *)
(***************************************************************************)
EXTENDS Naturals, Sequences

CONSTANTS
    SetupBuffers, SetupPlanes,  \* number of camera buffers and of their planes
    GuardLists,                 \* descriptors given to a guard, in order; 0: none
    MaxSetupFailures,           \* bound: calls that fail
    MaxOpens                    \* bound: openings, starts and guards

ASSUME SetupAssumption == SetupBuffers \in Nat /\ SetupPlanes \in Nat

VARIABLES
    setup,      \* per component: "closed", "opening", "open", "running" or "stopped"
    call,       \* per component that is opening: the call it makes next
    objects, members, locals,
    says,       \* accepting, running and started flags; camera buffers queued
    tty,        \* settings of the line, those saved, whether restoring failed
    guard,      \* DmabufCpuAccessGuard: its list, the place in it, what is active
    brackets,   \* per descriptor: successful SYNC_START minus SYNC_END
    unended,    \* some SYNC_END failed
    setupFailures, opens

heldVars == <<objects, members, locals>>
guardVars == <<guard, brackets, unended>>
setupVars == <<setup, call, heldVars, says, tty, guardVars, setupFailures, opens>>

Components == {"camera", "pcm", "codec", "mp4", "net", "telemetry", "serial"}
Workers == {"pcm", "codec", "net", "telemetry"}
Descriptors == UNION {{l[n] : n \in DOMAIN l} : l \in GuardLists} \ {0}

-----------------------------------------------------------------------------
(* The calls of an opening, in order: what each acquires, or Check where   *)
(* it can only fail.                                                       *)

Check == "check"

\* stat and open, eventfd, QUERYCAP, S_FMT, REQBUFS.
CameraOpening == <<"device", "wake_event", Check, Check, Check>>

\* mmap and EXPBUF of each plane of each buffer.
CameraMappings ==
    [n \in 1..(2 * SetupBuffers * SetupPlanes) |->
        IF n % 2 = 1 THEN "mapping" ELSE "dma_buf"]

\* snd_pcm_open, snd_pcm_status_malloc, hardware, software, prepare.
PcmOpening == <<"pcm", "status", Check, Check, Check>>

\* avcodec_find_encoder, alloc_context3, avcodec_open2, what it reports, thread.
CodecOpening == <<Check, "context", Check, Check, Check>>

\* Output context, streams, their parameters, avio_open, header; the sender
\* also checks its options and creates its thread.
MuxerOpening == <<"format", Check, Check, "file", Check>>
SenderOpening == <<"format", Check, Check, "file", Check, Check, Check>>

\* getaddrinfo, socket, its options, thread. The socket is a local until it has
\* its options.
SocketOpening == <<Check, "socket", Check, Check>>
Configured == 3

\* open, TIOCEXCL, tcgetattr, the speeds, tcsetattr, tcflush. The line is a
\* local until the end.
SerialOpening == <<"line", Check, Check, Check, Check, Check>>
TcGet == 3
TcSet == 5
TcFlush == 6

Chain == [camera |-> CameraOpening \o CameraMappings, pcm |-> PcmOpening,
          codec |-> CodecOpening, mp4 |-> MuxerOpening, net |-> SenderOpening,
          telemetry |-> SocketOpening, serial |-> SerialOpening]

LastCall(c) == Len(Chain[c])
IsThread(c, k) == c \in {"codec", "net", "telemetry"} /\ k = LastCall(c)
InLocal(c) == c \in {"telemetry", "serial"}

-----------------------------------------------------------------------------
(* The clean-ups, each with what it closes.                                *)

\* A plausible bug: ReleaseResources forgets the exported descriptors.
ReleaseUnexported == {"mapping", "device", "wake_event"}

ReleaseResources == {"dma_buf", "mapping", "device", "wake_event"}
PcmClose == {"status", "pcm"}
CloseCodec == {"context"}
CloseLocked == {"file", "format"}      \* avio_closep, avformat_free_context
CloseFormat == {"file", "format"}
CloseSocket == {"socket"}
CloseLine == {"line"}

Closes(c) ==
    CASE c = "camera" -> ReleaseResources
      [] c = "pcm" -> PcmClose
      [] c = "codec" -> CloseCodec
      [] c = "mp4" -> CloseLocked
      [] c = "net" -> CloseFormat
      [] c = "telemetry" -> CloseSocket
      [] c = "serial" -> CloseLine

\* What the branch of a failing call closes, of locals too: the catch of
\* Open and Initialize, or close(fd) in each branch of SerialPort::Open.
BranchCloses(c, k) ==
    CASE c = "camera" -> ReleaseResources
      [] c = "pcm" /\ k > 1 -> PcmClose
      [] c = "codec" -> CloseCodec
      [] c = "mp4" -> CloseLocked
      [] c = "net" -> CloseFormat
      [] c = "telemetry" /\ k = Configured -> {"socket"}     \* close(candidate)
      [] c = "telemetry" /\ k > Configured -> CloseSocket
      [] c = "serial" /\ k = 2 -> {"line"}                   \* TIOCEXCL
      [] c = "serial" /\ k = TcGet -> {"line"}
      [] c = "serial" /\ k = 4 -> {"line"}                   \* cfsetispeed
      [] c = "serial" /\ k = TcSet -> {"line"}
      [] c = "serial" /\ k = TcFlush -> {"line"}
      [] OTHER -> {}

Of(c) == {o \in members : o[1] = c}
OfLocals(c) == {o \in locals : o[1] = c}

\* A routine or branch that closes the names, and returns: what is referred to
\* under them is closed; then no member of the component is set (plane = {},
\* buffers_.clear(), format = nullptr, fd_ = -1), and its locals are gone.
CleanUp(c, names) ==
    /\ objects' = objects \ {o \in members \cup locals : o[1] = c /\ o[2] \in names}
    /\ members' = members \ Of(c)
    /\ locals' = locals \ OfLocals(c)

SetupFails == setupFailures < MaxSetupFailures /\ setupFailures' = setupFailures + 1
FailsIf(b) == IF b THEN SetupFails ELSE UNCHANGED setupFailures
Counted == opens < MaxOpens /\ opens' = opens + 1

SetupInit ==
    /\ setup = [c \in Components |-> "closed"]
    /\ call = [c \in Components |-> 0]
    /\ objects = {} /\ members = {} /\ locals = {}
    /\ says = [accepting |-> FALSE, working |-> {}, started |-> FALSE, queued |-> 0]
    /\ tty = [line |-> "found", saved |-> "none", broken |-> FALSE]
    /\ guard = [list |-> <<>>, at |-> 0, active |-> {}, begun |-> FALSE]
    /\ brackets = [d \in Descriptors |-> 0] /\ unended = FALSE
    /\ setupFailures = 0 /\ opens = 0

-----------------------------------------------------------------------------
(* Opening.                                                                *)

\* tcsetattr(original_termios_), by Close and by the branch of tcflush; only
\* where settings have been saved.
RestoreLine(fails) ==
    tty' = [tty EXCEPT !.line = IF fails \/ tty.saved = "none" THEN @ ELSE tty.saved,
                       !.saved = "none", !.broken = @ \/ fails]

\* Some openings refuse what is open, the others close it first.
MayOpen(c) ==
    CASE c \in {"camera", "pcm", "net"} -> setup[c] = "closed"
      [] c = "codec" -> setup[c] \in {"closed", "stopped"}
      [] c = "telemetry" -> setup[c] = "closed" /\ ~says.started
      [] OTHER -> setup[c] \in {"closed", "open"}

\* The entry of Open, Initialize or Start, which in the codec, the recorder and
\* the serial port closes what is open. One component opens at a time; they
\* share nothing.
BeginOpen(c) ==
    /\ MayOpen(c) /\ Counted
    /\ \A d \in Components : setup[d] # "opening"
    /\ setup' = [setup EXCEPT ![c] = "opening"]
    /\ call' = [call EXCEPT ![c] = 1]
    /\ IF c \in {"codec", "mp4", "serial"} THEN CleanUp(c, Closes(c)) ELSE UNCHANGED heldVars
    /\ \E fails \in BOOLEAN :
        /\ fails => c = "serial" /\ tty.saved # "none"
        /\ FailsIf(fails)
        /\ IF c = "serial" /\ setup[c] = "open" THEN RestoreLine(fails) ELSE UNCHANGED tty
    /\ UNCHANGED <<says, guardVars>>

\* What a successful call makes is referred to by a local, until
\* socket_fd = candidate or fd_ = fd, or by the member that this call assigns,
\* instead of what that referred to. The last call returns.
Acquire(c, k) ==
    LET new == IF Chain[c][k] = Check THEN {} ELSE {<<c, Chain[c][k], k, opens>>}
        keeps == (c = "telemetry" /\ k = Configured) \/ (c = "serial" /\ k = TcFlush)
        replaced == {o \in members : o[1] = c /\ o[3] = k /\ new # {}}
    IN  /\ objects' = objects \cup new
        /\ members' = IF InLocal(c)
                      THEN members \cup (IF keeps THEN OfLocals(c) ELSE {})
                      ELSE (members \ replaced) \cup new
        /\ locals' = IF keeps \/ k = LastCall(c) THEN locals \ OfLocals(c)
                     ELSE IF InLocal(c) THEN locals \cup new ELSE locals

\* original_termios_ = current, then tcsetattr(raw).
LineCall(c, k) ==
    tty' = CASE c = "serial" /\ k = TcGet -> [tty EXCEPT !.saved = tty.line]
             [] c = "serial" /\ k = TcSet -> [tty EXCEPT !.line = "raw"]
             [] OTHER -> tty

\* The next call of the opening succeeds. The flags of the workers are set
\* before their thread is created; the capture's by its thread.
CallSucceeds(c) ==
    LET k == call[c]
        last == k = LastCall(c)
        tells == IsThread(c, k + 1) \/ (c = "pcm" /\ last)
    IN  /\ setup[c] = "opening"
        /\ Acquire(c, k)
        /\ LineCall(c, k)
        /\ setup' = [setup EXCEPT ![c] =
                IF ~last THEN @ ELSE IF c \in Workers THEN "running" ELSE "open"]
        /\ call' = [call EXCEPT ![c] = IF last THEN 0 ELSE k + 1]
        /\ says' = [says EXCEPT !.working = IF tells THEN @ \cup {c} ELSE @,
                                !.accepting = @ \/ (tells /\ c = "net"),
                                !.started = @ \/ (tells /\ c = "telemetry")]
        /\ UNCHANGED <<guardVars, setupFailures, opens>>

\* EXPBUF fails where require_dmabuf_export is off: the plane has no dma_fd.
ExportSkipped ==
    /\ setup["camera"] = "opening"
    /\ Chain["camera"][call["camera"]] = "dma_buf"
    /\ SetupFails
    /\ LET last == call["camera"] = LastCall("camera")
       IN  /\ setup' = [setup EXCEPT !["camera"] = IF last THEN "open" ELSE @]
           /\ call' = [call EXCEPT !["camera"] = IF last THEN 0 ELSE @ + 1]
    /\ UNCHANGED <<heldVars, says, tty, guardVars, opens>>

\* OpenSocket goes on to the next address, when a socket cannot be made or
\* configured.
NextAddress ==
    /\ setup["telemetry"] = "opening"
    /\ call["telemetry"] \in {2, Configured}
    /\ SetupFails
    /\ CleanUp("telemetry", BranchCloses("telemetry", call["telemetry"]))
    /\ call' = [call EXCEPT !["telemetry"] = 2]
    /\ UNCHANGED <<setup, says, tty, guardVars, opens>>

\* The next call fails: its branch, and the return. The flags are taken back
\* when the thread of the sender or the encoder cannot be created; those of the
\* telemetry stay.
CallFails(c) ==
    LET k == call[c]
    IN  /\ setup[c] = "opening"
        /\ SetupFails
        /\ CleanUp(c, BranchCloses(c, k))
        /\ setup' = [setup EXCEPT ![c] = "closed"]
        /\ call' = [call EXCEPT ![c] = 0]
        /\ says' = IF c = "telemetry" THEN says
                   ELSE [says EXCEPT !.accepting = @ /\ c # "net", !.working = @ \ {c}]
        /\ CASE c = "serial" /\ k = TcFlush -> \E fails \in BOOLEAN : RestoreLine(fails)
             [] c = "serial" /\ k # TcFlush -> tty' = [tty EXCEPT !.saved = "none"]
             [] OTHER -> UNCHANGED tty
        /\ UNCHANGED <<guardVars, opens>>

-----------------------------------------------------------------------------
(* Running and closing.                                                    *)

\* V4L2Camera::Start queues every buffer, which a buffer already queued
\* refuses, and starts the stream.
StartCamera ==
    /\ setup["camera"] = "open"
    /\ Counted
    /\ \E n \in 0..SetupBuffers, on \in BOOLEAN :
        /\ on => n = SetupBuffers /\ says.queued = 0
        /\ says.queued > 0 => n = 0
        /\ FailsIf(~on /\ says.queued = 0)
        /\ says' = [says EXCEPT !.queued = @ + n]
        /\ setup' = [setup EXCEPT !["camera"] = IF on THEN "running" ELSE @]
    /\ UNCHANGED <<call, heldVars, tty, guardVars>>

\* A worker that cannot go on. The capture closes the PCM; the sender stops
\* accepting and closes its format; the encoder leaves its codec as it is, or
\* closed, when it could not be opened anew after a discontinuity.
WorkerEnds ==
    /\ \E c \in {"pcm", "codec", "net"}, closes \in BOOLEAN :
        /\ setup[c] = "running" /\ c \in says.working
        /\ SetupFails
        /\ c # "codec" => closes
        /\ IF closes THEN CleanUp(c, Closes(c)) ELSE UNCHANGED heldVars
        /\ says' = [says EXCEPT !.accepting = @ /\ c # "net", !.working = @ \ {c}]
    /\ UNCHANGED <<setup, call, tty, guardVars, opens>>

\* A discontinuity: OpenCodec closes the codec and makes a new one.
CodecReopens ==
    /\ setup["codec"] = "running" /\ "codec" \in says.working
    /\ Counted
    /\ LET closed == {o \in members : o[1] = "codec" /\ o[2] \in CloseCodec}
           new == <<"codec", "context", 2, opens>>
       IN  /\ objects' = (objects \ closed) \cup {new}
           /\ members' = (members \ Of("codec")) \cup {new}
    /\ UNCHANGED <<setup, call, locals, says, tty, guardVars, setupFailures>>

\* AudioEncodeWorker::Stop joins the worker; the codec stays open until the
\* encoder is initialized again or destroyed.
StopEncoder ==
    /\ setup["codec"] = "running"
    /\ setup' = [setup EXCEPT !["codec"] = "stopped"]
    /\ says' = [says EXCEPT !.working = @ \ {"codec"}]
    /\ UNCHANGED <<call, heldVars, tty, guardVars, setupFailures, opens>>

\* Close, Stop, Shutdown, Finalize and the destructors. A trailer that cannot
\* be written does not keep the file open.
CloseComponent(c) ==
    /\ setup[c] \in {"open", "running", "stopped"}
    /\ c = "codec" => setup[c] = "stopped"
    /\ setup' = [setup EXCEPT ![c] = "closed"]
    /\ CleanUp(c, Closes(c))
    /\ says' = [says EXCEPT !.accepting = @ /\ c # "net", !.working = @ \ {c},
                            !.queued = IF c = "camera" THEN 0 ELSE @]
    /\ \E fails \in BOOLEAN :
        /\ fails => c = "serial"
        /\ FailsIf(fails)
        /\ IF c = "serial" THEN RestoreLine(fails) ELSE UNCHANGED tty
    /\ UNCHANGED <<call, guardVars, opens>>

-----------------------------------------------------------------------------
(* DmabufCpuAccessGuard.                                                   *)

\* BeginFds refuses while descriptors are active.
BeginFds ==
    /\ guard.active = {} /\ guard.at = 0
    /\ Counted
    /\ \E list \in GuardLists :
        guard' = [list |-> list, at |-> 1, active |-> {}, begun |-> FALSE]
    /\ UNCHANGED <<setup, call, heldVars, says, tty, brackets, unended, setupFailures>>

\* End takes every descriptor off the active ones, also after a SYNC_END has
\* failed.
End(bad) ==
    /\ brackets' = [d \in Descriptors |->
            IF d \in guard.active \ bad THEN brackets[d] - 1 ELSE brackets[d]]
    /\ unended' = (unended \/ bad # {})

\* A plausible bug: a descriptor named twice is started twice.
NeverActive(d) == FALSE

IsActive(d) == d \in guard.active

\* BeginFds' next descriptor: one that is active is skipped, one that is
\* invalid or fails ends those before it.
SyncStart ==
    /\ guard.at > 0
    /\ LET d == guard.list[guard.at]
           next == IF guard.at = Len(guard.list) THEN 0 ELSE guard.at + 1
       IN  \/ /\ IsActive(d)
              /\ guard' = [guard EXCEPT !.at = next, !.begun = (next = 0)]
              /\ UNCHANGED <<brackets, unended, setupFailures>>
           \/ /\ ~IsActive(d) /\ d # 0
              /\ guard' = [guard EXCEPT !.at = next, !.begun = (next = 0), !.active = @ \cup {d}]
              /\ brackets' = [brackets EXCEPT ![d] = @ + 1]
              /\ UNCHANGED <<unended, setupFailures>>
           \/ /\ ~IsActive(d)
              /\ FailsIf(d # 0)
              /\ \E bad \in SUBSET guard.active : End(bad)
              /\ guard' = [guard EXCEPT !.at = 0, !.active = {}]
    /\ UNCHANGED <<setup, call, heldVars, says, tty, opens>>

\* End, by its owner or the destructor.
EndFds ==
    /\ guard.at = 0 /\ guard.active # {}
    /\ \E bad \in SUBSET guard.active : FailsIf(bad # {}) /\ End(bad)
    /\ guard' = [guard EXCEPT !.active = {}, !.begun = FALSE]
    /\ UNCHANGED <<setup, call, heldVars, says, tty, opens>>

OpenComponent == \E c \in Components : BeginOpen(c) \/ CallSucceeds(c) \/ CallFails(c)

SetupNext == \/ OpenComponent \/ ExportSkipped \/ NextAddress
             \/ StartCamera \/ WorkerEnds \/ CodecReopens \/ StopEncoder
             \/ \E c \in Components : CloseComponent(c)
             \/ BeginFds \/ SyncStart \/ EndFds

SetupSpec == SetupInit /\ [][SetupNext]_setupVars

-----------------------------------------------------------------------------
(* Properties.                                                             *)

\* Whichever call of an opening fails, and however often something is opened
\* again, no object is left that nothing refers to, nothing that is closed is
\* still referred to, and a closed component refers to nothing; a local is
\* referred to only while its function runs.
NothingLost ==
    /\ objects = members \cup locals
    /\ \A c \in Components : setup[c] = "closed" => Of(c) = {}
    /\ \A c \in Components : setup[c] # "opening" => OfLocals(c) = {}

\* Nobody is told that packets are accepted, or that a worker works, when
\* there is no worker and none is being created; a stream runs with every
\* buffer queued.
FlagsTrue ==
    /\ says.accepting => setup["net"] \in {"opening", "running"} /\ Of("net") # {}
    /\ \A c \in says.working : setup[c] \in {"opening", "running"} \/ c = "telemetry"
    /\ setup["camera"] = "running" => says.queued = SetupBuffers
    /\ setup["camera"] = "closed" => says.queued = 0

\* A closed serial line has the settings it was found with, across any number
\* of reconnections and failed openings, unless the line refused them.
LineRestored == setup["serial"] = "closed" /\ ~tty.broken => tty.line = "found"

\* Every SYNC_START is ended once, also those before a failing one, no
\* descriptor is started twice, and a guard that could not begin has none active.
BracketsBalanced ==
    /\ ~unended => \A d \in Descriptors : brackets[d] = IF d \in guard.active THEN 1 ELSE 0
    /\ guard.at = 0 /\ ~guard.begun => guard.active = {}

SetupKept == NothingLost /\ FlagsTrue /\ LineRestored /\ BracketsBalanced
=============================================================================
