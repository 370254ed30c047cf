------------------------------- MODULE MCParts -------------------------------
(***************************************************************************)
(* The components that need only their own state, side by side: a          *)
(* behaviour chooses one part, and the others stay in an initial state.    *)
(***************************************************************************)
EXTENDS UartLink, AudioTimeline, RuntimeApp, SupervisorClient,
        TargetControl, TelemetryPath, UartFraming, FrameLayout,
        Perception, DeviceBuffers, HdrFrames, DeviceSetup

VARIABLE part        \* the component that this behaviour is about

MCDrifts == {-62500, -1, 0, 1, 62500}
MCOptionSets ==
    {{}, {"supervisor", "uart", "telemetry", "audio", "mp4", "net"}, {"supervisor", "uart"},
     {"uart", "audio", "mp4"}, {"audio", "net", "telemetry"}, {"audio"}}
MCBodies == << <<"plain", "flagValue">>, <<"escValue", "plain", "plain">>,
               <<"plain", "escValue">> >>
MCSources == {<<6, 8>>, <<1920, 1080>>, <<100, 55>>}
MCModel == <<8, 8>>
MCCellStrides == <<2, 4, 8>>
MCBoxes == {<<1, 1, 1, 1>>, <<0, 0, 0, 0>>, <<3, 1, 0, 4>>}
MCFormats == {<<10, 2192>>, <<12, 1097>>}
MCHdr == {[long |-> 4000, middle |-> 2000, short |-> 100],
          [long |-> 6000, middle |-> 4500, short |-> 20]}
MCFrameFormats == {<<12, 2192>>, <<12, 1097>>}
MCFrameRequests == [long : {4, 4000, 6600}, middle : {20, 4500}, short : {20, 3000}]
MCGuard == {<<1, 2, 1>>, <<1, 2, 0>>, <<1>>}

Parts == {"controls", "timeline", "runtime", "supervisor", "control", "telemetry",
          "framing", "layout", "perception", "devices", "sensor", "frames", "setup"}

\* The sensor again, with HDR requests that fit the frame, that do not, and that
\* are refused, in a row.
HdrSensor == INSTANCE HdrFrames WITH
    Formats <- MCFrameFormats, Rates <- {}, Blankings <- {7000}, ExposureTimes <- {},
    HdrExposures <- MCFrameRequests, MaxSensorFailures <- 0

\* Only the part that runs needs more than one initial state.
PartsInit ==
    /\ part \in Parts
    /\ part # "runtime" => options = {}
    /\ part # "framing" => firstSeq = 0
    /\ part # "perception" =>
        scene = [source |-> <<6, 8>>, first |-> <<1, 0, 0>>, second |-> <<1, 0, 0>>,
                 level |-> 0, other |-> 0, distances |-> <<1, 1, 1, 1>>]
    /\ Init
    /\ TimelineInit
    /\ RuntimeInit
    /\ SupervisorInit
    /\ ControlInit
    /\ TelemetryInit
    /\ FramingInit
    /\ LayoutInit
    /\ PerceptionInit
    /\ DeviceInit
    /\ FramesInit
    /\ SetupInit

PartsNext ==
    \/ /\ part = "controls" /\ Next
       /\ UNCHANGED <<part, timelineVars, runtimeVars, supervisorVars,
                      controlPathVars, telemetryVars, framingVars, layoutVars,
                      perceptionVars, deviceVars, framesVars, setupVars>>
    \/ /\ part = "timeline" /\ TimelineNext
       /\ UNCHANGED <<part, vars, runtimeVars, supervisorVars, controlPathVars,
                      telemetryVars, framingVars, layoutVars, perceptionVars,
                      deviceVars, framesVars, setupVars>>
    \/ /\ part = "runtime" /\ RuntimeNext
       /\ UNCHANGED <<part, vars, timelineVars, supervisorVars, controlPathVars,
                      telemetryVars, framingVars, layoutVars, perceptionVars,
                      deviceVars, framesVars, setupVars>>
    \/ /\ part = "supervisor" /\ SupervisorNext
       /\ UNCHANGED <<part, vars, timelineVars, runtimeVars, controlPathVars,
                      telemetryVars, framingVars, layoutVars, perceptionVars,
                      deviceVars, framesVars, setupVars>>
    \/ /\ part = "control" /\ ControlNext
       /\ UNCHANGED <<part, vars, timelineVars, runtimeVars, supervisorVars,
                      telemetryVars, framingVars, layoutVars, perceptionVars,
                      deviceVars, framesVars, setupVars>>
    \/ /\ part = "telemetry" /\ TelemetryNext
       /\ UNCHANGED <<part, vars, timelineVars, runtimeVars, supervisorVars,
                      controlPathVars, framingVars, layoutVars, perceptionVars,
                      deviceVars, framesVars, setupVars>>
    \/ /\ part = "framing" /\ FramingNext
       /\ UNCHANGED <<part, vars, timelineVars, runtimeVars, supervisorVars,
                      controlPathVars, telemetryVars, layoutVars,
                      perceptionVars, deviceVars, framesVars, setupVars>>
    \/ /\ part = "layout" /\ LayoutNext
       /\ UNCHANGED <<part, vars, timelineVars, runtimeVars, supervisorVars,
                      controlPathVars, telemetryVars, framingVars,
                      perceptionVars, deviceVars, framesVars, setupVars>>
    \/ /\ part = "perception" /\ PerceptionNext
       /\ UNCHANGED <<part, vars, timelineVars, runtimeVars, supervisorVars,
                      controlPathVars, telemetryVars, framingVars, layoutVars,
                      deviceVars, framesVars, setupVars>>
    \/ /\ part = "devices" /\ DeviceNext
       /\ UNCHANGED <<part, vars, timelineVars, runtimeVars, supervisorVars,
                      controlPathVars, telemetryVars, framingVars, layoutVars,
                      perceptionVars, framesVars, setupVars>>
    \/ /\ part = "frames" /\ HdrSensor!FramesNext
       /\ UNCHANGED <<part, vars, timelineVars, runtimeVars, supervisorVars,
                      controlPathVars, telemetryVars, framingVars, layoutVars,
                      perceptionVars, deviceVars, setupVars>>
    \/ /\ part = "sensor" /\ FramesNext
       /\ UNCHANGED <<part, vars, timelineVars, runtimeVars, supervisorVars,
                      controlPathVars, telemetryVars, framingVars, layoutVars,
                      perceptionVars, deviceVars, setupVars>>
    \/ /\ part = "setup" /\ SetupNext
       /\ UNCHANGED <<part, vars, timelineVars, runtimeVars, supervisorVars,
                      controlPathVars, telemetryVars, framingVars, layoutVars,
                      perceptionVars, deviceVars, framesVars>>
==============================================================================
