---------------------------- MODULE MCRuntimeApp ----------------------------
EXTENDS RuntimeApp

MCOptionSets ==
    {{}, {"supervisor", "uart", "telemetry", "audio", "mp4", "net"}, {"audio", "net", "telemetry"}}
=============================================================================
