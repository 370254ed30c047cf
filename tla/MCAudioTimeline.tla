---------------------------- MODULE MCAudioTimeline ----------------------------
(***************************************************************************)
(* AudioTimeline by itself, at 48 kHz and with AAC frames of 1024 samples. *)
(***************************************************************************)
EXTENDS AudioTimeline

MCDrifts == {-62500, -1, 0, 1, 62500}
================================================================================
