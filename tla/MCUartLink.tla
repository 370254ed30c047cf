------------------------------ MODULE MCUartLink ------------------------------
(* Instances of UartLink for TLC: safety with every fault, and liveness with     *)
(* faults that end.                                                             *)
EXTENDS UartLink
================================================================================
