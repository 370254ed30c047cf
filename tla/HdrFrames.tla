----------------------------- MODULE HdrFrames -----------------------------
(***************************************************************************)
(* What the sensor is given for the exposures of HDR frames, against the   *)
(* restrictions that the driver's comments state (imx415.c:1928-1958 with  *)
(* three exposures, 2181-2201 with two): within the frame that a request   *)
(* makes, and from the frame before the request to that one.               *)
(***************************************************************************)
EXTENDS SensorDriver

VARIABLES
    asked,      \* the last step wrote a request: to a stream that is "starting" or "running"; or "no"
    before      \* the registers before a request written to a running stream

framesVars == <<sensorVars, asked, before>>

Exposures(r) == <<r.shr0, r.rhs1, r.shr1, r.rhs2, r.shr2>>

FramesInit == SensorInit /\ asked = "no" /\ before = NoRegs

\* An accepted request ends the group hold, and the sensor takes its registers
\* with the next frame.
Written == chip'.streaming /\ regs'.shr1 # 0 /\ ~regs'.hold /\ Exposures(regs') # Exposures(regs)

FramesNext ==
    /\ SensorNext
    /\ asked' = IF ~Written THEN "no"
                ELSE IF chip.streaming /\ ~regs.standby THEN "running" ELSE "starting"
    /\ before' = IF asked' = "running" THEN regs ELSE NoRegs

FramesSpec == FramesInit /\ [][FramesNext]_framesVars

-----------------------------------------------------------------------------
(* Properties.                                                             *)

\* A request was written to a stream whose frame has the mode's default length
\* at least. The range that S_FMT gives to VBLANK allows shorter ones.
Asked(hdr) ==
    asked # "no" /\ regs.table = chip.mode /\ Mode(chip).hdr = hdr /\ chip.curVts >= Mode(chip).vts
Stepped(hdr) == Asked(hdr) /\ asked = "running"

\* In such a frame, whatever request is accepted, each exposure starts late
\* enough after the one before it, the readout of a short exposure ends within
\* the lines it may use, and the long one starts before the frame ends. These are the restrictions
\* that the code keeps for every request. It does not clamp a short exposure
\* to its minimum of lines or to the room behind it, nor RHS2 to a long exposure
\* below its minimum, and it leaves the multiples of the exposures' starts to
\* the caller.
ExposuresApart ==
    /\ Asked(2) =>
        /\ chip.curVts = 2 * regs.vmax /\ chip.curVts % 4 = 0
        /\ regs.shr0 <= chip.curVts - 8 /\ regs.shr0 >= regs.rhs1 + 9
        /\ regs.rhs1 < 2 * BasicLines(chip) /\ regs.rhs1 % 4 = 1
        /\ regs.shr1 >= 9
    /\ Asked(3) =>
        /\ chip.curVts = 4 * regs.vmax /\ chip.curVts % 6 = 0
        /\ regs.shr0 <= chip.curVts - 12
        /\ regs.rhs1 < 3 * BasicLines(chip) /\ regs.rhs1 % 6 = 1
        /\ regs.shr1 >= 13 /\ regs.rhs1 <= regs.shr2 - 13
        /\ regs.rhs2 < 3 * BasicLines(chip) + regs.rhs1

\* The rules that compare a frame with the one before it, for RHS1 and RHS2.
StepOfTwo == regs.rhs1 >= before.rhs1 + 2 * BasicLines(chip) - chip.curVts + 2
StepOfThree(now, old) == now >= old + 3 * BasicLines(chip) - chip.curVts + 3

\* From one frame to the next a readout moves up no further than the sensor
\* allows, across requests, refusals, restarts of the stream and changes
\* of the mode, once a request has been written since the mode's table was
\* loaded and, with three exposures, the request before was not refused.
StepsAllowed ==
    /\ Stepped(2) /\ before.shr1 # 0 => StepOfTwo
    /\ Stepped(3) /\ before.shr1 # 0 =>
        /\ StepOfThree(regs.rhs2, before.rhs2)
        /\ ~before.hold => StepOfThree(regs.rhs1, before.rhs1)

\* What the sensor is given for HDR frames keeps the restrictions above.
HdrFramesKept == ExposuresApart /\ StepsAllowed
=============================================================================
