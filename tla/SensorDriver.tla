---------------------------- MODULE SensorDriver ----------------------------
(***************************************************************************)
(* The camera sensor's driver (imx415SDK/imx415.c) under its callers: the  *)
(* media pipeline (s_power, s_stream, set_fmt), the exposure control that  *)
(* sets blanking, exposure and HDR exposures, and V4L2SensorController     *)
(* (v4l2_camera.cpp), which chooses the frame rate. Four data lanes, no    *)
(* fast boot, as the board's device tree has it.                           *)
(*                                                                         *)
(* The driver's fields are those of the record "chip"; "regs" is what the  *)
(* sensor holds. Calls are atomic: most hold imx415->mutex, and the others *)
(* have one caller. The control framework is external: it calls set_ctrl   *)
(* for a value that changes, and for every control in the order of their   *)
(* creation when a stream starts. Gains and flips are written and never    *)
(* read by the driver: they are left out.                                  *)
(***************************************************************************)
EXTENDS Integers, Sequences

CONSTANTS
    Formats,            \* <<bus code, height>> a caller may ask for
    Rates,              \* frame rates a caller may ask for
    Blankings,          \* vertical blanking values
    ExposureTimes,      \* exposure values, in lines
    HdrExposures,       \* [long, middle, short], in lines
    MaxSensorFailures,  \* bound: regulators, clock or I2C that fail
    MaxSensorCalls      \* bound: calls other than power and streaming

ASSUME SensorAssumption ==
    /\ Blankings \cup ExposureTimes \subseteq Nat
    /\ HdrExposures \subseteq [long : Nat, middle : Nat, short : Nat]

VARIABLES
    chip,               \* struct imx415, its runtime-power state and controls
    power,              \* how often the clock and the supplies are enabled
    regs,               \* the sensor's registers
    rhsOld,             \* static rhs1_old (X2), rhs1_old and rhs2_old (X3)
    wanted,             \* the rate ConfigureFrameRate reported; 0: none since another mode was chosen
    settled,            \* exposure written since the frame length last was
    sensorFailures, sensorCalls

sensorVars == <<chip, power, regs, rhsOld, wanted, settled, sensorFailures, sensorCalls>>

-----------------------------------------------------------------------------
(* Modes.                                                                  *)

M(code, height, fps, vts, exp, hdr, rhs1) ==
    [code |-> code, height |-> height, fps |-> fps, vts |-> vts, exp |-> exp,
     hdr |-> hdr, rhs1 |-> rhs1]

\* supported_modes: what the driver reads of each entry, and RHS1 in its
\* register table. hdr is the number of exposures.
TenBitModes == <<
    M(10, 2192, 30, 2250, 2242, 1, 37),  M(10, 2192, 60, 2250, 2242, 1, 37),
    M(10, 2192, 90, 2250, 2242, 1, 37),  M(10, 2192, 30, 4600, 1104, 2, 77),
    M(10, 2192, 20, 6900, 318, 3, 151),  M(10, 2192, 20, 8104, 318, 3, 145) >>
TwelveBitModes == <<
    M(12, 2192, 30, 2250, 2242, 1, 37),  M(12, 2192, 30, 4500, 1028, 2, 77),
    M(12, 2192, 20, 6744, 276, 3, 25),   M(12, 1097, 30, 3165, 1492, 1, 37),
    M(12, 1097, 30, 4600, 575, 2, 37) >>
Modes == TenBitModes \o TwelveBitModes

ModeIds == 1..Len(Modes)
Mode(c) == Modes[c.mode]

\* The first mode of a set in the table's order; 0: there is none.
First(modes) == IF modes = {} THEN 0 ELSE CHOOSE i \in modes : \A j \in modes : i <= j

Higher(a, b) == IF a > b THEN a ELSE b
Lower(a, b) == IF a < b THEN a ELSE b
Distance(a, b) == Higher(a, b) - Lower(a, b)

\* A plausible bug: the current mode is not preferred.
BestFitFirst(c, code, height) ==
    Higher(First({i \in ModeIds : Modes[i].code = code /\ Modes[i].height = height}), 1)

\* imx415_find_best_fit: the current mode if it fits exactly, else the first
\* of the nearest.
BestFit(c, code, height) ==
    LET same == {i \in ModeIds : Modes[i].code = code}
        away(i) == Distance(Modes[i].height, height)
        nearest == {i \in same : \A j \in same : away(i) <= away(j)}
    IN  IF Modes[c.mode].code = code /\ Modes[c.mode].height = height THEN c.mode
        ELSE Higher(First(nearest), 1)

\* imx415_find_mode and the search of RKMODULE_SET_HDR_CFG.
SameShape(c) ==
    {i \in ModeIds : Modes[i].code = Mode(c).code /\ Modes[i].height = Mode(c).height}
ModeOfRate(c, fps) == First({i \in SameShape(c) : Modes[i].hdr = Mode(c).hdr /\ Modes[i].fps = fps})
ModeOfHdr(c, hdr) == First({i \in SameShape(c) : Modes[i].hdr = hdr})

-----------------------------------------------------------------------------
(* Registers and controls. A state s of the driver is                      *)
(* [c |-> chip, r |-> regs, f |-> settled], which the calls below pass on.  *)

NoRegs == [table |-> 0, vmax |-> 0, shr0 |-> 0, rhs1 |-> 0, shr1 |-> 0, rhs2 |-> 0,
           shr2 |-> 0, standby |-> TRUE, hold |-> FALSE]

InUse(c) == c.usage > 0 /\ c.active            \* pm_runtime_get_if_in_use
Linear(c) == Mode(c).hdr = 1

\* set_ctrl(EXPOSURE).
WriteExposure(s) ==
    IF InUse(s.c) /\ Linear(s.c)
    THEN [s EXCEPT !.r.shr0 = s.c.curVts - s.c.exposure, !.f = TRUE]
    ELSE s

\* __v4l2_ctrl_modify_range(exposure): a value above the maximum is lowered
\* to it, and then written.
LimitExposure(s, max) ==
    LET limited == [s EXCEPT !.c.exposureMax = max, !.c.exposure = Lower(@, max)]
    IN  IF s.c.exposure > max THEN WriteExposure(limited) ELSE limited

\* The frame length that set_ctrl(VBLANK) stores, and the register value: HDR
\* modes count lines of each exposure.
FrameLength(c) ==
    LET vts == c.vblank + Mode(c).height
    IN  CASE Mode(c).hdr = 1 -> vts
          [] Mode(c).hdr = 2 -> ((vts + 3) \div 4) * 4
          [] Mode(c).hdr = 3 -> ((vts + 11) \div 12) * 12
RegisterLength(c) == FrameLength(c) \div (CASE Mode(c).hdr = 1 -> 1 [] Mode(c).hdr = 2 -> 2 [] OTHER -> 4)

\* set_ctrl(VBLANK): the exposure's range always, the register when in use.
WriteBlanking(s) ==
    LET t == IF Linear(s.c) THEN LimitExposure(s, Mode(s.c).height + s.c.vblank - 8) ELSE s
    IN  IF ~InUse(t.c) THEN t
        ELSE [t EXCEPT !.c.curVts = FrameLength(t.c), !.r.vmax = RegisterLength(t.c), !.f = FALSE]

SetBlankingTo(s, v) ==
    IF v = s.c.vblank THEN s ELSE WriteBlanking([s EXCEPT !.c.vblank = v])
\* __v4l2_ctrl_modify_range(vblank).
LimitBlanking(s, min) == SetBlankingTo([s EXCEPT !.c.vblankMin = min], Higher(s.c.vblank, min))

\* imx415_change_mode.
ChangeMode(s, m) == [s EXCEPT !.c.mode = m, !.c.curVts = Modes[m].vts]

DefaultBlanking(m) == Modes[m].vts - Modes[m].height

-----------------------------------------------------------------------------
(* HDR exposures.                                                          *)

BasicLines(c) == IF Mode(c).height = 2192 THEN 2228 ELSE 1115
Unsigned(x) == IF x < 0 THEN x + 2^30 ELSE x    \* u32, in a smaller word
Signed(x) == IF x >= 2^29 THEN x - 2^30 ELSE x
\* C rounds a quotient towards zero.
Quotient(a, b) == IF a >= 0 THEN a \div b ELSE -((-a) \div b)

Register20(x) == x % 1048576            \* the 20 bits of a register

\* A plausible bug: a short exposure is not held back.
ShrOfUnclamped(rhs, time, least) == Register20(rhs - time)

\* The start of a short exposure that ends at rhs, compared unsigned.
ShrOf(rhs, time, least) ==
    IF Unsigned(rhs - time) <= least THEN least ELSE Register20(rhs - time)

\* The start of the long exposure: the least comes first.
LongStart(long, least, most) == IF long < least THEN least ELSE Lower(long, most)

\* imx415_set_hdrae: what is written, or that the request is refused. The
\* least RHS1 is compared unsigned: a frame longer than it needs makes it
\* negative again.
HdrTwo(c, e) ==
    LET long == c.curVts - e.middle
        max == Lower(((BasicLines(c) * 2 - 1) \div 4) * 4 + 1, (Unsigned(long - 9) \div 4) * 4 + 1)
        least == Signed(Higher(17, Unsigned(rhsOld.two + 2 * BasicLines(c) - c.curVts + 2)))
        min == Quotient(least + 3, 4) * 4 + 1
        rhs1 == Lower(Higher(((9 + e.short + 3) \div 4) * 4 + 1, min), max)
    IN  IF max < min THEN [ok |-> FALSE, old |-> rhsOld]
        ELSE [ok |-> TRUE, old |-> [rhsOld EXCEPT !.two = rhs1], rhs1 |-> rhs1,
              shr1 |-> ShrOf(rhs1, e.short, 9), rhs2 |-> regs.rhs2, shr2 |-> regs.shr2,
              shr0 |-> LongStart(long, rhs1 + 9, c.curVts - 8)]

\* imx415_set_hdrae_3frame, with two short exposures. A request refused for
\* RHS2 has stored its RHS1.
HdrThree(c, e) ==
    LET fsc == (c.curVts \div 6) * 6
        long == fsc - e.long
        limit(old, least) == Higher(old + 3 * BasicLines(c) - fsc + 3, least)
        max1 == ((BasicLines(c) * 3 - 1) \div 6) * 6 + 1
        min1 == ((limit(rhsOld.three, 25) + 5) \div 6) * 6 + 1
        rhs1 == Higher(Lower(Higher(((18 + e.middle) \div 6) * 6 + 1, 25), max1), min1)
        want2 == ((rhs1 + 18 + e.short) \div 6) * 6 + 2
        min2 == ((limit(rhsOld.last, 50) + 5) \div 6) * 6 + 2
        rhs2 == Higher(IF want2 > long - 13 THEN long - 13 ELSE Higher(want2, 50), min2)
    IN  CASE max1 < min1 -> [ok |-> FALSE, old |-> rhsOld]
          [] max1 >= min1 /\ long - 13 < min2 -> [ok |-> FALSE, old |-> [rhsOld EXCEPT !.three = rhs1]]
          [] OTHER ->
              [ok |-> TRUE, old |-> [rhsOld EXCEPT !.three = rhs1, !.last = rhs2], rhs1 |-> rhs1,
               shr1 |-> ShrOf(rhs1, e.middle, 13), rhs2 |-> rhs2,
               shr2 |-> ShrOf(rhs2, e.short, rhs1 + 13),
               shr0 |-> LongStart(long, rhs2 + 13, fsc - 12)]

\* A plausible bug: a request's RHS1 and RHS2 are not remembered.
HdrWritesForgotten(c, e) ==
    [(IF Mode(c).hdr = 2 THEN HdrTwo(c, e) ELSE HdrThree(c, e)) EXCEPT !.old = rhsOld]

HdrWrites(c, e) == IF Mode(c).hdr = 2 THEN HdrTwo(c, e) ELSE HdrThree(c, e)

\* The registers after it. A refused request leaves the group hold set.
HdrApplied(r, w) ==
    IF ~w.ok THEN [r EXCEPT !.hold = TRUE]
    ELSE [r EXCEPT !.hold = FALSE, !.rhs1 = w.rhs1, !.shr1 = w.shr1, !.rhs2 = w.rhs2,
                   !.shr2 = w.shr2, !.shr0 = w.shr0]

-----------------------------------------------------------------------------
(* The driver.                                                             *)

NoExposure == [long |-> 0, middle |-> 0, short |-> 0]

Unbound == [bound |-> FALSE, active |-> FALSE, error |-> FALSE, usage |-> 0, streaming |-> FALSE,
            powerOn |-> FALSE, mode |-> 1, curVts |-> 0, hasInit |-> FALSE, init |-> NoExposure,
            vblank |-> 0, vblankMin |-> 0, exposure |-> 0, exposureMax |-> 0]

\* kzalloc, the first linear mode, and initialize_controls.
Fresh == [Unbound EXCEPT !.bound = TRUE, !.active = TRUE, !.curVts = Modes[1].vts,
                         !.vblank = DefaultBlanking(1), !.vblankMin = DefaultBlanking(1),
                         !.exposure = Modes[1].exp, !.exposureMax = Modes[1].vts - 8]

Off == [clk |-> 0, supplies |-> 0]

SensorInit ==
    /\ chip = Unbound /\ power = Off /\ regs = NoRegs
    /\ rhsOld = [two |-> 77, three |-> 77, last |-> 77]
    /\ wanted = 0 /\ settled = FALSE
    /\ sensorFailures = 0 /\ sensorCalls = 0

SensorFails == sensorFailures < MaxSensorFailures /\ sensorFailures' = sensorFailures + 1
SensorCall == /\ chip.bound /\ sensorCalls < MaxSensorCalls /\ sensorCalls' = sensorCalls + 1
              /\ UNCHANGED <<power, sensorFailures>>

\* __imx415_power_on: a supply that fails takes the clock with it.
PoweredOn(p, fault) ==
    IF fault = "none" THEN [clk |-> p.clk + 1, supplies |-> p.supplies + 1] ELSE p

PoweredOff(p) == [clk |-> p.clk - 1, supplies |-> p.supplies - 1]

\* imx415_probe: after the power, the chip's id or the registration can fail.
Probe ==
    /\ ~chip.bound
    /\ \/ /\ chip' = Fresh /\ power' = PoweredOn(power, "none")
          /\ UNCHANGED sensorFailures
       \/ /\ SensorFails /\ UNCHANGED chip
          /\ \/ \E fault \in {"clock", "supplies"} : power' = PoweredOn(power, fault)
             \/ power' = PoweredOff(PoweredOn(power, "none"))
    /\ UNCHANGED <<regs, rhsOld, wanted, settled, sensorCalls>>

\* imx415_remove, when nobody has the sensor open. It may not have been
\* suspended yet.
RemoveDriver ==
    /\ chip.bound /\ chip.usage = 0
    /\ power' = IF chip.active THEN PoweredOff(power) ELSE power
    /\ chip' = Unbound /\ regs' = NoRegs /\ wanted' = 0 /\ settled' = FALSE
    /\ UNCHANGED <<rhsOld, sensorFailures, sensorCalls>>

\* The runtime power management suspends an unused sensor some time later.
RuntimeSuspend ==
    /\ chip.active /\ chip.usage = 0
    /\ power' = PoweredOff(power)
    /\ chip' = [chip EXCEPT !.active = FALSE]
    /\ regs' = NoRegs /\ settled' = FALSE
    /\ UNCHANGED <<rhsOld, wanted, sensorFailures, sensorCalls>>

\* pm_runtime_get_sync: it resumes what is suspended. A resume that failed is
\* remembered and refused from then on.
Resumed(fault) ==
    IF chip.active THEN {[ok |-> TRUE, active |-> TRUE, error |-> FALSE, power |-> power]}
    ELSE {[ok |-> fault = "none" /\ ~chip.error, active |-> fault = "none" /\ ~chip.error,
           error |-> fault # "none" \/ chip.error,
           power |-> IF chip.error THEN power ELSE PoweredOn(power, fault)]}

Faults == {"none", "clock", "supplies"}
CountFault(fault) ==
    IF fault = "none" THEN UNCHANGED sensorFailures ELSE ~chip.active /\ SensorFails

\* imx415_s_power.
PowerUp ==
    /\ chip.bound /\ ~chip.powerOn
    /\ \E fault \in Faults : \E g \in Resumed(fault) :
        /\ CountFault(fault)
        /\ power' = g.power
        /\ chip' = [chip EXCEPT !.active = g.active, !.error = g.error, !.powerOn = g.ok,
                                !.usage = IF g.ok THEN @ + 1 ELSE @]
    /\ UNCHANGED <<regs, rhsOld, wanted, settled, sensorCalls>>

PowerDown ==
    /\ chip.powerOn
    /\ chip' = [chip EXCEPT !.powerOn = FALSE, !.usage = @ - 1]
    /\ UNCHANGED <<power, regs, rhsOld, wanted, settled, sensorFailures, sensorCalls>>

\* The registers that a mode's table writes, its frame length among them.
Table(r, m) ==
    [r EXCEPT !.table = m, !.shr0 = 0, !.shr1 = 0, !.rhs2 = 0, !.shr2 = 0, !.rhs1 = Modes[m].rhs1,
              !.vmax = RegisterLength([mode |-> m, vblank |-> DefaultBlanking(m)])]

\* imx415_s_stream(1). The tables, the controls in their order, then the HDR
\* exposures that were asked for before; a refusal leaves all this behind.
StreamOn ==
    /\ chip.bound /\ ~chip.streaming
    /\ \E fault \in Faults, i2c \in BOOLEAN : \E g \in Resumed(fault) :
        LET base == [c |-> [chip EXCEPT !.active = g.active, !.error = g.error, !.usage = @ + 1],
                     r |-> Table(regs, chip.mode), f |-> FALSE]
            set == WriteExposure(WriteBlanking(base))
            deferred == chip.hasInit /\ ~Linear(chip)
            w == HdrWrites(set.c, chip.init)
            on == ~deferred \/ w.ok
        IN  /\ power' = g.power
            /\ IF i2c THEN g.ok /\ fault = "none" /\ SensorFails ELSE CountFault(fault)
            /\ IF ~g.ok \/ i2c
               THEN /\ chip' = [chip EXCEPT !.active = g.active, !.error = g.error]
                    /\ regs' \in {regs, Table(regs, chip.mode)}
                    /\ regs' # regs => i2c
                    /\ settled' = FALSE
                    /\ UNCHANGED rhsOld
               ELSE /\ chip' = [set.c EXCEPT !.streaming = on, !.usage = IF on THEN @ ELSE @ - 1]
                    /\ regs' = [(IF deferred THEN HdrApplied(set.r, w) ELSE set.r) EXCEPT !.standby = ~on]
                    /\ rhsOld' = IF deferred THEN w.old ELSE rhsOld
                    /\ settled' = set.f
    /\ UNCHANGED <<wanted, sensorCalls>>

\* imx415_s_stream(0).
StreamOff ==
    /\ chip.streaming
    /\ chip' = [chip EXCEPT !.streaming = FALSE, !.hasInit = FALSE, !.usage = @ - 1]
    /\ regs' = [regs EXCEPT !.standby = TRUE]
    /\ UNCHANGED <<power, rhsOld, wanted, settled, sensorFailures, sensorCalls>>

Now == [c |-> chip, r |-> regs, f |-> settled]
Becomes(s) == chip' = s.c /\ regs' = s.r /\ settled' = s.f

\* imx415_set_fmt, for the active format.
SetFormat ==
    /\ SensorCall
    /\ \E f \in Formats :
        LET m == BestFit(chip, f[1], f[2])
            s == LimitBlanking(ChangeMode(Now, m), 46)
        IN  /\ Becomes(SetBlankingTo(s, DefaultBlanking(m)))
            /\ wanted' = IF f = <<Mode(chip).code, Mode(chip).height>> THEN wanted ELSE 0
    /\ UNCHANGED rhsOld

ProductRates == {30, 60, 90}

\* ConfigureFrameRate over imx415_s_frame_interval, which refuses while
\* streaming and a rate that no mode of this shape has. It keeps the blanking
\* and cur_vts.
ConfigureFrameRate ==
    /\ SensorCall
    /\ \E fps \in Rates \cap ProductRates :
        LET m == ModeOfRate(chip, fps)
        IN  IF chip.streaming \/ m = 0 THEN UNCHANGED <<chip, regs, settled, wanted>>
            ELSE /\ Becomes(LimitBlanking([Now EXCEPT !.c.mode = m], DefaultBlanking(m)))
                 /\ wanted' = fps
    /\ UNCHANGED rhsOld

\* The controls, clamped to their range.
SetBlanking ==
    /\ SensorCall
    /\ \E v \in Blankings : Becomes(SetBlankingTo(Now, Higher(v, chip.vblankMin)))
    /\ UNCHANGED <<rhsOld, wanted>>

SetExposure ==
    /\ SensorCall
    /\ \E v \in ExposureTimes :
        LET e == Lower(Higher(v, 4), chip.exposureMax)
        IN  Becomes(IF e = chip.exposure THEN Now
                    ELSE WriteExposure([Now EXCEPT !.c.exposure = e]))
    /\ UNCHANGED <<rhsOld, wanted>>

\* PREISP_CMD_SET_HDRAE_EXP: the first request before the stream is kept, the
\* others are written, to a sensor without power in vain.
SetHdrExposure ==
    /\ SensorCall
    /\ ~Linear(chip)
    /\ \E e \in HdrExposures :
        LET w == HdrWrites(chip, e)
        IN  IF ~chip.hasInit /\ ~chip.streaming
            THEN /\ chip' = [chip EXCEPT !.hasInit = TRUE, !.init = e]
                 /\ UNCHANGED <<regs, rhsOld>>
            ELSE /\ regs' = IF chip.active THEN HdrApplied(regs, w) ELSE regs
                 /\ rhsOld' = w.old
                 /\ UNCHANGED chip
    /\ UNCHANGED <<wanted, settled>>

\* RKMODULE_SET_HDR_CFG: the first mode of this shape with so many exposures.
SetHdrConfig ==
    /\ SensorCall
    /\ \E hdr \in 1..3 :
        LET m == ModeOfHdr(chip, hdr)
            s == ChangeMode(Now, m)
            t == IF chip.streaming THEN [s EXCEPT !.r = [Table(@, m) EXCEPT !.hold = FALSE], !.f = FALSE]
                 ELSE s
        IN  IF m = 0 THEN UNCHANGED <<chip, regs, settled, wanted>>
            ELSE Becomes(LimitBlanking(t, DefaultBlanking(m))) /\ wanted' = 0
    /\ UNCHANGED rhsOld

\* RKMODULE_SET_QUICK_STREAM.
QuickStream ==
    /\ SensorCall
    /\ \E on \in BOOLEAN :
        regs' = IF chip.active THEN [regs EXCEPT !.standby = ~on] ELSE regs
    /\ UNCHANGED <<chip, rhsOld, wanted, settled>>

SensorNext == \/ Probe \/ RemoveDriver \/ RuntimeSuspend \/ PowerUp \/ PowerDown
              \/ StreamOn \/ StreamOff \/ SetFormat \/ ConfigureFrameRate
              \/ SetBlanking \/ SetExposure \/ SetHdrExposure \/ SetHdrConfig \/ QuickStream

SensorSpec == SensorInit /\ [][SensorNext]_sensorVars

-----------------------------------------------------------------------------
(* Properties.                                                             *)

\* Clock and supplies are on, once, exactly while a bound sensor is active,
\* after whatever failed; a stream holds the power it needs.
PowerBalanced ==
    /\ power = IF chip.active THEN [clk |-> 1, supplies |-> 1] ELSE Off
    /\ chip.active => chip.bound
    /\ chip.usage = (IF chip.powerOn THEN 1 ELSE 0) + (IF chip.streaming THEN 1 ELSE 0)
    /\ chip.usage > 0 => chip.active

\* The rate that was configured is the rate of the mode the sensor streams
\* in: no repeated S_FMT, restart or power cycle changes it silently.
RateKept == chip.streaming /\ wanted # 0 => Modes[regs.table].fps = wanted

\* In a linear mode, once exposure has been written after the frame length
\* that the blanking control asks for, the sensor exposes for as long as the
\* control says, and starts no earlier than it can if the control's range is
\* that of the frame. (SET_HDR_CFG on a running stream loads the default frame
\* length and leaves the controls and their ranges as they were.)
ExposureMatches ==
    chip.streaming /\ regs.table = chip.mode /\ Linear(chip) /\ settled
    /\ regs.vmax = Mode(chip).height + chip.vblank =>
        /\ regs.vmax - regs.shr0 = chip.exposure
        /\ chip.exposureMax <= regs.vmax - 8 => regs.shr0 >= 8

SensorKept == PowerBalanced /\ RateKept /\ ExposureMatches
=============================================================================
