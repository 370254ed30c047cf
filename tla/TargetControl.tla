---------------------------- MODULE TargetControl ----------------------------
(***************************************************************************)
(* From a raw perception result to a control frame on the serial line:     *)
(* TargetStateMachine::Publish (src/visionram/src/control/                 *)
(* target_state_machine.cpp) on the perception thread, UartControlSink,    *)
(* the link's one-place mailbox, and SendControl on the link's thread,     *)
(* which tests the age of the frame once more. UartLink.tla has the rest   *)
(* of the link; here only READY matters: TransmitControl may always happen. *)
(* Time is in steps of a clock the two threads read for themselves.        *)
(***************************************************************************)
EXTENDS Integers, SequencesExt, FiniteSetsExt

CONSTANTS AcquireHits, LostMisses,  \* TargetStateMachineConfig
          MaxResultAge,             \* max_result_age, in clock steps
          ControlMaxAge,            \* control_max_age_ms of the link
          MaxFrames,                \* bound: frames captured
          MaxAge                    \* bound: how old a frame or a control gets

ASSUME ControlAssumption ==
    /\ AcquireHits \in Nat \ {0} /\ LostMisses \in Nat \ {0}
    /\ MaxResultAge \in Nat \ {0} /\ ControlMaxAge \in Nat

VARIABLES frames,      \* frames captured so far
          packet,      \* the result the perception thread works on
          stage,       \* what it does next: "raw", "submit", "idle"
          machine,     \* snapshot_: hits, misses, acquired, lost_latched
          history,     \* the raw classes of all results (history variable)
          control,     \* the ControlResult to be submitted
          latestControl,  \* the link's control mailbox
          sent         \* the last control frame sent

controlPathVars ==
    <<frames, packet, stage, machine, history, control, latestControl, sent>>

NoControl == [frame |-> 0, state |-> "none", valid |-> FALSE, age |-> 0]

NoPacket == [raw |-> "none", age |-> 0, stamped |-> FALSE]

ControlInit ==
    /\ frames = 0 /\ stage = "idle"
    /\ packet = NoPacket
    /\ machine = [hits |-> 0, misses |-> 0, acquired |-> FALSE, lost |-> FALSE]
    /\ history = <<>>
    /\ control = NoControl /\ latestControl = NoControl /\ sent = NoControl

-----------------------------------------------------------------------------
(* The clock: everything under way grows older.                            *)
ClockTicks ==
    /\ stage # "idle" \/ latestControl # NoControl
    /\ packet.age < MaxAge /\ latestControl.age < MaxAge
    /\ packet' = IF stage = "idle" THEN packet ELSE [packet EXCEPT !.age = @ + 1]
    /\ latestControl' = IF latestControl = NoControl THEN latestControl ELSE [latestControl EXCEPT !.age = @ + 1]
    /\ UNCHANGED <<frames, stage, machine, history, control, sent>>

\* The pipeline delivers the raw result of the next frame (external): the
\* classes are what RawDetected and RawInvalid tell apart. A timestamp is
\* unusable when it is absent or lies ahead of the clock.
Observe(raw, stamped) ==
    /\ stage = "idle" /\ frames < MaxFrames
    /\ frames' = frames + 1
    /\ packet' = [raw |-> raw, age |-> 0, stamped |-> stamped]
    /\ stage' = "raw"
    /\ UNCHANGED <<machine, history, control, latestControl, sent>>

-----------------------------------------------------------------------------
(* TargetStateMachine.                                                     *)

Class(p) ==
    IF p.stamped /\ p.age > MaxResultAge THEN "STALE"
    ELSE IF ~p.stamped \/ p.raw = "invalid" THEN "INVALID"
    ELSE p.raw

\* A plausible bug: only plain misses count towards losing the target.
ClassifyAndUpdateMissesOnly(m, class) ==
    IF class = "hit"
    THEN [hits |-> m.hits + 1, misses |-> 0, lost |-> FALSE,
          acquired |-> m.acquired \/ m.hits + 1 >= AcquireHits]
    ELSE LET misses == IF class = "miss" THEN m.misses + 1 ELSE m.misses
             loses == m.acquired /\ misses >= LostMisses
         IN  [hits |-> 0, misses |-> misses, acquired |-> m.acquired /\ ~loses,
              lost |-> m.lost \/ loses]

ClassifyAndUpdate(m, class) ==
    IF class = "hit"
    THEN [hits |-> m.hits + 1, misses |-> 0, lost |-> FALSE,
          acquired |-> m.acquired \/ m.hits + 1 >= AcquireHits]
    ELSE LET loses == m.acquired /\ m.misses + 1 >= LostMisses
         IN  [hits |-> 0, misses |-> m.misses + 1,
              acquired |-> m.acquired /\ ~loses, lost |-> m.lost \/ loses]

\* The state that is returned and published.
TargetState(m, class) ==
    CASE class = "hit" -> IF m.acquired THEN "DETECTED" ELSE "CANDIDATE"
      [] class = "miss" -> IF m.lost THEN "LOST" ELSE "NO_TARGET"
      [] OTHER -> class

\* Publish up to the end of its critical section. The age is the age at the
\* clock reading, which the lock may still delay.
Decide ==
    /\ stage = "raw"
    /\ LET class == Class(packet)
           m == ClassifyAndUpdate(machine, class)
           state == TargetState(m, class)
       IN  /\ machine' = m
           /\ history' = Append(history, class)
           /\ control' = [frame |-> frames, state |-> state,
                          valid |-> state = "DETECTED", age |-> 0]
    /\ stage' = "submit"
    /\ UNCHANGED <<frames, packet, latestControl, sent>>

-----------------------------------------------------------------------------
(* UartControlSink::Submit and the mailbox: MapControlResult keeps the     *)
(* frame's identity and capture time, and its validity only for a DETECTED *)
(* target with a usable time; a control not yet sent is overwritten.       *)
MapControlResult(c) == [c EXCEPT !.valid = c.valid /\ c.state = "DETECTED"]

Submit ==
    /\ stage = "submit"
    /\ latestControl' = [MapControlResult(control) EXCEPT !.age = packet.age]
    /\ control' = NoControl /\ packet' = NoPacket
    /\ stage' = "idle"
    /\ UNCHANGED <<frames, machine, history, sent>>

TransmitControl ==
    /\ latestControl # NoControl
    /\ sent' = [latestControl EXCEPT !.valid = @ /\ latestControl.age <= ControlMaxAge]
    /\ latestControl' = NoControl
    /\ UNCHANGED <<frames, packet, stage, machine, history, control>>

\* The link's thread clears the mailbox when it ends. Here it may at any time,
\* which only takes away more controls.
MailboxCleared ==
    /\ latestControl # NoControl
    /\ latestControl' = NoControl
    /\ UNCHANGED <<frames, packet, stage, machine, history, control, sent>>

ControlNext ==
    \/ ClockTicks
    \/ \E raw \in {"hit", "miss", "invalid"} : Observe(raw, TRUE)
    \/ Observe("hit", FALSE)
    \/ Decide \/ Submit \/ TransmitControl \/ MailboxCleared

ControlSpec == ControlInit /\ [][ControlNext]_controlPathVars

-----------------------------------------------------------------------------
(* The decision as a function of the whole history, written without the    *)
(* counters: the target is held from a run of AcquireHits hits until a run *)
(* of LostMisses results that are not hits.                                *)
AllHits(from, to) == \A i \in from .. to : history[i] = "hit"
NoHits(from, to) == \A i \in from .. to : history[i] # "hit"

Held(n) ==
    \E k \in AcquireHits .. n :
        /\ AllHits(k - AcquireHits + 1, k)
        /\ \A j \in k .. n - LostMisses : ~NoHits(j + 1, j + LostMisses)

ExpectedState(n) ==
    CASE history[n] \in {"STALE", "INVALID"} -> history[n]
      [] history[n] = "hit" -> IF Held(n) THEN "DETECTED" ELSE "CANDIDATE"
      [] OTHER -> IF \E k \in 1 .. n : Held(k) /\ ~Held(n) /\ NoHits(k + 1, n)
                  THEN "LOST" ELSE "NO_TARGET"

\* The published state is the one the whole history of results calls for: no
\* counter or latch drifts, whatever stale, invalid, missed and detected
\* results are mixed (target_state_machine.cpp:48-101).
DecisionFollowsHistory ==
    stage = "submit" => control.state = ExpectedState(Len(history))

\* "It never reuses an old TargetError": every frame's control is sent at most
\* once and in capture order, and a frame that tells the controller to act is
\* of a held target, detected in that frame, and young enough when it is sent
\* (target_state_machine.cpp:130-184, uart_link.cpp:1205-1250).
OnlyFreshTargetsSent ==
    /\ latestControl # NoControl => latestControl.frame > sent.frame
    /\ sent.valid => /\ sent.age <= ControlMaxAge
                     /\ history[sent.frame] = "hit" /\ Held(sent.frame)

TargetControlKept == DecisionFollowsHistory /\ OnlyFreshTargetsSent
=============================================================================
