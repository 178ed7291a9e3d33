------------------------------- MODULE StepC -------------------------------
(***************************************************************************)
(* Step C of the policy engine: StepCPolicyEngine::Evaluate, a function of *)
(* its input.  It turns the driver state into a throttle limit, an HMI     *)
(* action, the minimum-risk manoeuvre (MRM), the next LKAS mode and the    *)
(* next latched state.                                                     *)
(*                                                                         *)
(* Units.  lkas_throttle is an integer number of percent, a base gain is   *)
(* in tenths and an overlay gain in tenths, so that the throttle limit     *)
(* (in 1/100 percent, see Scale) is exact.  The dashboard record and       *)
(* current_manoeuvre_type only copy values and are left out.               *)
(***************************************************************************)
EXTENDS DcasTypes

CONSTANT
    IntMax      \* the largest value of mrm_activation_count_run_cycle (an int)

ASSUME IntMaxAssumption == IntMax \in Nat /\ IntMax >= 2

Scale == 100    \* a throttle of p percent is the limit p * Scale

MrmCount == -IntMax - 1 .. IntMax

StepCInput == [notebook_input_alive : BOOLEAN,
               driver_override      : BOOLEAN,
               lkas_throttle        : Int,
               lkas_switch_event    : LkasSwitchEvent]

StepCLatchedState == [driver_override_lock           : BOOLEAN,
                      mrm_activation_count_run_cycle : MrmCount,
                      run_cycle_id                   : Nat]

StepCOutput == [throttle_limit : Nat,
                hmi_action     : HmiAction,
                mrm_active     : BOOLEAN]

-----------------------------------------------------------------------------
(* LKAS mode *)

ApplySwitchEvent(mode, event) ==
    CASE event = "ON"   -> IF mode = "OFF" THEN "ON_INACTIVE" ELSE mode
      [] event = "OFF"  -> "OFF"
      [] event = "NONE" -> mode

CanActivate(in, state) == state = "OK" /\ in.notebook_input_alive

\* The mode after the switch event and the two activation conditions.
MutSwitchedModeKeepsActive(in, state, mode) ==
    IF in.lkas_switch_event = "ON" /\ CanActivate(in, state)
    THEN "ON_ACTIVE" ELSE ApplySwitchEvent(mode, in.lkas_switch_event)
MutSwitchedModeAnyEvent(in, state, mode) ==
    LET requested == IF in.lkas_switch_event # "NONE" /\ CanActivate(in, state)
                     THEN "ON_ACTIVE"
                     ELSE ApplySwitchEvent(mode, in.lkas_switch_event)
    IN  IF requested = "ON_ACTIVE" /\ ~CanActivate(in, state)
        THEN "ON_INACTIVE" ELSE requested

SwitchedMode(in, state, mode) ==
    LET requested == IF in.lkas_switch_event = "ON" /\ CanActivate(in, state)
                     THEN "ON_ACTIVE"
                     ELSE ApplySwitchEvent(mode, in.lkas_switch_event)
    IN  IF requested = "ON_ACTIVE" /\ ~CanActivate(in, state)
        THEN "ON_INACTIVE" ELSE requested

-----------------------------------------------------------------------------
(* Throttle and HMI *)

BaseThrottleGain(state) == CASE state = "OK"         -> 10
                             [] state = "WARNING"    -> 6
                             [] state = "ESCALATION" -> 2
                             [] state = "ABSENT"     -> 0

ReasonOverlayGain(state, reason) ==
    IF state \in {"WARNING", "ESCALATION"} /\ reason = "DROWSY" THEN 9 ELSE 10

MutThrottleLimitSigned(in, state, reason) ==
    in.lkas_throttle * BaseThrottleGain(state) * ReasonOverlayGain(state, reason)
MutThrottleLimitWithoutGain(in, state, reason) ==
    NonNegative(in.lkas_throttle * 10 * ReasonOverlayGain(state, reason))

ThrottleLimit(in, state, reason) ==
    NonNegative(in.lkas_throttle * BaseThrottleGain(state)
                                 * ReasonOverlayGain(state, reason))

Hmi(state, reengaged) ==
    CASE state = "OK"         -> "INFO"
      [] state = "WARNING"    -> IF reengaged THEN "INFO" ELSE "EOR"
      [] state = "ESCALATION" -> IF reengaged THEN "INFO" ELSE "DCA"
      [] state = "ABSENT"     -> "MRM"

-----------------------------------------------------------------------------
(* Driver override, the MRM counter and the lockout *)

\* The driver takes over: assistance is off, unless the override is locked.
MutTakenOverAlways(in, latched) == in.driver_override

TakenOver(in, latched) == in.driver_override /\ ~latched.driver_override_lock

\* ++int: past IntMax the build may wrap around (signed overflow is undefined).
Increment(count) == IF count = IntMax THEN -IntMax - 1 ELSE count + 1

MrmRuns(in, state, latched) == state = "ABSENT" /\ ~TakenOver(in, latched)

NextMrmCount(in, state, latched) ==
    IF MrmRuns(in, state, latched)
    THEN Increment(latched.mrm_activation_count_run_cycle)
    ELSE latched.mrm_activation_count_run_cycle

NextLatchedState(in, state, latched) ==
    [latched EXCEPT
        !.mrm_activation_count_run_cycle = NextMrmCount(in, state, latched),
        !.driver_override_lock = \/ latched.driver_override_lock
                                 \/ NextMrmCount(in, state, latched) >= 2]

NextLkasMode(in, state, mode, latched) ==
    IF TakenOver(in, latched) \/ NextMrmCount(in, state, latched) >= 2
    THEN "OFF" ELSE SwitchedMode(in, state, mode)

\* The answer to the actuator and the driver.
EvaluatePolicy(in, state, reason, reengaged, latched) ==
    IF TakenOver(in, latched)
    THEN [throttle_limit |-> 0, hmi_action |-> "INFO", mrm_active |-> FALSE]
    ELSE [throttle_limit |-> ThrottleLimit(in, state, reason),
          hmi_action     |-> Hmi(state, reengaged),
          mrm_active     |-> state = "ABSENT"]
=============================================================================
