------------------------------- MODULE StepB -------------------------------
(***************************************************************************)
(* Step B of the policy engine: StepBTransitionEngine::Evaluate working on *)
(* the StateTimerStore.  Each call turns one perception sample into the    *)
(* driver state OK < WARNING < ESCALATION < ABSENT; ABSENT is latched for  *)
(* the rest of the run cycle.                                              *)
(*                                                                         *)
(* Units.  Durations are integers in tenths of a second, which represents  *)
(* every threshold of the code exactly; the speed input is a percentage of *)
(* its 0..0.4 range.  blocked_for stands for the difference of the two     *)
(* timestamps is_attentive_ts_ms and camera_blocked_ts_ms, the only way    *)
(* the code uses them.  input_snapshot_ts_ms is copied to the output and   *)
(* never read, and is left out.                                            *)
(*                                                                         *)
(* An operator named Mut... is a faulty variant of the definition after    *)
(* it; no specification uses it.                                           *)
(***************************************************************************)
EXTENDS DcasTypes

CONSTANT
    StepBInputs     \* the samples a call of Evaluate may receive

StepBInput ==
    [is_attentive   : BOOLEAN,
     reason         : Reason,
     reason_ts_ms   : Int,
     camera_blocked : BOOLEAN,
     blocked_for    : Int,
     jetracer_input : Int,
     delta_s        : Int]

ASSUME StepBInputsAssumption == StepBInputs \subseteq StepBInput

VARIABLES
    current_state,              \* the StepBStateStore ...
    inattentive_elapsed_s,
    recover_elapsed_s,
    absent_latched_run_cycle,
    latest_reason,
    latest_reason_ts_ms,
    outB                        \* ... and the StepBOutput of the last call

timers     == <<inattentive_elapsed_s, recover_elapsed_s>>
reasonVars == <<latest_reason, latest_reason_ts_ms>>
stepBVars  == <<current_state, timers, absent_latched_run_cycle, reasonVars, outB>>

StepBOutput == [next_state                  : DriverState,
                reason                      : Reason,
                absent_latched_run_cycle    : BOOLEAN,
                reengagement_confirmed_200ms : BOOLEAN]

Output(state, reason, latched, reengaged) ==
    [next_state                  |-> state,
     reason                      |-> reason,
     absent_latched_run_cycle    |-> latched,
     reengagement_confirmed_200ms |-> reengaged]

-----------------------------------------------------------------------------
(* SpeedBandEstimator and ThresholdScheduler *)

Estimate(jetracer_input) ==
    LET clamped == IF jetracer_input < 0 THEN 0
                   ELSE IF jetracer_input > 100 THEN 100 ELSE jetracer_input
    IN  IF clamped < 30 THEN "LOW" ELSE IF clamped < 65 THEN "MID" ELSE "HIGH"

Slowest == [warn |-> 30, esc |-> 60, absent |-> 100]
Medium  == [warn |-> 20, esc |-> 40, absent |-> 80]
Fastest == [warn |-> 15, esc |-> 30, absent |-> 60]

Schedule(band) == CASE band = "LOW"  -> Slowest
                    [] band = "MID"  -> Medium
                    [] band = "HIGH" -> Fastest

RecoverHold  == 30      \* t_recover_hold_s, the same in every band
ConfirmAfter == 2       \* the 0.2 s after which re-engagement is confirmed

Thresholds(in) == Schedule(Estimate(in.jetracer_input))

-----------------------------------------------------------------------------
(* The latest reason.  A sample's reason is adopted unless it says nothing *)
(* or is older than the one held; a camera blocked for t_absent overrides  *)
(* it, without a timestamp of its own.                                     *)

MutAdoptsAnyAge(in) == in.reason \notin {"NONE", "BLOCKED_CAMERA"}

AdoptsReason(in) == /\ in.reason \notin {"NONE", "BLOCKED_CAMERA"}
                    /\ in.reason_ts_ms >= latest_reason_ts_ms

NewReason(in)   == IF AdoptsReason(in) THEN in.reason ELSE latest_reason
NewReasonTs(in) == IF AdoptsReason(in) THEN in.reason_ts_ms ELSE latest_reason_ts_ms

BlockedTooLong(in) == in.camera_blocked /\ in.blocked_for >= Thresholds(in).absent
BlockedBriefly(in) == in.camera_blocked /\ in.blocked_for < Thresholds(in).absent

LatestReason(in) == IF BlockedTooLong(in) THEN "BLOCKED_CAMERA" ELSE NewReason(in)

AdoptReason(in) == /\ latest_reason' = LatestReason(in)
                   /\ latest_reason_ts_ms' = NewReasonTs(in)

-----------------------------------------------------------------------------
(* StateTimerStore *)

StepBInit ==
    /\ current_state = "OK"
    /\ inattentive_elapsed_s = 0
    /\ recover_elapsed_s = 0
    /\ absent_latched_run_cycle = FALSE
    /\ latest_reason = "NONE"
    /\ latest_reason_ts_ms = 0
    /\ outB = Output("OK", "NONE", FALSE, FALSE)

MutAdvanceInattentiveUnclamped(delta_s) ==
    /\ inattentive_elapsed_s' = inattentive_elapsed_s + delta_s
    /\ recover_elapsed_s' = 0
MutAdvanceInattentiveKeepsRecover(delta_s) ==
    /\ inattentive_elapsed_s' = inattentive_elapsed_s + NonNegative(delta_s)
    /\ UNCHANGED recover_elapsed_s

AdvanceInattentive(delta_s) ==
    /\ inattentive_elapsed_s' = inattentive_elapsed_s + NonNegative(delta_s)
    /\ recover_elapsed_s' = 0

\* Bound: the code lets this timer run on, and only compares it with RecoverHold
\* and less, so it is counted up to RecoverHold.
UpToHold(elapsed) == IF elapsed > RecoverHold THEN RecoverHold ELSE elapsed

AdvanceRecover(delta_s) ==
    /\ recover_elapsed_s' = UpToHold(recover_elapsed_s + NonNegative(delta_s))
    /\ inattentive_elapsed_s' = 0

MutLatchAbsentWithoutState ==
    /\ absent_latched_run_cycle' = TRUE
    /\ UNCHANGED current_state

LatchAbsentRunCycle ==
    /\ absent_latched_run_cycle' = TRUE
    /\ current_state' = "ABSENT"

\* StateTimerStore::ResetForNewRunCycle.  The last output belongs to the run
\* cycle that ended and is cleared with it.
ResetForNewRunCycle ==
    /\ current_state' = "OK"
    /\ inattentive_elapsed_s' = 0
    /\ recover_elapsed_s' = 0
    /\ absent_latched_run_cycle' = FALSE
    /\ latest_reason' = "NONE"
    /\ latest_reason_ts_ms' = 0
    /\ outB' = Output("OK", "NONE", FALSE, FALSE)

-----------------------------------------------------------------------------
(* The state an attentive or inattentive sample leads to, once the timers  *)
(* have advanced to the given values.                                      *)

StateIfAttentive(recovered) ==
    IF current_state # "OK" /\ recovered >= RecoverHold
    THEN "OK" ELSE current_state

MutStateIfInattentiveOneStepUp(t, elapsed) ==
    IF elapsed >= t.absent /\ current_state = "ESCALATION" THEN "ABSENT"
    ELSE IF elapsed >= t.esc /\ current_state = "WARNING" THEN "ESCALATION"
    ELSE IF elapsed >= t.warn /\ current_state = "OK" THEN "WARNING"
    ELSE current_state
MutStateIfInattentiveEager(t, elapsed) ==
    IF elapsed >= t.absent - 10 THEN "ABSENT"
    ELSE IF elapsed >= t.esc THEN "ESCALATION"
    ELSE IF elapsed >= t.warn THEN "WARNING"
    ELSE current_state

StateIfInattentive(t, elapsed) ==
    IF elapsed >= t.absent THEN "ABSENT"
    ELSE IF elapsed >= t.esc THEN "ESCALATION"
    ELSE IF elapsed >= t.warn THEN "WARNING"
    ELSE current_state

EffectiveReason(in, state, recovered) ==
    IF state = "OK" \/ (in.is_attentive /\ recovered >= RecoverHold)
    THEN "NONE" ELSE NewReason(in)

Reengaged(in, state, recovered) ==
    state # "OK" /\ in.is_attentive /\ recovered >= ConfirmAfter

-----------------------------------------------------------------------------
(* Evaluate: the early returns in the order the code takes them.           *)

\* ABSENT is held until the run cycle ends; a newer reason is still adopted.
HoldAbsent(in) ==
    /\ absent_latched_run_cycle
    /\ current_state' = "ABSENT"
    /\ latest_reason' = NewReason(in)
    /\ latest_reason_ts_ms' = NewReasonTs(in)
    /\ outB' = Output("ABSENT", NewReason(in), TRUE, FALSE)
    /\ UNCHANGED <<timers, absent_latched_run_cycle>>

\* A camera blocked for less than t_absent forces WARNING and returns before
\* the critical reasons and the timers are looked at.
BlockedCameraWarning(in) ==
    /\ ~absent_latched_run_cycle
    /\ BlockedBriefly(in)
    /\ current_state' = "WARNING"
    /\ AdoptReason(in)
    /\ outB' = Output("WARNING", "BLOCKED_CAMERA", FALSE, FALSE)
    /\ UNCHANGED <<timers, absent_latched_run_cycle>>

\* A critical latest reason, or a camera blocked for t_absent, latches ABSENT.
LatchCritical(in) ==
    /\ ~absent_latched_run_cycle
    /\ ~BlockedBriefly(in)
    /\ is_critical_reason(LatestReason(in))
    /\ LatchAbsentRunCycle
    /\ AdoptReason(in)
    /\ outB' = Output("ABSENT", LatestReason(in), TRUE, FALSE)
    /\ UNCHANGED timers

MutTimersDecideWhenLatched(in) == /\ ~BlockedBriefly(in)
                                  /\ ~is_critical_reason(LatestReason(in))

MutTimersDecideForAttentive(in) == /\ ~absent_latched_run_cycle
                                   /\ ~BlockedBriefly(in)
                                   /\ in.is_attentive \/ ~is_critical_reason(LatestReason(in))

TimersDecide(in) == /\ ~absent_latched_run_cycle
                    /\ ~BlockedBriefly(in)
                    /\ ~is_critical_reason(LatestReason(in))

\* An attentive sample: the recovery timer runs, the state may return to OK.
AttentiveStep(in) ==
    /\ TimersDecide(in)
    /\ in.is_attentive
    /\ AdvanceRecover(in.delta_s)
    /\ current_state' = StateIfAttentive(recover_elapsed_s')
    /\ AdoptReason(in)
    /\ outB' = Output(current_state',
                      EffectiveReason(in, current_state', recover_elapsed_s'),
                      FALSE,
                      Reengaged(in, current_state', recover_elapsed_s'))
    /\ UNCHANGED absent_latched_run_cycle

\* An inattentive sample: the inattention timer decides, ABSENT is latched.
InattentiveStep(in) ==
    /\ TimersDecide(in)
    /\ ~in.is_attentive
    /\ AdvanceInattentive(in.delta_s)
    /\ current_state' = StateIfInattentive(Thresholds(in), inattentive_elapsed_s')
    /\ absent_latched_run_cycle' = (current_state' = "ABSENT")
    /\ AdoptReason(in)
    /\ outB' = Output(current_state',
                      EffectiveReason(in, current_state', recover_elapsed_s'),
                      absent_latched_run_cycle',
                      Reengaged(in, current_state', recover_elapsed_s'))

Evaluate(in) == \/ HoldAbsent(in)
                \/ BlockedCameraWarning(in)
                \/ LatchCritical(in)
                \/ AttentiveStep(in)
                \/ InattentiveStep(in)

StepBNext == \/ \E in \in StepBInputs : Evaluate(in)
             \/ ResetForNewRunCycle

StepBSpec == StepBInit /\ [][StepBNext]_stepBVars

-----------------------------------------------------------------------------
(* Properties *)

\* The state store and the last output have the types the code declares.
\* Timers never go below zero, whatever delta_s a caller passes
\* (state_timer_store.hpp:17-25).
StepBTypeOK ==
    /\ current_state \in DriverState
    /\ inattentive_elapsed_s \in Nat
    /\ recover_elapsed_s \in Nat
    /\ absent_latched_run_cycle \in BOOLEAN
    /\ latest_reason \in Reason
    /\ latest_reason_ts_ms \in Int
    /\ outB \in StepBOutput

\* The latch, the stored state and the output never disagree about ABSENT,
\* although three different branches set them (step_b.cpp:38-48, 70-80,
\* 104-108).
AbsentIffLatched ==
    /\ absent_latched_run_cycle <=> current_state = "ABSENT"
    /\ outB.next_state = current_state
    /\ outB.absent_latched_run_cycle = absent_latched_run_cycle

\* The code's inattention timer is always answered: from the longest warning
\* threshold on the driver is never considered OK, from the longest absent
\* threshold on the state is ABSENT, and in between a state below ESCALATION
\* is only possible while the last output reported a blocked camera.  This
\* must survive changes of the speed band in the middle of an episode
\* (step_b.cpp:89-108, threshold_scheduler.hpp).  It is a promise about the
\* timer as the code keeps it.  The documents' timer is not zeroed by a glance
\* and their ESCALATION is not softened for a blocked camera:
\* PolicyDocuments shows where the code leaves them.
InattentionIsAnswered ==
    /\ inattentive_elapsed_s >= Slowest.warn => current_state # "OK"
    /\ inattentive_elapsed_s >= Slowest.absent => current_state = "ABSENT"
    /\ inattentive_elapsed_s >= Slowest.esc =>
          \/ current_state \in {"ESCALATION", "ABSENT"}
          \/ outB.reason = "BLOCKED_CAMERA"

\* A critical reason is never held without stopping the car, whether it is new
\* or was stored long ago, except while the camera is blocked: then it waits for
\* the first sample the camera lets through (step_b.cpp:50-80).
CriticalReasonOnlyWaitsForCamera ==
    is_critical_reason(latest_reason) =>
        absent_latched_run_cycle \/ outB.reason = "BLOCKED_CAMERA"

\* Re-engagement is reported exactly in the window between its confirmation
\* and the return to OK: never to an OK or ABSENT driver, never on the tick
\* that completes the recovery, never while inattention is pending
\* (step_b.cpp:91-95, 116-122).
ReengagementWindow ==
    outB.reengagement_confirmed_200ms =>
        /\ current_state \in {"WARNING", "ESCALATION"}
        /\ recover_elapsed_s \in ConfirmAfter .. RecoverHold - 1
        /\ inattentive_elapsed_s = 0

\* Only a new run cycle ends ABSENT: no sample of any kind clears the latch,
\* and the timers stand still meanwhile (step_b.cpp:38-48).
AbsentIsFinal ==
    [][ absent_latched_run_cycle =>
          \/ ResetForNewRunCycle
          \/ /\ absent_latched_run_cycle'
             /\ outB'.next_state = "ABSENT"
             /\ UNCHANGED timers ]_stepBVars

RisesTo(state) == /\ current_state' = state
                  /\ Severity(state) > Severity(current_state)

\* No alarm without a cause.  A state that gets more severe has enough
\* inattention behind it for the fastest band, or the camera is blocked, or the
\* reason is critical (step_b.cpp:50-108).  It speaks of rises only: that the
\* code also softens ESCALATION to WARNING, which the documents forbid, is
\* shown in PolicyDocuments.
AlarmIsJustified ==
    [][ /\ RisesTo("WARNING") =>
              \/ inattentive_elapsed_s' >= Fastest.warn
              \/ outB'.reason = "BLOCKED_CAMERA"
        /\ RisesTo("ESCALATION") => inattentive_elapsed_s' >= Fastest.esc
        /\ RisesTo("ABSENT") =>
              \/ inattentive_elapsed_s' >= Fastest.absent
              \/ is_critical_reason(latest_reason') ]_stepBVars

\* A reason that arrives late never replaces a newer one, except that a camera
\* blocked too long overrides any reason (step_b.cpp:29-36, 54-56).
ReasonNeverGoesBack ==
    [][ \/ ResetForNewRunCycle
        \/ /\ latest_reason_ts_ms' >= latest_reason_ts_ms
           /\ latest_reason' # latest_reason =>
                 \/ latest_reason' = "BLOCKED_CAMERA" /\ absent_latched_run_cycle'
                 \/ \E in \in StepBInputs : /\ in.reason = latest_reason'
                                            /\ in.reason_ts_ms = latest_reason_ts_ms' ]_stepBVars
=============================================================================
