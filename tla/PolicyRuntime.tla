--------------------------- MODULE PolicyRuntime ---------------------------
(***************************************************************************)
(* PolicyRuntime composes the two steps: a tick evaluates Step B, hands    *)
(* its output to Step C together with the latched state of Step C, and     *)
(* stores the next latched state.  The module also carries the caller's    *)
(* side of the contract that both callers (main.cpp and                    *)
(* dcas_rt_bridge.cpp) implement: the next LKAS mode of a tick is the      *)
(* previous LKAS mode of the following one.                                *)
(***************************************************************************)
EXTENDS StepB, StepC

CONSTANT
    StepCInputs,    \* what the caller may put into the Step C half of a tick
    RunCycleIds     \* the run cycle identifiers the caller may use

ASSUME StepCInputsAssumption == StepCInputs \subseteq StepCInput
ASSUME RunCycleIdsAssumption == RunCycleIds \subseteq Nat

VARIABLES
    latched,        \* step_c_latched_state_
    lkas_mode,      \* the caller's LKAS mode, fed back from tick to tick
    request,        \* the Step C input of the last tick
    outC,           \* the Step C output of the last tick
    mrm_episodes    \* auxiliary: how often the MRM became active in this run cycle

runtimeVars == <<stepBVars, latched, lkas_mode, request, outC, mrm_episodes>>

FreshLatchedState(run_cycle_id) ==
    [driver_override_lock           |-> FALSE,
     mrm_activation_count_run_cycle |-> 0,
     run_cycle_id                   |-> run_cycle_id]

Silent == [throttle_limit |-> 0, hmi_action |-> "INFO", mrm_active |-> FALSE]

NoRequest == [notebook_input_alive |-> TRUE, driver_override |-> FALSE,
              lkas_throttle |-> 0, lkas_switch_event |-> "NONE"]

\* PolicyRuntime runtime{}; the initial LKAS mode is an option of the caller.
RuntimeInit ==
    /\ StepBInit
    /\ \E id \in RunCycleIds : latched = FreshLatchedState(id)
    /\ lkas_mode \in LkasMode
    /\ request = NoRequest
    /\ outC = Silent
    /\ mrm_episodes = 0

MutStepCReadsOldState(c) ==
    /\ outC' = EvaluatePolicy(c, current_state, outB'.reason,
                              outB'.reengagement_confirmed_200ms, latched)
    /\ lkas_mode' = NextLkasMode(c, outB'.next_state, lkas_mode, latched)
    /\ latched' = NextLatchedState(c, outB'.next_state, latched)
MutStepCDropsLatchedState(c) ==
    /\ outC' = EvaluatePolicy(c, outB'.next_state, outB'.reason,
                              outB'.reengagement_confirmed_200ms, latched)
    /\ lkas_mode' = NextLkasMode(c, outB'.next_state, lkas_mode, latched)
    /\ UNCHANGED latched

\* The second half of PolicyRuntime::Tick, fed with the Step B output.
EvaluateStepC(c) ==
    /\ outC' = EvaluatePolicy(c, outB'.next_state, outB'.reason,
                              outB'.reengagement_confirmed_200ms, latched)
    /\ lkas_mode' = NextLkasMode(c, outB'.next_state, lkas_mode, latched)
    /\ latched' = NextLatchedState(c, outB'.next_state, latched)

Tick(b, c) ==
    /\ Evaluate(b)
    /\ EvaluateStepC(c)
    /\ request' = c
    /\ mrm_episodes' = IF outC'.mrm_active /\ ~outC.mrm_active
                       THEN mrm_episodes + 1 ELSE mrm_episodes

MutResetKeepsStepC(run_cycle_id) ==
    /\ ResetForNewRunCycle
    /\ latched' = [latched EXCEPT !.run_cycle_id = run_cycle_id]
    /\ outC' = Silent
    /\ mrm_episodes' = 0
    /\ UNCHANGED <<lkas_mode, request>>

\* PolicyRuntime::ResetForNewRunCycle.  The caller keeps its LKAS mode; the
\* outputs belong to the run cycle that ended and are cleared.
NewRunCycle(run_cycle_id) ==
    /\ ResetForNewRunCycle
    /\ latched' = FreshLatchedState(run_cycle_id)
    /\ outC' = Silent
    /\ mrm_episodes' = 0
    /\ UNCHANGED <<lkas_mode, request>>

\* A caller starts, or is started again, with a runtime and an LKAS mode of its
\* own.  Nothing is stored, so nothing of the caller before it survives.
StartCaller(run_cycle_id, mode) ==
    /\ ResetForNewRunCycle
    /\ latched' = FreshLatchedState(run_cycle_id)
    /\ lkas_mode' = mode
    /\ request' = NoRequest
    /\ outC' = Silent
    /\ mrm_episodes' = 0

CallerStarts == \E id \in RunCycleIds, mode \in LkasMode : StartCaller(id, mode)

RuntimeNext == \/ \E b \in StepBInputs, c \in StepCInputs : Tick(b, c)
               \/ \E id \in RunCycleIds : NewRunCycle(id)
               \/ CallerStarts

RuntimeSpec == RuntimeInit /\ [][RuntimeNext]_runtimeVars

-----------------------------------------------------------------------------
(* Properties *)

MrmTicks == latched.mrm_activation_count_run_cycle

\* The latched state, the requests and the outputs have the types the code
\* declares; the throttle limit is never negative (step_c.cpp:63-66).
RuntimeTypeOK ==
    /\ StepBTypeOK
    /\ latched \in StepCLatchedState
    /\ lkas_mode \in LkasMode
    /\ request \in StepCInput
    /\ outC \in StepCOutput
    /\ mrm_episodes \in Nat

\* The accounts of the lockout, kept in Step C, agree with the latch, kept in
\* Step B.  Only an ABSENT driver is locked out or has manoeuvres counted
\* against him, so a driver judged present can always take over; and without a
\* lock fewer than two manoeuvre ticks have been counted (step_c.cpp:57-61, 81,
\* 86-89, with the latch of step_b.cpp and both resets of policy_runtime.cpp).
LockoutAccounting ==
    /\ latched.driver_override_lock => absent_latched_run_cycle
    /\ MrmTicks # 0 => absent_latched_run_cycle
    /\ ~latched.driver_override_lock => MrmTicks \in 0 .. 1

\* While ABSENT is latched no throttle is allowed, and the manoeuvre runs
\* unless the driver is overriding it (step_c.cpp:57-61, 77-82).
AbsentMeansStopping ==
    absent_latched_run_cycle =>
        /\ outC.throttle_limit = 0
        /\ outC.mrm_active \/ (request.driver_override /\ ~latched.driver_override_lock)
        /\ outC.mrm_active <=> outC.hmi_action = "MRM"

\* The policy never allows more throttle than LKAS asked for, and in ESCALATION
\* never more than a fifth of it (step_c.cpp:20-36, 63-66).
NeverAmplifies ==
    /\ outC.throttle_limit <= NonNegative(request.lkas_throttle) * Scale
    /\ current_state = "ESCALATION" =>
          5 * outC.throttle_limit <= NonNegative(request.lkas_throttle) * Scale

\* Across ticks, LKAS is active only with an OK driver and a live notebook: the
\* mode the caller feeds back cannot outlive its conditions
\* (step_c.cpp:44-55, main.cpp:149, dcas_rt_bridge.cpp:187).
ActiveNeedsAttention ==
    lkas_mode = "ON_ACTIVE" => current_state = "OK" /\ request.notebook_input_alive

\* Lockout and manoeuvre are final: as long as the run cycle and the caller
\* last, nothing the driver or the samples do unlocks the override or interrupts
\* a locked manoeuvre, not even a counter that runs past its limit
\* (step_c.cpp:57, 81-89).
LockIsFinal ==
    [][ latched.driver_override_lock =>
          \/ \E id \in RunCycleIds : NewRunCycle(id)
          \/ CallerStarts
          \/ /\ latched'.driver_override_lock
             /\ outC'.mrm_active ]_runtimeVars

\* Assistance never becomes active by itself: only a switch-on request of that
\* very tick, or a caller that starts with it, activates it (step_c.cpp:44-55).
\* control-policy-Baseline.md:124 and 315 say the same; its line 132 says
\* that a waiting LKAS starts once the conditions are met, which the code never
\* does (PolicyDocuments, StartsWhenConditionsAreMet).
NoAutomaticResume ==
    [][ lkas_mode # "ON_ACTIVE" /\ lkas_mode' = "ON_ACTIVE" =>
          request'.lkas_switch_event = "ON" \/ CallerStarts ]_runtimeVars

\* The policy engine implements the stop protocol.  The protocol is what the
\* code promises, the lock after two ticks of MRM whatever the reason; where the
\* documents make the lock depend on the reason, see PolicyDocuments.
Stop == INSTANCE StopProtocol
    WITH stopping     <- absent_latched_run_cycle,
         mrm          <- outC.mrm_active,
         mrm_ticks    <- IF latched.driver_override_lock THEN 2 ELSE MrmTicks,
         throttle_cut <- outC.throttle_limit = 0
RefinesStopProtocol == Stop!Spec
=============================================================================
