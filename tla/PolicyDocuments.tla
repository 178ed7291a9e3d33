-------------------------- MODULE PolicyDocuments --------------------------
(***************************************************************************)
(* The policy runtime next to rules of its documents.  Two documents,      *)
(* state-machine-Baseline.md and control-policy-Baseline.md, and one test  *)
(* say of some situations what has to happen, and the code does something  *)
(* else.  Each such rule is written here as the documents have it, as a    *)
(* predicate on one tick, and the rules a behaviour has broken are         *)
(* recorded.  The auxiliary variables never influence the runtime's own.   *)
(***************************************************************************)
EXTENDS PolicyRuntime

VARIABLES
    pending,        \* the inattention timer as the documents keep it
    broken          \* the rules broken so far

documentVars == <<pending, broken>>
vars == <<runtimeVars, documentVars>>

\* The documents' timer grows on an inattentive sample and is kept on an
\* attentive one, until the recovery hold is over
\* (state-machine-Baseline.md:355-363).  Bound: counted up to Slowest.warn.
NextPending(b) ==
    CASE ~TimersDecide(b)                    -> pending
      [] TimersDecide(b) /\ ~b.is_attentive  ->
            LET sum == pending + NonNegative(b.delta_s)
            IN  IF sum > Slowest.warn THEN Slowest.warn ELSE sum
      [] TimersDecide(b) /\ b.is_attentive   ->
            IF recover_elapsed_s' >= RecoverHold THEN 0 ELSE pending

-----------------------------------------------------------------------------
(* The rules, each of a tick with the sample b and the request c           *)

\* Short glances do not stave off the warning: it comes once the inattention,
\* the glances left out, reaches the threshold (state-machine-Baseline.md:298,
\* 347-369; the code zeroes the timer, state_timer_store.hpp:24).
GlancesDoNotHelp(b) ==
    ~b.is_attentive /\ pending' >= Slowest.warn => current_state' # "OK"

\* The documents forbid to soften a graver state to a lighter one before the
\* driver has recovered, to OK (control-policy-Baseline.md:183,
\* state-machine-Baseline.md:280, 293-303).  In three ways the code does.
Softens == current_state = "ESCALATION" /\ current_state' = "WARNING"

\* The car slows down, and the driver's inattention, which goes on, is below
\* the threshold of the slower band (step_b.cpp:98-101).
SpeedDoesNotSoften(b) ==
    Softens /\ ~b.camera_blocked => inattentive_elapsed_s' < Fastest.esc

\* The driver looks away again after a glance, which has zeroed the timer
\* (state_timer_store.hpp:24, step_b.cpp:100-101).
GlancesDoNotSoften(b) ==
    Softens /\ ~b.camera_blocked => inattentive_elapsed_s' >= Fastest.esc

\* The camera is blocked (step_b.cpp:58).
CameraDoesNotSoften(b) == ~(Softens /\ b.camera_blocked)

Stopped(reason) == current_state' = "ABSENT" /\ outB'.reason = reason

\* An intoxicated driver is locked out at once: his override does not end the
\* manoeuvre, not even in its first tick (control-policy-Baseline.md:192, 259,
\* 300, 444, 447; step_c.cpp:57).
IntoxicatedIsLockedOut == Stopped("INTOXICATED") => outC'.mrm_active

\* An unresponsive driver is never locked out: he may come to
\* (control-policy-Baseline.md:193, 260, 445; step_c.cpp:86-89).
UnresponsiveMayTakeOver ==
    Stopped("UNRESPONSIVE") => ~latched'.driver_override_lock

\* For other reasons the override is locked once the manoeuvre has been
\* activated for the second time in a run cycle, not at the second tick of one
\* manoeuvre (tests/test_policy.cpp:242, control-policy-Baseline.md:317-320,
\* 326-327; step_c.cpp:81, 86-89).
LockoutNeedsTwoActivations ==
    latched'.driver_override_lock /\ latest_reason' # "INTOXICATED" => mrm_episodes' >= 2

\* While LKAS is switched on and waits, it becomes active as soon as the start
\* conditions are met (control-policy-Baseline.md:132; line 124 has NONE keep
\* the mode, as step_c.cpp:44-55 does).
StartsWhenConditionsAreMet(c) ==
    /\ lkas_mode = "ON_INACTIVE"
    /\ c.lkas_switch_event = "NONE"
    /\ ~c.driver_override
    /\ CanActivate(c, current_state')
    => lkas_mode' = "ON_ACTIVE"

Keeps(b, c) ==
    [warning      |-> GlancesDoNotHelp(b),
     speed        |-> SpeedDoesNotSoften(b),
     glances      |-> GlancesDoNotSoften(b),
     camera       |-> CameraDoesNotSoften(b),
     intoxicated  |-> IntoxicatedIsLockedOut,
     unresponsive |-> UnresponsiveMayTakeOver,
     activations  |-> LockoutNeedsTwoActivations,
     start        |-> StartsWhenConditionsAreMet(c)]

Rules == {"warning", "speed", "glances", "camera", "intoxicated", "unresponsive",
          "activations", "start"}

-----------------------------------------------------------------------------

DocumentsInit == /\ RuntimeInit
                 /\ pending = 0
                 /\ broken = {}

ComparedTick(b, c) == /\ Tick(b, c)
                      /\ pending' = NextPending(b)
                      /\ broken' = broken \cup {rule \in Rules : ~Keeps(b, c)[rule]}

NewDrive == /\ CallerStarts \/ \E id \in RunCycleIds : NewRunCycle(id)
            /\ pending' = 0
            /\ UNCHANGED broken

DocumentsNext == \/ \E b \in StepBInputs, c \in StepCInputs : ComparedTick(b, c)
                 \/ NewDrive

DocumentsSpec == DocumentsInit /\ [][DocumentsNext]_vars

\* The documents say that broken stays empty.  They are contradicted on every
\* rule, and already a weak consequence, that of all these rules at least one
\* is kept throughout, is false: a single counterexample breaks each of them.
SomeRuleIsKept == broken # Rules
=============================================================================
