---------------------------- MODULE StepBHistory ----------------------------
(***************************************************************************)
(* Step B with auxiliary variables that record what the driver and the     *)
(* reason source really did, for the properties that compare the state     *)
(* store with the history of the samples.  The auxiliary variables never   *)
(* influence StepB's own.                                                  *)
(***************************************************************************)
EXTENDS StepB

VARIABLES
    attentive_run,      \* unbroken attention up to now, counted up to RecoverHold
    critical_seen,      \* a critical reason, not out of date, was received
    blocked_since       \* a blocked camera since inattention was last judged

historyVars == <<attentive_run, critical_seen, blocked_since>>
vars == <<stepBVars, historyVars>>

HistoryInit == /\ StepBInit
               /\ attentive_run = 0
               /\ critical_seen = FALSE
               /\ blocked_since = FALSE

Least(a, b) == IF a < b THEN a ELSE b

Sample(in) ==
    /\ Evaluate(in)
    /\ attentive_run' = IF in.is_attentive
                        THEN Least(RecoverHold, attentive_run + NonNegative(in.delta_s))
                        ELSE 0
    /\ critical_seen' = (critical_seen \/ (AdoptsReason(in) /\ is_critical_reason(in.reason)))
    /\ blocked_since' = (in.camera_blocked \/ (blocked_since /\ in.is_attentive))

NewRunCycle == /\ ResetForNewRunCycle
               /\ attentive_run' = 0
               /\ critical_seen' = FALSE
               /\ blocked_since' = FALSE

HistoryNext == \/ \E in \in StepBInputs : Sample(in)
               \/ NewRunCycle

HistorySpec == HistoryInit /\ [][HistoryNext]_vars

-----------------------------------------------------------------------------
(* Properties *)

\* The driver returns to OK only after being attentive without a break for the
\* recovery hold, unless samples of a blocked camera, which are not judged, fell
\* into that time (state-machine-Baseline.md:303, step_b.cpp:57-68, 91-95).
RecoveryIsContinuous ==
    [][ current_state # "OK" /\ current_state' = "OK" =>
          attentive_run' >= RecoverHold \/ blocked_since' \/ NewRunCycle ]_vars

-----------------------------------------------------------------------------
(* What the documents say, and the code does not do                        *)

\* Once a critical reason has been received the driver is ABSENT
\* (state-machine-Baseline.md:169, 297; step_b.cpp:70-80).
CriticalReasonLatches == critical_seen => absent_latched_run_cycle
=============================================================================
