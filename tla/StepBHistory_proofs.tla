------------------------ MODULE StepBHistory_proofs ------------------------
(***************************************************************************)
(* What Step B promises about the driver's history: recovery is continuous *)
(* for every set of samples; and a critical reason is never forgotten as   *)
(* long as no sample reports a blocked camera (with one TLC refutes this). *)
(***************************************************************************)
EXTENDS StepBHistory, StepB_proofs

ClearCamera == \A in \in StepBInputs : ~in.camera_blocked

\* The recovery timer counts no more than the attention there was.
HistoryInv ==
    /\ StepBInv
    /\ attentive_run \in Nat /\ blocked_since \in BOOLEAN
    /\ ~absent_latched_run_cycle /\ ~blocked_since =>
          /\ recover_elapsed_s >= RecoverHold => attentive_run >= RecoverHold
          /\ recover_elapsed_s < RecoverHold => attentive_run >= recover_elapsed_s

LEMMA HoldIsNatural == RecoverHold \in Nat
BY DEF RecoverHold

\* A sample advances both counts alike, or ends both, unless ABSENT is held.
LEMMA HistorySampleInv ==
    ASSUME HistoryInv, NEW in \in StepBInputs, Sample(in)
    PROVE  HistoryInv'
<1> DEFINE advance == NonNegative(in.delta_s)
<1>0. /\ StepBInv' /\ Evaluate(in)
      /\ recover_elapsed_s \in Nat /\ recover_elapsed_s' \in Nat /\ attentive_run \in Nat
  <2>1. Evaluate(in) BY DEF Sample
  <2>2. StepBInv' BY <2>1, EvaluateInv, StepBInputsAssumption DEF HistoryInv
  <2> QED BY <2>1, <2>2 DEF HistoryInv, StepBInv, StepBTypeOK
<1>1. attentive_run' = IF in.is_attentive
                       THEN Least(RecoverHold, attentive_run + advance) ELSE 0
  BY DEF Sample
<1>2. advance \in Nat /\ in.camera_blocked \in BOOLEAN /\ in.is_attentive \in BOOLEAN
  BY StepBInputsAssumption DEF StepBInput, NonNegative
<1>3. attentive_run' \in Nat /\ blocked_since' \in BOOLEAN
  BY <1>0, <1>1, <1>2, HoldIsNatural DEF Least, Sample, HistoryInv
<1>4. CASE HoldAbsent(in) \/ LatchCritical(in)
  <2>1. absent_latched_run_cycle' = TRUE
    BY <1>4 DEF HoldAbsent, LatchCritical, LatchAbsentRunCycle
  <2> QED BY <1>0, <1>3, <2>1 DEF HistoryInv
<1>5. CASE BlockedCameraWarning(in)
  <2>1. blocked_since' = TRUE
    BY <1>5 DEF BlockedCameraWarning, BlockedBriefly, Sample
  <2> QED BY <1>0, <1>3, <2>1 DEF HistoryInv
<1>6. CASE AttentiveStep(in)
  <2>1. /\ recover_elapsed_s' = Least(RecoverHold, recover_elapsed_s + advance)
        /\ attentive_run' = Least(RecoverHold, attentive_run + advance)
        /\ ~absent_latched_run_cycle
        /\ ~blocked_since' => ~blocked_since
    BY <1>0, <1>1, <1>2, <1>6, HoldIsNatural
       DEF AttentiveStep, AdvanceRecover, UpToHold, Least, TimersDecide, Sample
  <2>2. ~blocked_since' =>
          /\ recover_elapsed_s' >= RecoverHold => attentive_run' >= RecoverHold
          /\ recover_elapsed_s' < RecoverHold => attentive_run' >= recover_elapsed_s'
    BY <1>0, <1>2, <2>1, HoldIsNatural DEF HistoryInv, Least
  <2> QED BY <1>0, <1>3, <2>2 DEF HistoryInv
<1>7. CASE InattentiveStep(in)
  <2>1. recover_elapsed_s' = 0
    BY <1>7 DEF InattentiveStep, AdvanceInattentive
  <2> QED BY <1>0, <1>3, <2>1 DEF HistoryInv, RecoverHold
<1> QED BY <1>0, <1>4, <1>5, <1>6, <1>7 DEF Evaluate

LEMMA HistoryInvariant == HistorySpec => []HistoryInv
<1>1. HistoryInit => HistoryInv
  <2> SUFFICES ASSUME HistoryInit PROVE HistoryInv
    OBVIOUS
  <2>1. StepBInv
    BY StepBInitInv DEF HistoryInit
  <2>2. recover_elapsed_s = 0 /\ attentive_run = 0 /\ blocked_since \in BOOLEAN
    BY DEF HistoryInit, StepBInit
  <2>3. /\ attentive_run \in Nat
        /\ recover_elapsed_s >= RecoverHold => attentive_run >= RecoverHold
        /\ recover_elapsed_s < RecoverHold => attentive_run >= recover_elapsed_s
    BY <2>2 DEF RecoverHold
  <2> QED BY <2>1, <2>2, <2>3 DEF HistoryInv
<1>2. HistoryInv /\ [HistoryNext]_vars => HistoryInv'
  <2>1. HistoryInv /\ UNCHANGED vars => HistoryInv'
    BY StutterInv DEF HistoryInv, vars, historyVars, stepBVars, timers, reasonVars
  <2>2. ASSUME NewRunCycle PROVE HistoryInv'
    <3>1. StepBInv'
      BY <2>2, ResetInv DEF NewRunCycle
    <3>2. recover_elapsed_s' = 0 /\ attentive_run' = 0 /\ blocked_since' \in BOOLEAN
      BY <2>2 DEF NewRunCycle, ResetForNewRunCycle
    <3>3. /\ attentive_run' \in Nat
          /\ recover_elapsed_s' >= RecoverHold => attentive_run' >= RecoverHold
          /\ recover_elapsed_s' < RecoverHold => attentive_run' >= recover_elapsed_s'
      BY <3>2 DEF RecoverHold
    <3> QED BY <3>1, <3>2, <3>3 DEF HistoryInv
  <2> QED BY <2>1, <2>2, HistorySampleInv DEF HistoryNext
<1> QED BY <1>1, <1>2, PTL DEF HistorySpec

\* While the camera is never blocked, a critical reason that is not out of date
\* leaves the driver ABSENT until the run cycle ends (step_b.cpp:70-80).
THEOREM HistoryCriticalReasonLatches ==
    ASSUME ClearCamera
    PROVE  HistorySpec => []CriticalReasonLatches
<1> USE DEF CriticalReasonLatches
<1>1. HistoryInit => CriticalReasonLatches
  BY DEF HistoryInit
<1>2. ASSUME CriticalReasonLatches, NEW in \in StepBInputs, Sample(in)
      PROVE  CriticalReasonLatches'
  <2>1. /\ ~in.camera_blocked /\ Evaluate(in)
        /\ critical_seen' = (critical_seen \/ (AdoptsReason(in) /\ is_critical_reason(in.reason)))
    BY <1>2 DEF ClearCamera, Sample
  <2>2. LatestReason(in) = NewReason(in) /\ ~BlockedCameraWarning(in)
    BY <2>1 DEF LatestReason, BlockedTooLong, BlockedCameraWarning, BlockedBriefly
  <2>3. CASE HoldAbsent(in) \/ LatchCritical(in)
    <3>1. CASE HoldAbsent(in)
      <4>1. absent_latched_run_cycle /\ absent_latched_run_cycle' = absent_latched_run_cycle
        BY <3>1 DEF HoldAbsent
      <4>2. absent_latched_run_cycle'
        BY <4>1, Zenon
      <4>3. QED
        BY <4>2
    <3>2. CASE LatchCritical(in)
      <4>1. absent_latched_run_cycle' = TRUE
        BY <3>2 DEF LatchCritical, LatchAbsentRunCycle
      <4>2. QED
        BY <4>1
    <3>3. QED
      BY <2>3, <3>1, <3>2
  <2>4. CASE AttentiveStep(in) \/ InattentiveStep(in)
    <3>1. ~absent_latched_run_cycle /\ ~is_critical_reason(NewReason(in))
      BY <2>2, <2>4 DEF AttentiveStep, InattentiveStep, TimersDecide
    <3> QED BY <1>2, <2>1, <3>1 DEF NewReason
  <2> QED BY <2>1, <2>2, <2>3, <2>4 DEF Evaluate
<1>3. NewRunCycle => CriticalReasonLatches'
  BY DEF NewRunCycle
<1>4. CriticalReasonLatches /\ UNCHANGED vars => CriticalReasonLatches'
  BY DEF vars, historyVars, stepBVars
<1>5. CriticalReasonLatches /\ [HistoryNext]_vars => CriticalReasonLatches'
  BY <1>2, <1>3, <1>4 DEF HistoryNext
<1> QED BY <1>1, <1>5, PTL DEF HistorySpec

\* Only a driver who was attentive for the whole hold, as far as the camera
\* could see, returns to OK (step_b.cpp:91-95, state_timer_store.hpp:17-25).
THEOREM HistoryRecoveryIsContinuous == HistorySpec => RecoveryIsContinuous
<1> DEFINE Continuous == current_state # "OK" /\ current_state' = "OK"
                            => attentive_run' >= RecoverHold \/ blocked_since' \/ NewRunCycle
<1>1. HistoryInv /\ HistoryInv' /\ [HistoryNext]_vars => [Continuous]_vars
  <2> SUFFICES ASSUME HistoryInv, HistoryInv', NEW in \in StepBInputs, Sample(in),
                      current_state # "OK", current_state' = "OK", ~blocked_since'
               PROVE  attentive_run' >= RecoverHold
    BY DEF HistoryNext
  <2>1. Evaluate(in)
    BY DEF Sample
  <2>2. AttentiveStep(in)
    <3>1. ~HoldAbsent(in) /\ ~LatchCritical(in) /\ ~BlockedCameraWarning(in)
      BY DEF HoldAbsent, LatchCritical, LatchAbsentRunCycle, BlockedCameraWarning
    <3>2. ~InattentiveStep(in)
      BY DEF InattentiveStep, StateIfInattentive
    <3> QED BY <2>1, <3>1, <3>2 DEF Evaluate
  <2>3. recover_elapsed_s' >= RecoverHold /\ ~absent_latched_run_cycle'
    BY <2>2 DEF AttentiveStep, StateIfAttentive, TimersDecide
  <2> QED BY <2>3 DEF HistoryInv
<1> QED BY <1>1, HistoryInvariant, PTL DEF HistorySpec, RecoveryIsContinuous
=============================================================================
