---------------------------- MODULE StepB_proofs ----------------------------
(***************************************************************************)
(* Proofs about Step B, for every set of samples.                          *)
(***************************************************************************)
EXTENDS StepB, TLAPS

\* Every band has its thresholds in the same order, between those of HIGH and
\* those of LOW (threshold_scheduler.hpp:9-34).
LEMMA ThresholdRange ==
    ASSUME NEW in \in StepBInput
    PROVE  /\ Thresholds(in).warn   \in 15 .. 30
           /\ Thresholds(in).esc    \in 30 .. 60
           /\ Thresholds(in).absent \in 60 .. 100
           /\ Thresholds(in).warn < Thresholds(in).esc
           /\ Thresholds(in).esc < Thresholds(in).absent
<1>1. Estimate(in.jetracer_input) \in SpeedBand
  BY DEF Estimate, SpeedBand
<1>2. CASE Estimate(in.jetracer_input) = "LOW"
  BY <1>2 DEF Thresholds, Schedule, Slowest, Medium, Fastest
<1>3. CASE Estimate(in.jetracer_input) = "MID"
  BY <1>3 DEF Thresholds, Schedule, Slowest, Medium, Fastest
<1>4. CASE Estimate(in.jetracer_input) = "HIGH"
  BY <1>4 DEF Thresholds, Schedule, Slowest, Medium, Fastest
<1>5. QED
  BY <1>1, <1>2, <1>3, <1>4 DEF SpeedBand

\* The reason kept after a sample is a reason, with an integer timestamp.
LEMMA ReasonType ==
    ASSUME NEW in \in StepBInput,
           latest_reason \in Reason, latest_reason_ts_ms \in Int
    PROVE  /\ NewReason(in) \in Reason
           /\ LatestReason(in) \in Reason
           /\ NewReasonTs(in) \in Int
           /\ NewReasonTs(in) >= latest_reason_ts_ms
<1>1. in.reason \in Reason /\ in.reason_ts_ms \in Int
  BY DEF StepBInput
<1>2. NewReason(in) \in Reason
  BY <1>1 DEF NewReason
<1>3. LatestReason(in) \in Reason
  BY <1>2 DEF LatestReason, Reason
<1>4. NewReasonTs(in) \in Int /\ NewReasonTs(in) >= latest_reason_ts_ms
  BY <1>1 DEF NewReasonTs, AdoptsReason
<1>5. QED
  BY <1>2, <1>3, <1>4

\* An output built from well-typed parts is well typed.
LEMMA OutputType ==
    ASSUME NEW state \in DriverState, NEW reason \in Reason,
           NEW isLatched \in BOOLEAN, NEW reengaged \in BOOLEAN
    PROVE  /\ Output(state, reason, isLatched, reengaged) \in StepBOutput
           /\ Output(state, reason, isLatched, reengaged).next_state = state
           /\ Output(state, reason, isLatched, reengaged).reason = reason
           /\ Output(state, reason, isLatched, reengaged).absent_latched_run_cycle = isLatched
           /\ Output(state, reason, isLatched, reengaged).reengagement_confirmed_200ms = reengaged
BY DEF Output, StepBOutput

-----------------------------------------------------------------------------
(* The four invariants are inductive together: InattentionIsAnswered needs *)
(* AbsentIffLatched for a blocked camera, which leaves the timers alone,   *)
(* and AbsentIffLatched needs the types.                                   *)

StepBInv == /\ StepBTypeOK
            /\ AbsentIffLatched
            /\ InattentionIsAnswered
            /\ ReengagementWindow

LEMMA StepBInitInv == StepBInit => StepBInv
<1> SUFFICES ASSUME StepBInit PROVE StepBInv
  OBVIOUS
<1>1. StepBTypeOK
  <2>1. outB \in StepBOutput
    BY DEF StepBInit, Output, StepBOutput, DriverState, Reason
  <2>2. absent_latched_run_cycle \in BOOLEAN
    BY DEF StepBInit
  <2>3. /\ current_state \in DriverState /\ latest_reason \in Reason
        /\ inattentive_elapsed_s \in Nat /\ recover_elapsed_s \in Nat
        /\ latest_reason_ts_ms \in Int
    BY DEF StepBInit, DriverState, Reason
  <2>4. QED
    BY <2>1, <2>2, <2>3 DEF StepBTypeOK
<1>2. AbsentIffLatched
  <2>1. absent_latched_run_cycle = FALSE /\ current_state = "OK"
        /\ outB.next_state = "OK" /\ outB.absent_latched_run_cycle = FALSE
    BY DEF StepBInit, Output
  <2>2. QED
    BY <2>1 DEF AbsentIffLatched
<1>3. InattentionIsAnswered
  BY DEF StepBInit, InattentionIsAnswered, Slowest
<1>4. ReengagementWindow
  BY DEF StepBInit, ReengagementWindow, Output
<1>5. QED
  BY <1>1, <1>2, <1>3, <1>4 DEF StepBInv

LEMMA HoldAbsentInv ==
    ASSUME StepBInv, NEW in \in StepBInput, HoldAbsent(in)
    PROVE  StepBInv'
<1>0. /\ latest_reason \in Reason /\ latest_reason_ts_ms \in Int
      /\ inattentive_elapsed_s \in Nat /\ recover_elapsed_s \in Nat
      /\ absent_latched_run_cycle = TRUE
  BY DEF StepBInv, StepBTypeOK, HoldAbsent
<1>1. NewReason(in) \in Reason /\ NewReasonTs(in) \in Int
  BY <1>0, ReasonType
<1>2. /\ current_state' = "ABSENT" /\ absent_latched_run_cycle' = TRUE
      /\ latest_reason' = NewReason(in) /\ latest_reason_ts_ms' = NewReasonTs(in)
      /\ outB' = Output("ABSENT", NewReason(in), TRUE, FALSE)
      /\ inattentive_elapsed_s' = inattentive_elapsed_s
      /\ recover_elapsed_s' = recover_elapsed_s
  BY <1>0 DEF HoldAbsent, timers
<1>3. /\ outB' \in StepBOutput
      /\ outB'.next_state = "ABSENT" /\ outB'.absent_latched_run_cycle = TRUE
      /\ outB'.reengagement_confirmed_200ms = FALSE
  BY <1>1, <1>2 DEF Output, StepBOutput, DriverState
<1>4. StepBTypeOK'
  BY <1>0, <1>1, <1>2, <1>3 DEF StepBTypeOK, DriverState
<1>5. AbsentIffLatched'
  BY <1>2, <1>3 DEF AbsentIffLatched
<1>6. InattentionIsAnswered'
  BY <1>2 DEF InattentionIsAnswered
<1>7. ReengagementWindow'
  BY <1>3 DEF ReengagementWindow
<1>8. QED
  BY <1>4, <1>5, <1>6, <1>7 DEF StepBInv

LEMMA BlockedCameraWarningInv ==
    ASSUME StepBInv, NEW in \in StepBInput, BlockedCameraWarning(in)
    PROVE  StepBInv'
<1>0. /\ latest_reason \in Reason /\ latest_reason_ts_ms \in Int
      /\ inattentive_elapsed_s \in Nat /\ recover_elapsed_s \in Nat
      /\ absent_latched_run_cycle = FALSE /\ current_state # "ABSENT"
      /\ inattentive_elapsed_s < 100
  BY DEF StepBInv, StepBTypeOK, BlockedCameraWarning, AbsentIffLatched,
         InattentionIsAnswered, Slowest
<1>1. LatestReason(in) \in Reason /\ NewReasonTs(in) \in Int
  BY <1>0, ReasonType
<1>2. /\ current_state' = "WARNING" /\ absent_latched_run_cycle' = FALSE
      /\ latest_reason' = LatestReason(in) /\ latest_reason_ts_ms' = NewReasonTs(in)
      /\ outB' = Output("WARNING", "BLOCKED_CAMERA", FALSE, FALSE)
      /\ inattentive_elapsed_s' = inattentive_elapsed_s
      /\ recover_elapsed_s' = recover_elapsed_s
  BY <1>0 DEF BlockedCameraWarning, AdoptReason, timers
<1>3. /\ outB' \in StepBOutput
      /\ outB'.next_state = "WARNING" /\ outB'.absent_latched_run_cycle = FALSE
      /\ outB'.reason = "BLOCKED_CAMERA"
      /\ outB'.reengagement_confirmed_200ms = FALSE
  BY <1>2 DEF Output, StepBOutput, DriverState, Reason
<1>4. StepBTypeOK'
  BY <1>0, <1>1, <1>2, <1>3 DEF StepBTypeOK, DriverState
<1>5. AbsentIffLatched'
  BY <1>2, <1>3 DEF AbsentIffLatched
<1>6. InattentionIsAnswered'
  <2>1. inattentive_elapsed_s' \in Nat /\ inattentive_elapsed_s' < 100
    BY <1>0, <1>2
  <2>2. current_state' = "WARNING" /\ outB'.reason = "BLOCKED_CAMERA"
    BY <1>2, <1>3
  <2>3. QED
    BY <2>1, <2>2 DEF InattentionIsAnswered, Slowest
<1>7. ReengagementWindow'
  BY <1>3 DEF ReengagementWindow
<1>8. QED
  BY <1>4, <1>5, <1>6, <1>7 DEF StepBInv

LEMMA LatchCriticalInv ==
    ASSUME StepBInv, NEW in \in StepBInput, LatchCritical(in)
    PROVE  StepBInv'
<1>0. /\ latest_reason \in Reason /\ latest_reason_ts_ms \in Int
      /\ inattentive_elapsed_s \in Nat /\ recover_elapsed_s \in Nat
  BY DEF StepBInv, StepBTypeOK
<1>1. LatestReason(in) \in Reason /\ NewReasonTs(in) \in Int
  BY <1>0, ReasonType
<1>2. /\ current_state' = "ABSENT" /\ absent_latched_run_cycle' = TRUE
      /\ latest_reason' = LatestReason(in) /\ latest_reason_ts_ms' = NewReasonTs(in)
      /\ outB' = Output("ABSENT", LatestReason(in), TRUE, FALSE)
      /\ inattentive_elapsed_s' = inattentive_elapsed_s
      /\ recover_elapsed_s' = recover_elapsed_s
  BY DEF LatchCritical, LatchAbsentRunCycle, AdoptReason, timers
<1>3. /\ outB' \in StepBOutput
      /\ outB'.next_state = "ABSENT" /\ outB'.absent_latched_run_cycle = TRUE
      /\ outB'.reengagement_confirmed_200ms = FALSE
  BY <1>1, <1>2 DEF Output, StepBOutput, DriverState
<1>4. StepBTypeOK'
  BY <1>0, <1>1, <1>2, <1>3 DEF StepBTypeOK, DriverState
<1>5. AbsentIffLatched'
  BY <1>2, <1>3 DEF AbsentIffLatched
<1>6. InattentionIsAnswered'
  BY <1>2 DEF InattentionIsAnswered
<1>7. ReengagementWindow'
  BY <1>3 DEF ReengagementWindow
<1>8. QED
  BY <1>4, <1>5, <1>6, <1>7 DEF StepBInv

LEMMA AttentiveStepInv ==
    ASSUME StepBInv, NEW in \in StepBInput, AttentiveStep(in)
    PROVE  StepBInv'
<1> DEFINE state     == StateIfAttentive(recover_elapsed_s')
           reason    == EffectiveReason(in, state, recover_elapsed_s')
           reengaged == Reengaged(in, state, recover_elapsed_s')
<1>0. /\ latest_reason \in Reason /\ latest_reason_ts_ms \in Int
      /\ recover_elapsed_s \in Nat
      /\ absent_latched_run_cycle = FALSE
      /\ current_state \in {"OK", "WARNING", "ESCALATION"}
  BY DEF StepBInv, StepBTypeOK, AttentiveStep, TimersDecide, AbsentIffLatched, DriverState
<1>1. NewReason(in) \in Reason /\ LatestReason(in) \in Reason /\ NewReasonTs(in) \in Int
  BY <1>0, ReasonType
<1>2. in.delta_s \in Int /\ in.is_attentive \in BOOLEAN
  BY DEF StepBInput
<1>3. inattentive_elapsed_s' = 0 /\ recover_elapsed_s' \in Nat
  BY <1>0, <1>2 DEF AttentiveStep, AdvanceRecover, UpToHold, RecoverHold, NonNegative
<1>4. /\ current_state' = state /\ absent_latched_run_cycle' = FALSE
      /\ latest_reason' = LatestReason(in) /\ latest_reason_ts_ms' = NewReasonTs(in)
      /\ outB' = Output(state, reason, FALSE, reengaged)
  BY <1>0 DEF AttentiveStep, AdoptReason
<1>5. /\ state \in {"OK", "WARNING", "ESCALATION"}
      /\ state # "OK" => recover_elapsed_s' < 30
  BY <1>0, <1>3 DEF StateIfAttentive, RecoverHold
<1>6. reason \in Reason
  BY <1>1 DEF EffectiveReason, Reason
<1>7. reengaged \in BOOLEAN
  BY DEF Reengaged
<1> HIDE DEF state, reason, reengaged
<1>8. /\ outB' \in StepBOutput
      /\ outB'.next_state = state /\ outB'.absent_latched_run_cycle = FALSE
      /\ outB'.reengagement_confirmed_200ms = reengaged
  <2>1. CASE reengaged = TRUE
    BY <2>1, <1>4, <1>5, <1>6 DEF Output, StepBOutput, DriverState
  <2>2. CASE reengaged = FALSE
    BY <2>2, <1>4, <1>5, <1>6 DEF Output, StepBOutput, DriverState
  <2>3. QED
    BY <1>7, <2>1, <2>2
<1>9. StepBTypeOK'
  <2>1. current_state' \in DriverState
    BY <1>4, <1>5 DEF DriverState
  <2>2. absent_latched_run_cycle' \in BOOLEAN
    BY <1>4
  <2>3. QED
    BY <1>1, <1>3, <1>4, <1>8, <2>1, <2>2 DEF StepBTypeOK
<1>10. AbsentIffLatched'
  BY <1>4, <1>5, <1>8 DEF AbsentIffLatched
<1>11. InattentionIsAnswered'
  BY <1>3 DEF InattentionIsAnswered, Slowest
<1>12. ReengagementWindow'
  <2>1. reengaged => state # "OK" /\ recover_elapsed_s' >= 2
    BY DEF reengaged, Reengaged, ConfirmAfter
  <2>2. QED
    BY <2>1, <1>3, <1>4, <1>5, <1>8 DEF ReengagementWindow, ConfirmAfter, RecoverHold
<1>13. QED
  BY <1>9, <1>10, <1>11, <1>12 DEF StepBInv

LEMMA InattentiveStepInv ==
    ASSUME StepBInv, NEW in \in StepBInput, InattentiveStep(in)
    PROVE  StepBInv'
<1> DEFINE state     == StateIfInattentive(Thresholds(in), inattentive_elapsed_s')
           reason    == EffectiveReason(in, state, recover_elapsed_s')
           reengaged == Reengaged(in, state, recover_elapsed_s')
<1>0. /\ latest_reason \in Reason /\ latest_reason_ts_ms \in Int
      /\ inattentive_elapsed_s \in Nat
      /\ absent_latched_run_cycle = FALSE
      /\ current_state \in {"OK", "WARNING", "ESCALATION"}
  BY DEF StepBInv, StepBTypeOK, InattentiveStep, TimersDecide, AbsentIffLatched, DriverState
<1>1. NewReason(in) \in Reason /\ LatestReason(in) \in Reason /\ NewReasonTs(in) \in Int
  BY <1>0, ReasonType
<1>2. in.delta_s \in Int /\ in.is_attentive = FALSE
  BY DEF StepBInput, InattentiveStep
<1>3. inattentive_elapsed_s' \in Nat /\ recover_elapsed_s' = 0
  BY <1>0, <1>2 DEF InattentiveStep, AdvanceInattentive, NonNegative
<1>4. /\ current_state' = state /\ absent_latched_run_cycle' = (state = "ABSENT")
      /\ latest_reason' = LatestReason(in) /\ latest_reason_ts_ms' = NewReasonTs(in)
      /\ outB' = Output(state, reason, state = "ABSENT", reengaged)
  BY DEF InattentiveStep, AdoptReason
<1>5. /\ state \in DriverState
      /\ inattentive_elapsed_s' >= 30 => state # "OK"
      /\ inattentive_elapsed_s' >= 60 => state \in {"ESCALATION", "ABSENT"}
      /\ inattentive_elapsed_s' >= 100 => state = "ABSENT"
  <2>1. /\ Thresholds(in).warn \in 15 .. 30
        /\ Thresholds(in).esc \in 30 .. 60
        /\ Thresholds(in).absent \in 60 .. 100
    BY ThresholdRange
  <2>2. CASE inattentive_elapsed_s' >= Thresholds(in).absent
    BY <2>1, <2>2, <1>3 DEF StateIfInattentive, DriverState
  <2>3. CASE /\ ~(inattentive_elapsed_s' >= Thresholds(in).absent)
             /\ inattentive_elapsed_s' >= Thresholds(in).esc
    BY <2>1, <2>3, <1>3 DEF StateIfInattentive, DriverState
  <2>4. CASE /\ ~(inattentive_elapsed_s' >= Thresholds(in).absent)
             /\ ~(inattentive_elapsed_s' >= Thresholds(in).esc)
             /\ inattentive_elapsed_s' >= Thresholds(in).warn
    BY <2>1, <2>4, <1>3 DEF StateIfInattentive, DriverState
  <2>5. CASE /\ ~(inattentive_elapsed_s' >= Thresholds(in).absent)
             /\ ~(inattentive_elapsed_s' >= Thresholds(in).esc)
             /\ ~(inattentive_elapsed_s' >= Thresholds(in).warn)
    BY <2>1, <2>5, <1>0, <1>3 DEF StateIfInattentive, DriverState
  <2>6. QED
    BY <2>2, <2>3, <2>4, <2>5
<1>6. reason \in Reason
  BY <1>1 DEF EffectiveReason, Reason
<1>7. reengaged = FALSE
  BY <1>2 DEF Reengaged
<1> HIDE DEF state, reason, reengaged
<1>8. /\ outB' \in StepBOutput
      /\ outB'.next_state = state
      /\ outB'.absent_latched_run_cycle = (state = "ABSENT")
      /\ outB'.reengagement_confirmed_200ms = FALSE
  BY <1>4, <1>5, <1>6, <1>7 DEF Output, StepBOutput
<1>9. StepBTypeOK'
  <2>1. absent_latched_run_cycle' \in BOOLEAN
    BY <1>4
  <2>2. QED
    BY <1>1, <1>3, <1>4, <1>5, <1>8, <2>1 DEF StepBTypeOK
<1>10. AbsentIffLatched'
  BY <1>4, <1>8 DEF AbsentIffLatched
<1>11. InattentionIsAnswered'
  BY <1>3, <1>4, <1>5 DEF InattentionIsAnswered, Slowest
<1>12. ReengagementWindow'
  BY <1>8 DEF ReengagementWindow
<1>13. QED
  BY <1>9, <1>10, <1>11, <1>12 DEF StepBInv

\* Every call of Evaluate preserves the inductive invariant (step_b.cpp:13-123).
LEMMA EvaluateInv ==
    ASSUME StepBInv, NEW in \in StepBInput, Evaluate(in)
    PROVE  StepBInv'
<1>1. CASE HoldAbsent(in)
  BY <1>1, HoldAbsentInv
<1>2. CASE BlockedCameraWarning(in)
  BY <1>2, BlockedCameraWarningInv
<1>3. CASE LatchCritical(in)
  BY <1>3, LatchCriticalInv
<1>4. CASE AttentiveStep(in)
  BY <1>4, AttentiveStepInv
<1>5. CASE InattentiveStep(in)
  BY <1>5, InattentiveStepInv
<1>6. QED
  BY <1>1, <1>2, <1>3, <1>4, <1>5 DEF Evaluate

\* A new run cycle re-establishes it (state_timer_store.hpp:36-38).
LEMMA ResetInv ==
    ASSUME ResetForNewRunCycle
    PROVE  StepBInv'
<1>1. /\ current_state' = "OK" /\ absent_latched_run_cycle' = FALSE
      /\ inattentive_elapsed_s' = 0 /\ recover_elapsed_s' = 0
      /\ latest_reason' = "NONE" /\ latest_reason_ts_ms' = 0
      /\ outB' = Output("OK", "NONE", FALSE, FALSE)
  BY DEF ResetForNewRunCycle
<1>2. /\ outB' \in StepBOutput
      /\ outB'.next_state = "OK" /\ outB'.absent_latched_run_cycle = FALSE
      /\ outB'.reengagement_confirmed_200ms = FALSE
  BY <1>1 DEF Output, StepBOutput, DriverState, Reason
<1>3. StepBTypeOK'
  <2>1. absent_latched_run_cycle' \in BOOLEAN
    BY <1>1
  <2>2. /\ current_state' \in DriverState /\ latest_reason' \in Reason
        /\ inattentive_elapsed_s' \in Nat /\ recover_elapsed_s' \in Nat
        /\ latest_reason_ts_ms' \in Int
    BY <1>1 DEF DriverState, Reason
  <2>3. QED
    BY <1>2, <2>1, <2>2 DEF StepBTypeOK
<1>4. AbsentIffLatched'
  BY <1>1, <1>2 DEF AbsentIffLatched
<1>5. InattentionIsAnswered'
  BY <1>1 DEF InattentionIsAnswered, Slowest
<1>6. ReengagementWindow'
  BY <1>2 DEF ReengagementWindow
<1>7. QED
  BY <1>3, <1>4, <1>5, <1>6 DEF StepBInv

LEMMA StutterInv ==
    ASSUME StepBInv, UNCHANGED stepBVars
    PROVE  StepBInv'
BY DEF StepBInv, StepBTypeOK, AbsentIffLatched, InattentionIsAnswered,
       ReengagementWindow, stepBVars, timers, reasonVars

\* The inductive invariant holds in every reachable state.
THEOREM StepBInvariance == StepBSpec => []StepBInv
<1>1. StepBInit => StepBInv
  BY StepBInitInv
<1>2. StepBInv /\ [StepBNext]_stepBVars => StepBInv'
  BY EvaluateInv, ResetInv, StutterInv, StepBInputsAssumption DEF StepBNext
<1>3. QED
  BY <1>1, <1>2, PTL DEF StepBSpec

\* The state store always has its declared types; timers stay non-negative for
\* every delta_s (state_timer_store.hpp:17-25).
THEOREM StepBTypeCorrect == StepBSpec => []StepBTypeOK
<1>1. StepBInv => StepBTypeOK
  BY DEF StepBInv
<1>2. QED
  BY <1>1, StepBInvariance, PTL

\* The latch, the stored state and the output agree about ABSENT
\* (step_b.cpp:38-48, 70-80, 104-108).
THEOREM StepBAbsentIffLatched == StepBSpec => []AbsentIffLatched
<1>1. StepBInv => AbsentIffLatched
  BY DEF StepBInv
<1>2. QED
  BY <1>1, StepBInvariance, PTL

\* Accumulated inattention is answered whatever the speed bands of the samples
\* were (step_b.cpp:89-108).
THEOREM StepBInattentionIsAnswered == StepBSpec => []InattentionIsAnswered
<1>1. StepBInv => InattentionIsAnswered
  BY DEF StepBInv
<1>2. QED
  BY <1>1, StepBInvariance, PTL

\* A critical reason stops the car unless the camera hides the driver
\* (step_b.cpp:50-80).
THEOREM StepBCriticalReasonOnlyWaitsForCamera ==
    StepBSpec => []CriticalReasonOnlyWaitsForCamera
<1> USE DEF CriticalReasonOnlyWaitsForCamera
<1>1. StepBInit => CriticalReasonOnlyWaitsForCamera
  BY DEF StepBInit, is_critical_reason
<1>2. ASSUME NEW in \in StepBInputs, Evaluate(in)
      PROVE  CriticalReasonOnlyWaitsForCamera'
  <2>1. CASE HoldAbsent(in) \/ LatchCritical(in)
    <3>1. CASE HoldAbsent(in)
      <4>1. absent_latched_run_cycle /\ absent_latched_run_cycle' = absent_latched_run_cycle
        BY <3>1 DEF HoldAbsent
      <4>2. absent_latched_run_cycle'
        BY <4>1, Zenon
      <4>3. QED
        BY <4>2
    <3>2. CASE LatchCritical(in)
      <4>1. absent_latched_run_cycle' = TRUE
        BY <3>2 DEF LatchCritical, LatchAbsentRunCycle
      <4>2. QED
        BY <4>1
    <3>3. QED
      BY <2>1, <3>1, <3>2
  <2>2. CASE BlockedCameraWarning(in)
    BY <2>2 DEF BlockedCameraWarning, Output
  <2>3. CASE AttentiveStep(in) \/ InattentiveStep(in)
    <3>1. ~is_critical_reason(latest_reason')
      BY <2>3 DEF AttentiveStep, InattentiveStep, TimersDecide, AdoptReason
    <3>2. QED
      BY <3>1
  <2>4. QED
    BY <1>2, <2>1, <2>2, <2>3 DEF Evaluate
<1>3. ResetForNewRunCycle => CriticalReasonOnlyWaitsForCamera'
  BY DEF ResetForNewRunCycle, is_critical_reason
<1>4. CriticalReasonOnlyWaitsForCamera /\ UNCHANGED stepBVars
      => CriticalReasonOnlyWaitsForCamera'
  BY DEF stepBVars, reasonVars
<1>5. CriticalReasonOnlyWaitsForCamera /\ [StepBNext]_stepBVars
      => CriticalReasonOnlyWaitsForCamera'
  BY <1>2, <1>3, <1>4 DEF StepBNext
<1>6. QED
  BY <1>1, <1>5, PTL DEF StepBSpec

\* Re-engagement is only reported inside its window (step_b.cpp:116-122).
THEOREM StepBReengagementWindow == StepBSpec => []ReengagementWindow
<1>1. StepBInv => ReengagementWindow
  BY DEF StepBInv
<1>2. QED
  BY <1>1, StepBInvariance, PTL

\* Only a new run cycle ends ABSENT (step_b.cpp:38-48).
THEOREM StepBAbsentIsFinal == StepBSpec => AbsentIsFinal
<1> DEFINE Final == absent_latched_run_cycle =>
                      \/ ResetForNewRunCycle
                      \/ /\ absent_latched_run_cycle'
                         /\ outB'.next_state = "ABSENT"
                         /\ UNCHANGED timers
<1>1. StepBInv /\ [StepBNext]_stepBVars => [Final]_stepBVars
  <2> SUFFICES ASSUME StepBInv, absent_latched_run_cycle,
                      NEW in \in StepBInputs, Evaluate(in)
               PROVE  /\ absent_latched_run_cycle'
                      /\ outB'.next_state = "ABSENT"
                      /\ UNCHANGED timers
    BY DEF StepBNext
  <2>1. HoldAbsent(in)
    BY DEF Evaluate, BlockedCameraWarning, LatchCritical, AttentiveStep,
           InattentiveStep, TimersDecide
  <2>2. outB'.next_state = "ABSENT"
    BY <2>1 DEF HoldAbsent, Output
  <2>3. absent_latched_run_cycle' /\ UNCHANGED timers
    BY <2>1 DEF HoldAbsent
  <2>4. QED
    BY <2>2, <2>3
<1>2. QED
  BY <1>1, StepBInvariance, PTL DEF StepBSpec, AbsentIsFinal

\* A state that rises is a new one.
LEMMA RisesIsNew ==
    ASSUME NEW state \in DriverState, RisesTo(state)
    PROVE  current_state # state /\ current_state' = state
<1>1. Severity(state) \in Int
  BY DEF Severity, DriverState
<1>2. QED
  BY <1>1 DEF RisesTo

\* No alarm without a cause (step_b.cpp:50-108).
THEOREM StepBAlarmIsJustified == StepBSpec => AlarmIsJustified
<1> DEFINE Justified ==
             /\ RisesTo("WARNING") =>
                   \/ inattentive_elapsed_s' >= Fastest.warn
                   \/ outB'.reason = "BLOCKED_CAMERA"
             /\ RisesTo("ESCALATION") => inattentive_elapsed_s' >= Fastest.esc
             /\ RisesTo("ABSENT") =>
                   \/ inattentive_elapsed_s' >= Fastest.absent
                   \/ is_critical_reason(latest_reason')
<1>1. StepBInv /\ [StepBNext]_stepBVars => [Justified]_stepBVars
  <2>0. "WARNING" \in DriverState /\ "ESCALATION" \in DriverState /\ "ABSENT" \in DriverState
    BY DEF DriverState
  <2>1. ASSUME ResetForNewRunCycle PROVE Justified
    BY <2>1 DEF ResetForNewRunCycle, RisesTo
  <2>2. ASSUME StepBInv, NEW in \in StepBInputs, Evaluate(in) PROVE Justified
    <3>0. in \in StepBInput /\ inattentive_elapsed_s \in Nat
      BY <2>2, StepBInputsAssumption DEF StepBInv, StepBTypeOK
    <3>1. CASE HoldAbsent(in)
      BY <2>2, <3>1, <2>0, RisesIsNew DEF HoldAbsent, RisesTo, StepBInv, AbsentIffLatched
    <3>2. CASE BlockedCameraWarning(in)
      BY <3>2 DEF BlockedCameraWarning, RisesTo, Output
    <3>3. CASE LatchCritical(in)
      BY <3>3 DEF LatchCritical, LatchAbsentRunCycle, AdoptReason, RisesTo
    <3>4. CASE AttentiveStep(in)
      <4>1. current_state' \in {"OK", current_state}
        BY <3>4 DEF AttentiveStep, StateIfAttentive
      <4>2. QED
        BY <4>1, <2>0, RisesIsNew DEF RisesTo
    <3>5. CASE InattentiveStep(in)
      <4>1. inattentive_elapsed_s' \in Nat
        BY <3>0, <3>5 DEF StepBInput, InattentiveStep, AdvanceInattentive, NonNegative
      <4>2. current_state' = StateIfInattentive(Thresholds(in), inattentive_elapsed_s')
        BY <3>5 DEF InattentiveStep
      <4>3. /\ Thresholds(in).warn \in 15 .. 30
            /\ Thresholds(in).esc \in 30 .. 60
            /\ Thresholds(in).absent \in 60 .. 100
        BY <3>0, ThresholdRange
      <4>4. /\ RisesTo("WARNING") => inattentive_elapsed_s' >= 15
            /\ RisesTo("ESCALATION") => inattentive_elapsed_s' >= 30
            /\ RisesTo("ABSENT") => inattentive_elapsed_s' >= 60
        BY <4>1, <4>2, <4>3, <2>0, RisesIsNew DEF StateIfInattentive
      <4>5. QED
        BY <4>4 DEF Fastest
    <3>6. QED
      BY <2>2, <3>1, <3>2, <3>3, <3>4, <3>5 DEF Evaluate
  <2>3. QED
    BY <2>1, <2>2 DEF StepBNext
<1>2. QED
  BY <1>1, StepBInvariance, PTL DEF StepBSpec, AlarmIsJustified

\* A late reason never replaces a newer one (step_b.cpp:29-36, 54-56).
THEOREM StepBReasonNeverGoesBack == StepBSpec => ReasonNeverGoesBack
<1> DEFINE Adopted(in) == /\ in.reason = latest_reason'
                          /\ in.reason_ts_ms = latest_reason_ts_ms'
           Forward == \/ ResetForNewRunCycle
                      \/ /\ latest_reason_ts_ms' >= latest_reason_ts_ms
                         /\ latest_reason' # latest_reason =>
                               \/ latest_reason' = "BLOCKED_CAMERA" /\ absent_latched_run_cycle'
                               \/ \E in \in StepBInputs : Adopted(in)
<1>1. StepBInv /\ [StepBNext]_stepBVars => [Forward]_stepBVars
  <2> SUFFICES ASSUME StepBInv, NEW in \in StepBInputs, Evaluate(in)
               PROVE  /\ latest_reason_ts_ms' >= latest_reason_ts_ms
                      /\ \/ latest_reason' = latest_reason
                         \/ latest_reason' = "BLOCKED_CAMERA" /\ absent_latched_run_cycle'
                         \/ Adopted(in)
    BY DEF StepBNext
  <2>0. /\ in \in StepBInput /\ latest_reason \in Reason
        /\ latest_reason_ts_ms \in Int
    BY StepBInputsAssumption DEF StepBInv, StepBTypeOK
  <2>1. latest_reason_ts_ms' = NewReasonTs(in)
    BY DEF Evaluate, HoldAbsent, BlockedCameraWarning, LatchCritical,
           AttentiveStep, InattentiveStep, AdoptReason
  <2>2. NewReasonTs(in) >= latest_reason_ts_ms
    BY <2>0, ReasonType
  <2>3. \/ latest_reason' = NewReason(in)
        \/ latest_reason' = "BLOCKED_CAMERA" /\ absent_latched_run_cycle'
    <3>1. CASE HoldAbsent(in)
      BY <3>1 DEF HoldAbsent
    <3>2. CASE BlockedCameraWarning(in)
      <4>1. ~BlockedTooLong(in)
        <5>1. in.blocked_for \in Int /\ Thresholds(in).absent \in Int
          BY <2>0, ThresholdRange DEF StepBInput
        <5>2. QED
          BY <3>2, <5>1 DEF BlockedCameraWarning, BlockedBriefly, BlockedTooLong
      <4>2. QED
        BY <3>2, <4>1 DEF BlockedCameraWarning, AdoptReason, LatestReason
    <3>3. CASE LatchCritical(in)
      BY <3>3 DEF LatchCritical, LatchAbsentRunCycle, AdoptReason, LatestReason
    <3>4. CASE AttentiveStep(in) \/ InattentiveStep(in)
      <4>1. ~BlockedTooLong(in)
        BY <3>4 DEF AttentiveStep, InattentiveStep, TimersDecide, LatestReason,
                    is_critical_reason
      <4>2. QED
        BY <3>4, <4>1 DEF AttentiveStep, InattentiveStep, AdoptReason, LatestReason
    <3>5. QED
      BY <3>1, <3>2, <3>3, <3>4 DEF Evaluate
  <2>4. \/ NewReason(in) = latest_reason
        \/ NewReason(in) = in.reason /\ NewReasonTs(in) = in.reason_ts_ms
    BY DEF NewReason, NewReasonTs
  <2>5. QED
    BY <2>1, <2>2, <2>3, <2>4
<1>2. QED
  BY <1>1, StepBInvariance, PTL DEF StepBSpec, ReasonNeverGoesBack
=============================================================================
