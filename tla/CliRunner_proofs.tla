-------------------------- MODULE CliRunner_proofs --------------------------
(***************************************************************************)
(* What holds of the runner for every command line, every number of ticks  *)
(* and every --dt: the runtime inside it keeps its invariant, and what a   *)
(* scenario of repeated ticks ends in can be read off the options.         *)
(***************************************************************************)
EXTENDS CliRunner, PolicyRuntime_proofs

\* ParseReason has no word for BLOCKED_CAMERA, and there are no ticks before
\* ticking.
OptionsInv == /\ opts \in CliOptions
              /\ opts.reason # "BLOCKED_CAMERA"
              /\ ticking \in BOOLEAN
              /\ tick \in Nat
              /\ ~ticking => tick = 0

LEMMA ParsedTypes ==
    ASSUME NEW word
    PROVE  /\ ParseBool(word) \in BOOLEAN
           /\ ParseReason(word) \in Reason /\ ParseReason(word) # "BLOCKED_CAMERA"
           /\ ParseLkasMode(word) \in LkasMode
           /\ ParseSwitchEvent(word) \in LkasSwitchEvent
<1>1. ParseBool(word) \in BOOLEAN
  BY DEF ParseBool
<1>2. ParseReason(word) \in Reason /\ ParseReason(word) # "BLOCKED_CAMERA"
  BY DEF ParseReason, Reason
<1>3. ParseLkasMode(word) \in LkasMode
  BY DEF ParseLkasMode, LkasMode
<1>4. ParseSwitchEvent(word) \in LkasSwitchEvent
  BY DEF ParseSwitchEvent, LkasSwitchEvent
<1>5. QED
  BY <1>1, <1>2, <1>3, <1>4

\* Each option keeps the types of main's variables.
LEMMA StoreType ==
    ASSUME opts \in CliOptions, opts.reason # "BLOCKED_CAMERA",
           NEW name, NEW word, Readable(name, word), Store(name, word)
    PROVE  opts' \in CliOptions /\ opts'.reason # "BLOCKED_CAMERA"
<1>1. /\ name \in WholeOptions => Whole[word] \in Int
      /\ name \in DecimalOptions => Tenths[word] \in Int
  BY WordsAssumption DEF Readable
<1>2. CASE name \in WholeOptions
  <2>1. PICK n \in Int : n = Whole[word]
    BY <1>1, <1>2
  <2>2. CASE name \in {"--ts", "--ticks"}
    BY <2>1, <2>2 DEF Store, CliOptions
  <2>3. CASE name \in {"--reason-ts", "--camera-blocked-ts"}
    BY <2>1, <2>3 DEF Store, CliOptions
  <2>4. QED
    BY <1>2, <2>2, <2>3 DEF WholeOptions
<1>3. CASE name \in DecimalOptions
  BY <1>1, <1>3 DEF Store, CliOptions, DecimalOptions
<1>4. CASE name \in {"--attentive", "--override", "--notebook-alive", "--camera-blocked"}
  <2>1. PICK b \in BOOLEAN : b = ParseBool(word)
    BY ParsedTypes
  <2>2. QED
    BY <1>4, <2>1 DEF Store, CliOptions
<1>5. CASE name \in {"--reason", "--lkas-mode", "--switch"}
  BY <1>5, ParsedTypes DEF Store, CliOptions
<1>6. QED
  BY <1>2, <1>3, <1>4, <1>5 DEF Store, WholeOptions, DecimalOptions

LEMMA OptionsNext ==
    ASSUME OptionsInv, [CliNext]_cliVars
    PROVE  OptionsInv'
<1>1. CASE ReadOption
  <2>1. Store(argv[i], argv[i + 1]) /\ Readable(argv[i], argv[i + 1])
    BY <1>1 DEF ReadOption
  <2>2. UNCHANGED <<ticking, tick>>
    BY <1>1 DEF ReadOption, loopVars
  <2>3. QED
    BY <2>1, <2>2, StoreType DEF OptionsInv
<1>2. CASE StartTicks
  BY <1>2 DEF StartTicks, DefaultReasonTs, OptionsInv, CliOptions
<1>3. CASE RunTick
  <2>1. opts' = [opts EXCEPT !.switch_event = "NONE"] /\ tick' = tick + 1 /\ ticking
        /\ ticking' = ticking
    BY <1>3 DEF RunTick
  <2>2. QED
    BY <2>1 DEF OptionsInv, CliOptions, LkasSwitchEvent
<1>4. CASE MissingValue \/ UnreadableNumber \/ Help \/ UnknownOption \/ Finish
           \/ UNCHANGED cliVars
  <2>1. UNCHANGED <<opts, ticking, tick>>
    BY <1>4 DEF MissingValue, UnreadableNumber, Help, UnknownOption, Finish, Exit,
       lineVars, loopVars, cliVars
  <2>2. QED
    BY <2>1 DEF OptionsInv
<1>5. QED
  BY <1>1, <1>2, <1>3, <1>4 DEF CliNext

LEMMA OptionsInvariance == CliSpec => []OptionsInv
<1>1. CliInit => OptionsInv
  <2>1. Defaults \in CliOptions /\ Defaults.reason # "BLOCKED_CAMERA"
    BY DEF Defaults, CliOptions, Reason, LkasMode, LkasSwitchEvent
  <2> SUFFICES ASSUME CliInit PROVE OptionsInv
    OBVIOUS
  <2>2. opts = Defaults /\ ticking = FALSE /\ tick = 0
    BY DEF CliInit
  <2>3. ticking \in BOOLEAN
    BY <2>2
  <2>4. QED
    BY <2>1, <2>2, <2>3 DEF OptionsInv
<1>2. OptionsInv /\ [CliNext]_cliVars => OptionsInv'
  BY OptionsNext
<1>3. QED
  BY <1>1, <1>2, PTL DEF CliSpec

-----------------------------------------------------------------------------
(* The runtime inside the runner *)

LEMMA BuiltInputs ==
    ASSUME OptionsInv, NEW n \in Nat
    PROVE  TickSample(opts, n) \in StepBInput /\ TickRequest(opts) \in StepCInput
<1>1. TickStamp(opts, n) \in Int /\ ReasonStamp(opts, n) \in Int
  BY DEF OptionsInv, CliOptions, TickStamp, ReasonStamp
<1>2. (TickStamp(opts, n) - opts.camera_blocked_ts_ms) \div 100 \in Int
  BY <1>1 DEF OptionsInv, CliOptions
<1>3. TickSample(opts, n) \in StepBInput
  BY <1>1, <1>2 DEF OptionsInv, CliOptions, TickSample, StepBInput
<1>4. TickRequest(opts) \in StepCInput
  BY DEF OptionsInv, CliOptions, TickRequest, StepCInput
<1>5. QED
  BY <1>3, <1>4

\* Reading options and exiting leave the runtime alone.
LEMMA OtherCliSteps ==
    ASSUME [CliNext]_cliVars, ~RunTick, ~StartTicks
    PROVE  UNCHANGED runtimeVars
BY DEF CliNext, ReadOption, MissingValue, UnreadableNumber, Help, UnknownOption, Finish,
   Exit, cliVars

LEMMA CliRuntimeNext ==
    ASSUME OptionsInv, RuntimeInv, [CliNext]_cliVars
    PROVE  RuntimeInv'
<1>1. CASE RunTick
  BY <1>1, BuiltInputs, TickInv DEF RunTick, OptionsInv
<1>2. CASE StartTicks
  <2>1. opts.lkas_mode \in LkasMode
    BY DEF OptionsInv, CliOptions
  <2>2. QED
    BY <1>2, <2>1, StartCallerInv, CliRunCycleAssumption DEF StartTicks
<1>3. CASE ~RunTick /\ ~StartTicks
  BY <1>3, OtherCliSteps, RuntimeStutterInv
<1>4. QED
  BY <1>1, <1>2, <1>3

\* The runner drives the runtime as it is meant to be driven: types, lockout,
\* stopping, throttle limit and LKAS mode are right for every command line
\* (main.cpp:124-150).
THEOREM CliKeepsRuntimeInv == CliSpec => []RuntimeInv
<1>1. CliInit => RuntimeInv
  BY RuntimeInitInv DEF CliInit
<1>2. OptionsInv /\ RuntimeInv /\ [CliNext]_cliVars => RuntimeInv'
  BY CliRuntimeNext
<1>3. QED
  BY <1>1, <1>2, OptionsInvariance, PTL DEF CliSpec

-----------------------------------------------------------------------------
(* The types *)

LoopInv == /\ i \in Nat \ {0}
           /\ tick <= NonNegative(opts.ticks)
           /\ exit_code \in {Running, "0", "2", "aborted"}

LEMMA LoopNext ==
    ASSUME OptionsInv, OptionsInv', LoopInv, [CliNext]_cliVars
    PROVE  LoopInv'
<1>1. CASE ReadOption
  <2>1. /\ i' = i + 2 /\ exit_code' = exit_code /\ tick' = tick /\ ticking' = ticking
    BY <1>1 DEF ReadOption, loopVars
  <2>2. ~ticking
    BY <1>1 DEF ReadOption, AtWord
  <2>3. QED
    BY <2>1, <2>2 DEF OptionsInv, LoopInv, NonNegative, CliOptions
<1>2. CASE StartTicks
  BY <1>2 DEF StartTicks, DefaultReasonTs, OptionsInv, LoopInv, CliOptions
<1>3. CASE RunTick
  BY <1>3 DEF RunTick, TickDue, OptionsInv, CliOptions, LoopInv, NonNegative
<1>4. CASE MissingValue \/ UnreadableNumber \/ Help \/ UnknownOption \/ Finish
           \/ UNCHANGED cliVars
  <2>1. UNCHANGED <<opts, tick, i>> /\ exit_code' \in {exit_code, "0", "2", "aborted"}
    BY <1>4 DEF MissingValue, UnreadableNumber, Help, UnknownOption, Finish, Exit,
       lineVars, loopVars, cliVars
  <2>2. QED
    BY <2>1 DEF LoopInv
<1>5. QED
  BY <1>1, <1>2, <1>3, <1>4 DEF CliNext

LEMMA LoopInvariance == CliSpec => []LoopInv
<1>1. CliInit => LoopInv
  <2> SUFFICES ASSUME CliInit PROVE LoopInv
    OBVIOUS
  <2>1. i = 1 /\ tick = 0 /\ opts.ticks = 1 /\ exit_code = Running
    BY DEF CliInit, Defaults
  <2>2. QED
    BY <2>1 DEF LoopInv, NonNegative
<1>2. OptionsInv /\ OptionsInv' /\ LoopInv /\ [CliNext]_cliVars => LoopInv'
  BY LoopNext
<1>3. QED
  BY <1>1, <1>2, OptionsInvariance, PTL DEF CliSpec

\* Type correctness of the runner; no tick runs beyond --ticks
\* (main.cpp:59-73, 130).
THEOREM CliTypeCorrect == CliSpec => []CliTypeOK
<1>1. OptionsInv /\ RuntimeInv /\ LoopInv => CliTypeOK
  BY DEF OptionsInv, RuntimeInv, LoopInv, CliTypeOK
<1>2. QED
  BY <1>1, OptionsInvariance, CliKeepsRuntimeInv, LoopInvariance, PTL

-----------------------------------------------------------------------------
(* What a scenario ends in                                                 *)

\* Outcome, told from the sample of the tick it follows.
LEMMA OutcomeFacts ==
    ASSUME NEW o \in CliOptions, NEW n \in Nat,
           NEW b, b = TickSample(o, n), NEW e, e = (n + 1) * NonNegative(o.delta_s)
    PROVE  /\ BlockedTooLong(b) => Outcome(o, n + 1) = "ABSENT"
           /\ BlockedBriefly(b) => Outcome(o, n + 1) = "WARNING"
           /\ ~b.camera_blocked =>
                Outcome(o, n + 1) =
                  IF is_critical_reason(b.reason) /\ b.reason_ts_ms >= 0 THEN "ABSENT"
                  ELSE IF b.is_attentive \/ e < Thresholds(b).warn THEN "OK"
                  ELSE IF e < Thresholds(b).esc THEN "WARNING"
                  ELSE IF e < Thresholds(b).absent THEN "ESCALATION" ELSE "ABSENT"
<1>1. o.is_attentive_ts_ms + (n + 1) - 1 = TickStamp(o, n)
  BY DEF TickStamp, CliOptions
<1>2. /\ b.is_attentive = o.is_attentive /\ b.reason = o.reason
      /\ b.reason_ts_ms = ReasonStamp(o, n) /\ b.camera_blocked = o.camera_blocked
      /\ b.blocked_for = (TickStamp(o, n) - o.camera_blocked_ts_ms) \div 100
      /\ b.jetracer_input = o.jetracer_input
  BY DEF TickSample
<1>3. b.blocked_for \in Int
  BY <1>2 DEF TickStamp, CliOptions
<1>4. Schedule(Estimate(o.jetracer_input)) = Thresholds(b)
  BY <1>2 DEF Thresholds
<1>5. b \in StepBInput
  BY <1>2, <1>3 DEF TickSample, StepBInput, CliOptions, ReasonStamp, TickStamp
<1>6. Thresholds(b).absent \in Int
  BY <1>5, ThresholdRange
<1>7. Outcome(o, n + 1) =
        IF b.camera_blocked
        THEN IF b.blocked_for >= Thresholds(b).absent THEN "ABSENT" ELSE "WARNING"
        ELSE IF is_critical_reason(b.reason) /\ b.reason_ts_ms >= 0 THEN "ABSENT"
        ELSE IF b.is_attentive \/ e < Thresholds(b).warn THEN "OK"
        ELSE IF e < Thresholds(b).esc THEN "WARNING"
        ELSE IF e < Thresholds(b).absent THEN "ESCALATION" ELSE "ABSENT"
  BY <1>1, <1>2, <1>4 DEF Outcome, ReasonStamp
<1>8. QED
  BY <1>3, <1>6, <1>7 DEF BlockedTooLong, BlockedBriefly

LEMMA Product ==
    ASSUME NEW n \in Nat, NEW d \in Nat
    PROVE  /\ n * d \in Nat
           /\ (n + 1) * d = n * d + d
  OBVIOUS

\* More of the same does not bring an ABSENT driver back.
LEMMA OutcomeStays ==
    ASSUME NEW o \in CliOptions, NEW n \in Nat \ {0}, Outcome(o, n) = "ABSENT"
    PROVE  Outcome(o, n + 1) = "ABSENT"
<1> DEFINE t == Schedule(Estimate(o.jetracer_input))
           d == NonNegative(o.delta_s)
<1>1. t.warn \in Int /\ t.esc \in Int /\ t.absent \in Int
  BY DEF Schedule, Estimate, Slowest, Medium, Fastest
<1>2. d \in Nat /\ o.is_attentive_ts_ms \in Int /\ o.camera_blocked_ts_ms \in Int
      /\ o.reason_ts_ms \in Int
  BY DEF NonNegative, CliOptions
<1>3. n * d \in Nat /\ (n + 1) * d = n * d + d
  BY <1>2, Product
<1>4. QED
  BY <1>1, <1>2, <1>3 DEF Outcome

\* A switch event is no part of the outcome.
LEMMA OutcomeIgnoresSwitch ==
    ASSUME NEW o \in CliOptions, NEW q, q = [o EXCEPT !.switch_event = "NONE"], NEW n
    PROVE  /\ Outcome(q, n) = Outcome(o, n)
           /\ q.is_attentive = o.is_attentive /\ q.delta_s = o.delta_s
           /\ q.camera_blocked = o.camera_blocked /\ q.driver_override = o.driver_override
           /\ ReasonStamp(q, n) = ReasonStamp(o, n) /\ q.reason = o.reason
<1>1. /\ q.is_attentive = o.is_attentive /\ q.delta_s = o.delta_s
      /\ q.camera_blocked = o.camera_blocked /\ q.driver_override = o.driver_override
      /\ q.reason = o.reason /\ q.is_attentive_ts_ms = o.is_attentive_ts_ms
      /\ q.reason_ts_ms = o.reason_ts_ms
      /\ q.reason_ts_overridden = o.reason_ts_overridden
      /\ q.camera_blocked_ts_ms = o.camera_blocked_ts_ms
      /\ q.jetracer_input = o.jetracer_input
  BY DEF CliOptions
<1>2. QED
  BY <1>1 DEF Outcome, ReasonStamp, TickStamp

\* The inductive invariant: as long as the driver is not ABSENT, the stored
\* reason is not critical and the inattention timer is tick times --dt.
ForeseenInv ==
    ticking =>
      /\ current_state = IF tick = 0 THEN "OK" ELSE Outcome(opts, tick)
      /\ ~opts.camera_blocked =>
           /\ is_critical_reason(latest_reason) => absent_latched_run_cycle
           /\ latest_reason_ts_ms = 0 \/ latest_reason_ts_ms <= ReasonStamp(opts, tick)
           /\ latest_reason_ts_ms >= 0
           /\ ~opts.is_attentive /\ ~absent_latched_run_cycle =>
                inattentive_elapsed_s = tick * NonNegative(opts.delta_s)

\* The state a tick leads to.
LEMMA TickOutcome ==
    ASSUME OptionsInv, RuntimeInv, ForeseenInv, ticking,
           NEW b, b = TickSample(opts, tick), Evaluate(b)
    PROVE  current_state' = Outcome(opts, tick + 1)
<1> DEFINE d == NonNegative(opts.delta_s)
           e == (tick + 1) * d
<1>0. opts \in CliOptions /\ tick \in Nat /\ d \in Nat
  BY DEF OptionsInv, CliOptions, NonNegative
<1>1. /\ b.is_attentive = opts.is_attentive /\ b.reason = opts.reason
      /\ b.delta_s = opts.delta_s /\ b.camera_blocked = opts.camera_blocked
  BY DEF TickSample
<1>2. b \in StepBInput
  BY BuiltInputs, <1>0
<1>3. /\ BlockedTooLong(b) => Outcome(opts, tick + 1) = "ABSENT"
      /\ BlockedBriefly(b) => Outcome(opts, tick + 1) = "WARNING"
      /\ ~b.camera_blocked =>
           Outcome(opts, tick + 1) =
             IF is_critical_reason(b.reason) /\ b.reason_ts_ms >= 0 THEN "ABSENT"
             ELSE IF b.is_attentive \/ e < Thresholds(b).warn THEN "OK"
             ELSE IF e < Thresholds(b).esc THEN "WARNING"
             ELSE IF e < Thresholds(b).absent THEN "ESCALATION" ELSE "ABSENT"
  BY <1>0, OutcomeFacts
<1>4. absent_latched_run_cycle <=> current_state = "ABSENT"
  BY DEF RuntimeInv, StepBInv, AbsentIffLatched
<1>5. CASE HoldAbsent(b)
  <2>1. tick # 0 /\ Outcome(opts, tick) = "ABSENT"
    BY <1>5, <1>4 DEF HoldAbsent, ForeseenInv
  <2>2. QED
    BY <1>0, <1>5, <2>1, OutcomeStays DEF HoldAbsent
<1>6. CASE BlockedCameraWarning(b)
  BY <1>3, <1>6 DEF BlockedCameraWarning
<1>7. CASE LatchCritical(b)
  <2>1. CASE b.camera_blocked
    BY <1>3, <1>7, <2>1, <1>2, ThresholdRange
       DEF LatchCritical, LatchAbsentRunCycle, BlockedBriefly, BlockedTooLong, StepBInput
  <2>2. CASE ~b.camera_blocked
    <3>1. ~is_critical_reason(latest_reason) /\ latest_reason_ts_ms >= 0
      BY <1>1, <1>7, <2>2 DEF ForeseenInv, LatchCritical
    <3>2. is_critical_reason(NewReason(b))
      BY <1>7, <2>2 DEF LatchCritical, LatestReason, BlockedTooLong
    <3>3. AdoptsReason(b) /\ is_critical_reason(b.reason)
      BY <3>1, <3>2 DEF NewReason
    <3>4. latest_reason_ts_ms \in Int /\ b.reason_ts_ms \in Int
      BY <1>2 DEF RuntimeInv, RuntimeTypeOK, StepBTypeOK, StepBInput
    <3>5. b.reason_ts_ms >= 0
      BY <3>1, <3>3, <3>4 DEF AdoptsReason
    <3>6. QED
      BY <1>3, <1>7, <2>2, <3>3, <3>5 DEF LatchCritical, LatchAbsentRunCycle
  <2>3. QED
    BY <2>1, <2>2
<1>8. CASE AttentiveStep(b) \/ InattentiveStep(b)
  <2>1. TimersDecide(b)
    BY <1>8 DEF AttentiveStep, InattentiveStep
  <2>2. ~b.camera_blocked
    <3>1. ~BlockedTooLong(b)
      BY <2>1 DEF TimersDecide, LatestReason, is_critical_reason
    <3>2. QED
      BY <2>1, <3>1, <1>2, ThresholdRange
         DEF TimersDecide, BlockedTooLong, BlockedBriefly, StepBInput
  <2>3. ~(is_critical_reason(b.reason) /\ b.reason_ts_ms >= 0)
    <3> SUFFICES ASSUME is_critical_reason(b.reason), b.reason_ts_ms >= 0 PROVE FALSE
      OBVIOUS
    <3>1. b.reason_ts_ms = ReasonStamp(opts, tick)
      BY DEF TickSample
    <3>2. b.reason_ts_ms >= latest_reason_ts_ms
      BY <1>1, <2>2, <3>1 DEF ForeseenInv
    <3>3. b.reason \notin {"NONE", "BLOCKED_CAMERA"}
      BY <1>1 DEF OptionsInv, is_critical_reason
    <3>4. is_critical_reason(LatestReason(b))
      BY <2>2, <3>2, <3>3 DEF AdoptsReason, NewReason, LatestReason, BlockedTooLong
    <3>5. QED
      BY <2>1, <3>4 DEF TimersDecide
  <2>4. current_state = IF tick = 0 THEN "OK" ELSE Outcome(opts, tick)
    BY DEF ForeseenInv
  <2>5. tick # 0 => Outcome(opts, tick) =
             IF b.is_attentive \/ tick * d < Thresholds(b).warn THEN "OK"
             ELSE IF tick * d < Thresholds(b).esc THEN "WARNING"
             ELSE IF tick * d < Thresholds(b).absent THEN "ESCALATION" ELSE "ABSENT"
    <3> SUFFICES ASSUME tick # 0 PROVE Outcome(opts, tick) =
             IF b.is_attentive \/ tick * d < Thresholds(b).warn THEN "OK"
             ELSE IF tick * d < Thresholds(b).esc THEN "WARNING"
             ELSE IF tick * d < Thresholds(b).absent THEN "ESCALATION" ELSE "ABSENT"
      OBVIOUS
    <3>1. ~absent_latched_run_cycle
      BY <2>1 DEF TimersDecide
    <3>2. Outcome(opts, tick) # "ABSENT"
      BY <3>1, <1>4, <2>4
    <3>3. Schedule(Estimate(opts.jetracer_input)) = Thresholds(b)
      BY DEF Thresholds, TickSample
    <3>4. QED
      BY <1>1, <2>2, <3>2, <3>3 DEF Outcome
  <2>6. tick * d \in Nat /\ e = tick * d + d
    BY <1>0, Product
  <2>7. CASE AttentiveStep(b)
    <3>1. b.is_attentive
      BY <2>7 DEF AttentiveStep
    <3>2. current_state = "OK"
      BY <2>4, <2>5, <3>1
    <3>3. current_state' = "OK"
      BY <2>7, <3>2 DEF AttentiveStep, StateIfAttentive
    <3>4. QED
      BY <1>3, <2>2, <2>3, <3>1, <3>3
  <2>8. CASE InattentiveStep(b)
    <3>1. ~b.is_attentive /\ ~absent_latched_run_cycle
      BY <2>8 DEF InattentiveStep, TimersDecide
    <3>2. inattentive_elapsed_s = tick * d
      BY <1>1, <2>2, <3>1 DEF ForeseenInv
    <3>3. inattentive_elapsed_s' = e
      BY <1>1, <2>6, <2>8, <3>2 DEF InattentiveStep, AdvanceInattentive
    <3>4. current_state' = StateIfInattentive(Thresholds(b), e)
      BY <2>8, <3>3 DEF InattentiveStep
    <3>5. /\ Thresholds(b).warn \in Nat /\ Thresholds(b).esc \in Nat
          /\ Thresholds(b).absent \in Nat
          /\ Thresholds(b).warn < Thresholds(b).esc
          /\ Thresholds(b).esc < Thresholds(b).absent
      BY <1>2, ThresholdRange
    <3>6. e < Thresholds(b).warn => current_state = "OK"
      BY <1>0, <2>4, <2>5, <2>6, <3>5
    <3>7. QED
      BY <1>0, <1>3, <2>2, <2>3, <2>6, <3>1, <3>4, <3>5, <3>6 DEF StateIfInattentive
  <2>9. QED
    BY <1>8, <2>7, <2>8
<1>9. QED
  BY <1>5, <1>6, <1>7, <1>8 DEF Evaluate

\* What a tick leaves for the next one.
LEMMA TickForeseen ==
    ASSUME OptionsInv, RuntimeInv, ForeseenInv, RuntimeInv', RunTick
    PROVE  ForeseenInv'
<1> DEFINE b == TickSample(opts, tick)
           d == NonNegative(opts.delta_s)
<1>0. opts \in CliOptions /\ tick \in Nat /\ d \in Nat /\ ticking
  BY DEF OptionsInv, CliOptions, NonNegative, RunTick
<1>1. Evaluate(b) /\ tick' = tick + 1 /\ opts' = [opts EXCEPT !.switch_event = "NONE"]
  BY DEF RunTick, Tick
<1>2. b \in StepBInput
  BY BuiltInputs, <1>0
<1>3. /\ b.is_attentive = opts.is_attentive /\ b.delta_s = opts.delta_s
      /\ b.camera_blocked = opts.camera_blocked
      /\ b.reason_ts_ms = ReasonStamp(opts, tick)
  BY DEF TickSample
<1>4. current_state' = Outcome(opts, tick + 1)
  BY <1>0, <1>1, TickOutcome
<1>5. absent_latched_run_cycle' <=> current_state' = "ABSENT"
  BY DEF RuntimeInv, StepBInv, AbsentIffLatched
<1>6. latest_reason_ts_ms \in Int /\ b.reason_ts_ms \in Int
      /\ latest_reason_ts_ms' = NewReasonTs(b)
  BY <1>1, <1>2 DEF RuntimeInv, RuntimeTypeOK, StepBTypeOK, StepBInput, Evaluate, HoldAbsent,
     BlockedCameraWarning, LatchCritical, AttentiveStep, InattentiveStep, AdoptReason
<1>7. ReasonStamp(opts, tick) <= ReasonStamp(opts, tick + 1)
      /\ ReasonStamp(opts, tick + 1) \in Int
  BY <1>0 DEF ReasonStamp, TickStamp, CliOptions
<1>8. ASSUME ~opts.camera_blocked
      PROVE  /\ is_critical_reason(latest_reason') => absent_latched_run_cycle'
             /\ \/ latest_reason_ts_ms' = 0
                \/ latest_reason_ts_ms' <= ReasonStamp(opts, tick + 1)
             /\ latest_reason_ts_ms' >= 0
             /\ ~opts.is_attentive /\ ~absent_latched_run_cycle' =>
                  inattentive_elapsed_s' = (tick + 1) * d
  <2>1. /\ latest_reason_ts_ms = 0 \/ latest_reason_ts_ms <= ReasonStamp(opts, tick)
        /\ latest_reason_ts_ms >= 0
    BY <1>0, <1>8 DEF ForeseenInv
  <2>2. /\ latest_reason_ts_ms' = 0 \/ latest_reason_ts_ms' <= ReasonStamp(opts, tick + 1)
        /\ latest_reason_ts_ms' >= 0
    BY <1>3, <1>6, <1>7, <2>1 DEF NewReasonTs, AdoptsReason
  <2>3. is_critical_reason(latest_reason') => absent_latched_run_cycle'
    BY <1>1, <1>3, <1>5, <1>8 DEF Evaluate, HoldAbsent, BlockedCameraWarning, LatchCritical,
       AttentiveStep, InattentiveStep, LatchAbsentRunCycle, AdoptReason, TimersDecide,
       BlockedBriefly
  <2>4. ASSUME ~opts.is_attentive, ~absent_latched_run_cycle'
        PROVE  inattentive_elapsed_s' = (tick + 1) * d
    <3>1. InattentiveStep(b)
      BY <1>1, <1>3, <1>5, <1>8, <2>4 DEF Evaluate, HoldAbsent, BlockedCameraWarning,
         LatchCritical, AttentiveStep, LatchAbsentRunCycle, BlockedBriefly
    <3>2. inattentive_elapsed_s = tick * d
      BY <1>0, <1>8, <2>4, <3>1 DEF ForeseenInv, InattentiveStep, TimersDecide
    <3>3. inattentive_elapsed_s' = tick * d + d
      BY <1>3, <3>1, <3>2 DEF InattentiveStep, AdvanceInattentive
    <3>4. QED
      BY <1>0, <3>3, Product
  <2>5. QED
    BY <2>2, <2>3, <2>4
<1>9. /\ Outcome(opts', tick + 1) = Outcome(opts, tick + 1)
      /\ opts'.is_attentive = opts.is_attentive /\ opts'.delta_s = opts.delta_s
      /\ opts'.camera_blocked = opts.camera_blocked
      /\ ReasonStamp(opts', tick + 1) = ReasonStamp(opts, tick + 1)
  BY <1>0, <1>1, OutcomeIgnoresSwitch
<1>10. tick + 1 # 0
  BY <1>0
<1>11. QED
  BY <1>1, <1>4, <1>8, <1>9, <1>10 DEF ForeseenInv

\* A fresh runtime is what the scenario starts from.
LEMMA StartForeseen ==
    ASSUME OptionsInv, StartTicks
    PROVE  ForeseenInv'
<1>1. /\ current_state' = "OK" /\ inattentive_elapsed_s' = 0
      /\ latest_reason' = "NONE" /\ latest_reason_ts_ms' = 0
      /\ tick' = tick /\ opts' = DefaultReasonTs(opts)
  BY DEF StartTicks, StartCaller, ResetForNewRunCycle
<1>2. tick' = 0
  BY <1>1 DEF OptionsInv, StartTicks
<1>3. opts'.delta_s = opts.delta_s /\ NonNegative(opts.delta_s) \in Nat
  BY <1>1 DEF DefaultReasonTs, OptionsInv, CliOptions, NonNegative
<1>4. tick' * NonNegative(opts'.delta_s) = 0
  BY <1>2, <1>3
<1>5. QED
  BY <1>1, <1>2, <1>4 DEF ForeseenInv, is_critical_reason

LEMMA ForeseenNext ==
    ASSUME OptionsInv, RuntimeInv, RuntimeInv', ForeseenInv, [CliNext]_cliVars
    PROVE  ForeseenInv'
<1>1. CASE RunTick
  BY <1>1, TickForeseen
<1>2. CASE StartTicks
  BY <1>2, StartForeseen
<1>3. CASE ReadOption
  <2>1. ~ticking'
    BY <1>3 DEF ReadOption, AtWord, loopVars
  <2>2. QED
    BY <2>1 DEF ForeseenInv
<1>4. CASE MissingValue \/ UnreadableNumber \/ Help \/ UnknownOption \/ Finish
           \/ UNCHANGED cliVars
  <2>1. UNCHANGED <<opts, ticking, tick, current_state, latest_reason, latest_reason_ts_ms,
                    absent_latched_run_cycle, inattentive_elapsed_s>>
    BY <1>4 DEF MissingValue, UnreadableNumber, Help, UnknownOption, Finish, Exit,
       lineVars, loopVars, cliVars, runtimeVars, stepBVars, reasonVars, timers
  <2>2. QED
    BY <2>1 DEF ForeseenInv
<1>5. QED
  BY <1>1, <1>2, <1>3, <1>4 DEF CliNext

\* Who overrides from the first tick on has no manoeuvre counted, so is never
\* locked out.
OverrideInv ==
    /\ ticking /\ opts.driver_override =>
         ~latched.driver_override_lock /\ latched.mrm_activation_count_run_cycle = 0
    /\ tick > 0 => outC.mrm_active <=> current_state = "ABSENT" /\ ~opts.driver_override

LEMMA OverrideNext ==
    ASSUME OptionsInv, RuntimeInv, OverrideInv, [CliNext]_cliVars
    PROVE  OverrideInv'
<1>1. CASE RunTick
  <2> DEFINE b == TickSample(opts, tick)
             c == TickRequest(opts)
  <2>1. Tick(b, c) /\ b \in StepBInput /\ c \in StepCInput /\ ticking
    BY <1>1, BuiltInputs DEF RunTick, OptionsInv
  <2>2. PICK state \in DriverState : state = current_state'
    BY <2>1, TickFacts
  <2>3. PICK reason \in Reason : reason = outB'.reason
    BY <2>1, TickFacts
  <2>4. /\ outC' = EvaluatePolicy(c, state, reason, outB'.reengagement_confirmed_200ms, latched)
        /\ latched' = NextLatchedState(c, state, latched)
    BY <2>1, <2>2, <2>3, TickFacts
  <2>5. latched \in StepCLatchedState
    BY DEF RuntimeInv, RuntimeTypeOK
  <2>6. outC'.mrm_active <=> MrmRuns(c, state, latched)
    BY <2>1, <2>4, <2>5, PolicyFacts
  <2>7. /\ latched'.mrm_activation_count_run_cycle = NextMrmCount(c, state, latched)
        /\ latched'.driver_override_lock <=>
              latched.driver_override_lock \/ NextMrmCount(c, state, latched) >= 2
    BY <2>1, <2>4, <2>5, LatchedFacts
  <2>8. c.driver_override = opts.driver_override /\ opts'.driver_override = opts.driver_override
    BY <1>1 DEF TickRequest, RunTick, OptionsInv, CliOptions
  <2>9. CASE opts.driver_override
    <3>1. ~latched.driver_override_lock /\ latched.mrm_activation_count_run_cycle = 0
      BY <2>1, <2>9 DEF OverrideInv
    <3>2. ~MrmRuns(c, state, latched)
      BY <2>8, <2>9, <3>1 DEF MrmRuns, TakenOver
    <3>3. NextMrmCount(c, state, latched) = 0
      BY <3>1, <3>2 DEF NextMrmCount
    <3>4. QED
      BY <2>6, <2>7, <2>8, <2>9, <3>1, <3>2, <3>3 DEF OverrideInv
  <2>10. CASE ~opts.driver_override
    <3>1. MrmRuns(c, state, latched) <=> state = "ABSENT"
      BY <2>8, <2>10 DEF MrmRuns, TakenOver
    <3>2. QED
      BY <2>2, <2>6, <2>8, <2>10, <3>1 DEF OverrideInv
  <2>11. QED
    BY <2>9, <2>10
<1>2. CASE StartTicks
  <2>1. latched' = FreshLatchedState(1) /\ tick' = 0
    BY <1>2 DEF StartTicks, StartCaller, OptionsInv
  <2>2. ~latched'.driver_override_lock /\ latched'.mrm_activation_count_run_cycle = 0
    BY <2>1 DEF FreshLatchedState
  <2>3. QED
    BY <2>1, <2>2 DEF OverrideInv
<1>3. CASE ReadOption
  <2>1. ~ticking' /\ tick' = 0
    BY <1>3 DEF ReadOption, AtWord, loopVars, OptionsInv
  <2>2. QED
    BY <2>1 DEF OverrideInv
<1>4. CASE MissingValue \/ UnreadableNumber \/ Help \/ UnknownOption \/ Finish
           \/ UNCHANGED cliVars
  <2>1. UNCHANGED <<opts, ticking, tick, latched, outC, current_state>>
    BY <1>4 DEF MissingValue, UnreadableNumber, Help, UnknownOption, Finish, Exit,
       lineVars, loopVars, cliVars, runtimeVars, stepBVars
  <2>2. QED
    BY <2>1 DEF OverrideInv
<1>5. QED
  BY <1>1, <1>2, <1>3, <1>4 DEF CliNext

LEMMA ForeseenInvariance == CliSpec => []ForeseenInv
<1>1. CliInit => ForeseenInv
  BY DEF CliInit, ForeseenInv
<1>2. OptionsInv /\ RuntimeInv /\ RuntimeInv' /\ ForeseenInv /\ [CliNext]_cliVars
        => ForeseenInv'
  BY ForeseenNext
<1>3. QED
  BY <1>1, <1>2, OptionsInvariance, CliKeepsRuntimeInv, PTL DEF CliSpec

LEMMA OverrideInvariance == CliSpec => []OverrideInv
<1>1. CliInit => OverrideInv
  BY DEF CliInit, OverrideInv
<1>2. OptionsInv /\ RuntimeInv /\ OverrideInv /\ [CliNext]_cliVars => OverrideInv'
  BY OverrideNext
<1>3. QED
  BY <1>1, <1>2, OptionsInvariance, CliKeepsRuntimeInv, PTL DEF CliSpec

\* What a scenario ends in can be told in advance, for every number of ticks,
\* every --dt and every pair of timestamps (main.cpp:130-150).
THEOREM CliOutcomeIsPredictable == CliSpec => []OutcomeIsPredictable
<1>1. OptionsInv /\ ForeseenInv /\ OverrideInv => OutcomeIsPredictable
  <2> SUFFICES ASSUME OptionsInv, ForeseenInv, OverrideInv, tick > 0
               PROVE  /\ current_state = Outcome(opts, tick)
                      /\ outC.mrm_active <=>
                            Outcome(opts, tick) = "ABSENT" /\ ~opts.driver_override
    BY DEF OutcomeIsPredictable
  <2>1. ticking /\ tick # 0
    BY DEF OptionsInv
  <2>2. QED
    BY <2>1 DEF ForeseenInv, OverrideInv
<1>2. QED
  BY <1>1, OptionsInvariance, ForeseenInvariance, OverrideInvariance, PTL
=============================================================================
