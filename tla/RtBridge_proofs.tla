--------------------------- MODULE RtBridge_proofs ---------------------------
(***************************************************************************)
(* What holds of the bridge for every set of samples, every command line,  *)
(* every capacity of the queue and any number of restarts: it drives the   *)
(* runtime as the runtime's specification says, so that the theorems about *)
(* the runtime carry over, and its outputs obey the policy.                *)
(***************************************************************************)
EXTENDS RtBridge, PolicyRuntime_proofs

\* The slots and the loop hold nothing but samples, and a slot that is still to
\* be read has been written.
HeldInv ==
    /\ speed_slot \in SpeedSamples \cup {None}
    /\ lkas_slot \in LkasThrottles \cup {None}
    /\ perception_slot \in PerceptionSamples \cup {None}
    /\ unread \subseteq Written
    /\ speed_sample \in HeldSpeeds
    /\ lkas_throttle \in HeldThrottles
    /\ perception \in HeldPerceptions
    /\ have_speed \in BOOLEAN /\ have_lkas \in BOOLEAN
    /\ options \in CommandLines

LEMMA HeldInitially == BridgeInit => HeldInv
BY DEF BridgeInit, HeldInv, HeldSpeeds, HeldThrottles, HeldPerceptions

LEMMA UnreadIsSample ==
    ASSUME HeldInv
    PROVE  /\ "speed" \in unread => speed_slot \in SpeedSamples
           /\ "lkas" \in unread => lkas_slot \in LkasThrottles
           /\ "perception" \in unread => perception_slot \in PerceptionSamples
BY DEF HeldInv, Written

\* What the loop takes from its slots are samples again.
LEMMA TakenSlots ==
    ASSUME HeldInv, TakeSlots
    PROVE  /\ speed_sample' \in HeldSpeeds
           /\ lkas_throttle' \in HeldThrottles
           /\ have_speed' \in BOOLEAN /\ have_lkas' \in BOOLEAN
           /\ have_speed => have_speed'
           /\ have_lkas => have_lkas'
BY UnreadIsSample DEF HeldInv, TakeSlots, Read, Received, HeldSpeeds, HeldThrottles

LEMMA TakenPerception ==
    ASSUME HeldInv, TakePerception
    PROVE  /\ perception' \in HeldPerceptions
           /\ unread' \subseteq unread
<1>1. CASE grace_over
  BY <1>1, UnreadIsSample DEF HeldInv, TakePerception, Read, HeldPerceptions
<1>2. CASE ~grace_over
  BY <1>2 DEF HeldInv, TakePerception
<1>3. QED
  BY <1>1, <1>2

\* A step that does not write the slots leaves Written alone.
LEMMA WrittenUnchanged ==
    ASSUME UNCHANGED slotVars
    PROVE  Written' = Written
BY DEF slotVars, Written

LEMMA HeldNext == HeldInv /\ [BridgeNext]_bridgeVars => HeldInv'
<1> SUFFICES ASSUME HeldInv, [BridgeNext]_bridgeVars PROVE HeldInv'
  OBVIOUS
<1>1. CASE WaitForInputs
  <2>1. TakeSlots /\ unread' \subseteq unread /\ UNCHANGED <<slotVars, perception, options>>
    BY <1>1 DEF WaitForInputs
  <2>2. QED
    BY <2>1, TakenSlots, WrittenUnchanged DEF HeldInv, slotVars
<1>2. CASE TickAndPublish
  <2>1. TakeSlots /\ TakePerception /\ UNCHANGED <<slotVars, options>>
    BY <1>2 DEF TickAndPublish
  <2>2. QED
    BY <2>1, TakenSlots, TakenPerception, WrittenUnchanged DEF HeldInv, slotVars
<1>3. ASSUME NEW s \in SpeedSamples, WriteSpeed(s) PROVE HeldInv'
  <2>1. s # None
    BY NoneAssumption, BridgeInputsAssumption
  <2>2. /\ speed_slot' = s /\ unread' = unread \cup {"speed"}
        /\ UNCHANGED <<lkas_slot, perception_slot, heldVars, options>>
    BY <1>3 DEF WriteSpeed, loopVars
  <2>3. unread' \subseteq Written'
    BY <2>1, <2>2 DEF HeldInv, Written
  <2>4. QED
    BY <2>2, <2>3 DEF HeldInv, heldVars
<1>4. ASSUME NEW t \in LkasThrottles, WriteLkas(t) PROVE HeldInv'
  <2>1. t # None
    BY NoneAssumption, BridgeInputsAssumption
  <2>2. /\ lkas_slot' = t /\ unread' = unread \cup {"lkas"}
        /\ UNCHANGED <<speed_slot, perception_slot, heldVars, options>>
    BY <1>4 DEF WriteLkas, loopVars
  <2>3. unread' \subseteq Written'
    BY <2>1, <2>2 DEF HeldInv, Written
  <2>4. QED
    BY <2>2, <2>3 DEF HeldInv, heldVars
<1>5. ASSUME NEW p \in PerceptionSamples, WritePerception(p) PROVE HeldInv'
  <2>1. p # None
    BY NoneAssumption, BridgeInputsAssumption
  <2>2. /\ perception_slot' = p /\ unread' = unread \cup {"perception"}
        /\ UNCHANGED <<speed_slot, lkas_slot, heldVars, options>>
    BY <1>5 DEF WritePerception, loopVars
  <2>3. unread' \subseteq Written'
    BY <2>1, <2>2 DEF HeldInv, Written
  <2>4. QED
    BY <2>2, <2>3 DEF HeldInv, heldVars
<1>6. CASE GraceEnds \/ TakeMrmEvent \/ TakeStatus \/ QueueChanges \/ UNCHANGED bridgeVars
  <2>1. UNCHANGED <<slotVars, unread, heldVars, options>>
    BY <1>6 DEF GraceEnds, TakeMrmEvent, TakeStatus, QueueChanges, loopVars, bridgeVars
  <2>2. QED
    BY <2>1, WrittenUnchanged DEF HeldInv, heldVars, slotVars
<1>7. CASE Restart
  <2>1. /\ UNCHANGED <<slotVars, options>> /\ unread' = Written
        /\ have_speed' = FALSE /\ have_lkas' = FALSE
        /\ speed_sample' = NoSpeed /\ lkas_throttle' = 0 /\ perception' = SafePerception
    BY <1>7 DEF Restart
  <2>2. QED
    BY <2>1, WrittenUnchanged
       DEF HeldInv, slotVars, HeldSpeeds, HeldThrottles, HeldPerceptions
<1>8. QED
  BY <1>1, <1>2, <1>3, <1>4, <1>5, <1>6, <1>7 DEF BridgeNext, LoopStep, EnvironmentStep

LEMMA HeldInvariance == BridgeSpec => []HeldInv
BY HeldInitially, HeldNext, PTL DEF BridgeSpec

-----------------------------------------------------------------------------
(* The bridge and the runtime *)

\* An iteration with complete inputs is a tick the runtime is specified for.
LEMMA IterationIsTick ==
    ASSUME HeldInv, TickAndPublish
    PROVE  \E b \in StepBInputs, c \in BuiltRequests : c \in StepCInputs /\ Tick(b, c)
<1> DEFINE b == BuildSample(perception', speed_sample'.current_speed_kmh)
           c == BuildRequest(lkas_throttle', options)
<1>1. TakeSlots /\ TakePerception /\ Tick(b, c)
  BY DEF TickAndPublish, TickRuntime
<1>2. b \in BuiltSamples
  BY <1>1, TakenSlots, TakenPerception DEF BuiltSamples
<1>3. c \in BuiltRequests
  BY <1>1, TakenSlots DEF BuiltRequests, HeldInv
<1> HIDE DEF b, c
<1>4. QED
  BY <1>1, <1>2, <1>3, BuiltInputsAssumption

\* A restart is a caller that starts anew, with the LKAS mode of its options.
LEMMA RestartStartsCaller ==
    ASSUME HeldInv, Restart
    PROVE  CallerStarts /\ lkas_mode' = options.lkas_mode
<1>1. options.lkas_mode \in LkasMode
  BY BridgeInputsAssumption DEF HeldInv, BridgeOptions
<1>2. QED
  BY <1>1, BridgeRunCycleAssumption DEF Restart, CallerStarts, StartCaller

\* Every other step leaves the runtime alone.
LEMMA OtherStepsLeaveRuntime ==
    ASSUME [BridgeNext]_bridgeVars, ~TickAndPublish, ~Restart
    PROVE  UNCHANGED runtimeVars
BY DEF BridgeNext, LoopStep, EnvironmentStep, WaitForInputs, WriteSpeed, WriteLkas,
   WritePerception, GraceEnds, TakeMrmEvent, TakeStatus, QueueChanges, bridgeVars, loopVars

LEMMA BridgeStepsRuntime ==
    HeldInv /\ [BridgeNext]_bridgeVars => [RuntimeNext]_runtimeVars
BY IterationIsTick, RestartStartsCaller, OtherStepsLeaveRuntime DEF RuntimeNext

\* Every iteration is a tick with inputs the runtime is specified for, a
\* restart is a caller that starts anew, and nothing else touches the runtime.
LEMMA BridgeImplementsRuntime == BridgeSpec => RuntimeSpec
<1>1. BridgeInit => RuntimeInit
  BY DEF BridgeInit
<1>2. QED
  BY <1>1, BridgeStepsRuntime, HeldInvariance, PTL DEF BridgeSpec, RuntimeSpec

LEMMA BridgeRuntimeInv == BridgeSpec => []RuntimeInv
BY BridgeImplementsRuntime, RuntimeInvariance, PTL

\* Hence the stop protocol holds in the car: the bridge implements it
\* (dcas_rt_bridge.cpp:125-187, policy_runtime.cpp).
THEOREM BridgeRefinesStopProtocol == BridgeSpec => RefinesStopProtocol
BY BridgeImplementsRuntime, RuntimeRefinesStopProtocol, PTL

HeldTyped == /\ speed_sample \in SpeedSample
             /\ lkas_throttle \in Int
             /\ perception \in PerceptionSample

LEMMA HeldTypes == HeldInv => HeldTyped
<1>1. NoSpeed \in SpeedSample
  BY DEF NoSpeed, SpeedSample
<1>2. SafePerception \in PerceptionSample
  BY DEF SafePerception, PerceptionSample, Reason
<1>3. QED
  BY <1>1, <1>2, BridgeInputsAssumption
     DEF HeldInv, HeldTyped, HeldSpeeds, HeldThrottles, HeldPerceptions

LEMMA HeldTypedInvariance == BridgeSpec => []HeldTyped
BY HeldTypes, HeldInvariance, PTL

-----------------------------------------------------------------------------
(* The queue and the status *)

QueueInv == mrm_queue \in Seq(LkasMode) /\ Len(mrm_queue) <= QueueCapacity

LEMMA QueueNext ==
    ASSUME QueueInv, RuntimeInv', [BridgeNext]_bridgeVars
    PROVE  QueueInv'
<1>1. CASE TickAndPublish
  <2>1. SendMrmEvent /\ lkas_mode' \in LkasMode
    BY <1>1 DEF TickAndPublish, RuntimeInv, RuntimeTypeOK
  <2>2. mrm_queue' = mrm_queue
        \/ (Len(mrm_queue) < QueueCapacity /\ mrm_queue' = Append(mrm_queue, lkas_mode'))
    BY <2>1 DEF SendMrmEvent
  <2>3. CASE mrm_queue' = mrm_queue
    BY <2>3 DEF QueueInv
  <2>4. CASE Len(mrm_queue) < QueueCapacity /\ mrm_queue' = Append(mrm_queue, lkas_mode')
    BY <2>1, <2>4, BridgeInputsAssumption DEF QueueInv
  <2>5. QED
    BY <2>2, <2>3, <2>4
<1>2. CASE TakeMrmEvent
  <2>1. mrm_queue # <<>> /\ mrm_queue' = Tail(mrm_queue)
    BY <1>2 DEF TakeMrmEvent
  <2>2. QED
    BY <2>1, BridgeInputsAssumption DEF QueueInv
<1>3. CASE ~TickAndPublish /\ ~TakeMrmEvent
  <2>1. mrm_queue' = mrm_queue
    BY <1>3 DEF BridgeNext, LoopStep, EnvironmentStep, WaitForInputs, WriteSpeed,
       WriteLkas, WritePerception, GraceEnds, TakeStatus, QueueChanges, Restart, outputVars, bridgeVars
  <2>2. QED
    BY <2>1 DEF QueueInv
<1>4. QED
  BY <1>1, <1>2, <1>3

LEMMA QueueInvariance == BridgeSpec => []QueueInv
<1>1. BridgeInit => QueueInv
  BY BridgeInputsAssumption DEF BridgeInit, QueueInv
<1>2. QueueInv /\ RuntimeInv' /\ [BridgeNext]_bridgeVars => QueueInv'
  BY QueueNext
<1>3. QED
  BY <1>1, <1>2, BridgeRuntimeInv, PTL DEF BridgeSpec

OpensTyped == queue_opens \in BOOLEAN

LEMMA OpensTypedInvariance == BridgeSpec => []OpensTyped
<1>1. BridgeInit => OpensTyped
  BY DEF BridgeInit, OpensTyped
<1>2. OpensTyped /\ [BridgeNext]_bridgeVars => OpensTyped'
  <2>1. QueueChanges => queue_opens' \in BOOLEAN
    BY DEF QueueChanges
  <2>2. [BridgeNext]_bridgeVars /\ ~QueueChanges => queue_opens' = queue_opens
    BY DEF BridgeNext, LoopStep, WaitForInputs, TickAndPublish, EnvironmentStep, WriteSpeed,
       WriteLkas, WritePerception, GraceEnds, TakeMrmEvent, TakeStatus, Restart,
       outputVars, bridgeVars
  <2>3. QED
    BY <2>1, <2>2 DEF OpensTyped
<1>3. QED
  BY <1>1, <1>2, PTL DEF BridgeSpec

StatusInv == status \in Status \cup {None} /\ StatusIsCoherent

\* An OK driver has no reason (step_b.cpp:113-118).
LEMMA OkHasNoReason ==
    ASSUME NEW in, Evaluate(in), current_state' = "OK"
    PROVE  outB'.reason = "NONE"
<1>1. AttentiveStep(in) \/ InattentiveStep(in)
  BY DEF Evaluate, HoldAbsent, BlockedCameraWarning, LatchCritical, LatchAbsentRunCycle
<1>2. PICK elapsed : outB'.reason = EffectiveReason(in, "OK", elapsed)
  BY <1>1 DEF AttentiveStep, InattentiveStep, Output
<1>3. QED
  BY <1>2 DEF EffectiveReason

LEMMA NewStatus ==
    ASSUME HeldInv, HeldTyped', RuntimeInv, RuntimeInv', TickAndPublish
    PROVE  LET s == StatusLine
           IN  /\ s \in Status
               /\ s.mrm_active => s.driver_state = "ABSENT"
               /\ s.mrm_active <=> s.hmi_action = "MRM"
               /\ s.lkas_mode = "ON_ACTIVE" => s.driver_state = "OK"
               /\ s.driver_state = "OK" => s.hmi_action = "INFO" /\ s.reason = "NONE"
<1>1. PICK b \in StepBInputs, c \in BuiltRequests : c \in StepCInputs /\ Tick(b, c)
  BY IterationIsTick
<1>2. PICK state \in DriverState : state = current_state'
  BY <1>1, TickFacts, StepBInputsAssumption, StepCInputsAssumption
<1>3. PICK reason \in Reason : reason = outB'.reason
  BY <1>1, TickFacts, StepBInputsAssumption, StepCInputsAssumption
<1>4. PICK reengaged : reengaged = outB'.reengagement_confirmed_200ms
  OBVIOUS
<1>5. PICK out : out = outC'
  OBVIOUS
<1>6. /\ c \in StepCInput /\ latched \in StepCLatchedState
      /\ out = EvaluatePolicy(c, state, reason, reengaged, latched)
  BY <1>1, <1>2, <1>3, <1>4, <1>5, TickFacts, StepBInputsAssumption, StepCInputsAssumption
     DEF RuntimeInv, RuntimeTypeOK
<1>7. /\ out \in StepCOutput
      /\ out.mrm_active <=> MrmRuns(c, state, latched)
      /\ out.mrm_active <=> out.hmi_action = "MRM"
  BY <1>6, PolicyFacts
<1>8. PICK mrm \in BOOLEAN, hmi \in HmiAction : mrm = out.mrm_active /\ hmi = out.hmi_action
  BY <1>7 DEF StepCOutput
<1>9. /\ mrm => state = "ABSENT"
      /\ mrm <=> hmi = "MRM"
      /\ state = "OK" => hmi = "INFO"
  <2>1. state = "OK" => hmi = "INFO"
    BY <1>6, <1>8 DEF EvaluatePolicy, Hmi
  <2>2. QED
    BY <1>7, <1>8, <2>1 DEF MrmRuns
<1>10. PICK mode \in LkasMode : mode = lkas_mode'
  BY DEF RuntimeInv, RuntimeTypeOK
<1>11. mode = "ON_ACTIVE" => state = "OK"
  BY <1>2, <1>10 DEF RuntimeInv, ActiveNeedsAttention
<1>12. outB'.next_state = state
  BY <1>2 DEF RuntimeInv, StepBInv, AbsentIffLatched
<1>13. state = "OK" => reason = "NONE"
  BY <1>1, <1>2, <1>3, OkHasNoReason DEF Tick
<1>14. PICK attentive \in BOOLEAN : attentive = perception'.is_attentive
  BY DEF HeldTyped, PerceptionSample
<1>15. StatusLine = [driver_state |-> state, hmi_action |-> hmi, lkas_mode |-> mode,
                     reason |-> reason, mrm_active |-> mrm, is_attentive |-> attentive]
  BY <1>3, <1>5, <1>8, <1>10, <1>12, <1>14 DEF StatusLine
<1> HIDE DEF StatusLine
<1>16. StatusLine \in Status
  BY <1>15 DEF Status
<1>17. QED
  BY <1>9, <1>11, <1>13, <1>15, <1>16

LEMMA StatusNext ==
    ASSUME HeldInv, HeldTyped', RuntimeInv, RuntimeInv', StatusInv, [BridgeNext]_bridgeVars
    PROVE  StatusInv'
<1>1. CASE status' \in {status, None}
  BY <1>1 DEF StatusInv, StatusIsCoherent
<1>2. CASE TickAndPublish
  <2>1. status' \in {status, StatusLine}
    BY <1>2 DEF TickAndPublish, PublishStatus
  <2>2. CASE status' = StatusLine
    BY <1>2, <2>2, NewStatus DEF StatusInv, StatusIsCoherent
  <2>3. QED
    BY <1>1, <2>1, <2>2
<1>3. CASE ~TickAndPublish
  <2>1. status' \in {status, None}
    BY <1>3 DEF BridgeNext, LoopStep, EnvironmentStep, WaitForInputs, WriteSpeed,
       WriteLkas, WritePerception, GraceEnds, TakeMrmEvent, TakeStatus, QueueChanges, Restart,
       outputVars, bridgeVars
  <2>2. QED
    BY <1>1, <2>1
<1>4. QED
  BY <1>2, <1>3

LEMMA StatusInvariance == BridgeSpec => []StatusInv
<1>1. BridgeInit => StatusInv
  BY DEF BridgeInit, StatusInv, StatusIsCoherent
<1>2. /\ HeldInv /\ HeldTyped' /\ RuntimeInv /\ RuntimeInv' /\ StatusInv
      /\ [BridgeNext]_bridgeVars
      => StatusInv'
  BY StatusNext
<1>3. QED
  BY <1>1, <1>2, HeldInvariance, HeldTypedInvariance, BridgeRuntimeInv, PTL DEF BridgeSpec

\* A status never contradicts itself, however late it is read
\* (dcas_rt_bridge.cpp:186-187, 230-242).
THEOREM BridgeStatusIsCoherent == BridgeSpec => []StatusIsCoherent
<1>1. StatusInv => StatusIsCoherent
  BY DEF StatusInv
<1>2. QED
  BY <1>1, StatusInvariance, PTL

-----------------------------------------------------------------------------
(* Before the first inputs *)

QuietInv == ~(have_speed /\ have_lkas) => timers = <<0, 0>> /\ current_state = "OK"

\* What a step does to the outputs and to Step B, if it leaves an input missing.
QuietStep ==
    ~(have_speed' /\ have_lkas') =>
       /\ actuator' = actuator
       /\ Len(mrm_queue') <= Len(mrm_queue)
       /\ status' \in {status, None}
       /\ timers' = <<0, 0>> /\ current_state' = "OK"

LEMMA QuietNext ==
    ASSUME HeldInv, QuietInv, mrm_queue \in Seq(LkasMode), [BridgeNext]_bridgeVars
    PROVE  QuietInv' /\ QuietStep
<1>1. CASE TickAndPublish
  BY <1>1 DEF TickAndPublish, InputsReady, QuietInv, QuietStep
<1>2. CASE WaitForInputs
  <2>1. /\ UNCHANGED <<actuator, status, mrm_queue, timers, current_state>>
        /\ have_speed => have_speed'
        /\ have_lkas => have_lkas'
    BY <1>2, TakenSlots DEF WaitForInputs, outputVars, runtimeVars, stepBVars
  <2>2. Len(mrm_queue') = Len(mrm_queue) /\ Len(mrm_queue) \in Nat
    BY <2>1
  <2>3. Len(mrm_queue') <= Len(mrm_queue)
    BY <2>2
  <2>4. QED
    BY <2>1, <2>3 DEF QuietInv, QuietStep
<1>3. CASE EnvironmentStep \/ UNCHANGED bridgeVars
  <2>1. UNCHANGED <<actuator, timers, current_state, have_speed, have_lkas>>
    BY <1>3 DEF EnvironmentStep, WriteSpeed, WriteLkas, WritePerception, GraceEnds,
       TakeMrmEvent, TakeStatus, QueueChanges, loopVars, heldVars, outputVars, runtimeVars, stepBVars,
       bridgeVars
  <2>2. status' \in {status, None}
    BY <1>3 DEF EnvironmentStep, WriteSpeed, WriteLkas, WritePerception, GraceEnds,
       TakeMrmEvent, TakeStatus, QueueChanges, outputVars, bridgeVars
  <2>3. mrm_queue' = mrm_queue \/ (mrm_queue # <<>> /\ mrm_queue' = Tail(mrm_queue))
    BY <1>3 DEF EnvironmentStep, WriteSpeed, WriteLkas, WritePerception, GraceEnds,
       TakeMrmEvent, TakeStatus, QueueChanges, outputVars, bridgeVars
  <2>4. Len(mrm_queue') <= Len(mrm_queue)
    <3>1. CASE mrm_queue' = mrm_queue
      <4>1. Len(mrm_queue) \in Nat /\ Len(mrm_queue') = Len(mrm_queue)
        BY <3>1
      <4>2. QED
        BY <4>1
    <3>2. CASE mrm_queue # <<>> /\ mrm_queue' = Tail(mrm_queue)
      BY <3>2
    <3>3. QED
      BY <2>3, <3>1, <3>2
  <2>5. QED
    BY <2>1, <2>2, <2>4 DEF QuietInv, QuietStep
<1>4. CASE Restart
  <2>1. /\ timers' = <<0, 0>> /\ current_state' = "OK"
        /\ UNCHANGED <<actuator, mrm_queue>> /\ status' \in {status, None}
    BY <1>4 DEF Restart, StartCaller, ResetForNewRunCycle, timers
  <2>2. Len(mrm_queue) \in Nat /\ Len(mrm_queue') = Len(mrm_queue)
    BY <2>1
  <2>3. Len(mrm_queue') <= Len(mrm_queue)
    BY <2>2
  <2>4. QED
    BY <2>1, <2>3 DEF QuietInv, QuietStep
<1>5. QED
  BY <1>1, <1>2, <1>3, <1>4 DEF BridgeNext, LoopStep

\* No command, event, status or judgement before the first inputs, in every
\* process (dcas_rt_bridge.cpp:129-157).
THEOREM BridgeQuietBeforeInputs == BridgeSpec => QuietBeforeInputs
<1>1. BridgeInit => QuietInv
  BY DEF BridgeInit, RuntimeInit, StepBInit, QuietInv, timers
<1>2. HeldInv /\ QuietInv /\ QueueInv /\ [BridgeNext]_bridgeVars
      => QuietInv' /\ [QuietStep]_bridgeVars
  BY QuietNext DEF QueueInv
<1>3. QED
  BY <1>1, <1>2, HeldInvariance, QueueInvariance, PTL
     DEF BridgeSpec, QuietBeforeInputs, QuietStep

-----------------------------------------------------------------------------
(* The commands *)

CommandInv == actuator \in Command \cup {None} /\ CommandObeysPolicy

\* std::clamp with a nonnegative limit.
LEMMA FinalThrottleBound ==
    ASSUME NEW fault \in BOOLEAN, NEW raw \in Int, NEW limit \in Nat
    PROVE  /\ FinalThrottle(fault, raw, limit) \in 0 .. limit
           /\ fault => FinalThrottle(fault, raw, limit) = 0
BY DEF FinalThrottle, NonNegative

LEMMA TickCommand ==
    ASSUME HeldTyped', RuntimeInv', TickAndPublish
    PROVE  CommandInv'
<1>1. speed_sample' \in SpeedSample /\ lkas_throttle' \in Int
  BY DEF HeldTyped
<1>2. PICK fault \in BOOLEAN : fault = speed_sample'.hardware_fault
  BY <1>1 DEF SpeedSample
<1>3. PICK limit \in Nat : limit = outC'.throttle_limit
  BY DEF RuntimeInv, RuntimeTypeOK, StepCOutput
<1>4. PICK raw \in Int : raw = lkas_throttle' * Scale
  <2>1. lkas_throttle' * Scale \in Int
    BY <1>1 DEF Scale
  <2>2. QED
    BY <2>1
<1>5. PICK final : final = FinalThrottle(fault, raw, limit)
  OBVIOUS
<1>6. actuator' = [final_throttle |-> final, is_valid |-> ~fault]
  BY <1>2, <1>3, <1>4, <1>5 DEF TickAndPublish, WriteCommand
<1>7. final \in 0 .. limit /\ (fault => final = 0)
  BY <1>5, FinalThrottleBound
<1>8. absent_latched_run_cycle' => limit = 0
  BY <1>3 DEF RuntimeInv, AbsentMeansStopping
<1>9. actuator' \in Command
  BY <1>6, <1>7 DEF Command
<1>10. /\ actuator'.final_throttle = final
       /\ actuator'.is_valid = ~fault
  BY <1>6
<1>11. /\ actuator'.final_throttle \in 0 .. outC'.throttle_limit
       /\ absent_latched_run_cycle' => actuator'.final_throttle = 0
  BY <1>3, <1>7, <1>8, <1>10
<1>12. speed_sample'.hardware_fault => actuator'.final_throttle = 0 /\ ~actuator'.is_valid
  BY <1>2, <1>7, <1>10
<1>13. QED
  BY <1>9, <1>11, <1>12 DEF CommandInv, CommandObeysPolicy

\* After a restart or an iteration that waits an input is missing, so the command
\* of the process before is not compared; no other step changes what a command is
\* compared with.
CommandContext == <<actuator, outC, absent_latched_run_cycle, speed_sample, have_speed, have_lkas>>

LEMMA CommandNext ==
    ASSUME HeldTyped', RuntimeInv', CommandInv, [BridgeNext]_bridgeVars
    PROVE  CommandInv'
<1>1. CASE TickAndPublish
  BY <1>1, TickCommand
<1>2. CASE WaitForInputs \/ Restart
  <2>1. actuator' = actuator /\ ~(have_speed' /\ have_lkas')
    BY <1>2 DEF WaitForInputs, InputsReady, Restart, outputVars
  <2>2. QED
    BY <2>1 DEF CommandInv, CommandObeysPolicy
<1>3. CASE EnvironmentStep \/ UNCHANGED bridgeVars
  <2>1. UNCHANGED CommandContext
    BY <1>3 DEF EnvironmentStep, WriteSpeed, WriteLkas, WritePerception, GraceEnds,
       TakeMrmEvent, TakeStatus, QueueChanges, loopVars, heldVars, outputVars, bridgeVars, runtimeVars,
       stepBVars, CommandContext
  <2>2. QED
    BY <2>1 DEF CommandInv, CommandObeysPolicy, CommandContext
<1>4. QED
  BY <1>1, <1>2, <1>3 DEF BridgeNext, LoopStep

LEMMA CommandInvariance == BridgeSpec => []CommandInv
<1>1. BridgeInit => CommandInv
  BY DEF BridgeInit, CommandInv, CommandObeysPolicy
<1>2. HeldTyped' /\ RuntimeInv' /\ CommandInv /\ [BridgeNext]_bridgeVars => CommandInv'
  BY CommandNext
<1>3. QED
  BY <1>1, <1>2, HeldTypedInvariance, BridgeRuntimeInv, PTL DEF BridgeSpec

\* The command never exceeds the policy, is zero for an ABSENT driver, and is
\* zero and invalid during a hardware fault (dcas_rt_bridge.cpp:202-212).
THEOREM BridgeCommandObeysPolicy == BridgeSpec => []CommandObeysPolicy
<1>1. CommandInv => CommandObeysPolicy
  BY DEF CommandInv
<1>2. QED
  BY <1>1, CommandInvariance, PTL

-----------------------------------------------------------------------------
(* The types *)

ClockInv == grace_over \in BOOLEAN /\ iterations \in Int

LEMMA ClockNext ==
    ASSUME HeldInv, ClockInv, [BridgeNext]_bridgeVars
    PROVE  ClockInv'
<1>1. CASE TickAndPublish
  BY <1>1 DEF TickAndPublish, Counted, ClockInv
<1>2. CASE Restart
  <2>1. options.iterations \in Int
    BY BridgeInputsAssumption DEF HeldInv, BridgeOptions
  <2>2. QED
    BY <1>2, <2>1 DEF Restart, ClockInv
<1>3. CASE ~TickAndPublish /\ ~Restart
  <2>1. iterations' = iterations /\ (grace_over' = grace_over \/ grace_over' = TRUE)
    BY <1>3 DEF BridgeNext, LoopStep, EnvironmentStep, WaitForInputs, WriteSpeed,
       WriteLkas, WritePerception, GraceEnds, TakeMrmEvent, TakeStatus, QueueChanges, loopVars, bridgeVars
  <2>2. QED
    BY <2>1 DEF ClockInv
<1>4. QED
  BY <1>1, <1>2, <1>3

LEMMA ClockInvariance == BridgeSpec => []ClockInv
<1>1. BridgeInit /\ HeldInv => ClockInv
  <2>1. HeldInv => options.iterations \in Int
    BY BridgeInputsAssumption DEF HeldInv, BridgeOptions
  <2>2. QED
    BY <2>1 DEF BridgeInit, ClockInv
<1>2. HeldInv /\ ClockInv /\ [BridgeNext]_bridgeVars => ClockInv'
  BY ClockNext
<1>3. QED
  BY <1>1, <1>2, HeldInitially, HeldInvariance, PTL DEF BridgeSpec

\* Type correctness of the bridge (dcas_rt_bridge.cpp:127-135, 202-243).
THEOREM BridgeTypeCorrect == BridgeSpec => []BridgeTypeOK
<1>1. HeldInv /\ ClockInv /\ RuntimeInv /\ QueueInv /\ OpensTyped
      /\ StatusInv /\ CommandInv
      => BridgeTypeOK
  BY HeldTypes, BridgeInputsAssumption
     DEF HeldInv, HeldTyped, ClockInv, RuntimeInv, QueueInv, OpensTyped, StatusInv, CommandInv,
         BridgeTypeOK
<1>2. QED
  BY <1>1, HeldInvariance, ClockInvariance, BridgeRuntimeInv, QueueInvariance,
     OpensTypedInvariance, StatusInvariance, CommandInvariance, PTL

-----------------------------------------------------------------------------
(* The grace period *)

CalmInv == /\ CalmInGrace
           /\ ~grace_over => perception = SafePerception /\ ~absent_latched_run_cycle

\* The safe defaults leave an OK driver OK.
LEMMA SafeTick ==
    ASSUME NEW in, Evaluate(in), in.is_attentive = TRUE, in.reason = "NONE",
           in.camera_blocked = FALSE, current_state = "OK", latest_reason = "NONE",
           ~absent_latched_run_cycle
    PROVE  /\ current_state' = "OK" /\ outB'.next_state = "OK"
           /\ latest_reason' = "NONE"
           /\ ~absent_latched_run_cycle'
<1>1. LatestReason(in) = "NONE"
  BY DEF LatestReason, BlockedTooLong, NewReason, AdoptsReason
<1>2. AttentiveStep(in)
  BY <1>1 DEF Evaluate, HoldAbsent, BlockedCameraWarning, BlockedBriefly, LatchCritical,
     is_critical_reason, InattentiveStep
<1>3. QED
  BY <1>1, <1>2 DEF AttentiveStep, AdoptReason, StateIfAttentive, Output

LEMMA IterationReason ==
    ASSUME HeldInv, RuntimeInv, TickAndPublish
    PROVE  outB'.reason \in Reason
BY IterationIsTick, TickFacts, StepBInputsAssumption, StepCInputsAssumption

LEMMA CalmTick ==
    ASSUME HeldInv, RuntimeInv, CalmInv, TickAndPublish, ~grace_over'
    PROVE  CalmInv'
<1> DEFINE b == BuildSample(perception', speed_sample'.current_speed_kmh)
           c == BuildRequest(lkas_throttle', options)
<1>1. ~grace_over /\ perception' = SafePerception /\ Tick(b, c)
  BY DEF TickAndPublish, TickRuntime, TakePerception, CalmInv
<1>2. b.is_attentive = TRUE /\ b.reason = "NONE" /\ b.camera_blocked = FALSE
  BY <1>1 DEF BuildSample, SafePerception
<1>3. /\ current_state = "OK" /\ latest_reason = "NONE" /\ ~absent_latched_run_cycle
      /\ Evaluate(b)
  BY <1>1 DEF CalmInv, CalmInGrace, Tick
<1>4. /\ current_state' = "OK" /\ outB'.next_state = "OK"
      /\ latest_reason' = "NONE"
      /\ ~absent_latched_run_cycle'
  BY <1>2, <1>3, SafeTick
<1>5. c \in StepCInput
  <2>1. c \in BuiltRequests
    BY TakenSlots DEF TickAndPublish, BuiltRequests, HeldInv
  <2>2. QED
    BY <2>1, BuiltInputsAssumption, StepCInputsAssumption
<1>6. ~outC'.mrm_active
  <2>1. PICK reason \in Reason : reason = outB'.reason
    BY IterationReason
  <2>2. outC' = EvaluatePolicy(c, "OK", reason, outB'.reengagement_confirmed_200ms, latched)
    BY <1>1, <1>4, <2>1 DEF Tick, EvaluateStepC
  <2>3. latched \in StepCLatchedState /\ "OK" \in DriverState
    BY DEF RuntimeInv, RuntimeTypeOK, DriverState
  <2>4. outC'.mrm_active <=> MrmRuns(c, "OK", latched)
    BY <1>5, <2>2, <2>3, PolicyFacts
  <2>5. QED
    BY <2>4 DEF MrmRuns
<1>7. QED
  BY <1>1, <1>4, <1>6 DEF CalmInv, CalmInGrace

LEMMA CalmNext ==
    ASSUME HeldInv, RuntimeInv, CalmInv, [BridgeNext]_bridgeVars
    PROVE  CalmInv'
<1>1. CASE grace_over'
  BY <1>1 DEF CalmInv, CalmInGrace
<1>2. CASE ~grace_over' /\ TickAndPublish
  BY <1>2, CalmTick
<1>3. CASE Restart
  BY <1>3 DEF Restart, StartCaller, ResetForNewRunCycle, Silent, CalmInv, CalmInGrace
<1>4. CASE ~grace_over' /\ ~TickAndPublish /\ ~Restart
  <2>1. UNCHANGED runtimeVars
    BY <1>4, OtherStepsLeaveRuntime
  <2>2. UNCHANGED <<perception, grace_over>>
    BY <1>4 DEF BridgeNext, LoopStep, EnvironmentStep, WaitForInputs, WriteSpeed,
       WriteLkas, WritePerception, GraceEnds, TakeMrmEvent, TakeStatus, QueueChanges, heldVars,
       loopVars, bridgeVars
  <2>3. UNCHANGED <<current_state, outC, latest_reason, absent_latched_run_cycle>>
    BY <2>1 DEF runtimeVars, stepBVars, reasonVars
  <2>4. QED
    BY <2>2, <2>3 DEF CalmInv, CalmInGrace
<1>5. QED
  BY <1>1, <1>2, <1>3, <1>4

\* Nobody is warned or stopped because of what the slot held at the start
\* (dcas_rt_bridge.cpp:132-167).
THEOREM BridgeCalmInGrace == BridgeSpec => []CalmInGrace
<1>1. BridgeInit => CalmInv
  BY DEF BridgeInit, RuntimeInit, StepBInit, Silent, CalmInv, CalmInGrace
<1>2. HeldInv /\ RuntimeInv /\ CalmInv /\ [BridgeNext]_bridgeVars => CalmInv'
  BY CalmNext
<1>3. CalmInv => CalmInGrace
  BY DEF CalmInv
<1>4. QED
  BY <1>1, <1>2, <1>3, HeldInvariance, BridgeRuntimeInv, PTL DEF BridgeSpec

-----------------------------------------------------------------------------
(* What a step of the bridge may do *)

LEMMA TickStaysInactive ==
    ASSUME HeldInv, RuntimeInv, TickAndPublish, lkas_mode # "ON_ACTIVE"
    PROVE  lkas_mode' # "ON_ACTIVE"
<1>1. PICK b \in StepBInputs, c \in BuiltRequests : c \in StepCInputs /\ Tick(b, c)
  BY IterationIsTick
<1>2. c.lkas_switch_event = "NONE"
  BY <1>1 DEF BuiltRequests, BuildRequest
<1>3. /\ c \in StepCInput /\ current_state' \in DriverState
      /\ lkas_mode' = NextLkasMode(c, current_state', lkas_mode, latched)
  BY <1>1, TickFacts, StepBInputsAssumption, StepCInputsAssumption
<1>4. PICK state \in DriverState : state = current_state'
  BY <1>3
<1>5. PICK next : next = NextLkasMode(c, state, lkas_mode, latched)
  OBVIOUS
<1>6. lkas_mode \in LkasMode
  BY DEF RuntimeInv, RuntimeTypeOK
<1>7. next = "ON_ACTIVE" /\ lkas_mode # "ON_ACTIVE" => c.lkas_switch_event = "ON"
  BY <1>3, <1>5, <1>6, ModeFacts
<1>8. QED
  BY <1>2, <1>3, <1>4, <1>5, <1>7

\* Assistance that was given up comes back only with a new process whose options
\* say so (dcas_rt_bridge.cpp:180-187).
THEOREM BridgeStaysInactive == BridgeSpec => StaysInactive
<1>1. HeldInv /\ RuntimeInv /\ [BridgeNext]_bridgeVars
      => [lkas_mode # "ON_ACTIVE" /\ lkas_mode' = "ON_ACTIVE" =>
            Restart /\ options.lkas_mode = "ON_ACTIVE"]_bridgeVars
  <2> SUFFICES ASSUME HeldInv, RuntimeInv, [BridgeNext]_bridgeVars,
                      lkas_mode # "ON_ACTIVE", lkas_mode' = "ON_ACTIVE"
               PROVE  Restart /\ options.lkas_mode = "ON_ACTIVE"
    OBVIOUS
  <2>1. CASE TickAndPublish
    BY <2>1, TickStaysInactive
  <2>2. CASE Restart
    BY <2>2, RestartStartsCaller
  <2>3. CASE ~TickAndPublish /\ ~Restart
    BY <2>3, OtherStepsLeaveRuntime DEF runtimeVars
  <2>4. QED
    BY <2>1, <2>2, <2>3
<1>2. QED
  BY <1>1, HeldInvariance, BridgeRuntimeInv, PTL DEF BridgeSpec, StaysInactive

-----------------------------------------------------------------------------
(* The samples an iteration works with                                     *)

\* What has been read is what was written last; before that the loop holds its
\* defaults.
LatestInv ==
    /\ have_speed => speed_slot # None
    /\ have_lkas => lkas_slot # None
    /\ speed_slot # None /\ "speed" \notin unread => speed_sample = speed_slot
    /\ lkas_slot # None /\ "lkas" \notin unread => lkas_throttle = lkas_slot
    /\ perception_slot # None /\ "perception" \notin unread => perception = perception_slot
    /\ perception_slot = None \/ ~grace_over => perception = SafePerception

\* An iteration with complete inputs works with the samples written last, within
\* the grace period with the safe defaults instead of the perception.
WorksWithLatest ==
    TickAndPublish =>
        /\ speed_sample' = speed_slot
        /\ lkas_throttle' = lkas_slot
        /\ perception' = IF grace_over /\ perception_slot # None
                         THEN perception_slot ELSE SafePerception

LEMMA LatestNext ==
    ASSUME HeldInv, LatestInv, [BridgeNext]_bridgeVars
    PROVE  LatestInv' /\ WorksWithLatest
<1>1. ASSUME TakeSlots
      PROVE  /\ have_speed' => speed_slot # None
             /\ have_lkas' => lkas_slot # None
             /\ speed_slot # None => speed_sample' = speed_slot
             /\ lkas_slot # None => lkas_throttle' = lkas_slot
  BY <1>1 DEF TakeSlots, Received, Read, LatestInv, HeldInv, Written
<1>2. CASE WaitForInputs
  <2>1. TakeSlots /\ unread' = unread \ Inputs /\ UNCHANGED <<slotVars, perception, grace_over>>
    BY <1>2 DEF WaitForInputs
  <2>2. LatestInv'
    BY <1>1, <2>1 DEF LatestInv, slotVars, Inputs
  <2>3. ~TickAndPublish
    BY <1>2 DEF WaitForInputs, TickAndPublish, InputsReady
  <2>4. QED
    BY <2>2, <2>3 DEF WorksWithLatest
<1>3. CASE TickAndPublish
  <2>1. /\ TakeSlots /\ TakePerception /\ have_speed' /\ have_lkas'
        /\ UNCHANGED <<slotVars, grace_over>>
    BY <1>3 DEF TickAndPublish, InputsReady
  <2>2. /\ speed_slot # None /\ lkas_slot # None
        /\ speed_sample' = speed_slot /\ lkas_throttle' = lkas_slot
    BY <1>1, <2>1
  <2>3. /\ perception' = IF grace_over /\ perception_slot # None
                         THEN perception_slot ELSE SafePerception
        /\ ~grace_over => unread' = unread \ Inputs
    BY <2>1 DEF TakePerception, Read, LatestInv, HeldInv, Written, Inputs
  <2>4. LatestInv'
    BY <2>1, <2>2, <2>3 DEF LatestInv, slotVars, Inputs
  <2>5. QED
    BY <2>2, <2>3, <2>4 DEF WorksWithLatest
<1>4. CASE Restart
  <2>1. /\ UNCHANGED slotVars /\ unread' = Written /\ perception' = SafePerception
        /\ have_speed' = FALSE /\ have_lkas' = FALSE /\ grace_over' = FALSE
    BY <1>4 DEF Restart
  <2>2. LatestInv'
    BY <2>1 DEF LatestInv, Written, slotVars
  <2>3. ~TickAndPublish
    BY <2>1 DEF TickAndPublish, InputsReady
  <2>4. QED
    BY <2>2, <2>3 DEF WorksWithLatest
<1>5. CASE ~TickAndPublish /\ (EnvironmentStep \/ UNCHANGED bridgeVars)
  <2>1. UNCHANGED heldVars
    BY <1>5 DEF EnvironmentStep, WriteSpeed, WriteLkas, WritePerception, GraceEnds,
       TakeMrmEvent, TakeStatus, QueueChanges, loopVars, bridgeVars
  <2>2. LatestInv'
    <3>1. ASSUME NEW s \in SpeedSamples, WriteSpeed(s) PROVE LatestInv'
      BY <2>1, <3>1, NoneAssumption, BridgeInputsAssumption
         DEF WriteSpeed, LatestInv, heldVars
    <3>2. ASSUME NEW t \in LkasThrottles, WriteLkas(t) PROVE LatestInv'
      BY <2>1, <3>2, NoneAssumption, BridgeInputsAssumption
         DEF WriteLkas, LatestInv, heldVars
    <3>3. ASSUME NEW p \in PerceptionSamples, WritePerception(p) PROVE LatestInv'
      BY <2>1, <3>3, NoneAssumption, BridgeInputsAssumption
         DEF WritePerception, LatestInv, heldVars
    <3>4. CASE GraceEnds \/ TakeMrmEvent \/ TakeStatus \/ QueueChanges \/ UNCHANGED bridgeVars
      BY <2>1, <3>4 DEF GraceEnds, TakeMrmEvent, TakeStatus, QueueChanges, bridgeVars, slotVars,
         LatestInv, heldVars
    <3>5. QED
      BY <1>5, <3>1, <3>2, <3>3, <3>4 DEF EnvironmentStep
  <2>3. QED
    BY <1>5, <2>2 DEF WorksWithLatest
<1>6. QED
  BY <1>2, <1>3, <1>4, <1>5 DEF BridgeNext, LoopStep

LEMMA LatestInvariance == BridgeSpec => []LatestInv
<1>1. BridgeInit => LatestInv
  BY DEF BridgeInit, LatestInv
<1>2. HeldInv /\ LatestInv /\ [BridgeNext]_bridgeVars => LatestInv'
  BY LatestNext
<1>3. QED
  BY <1>1, <1>2, HeldInvariance, PTL DEF BridgeSpec

\* No iteration judges the driver by, or passes on, a sample older than the one
\* written last, after a restart as well: a slot is read at most once, but what
\* was read is still what is in it (dcas_rt_bridge.cpp:145-167).
THEOREM BridgeWorksWithLatest == BridgeSpec => [][WorksWithLatest]_bridgeVars
<1>1. HeldInv /\ LatestInv /\ [BridgeNext]_bridgeVars => [WorksWithLatest]_bridgeVars
  BY LatestNext
<1>2. QED
  BY <1>1, HeldInvariance, LatestInvariance, PTL DEF BridgeSpec

-----------------------------------------------------------------------------
(* The perception slot as a register *)

LEMMA PerceptionValueNext ==
    ASSUME HeldInv, [BridgeNext]_bridgeVars
    PROVE  [PerceptionValue!Next]_(PerceptionValue!valueVars)
<1> USE DEF PerceptionValue!Next, PerceptionValue!valueVars
<1>1. ASSUME UNCHANGED <<perception_slot, perception>>,
             ("perception" \in unread') <=> ("perception" \in unread)
      PROVE  [PerceptionValue!Next]_(PerceptionValue!valueVars)
  BY <1>1
<1>2. CASE WaitForInputs
  BY <1>1, <1>2 DEF WaitForInputs, slotVars, Inputs
<1>3. CASE TickAndPublish
  <2>1. TakePerception /\ UNCHANGED perception_slot
    BY <1>3 DEF TickAndPublish, slotVars
  <2>2. CASE grace_over /\ "perception" \in unread
    <3>1. perception_slot # None /\ perception_slot \in PerceptionSamples
      BY <2>2, UnreadIsSample, BridgeInputsAssumption, NoneAssumption
    <3>2. perception' = perception_slot /\ unread' = {}
      BY <2>1, <2>2 DEF TakePerception, Read
    <3>3. PerceptionValue!Take
      BY <2>1, <2>2, <3>1, <3>2 DEF PerceptionValue!Take, PerceptionValue!NothingMissed
    <3>4. QED
      BY <3>3
  <2>3. CASE ~(grace_over /\ "perception" \in unread)
    BY <1>1, <2>1, <2>3 DEF TakePerception, Read, Inputs
  <2>4. QED
    BY <2>2, <2>3
<1>4. CASE Restart
  <2>1. /\ perception' = SafePerception /\ UNCHANGED perception_slot
        /\ unread' = Written
    BY <1>4 DEF Restart, slotVars
  <2>2. PerceptionValue!Forget
    BY <2>1 DEF Written, PerceptionValue!Forget, PerceptionValue!NothingMissed
  <2>3. QED
    BY <2>2
<1>5. ASSUME NEW p \in PerceptionSamples, WritePerception(p)
      PROVE  [PerceptionValue!Next]_(PerceptionValue!valueVars)
  <2>1. /\ perception_slot' = p /\ p # None /\ "perception" \in unread'
        /\ UNCHANGED perception
    BY <1>5, BridgeInputsAssumption, NoneAssumption DEF WritePerception, loopVars, heldVars
  <2>2. PerceptionValue!Publish(p)
    BY <2>1 DEF PerceptionValue!Publish
  <2>3. QED
    BY <2>2
<1>6. CASE \/ \E s \in SpeedSamples : WriteSpeed(s)
           \/ \E t \in LkasThrottles : WriteLkas(t)
           \/ GraceEnds \/ TakeMrmEvent \/ TakeStatus \/ QueueChanges
           \/ UNCHANGED bridgeVars
  BY <1>1, <1>6 DEF WriteSpeed, WriteLkas, GraceEnds, TakeMrmEvent, TakeStatus, QueueChanges, loopVars,
     slotVars, heldVars, bridgeVars
<1>7. QED
  BY <1>2, <1>3, <1>4, <1>5, <1>6 DEF BridgeNext, LoopStep, EnvironmentStep

\* The perception slot and the loop implement the register that PerceptionSlot
\* implements word by word: neither the grace period nor a restart loses the
\* sample written last (dcas_rt_bridge.cpp:132-135, 159-167).
THEOREM BridgeRefinesLatestValue == BridgeSpec => RefinesLatestValue
<1>1. BridgeInit => PerceptionValue!Init
  BY DEF BridgeInit, PerceptionValue!Init
<1>2. QED
  BY <1>1, PerceptionValueNext, HeldInvariance, PTL
     DEF BridgeSpec, RefinesLatestValue, PerceptionValue!Spec

-----------------------------------------------------------------------------
(* The safety halves of the liveness properties: what each step adds to.   *)
(* That there is a next step is the fairness of BridgeSpec.                *)

\* A driver last reported inattentive, with the camera clear, loses --dt of the
\* time that is left with every iteration, until the stop.
InattentionRunsOut ==
    /\ /\ TickAndPublish /\ grace_over /\ perception_slot # None
       /\ ~perception_slot.is_attentive /\ ~perception_slot.camera_blocked
       => \/ absent_latched_run_cycle'
          \/ /\ inattentive_elapsed_s' = inattentive_elapsed_s + NonNegative(DeltaS)
             /\ inattentive_elapsed_s' < Slowest.absent
    /\ ~TickAndPublish /\ ~Restart =>
          UNCHANGED <<inattentive_elapsed_s, absent_latched_run_cycle>>

LEMMA InattentiveIteration ==
    ASSUME HeldInv, RuntimeInv, WorksWithLatest, TickAndPublish, grace_over,
           perception_slot # None,
           ~perception_slot.is_attentive, ~perception_slot.camera_blocked
    PROVE  \/ absent_latched_run_cycle'
           \/ /\ inattentive_elapsed_s' = inattentive_elapsed_s + NonNegative(DeltaS)
              /\ inattentive_elapsed_s' < Slowest.absent
<1> DEFINE b == BuildSample(perception', speed_sample'.current_speed_kmh)
<1>1. Evaluate(b) /\ perception' = perception_slot
  BY DEF TickAndPublish, TickRuntime, Tick, WorksWithLatest
<1>2. ~b.is_attentive /\ ~b.camera_blocked /\ b.delta_s = DeltaS
  BY <1>1 DEF BuildSample
<1>3. b \in StepBInput
  <2>1. b \in BuiltSamples
    BY TakenSlots, TakenPerception DEF TickAndPublish, BuiltSamples
  <2>2. QED
    BY <2>1, BuiltInputsAssumption, StepBInputsAssumption
<1> HIDE DEF b
<1>4. HoldAbsent(b) \/ LatchCritical(b) => absent_latched_run_cycle'
  <2>1. HoldAbsent(b) => absent_latched_run_cycle'
    BY <1>1, AbsentStays DEF HoldAbsent
  <2>2. LatchCritical(b) => absent_latched_run_cycle'
    BY DEF LatchCritical, LatchAbsentRunCycle
  <2>3. QED
    BY <2>1, <2>2
<1>5. ~BlockedCameraWarning(b) /\ ~AttentiveStep(b)
  BY <1>2 DEF BlockedCameraWarning, BlockedBriefly, AttentiveStep
<1>6. CASE InattentiveStep(b)
  <2>1. inattentive_elapsed_s' = inattentive_elapsed_s + NonNegative(DeltaS)
    BY <1>2, <1>6 DEF InattentiveStep, AdvanceInattentive
  <2>2. /\ current_state' = StateIfInattentive(Thresholds(b), inattentive_elapsed_s')
        /\ absent_latched_run_cycle' <=> current_state' = "ABSENT"
    BY <1>6 DEF InattentiveStep
  <2>3. inattentive_elapsed_s' \in Int
    BY <2>1, BridgeInputsAssumption DEF NonNegative, RuntimeInv, RuntimeTypeOK, StepBTypeOK
  <2>4. Thresholds(b).absent \in Int /\ Thresholds(b).absent <= Slowest.absent
        /\ Slowest.absent \in Int
    BY <1>3, ThresholdRange DEF Slowest
  <2>5. QED
    BY <2>1, <2>2, <2>3, <2>4 DEF StateIfInattentive
<1>7. QED
  BY <1>1, <1>4, <1>5, <1>6 DEF Evaluate

\* The safety half of SilentInattentionEndsInAbsent: in each iteration the driver
\* is stopped or has a whole --dt less left, no other step but a new process
\* changes that, and the time left is never more than the slowest absent
\* threshold (dcas_rt_bridge.cpp:145-187, step_b.cpp:96-108).
THEOREM BridgeInattentionRunsOut == BridgeSpec => [][InattentionRunsOut]_bridgeVars
<1>1. HeldInv /\ RuntimeInv /\ LatestInv /\ [BridgeNext]_bridgeVars
      => [InattentionRunsOut]_bridgeVars
  <2> SUFFICES ASSUME HeldInv, RuntimeInv, LatestInv, [BridgeNext]_bridgeVars
               PROVE  InattentionRunsOut
    OBVIOUS
  <2>1. WorksWithLatest
    BY LatestNext
  <2>2. ~TickAndPublish /\ ~Restart =>
           UNCHANGED <<inattentive_elapsed_s, absent_latched_run_cycle>>
    BY OtherStepsLeaveRuntime DEF runtimeVars, stepBVars, timers
  <2>3. QED
    BY <2>1, <2>2, InattentiveIteration DEF InattentionRunsOut
<1>2. QED
  BY <1>1, HeldInvariance, BridgeRuntimeInv, LatestInvariance, PTL DEF BridgeSpec

\* --iterations n: how many ticks are left.
CountInv == options.iterations > 0 => iterations \in 0 .. options.iterations

CountsDown == options.iterations > 0 =>
                 /\ TickAndPublish => iterations' = iterations - 1
                 /\ ~TickAndPublish /\ ~Restart => iterations' = iterations
                 /\ LoopStep => iterations # 0

LEMMA CountNext ==
    ASSUME HeldInv, CountInv, [BridgeNext]_bridgeVars
    PROVE  CountInv' /\ CountsDown
<1>1. options.iterations \in Int
  BY BridgeInputsAssumption DEF HeldInv, BridgeOptions
<1>2. options' = options
  BY DEF BridgeNext, LoopStep, EnvironmentStep, WaitForInputs, TickAndPublish, WriteSpeed,
     WriteLkas, WritePerception, GraceEnds, TakeMrmEvent, TakeStatus, QueueChanges, Restart, loopVars,
     bridgeVars
<1>3. options.iterations > 0 /\ TickAndPublish => iterations' = iterations - 1
  BY <1>1 DEF TickAndPublish, Counted, CountInv
<1>4. Restart => iterations' = options.iterations
  BY DEF Restart
<1>5. ~TickAndPublish /\ ~Restart => iterations' = iterations
  BY DEF BridgeNext, LoopStep, EnvironmentStep, WaitForInputs, WriteSpeed, WriteLkas,
     WritePerception, GraceEnds, TakeMrmEvent, TakeStatus, QueueChanges, loopVars, bridgeVars
<1>6. LoopStep => iterations # 0
  BY DEF LoopStep, WaitForInputs, TickAndPublish
<1>7. TickAndPublish => iterations # 0
  BY DEF TickAndPublish
<1>8. QED
  BY <1>1, <1>2, <1>3, <1>4, <1>5, <1>6, <1>7 DEF CountInv, CountsDown

\* The safety half of BoundedRunEnds: a bounded run has at most n ticks left, each
\* tick is one of them, and at none left the loop takes no further step; what is
\* not counted is the waiting, so it ends only if the inputs come
\* (dcas_rt_bridge.cpp:145-157, 245-247).
THEOREM BridgeCountsDown == BridgeSpec => []CountInv /\ [][CountsDown]_bridgeVars
<1>1. BridgeInit /\ HeldInv => CountInv
  <2>1. HeldInv => options.iterations \in Int
    BY BridgeInputsAssumption DEF HeldInv, BridgeOptions
  <2>2. QED
    BY <2>1 DEF BridgeInit, CountInv
<1>2. HeldInv /\ CountInv /\ [BridgeNext]_bridgeVars => CountInv' /\ [CountsDown]_bridgeVars
  BY CountNext
<1>3. QED
  BY <1>1, <1>2, HeldInitially, HeldInvariance, PTL DEF BridgeSpec

\* The loop never asks LKAS to switch, so a locked override means that assistance
\* is off.
LockedMeansOff == latched.driver_override_lock => lkas_mode = "OFF"

LEMMA LockedMeansOffNext ==
    ASSUME HeldInv, RuntimeInv, LockedMeansOff, [BridgeNext]_bridgeVars
    PROVE  LockedMeansOff'
<1>1. CASE TickAndPublish
  <2>1. PICK b \in StepBInputs, c \in BuiltRequests : c \in StepCInputs /\ Tick(b, c)
    BY <1>1, IterationIsTick
  <2>2. c.lkas_switch_event = "NONE"
    BY <2>1 DEF BuiltRequests, BuildRequest
  <2>3. PICK state \in DriverState : state = current_state'
    BY <2>1, TickFacts, StepBInputsAssumption, StepCInputsAssumption
  <2>4. /\ c \in StepCInput /\ latched \in StepCLatchedState
        /\ lkas_mode' = NextLkasMode(c, state, lkas_mode, latched)
        /\ latched' = NextLatchedState(c, state, latched)
    BY <2>1, <2>3, TickFacts, StepBInputsAssumption, StepCInputsAssumption
       DEF RuntimeInv, RuntimeTypeOK
  <2>5. latched'.driver_override_lock <=>
           latched.driver_override_lock \/ NextMrmCount(c, state, latched) >= 2
    BY <2>4, LatchedFacts
  <2>6. CASE NextMrmCount(c, state, latched) >= 2
    BY <2>4, <2>6 DEF NextLkasMode, LockedMeansOff
  <2>7. CASE latched.driver_override_lock
    <3>1. SwitchedMode(c, state, "OFF") = "OFF"
      BY <2>2 DEF SwitchedMode, ApplySwitchEvent
    <3>2. QED
      BY <2>4, <2>7, <3>1 DEF NextLkasMode, LockedMeansOff
  <2>8. QED
    BY <2>5, <2>6, <2>7 DEF LockedMeansOff
<1>2. CASE Restart
  BY <1>2 DEF Restart, StartCaller, FreshLatchedState, LockedMeansOff
<1>3. CASE ~TickAndPublish /\ ~Restart
  BY <1>3, OtherStepsLeaveRuntime DEF runtimeVars, LockedMeansOff
<1>4. QED
  BY <1>1, <1>2, <1>3

\* While the override is locked LKAS is off, and each MRM event says so: the queue
\* carries the mode, and no event of a locked manoeuvre carries another
\* (step_c.cpp:86-92, dcas_rt_bridge.cpp:180-187, 226-228).
THEOREM BridgeLockedMeansOff == BridgeSpec => []LockedMeansOff
<1>1. BridgeInit => LockedMeansOff
  BY DEF BridgeInit, RuntimeInit, FreshLatchedState, LockedMeansOff
<1>2. HeldInv /\ RuntimeInv /\ LockedMeansOff /\ [BridgeNext]_bridgeVars => LockedMeansOff'
  BY LockedMeansOffNext
<1>3. QED
  BY <1>1, <1>2, HeldInvariance, BridgeRuntimeInv, PTL DEF BridgeSpec

\* What an iteration with an ABSENT driver writes.
StopIsWritten ==
    TickAndPublish /\ absent_latched_run_cycle' =>
        /\ ~options.driver_override =>
              \/ latched'.driver_override_lock
              \/ MrmTicks = 0 /\ MrmTicks' = 1
        /\ latched'.driver_override_lock /\ queue_opens /\ mrm_queue = <<>> =>
              mrm_queue' = <<"OFF">>
        /\ ~queue_opens => mrm_queue' = mrm_queue
        /\ status = None => status'.driver_state = "ABSENT"

LEMMA StopWritten ==
    ASSUME HeldInv, RuntimeInv, RuntimeInv', LockedMeansOff',
           TickAndPublish, absent_latched_run_cycle'
    PROVE  StopIsWritten
<1>1. current_state' = "ABSENT" /\ outB'.next_state = "ABSENT"
  BY DEF RuntimeInv, StepBInv, AbsentIffLatched
<1>2. ASSUME ~options.driver_override
      PROVE  latched'.driver_override_lock \/ (MrmTicks = 0 /\ MrmTicks' = 1)
  <2> DEFINE b == BuildSample(perception', speed_sample'.current_speed_kmh)
             c == BuildRequest(lkas_throttle', options)
  <2>1. Tick(b, c)
    BY DEF TickAndPublish, TickRuntime
  <2>2. b \in StepBInput /\ c \in StepCInput
    <3>1. b \in BuiltSamples
      BY TakenSlots, TakenPerception DEF TickAndPublish, BuiltSamples
    <3>2. c \in BuiltRequests
      BY TakenSlots DEF TickAndPublish, BuiltRequests, HeldInv
    <3>3. QED
      BY <3>1, <3>2, BuiltInputsAssumption, StepBInputsAssumption, StepCInputsAssumption
  <2>3. ~c.driver_override
    BY <1>2 DEF BuildRequest
  <2> HIDE DEF b, c
  <2>4. /\ latched \in StepCLatchedState /\ "ABSENT" \in DriverState
        /\ latched' = NextLatchedState(c, "ABSENT", latched)
    BY <1>1, <2>1, <2>2, TickFacts DEF RuntimeInv, RuntimeTypeOK, DriverState
  <2>5. /\ MrmTicks' = NextMrmCount(c, "ABSENT", latched)
        /\ latched'.driver_override_lock <=>
              latched.driver_override_lock \/ MrmTicks' >= 2
    BY <2>2, <2>4, LatchedFacts DEF MrmTicks
  <2>6. MrmTicks' = Increment(MrmTicks)
    BY <2>3, <2>5 DEF NextMrmCount, MrmRuns, TakenOver, MrmTicks
  <2>7. ~latched.driver_override_lock => MrmTicks \in 0 .. 1
    BY DEF RuntimeInv, LockoutAccounting
  <2>8. QED
    BY <2>5, <2>6, <2>7, IntMaxAssumption DEF Increment
<1>3. ASSUME latched'.driver_override_lock, queue_opens, mrm_queue = <<>>
      PROVE  mrm_queue' = <<"OFF">>
  <2>1. outC'.mrm_active
    BY <1>3 DEF RuntimeInv, AbsentMeansStopping
  <2>2. lkas_mode' = "OFF"
    BY <1>3 DEF LockedMeansOff
  <2>3. Len(mrm_queue) < QueueCapacity
    BY <1>3, BridgeInputsAssumption
  <2>4. mrm_queue' = Append(mrm_queue, lkas_mode')
    BY <1>3, <2>1, <2>3 DEF TickAndPublish, SendMrmEvent
  <2>5. QED
    BY <1>3, <2>2, <2>4
<1>4. ASSUME status = None
      PROVE  status'.driver_state = "ABSENT"
  BY <1>1, <1>4 DEF TickAndPublish, PublishStatus, StatusLine
<1>5. ~queue_opens => mrm_queue' = mrm_queue
  BY DEF TickAndPublish, SendMrmEvent
<1>6. QED
  BY <1>2, <1>3, <1>4, <1>5 DEF StopIsWritten

\* The safety half of StopIsAnnounced: the second manoeuvre tick of a driver who
\* does not override locks, a locked manoeuvre writes OFF into a queue that can
\* be opened and is empty, and an ABSENT driver is written into a socket that is
\* free, whether the queue can be opened or not.  While it cannot, every event
\* is lost and OFF does not get there (dcas_rt_bridge.cpp:53-61, 226-243).
THEOREM BridgeStopIsWritten == BridgeSpec => [][StopIsWritten]_bridgeVars
<1>1. HeldInv /\ RuntimeInv /\ RuntimeInv' /\ LockedMeansOff' /\ [BridgeNext]_bridgeVars
      => [StopIsWritten]_bridgeVars
  BY StopWritten DEF StopIsWritten
<1>2. QED
  BY <1>1, HeldInvariance, BridgeRuntimeInv, BridgeLockedMeansOff, PTL DEF BridgeSpec
=============================================================================
