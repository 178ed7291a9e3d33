------------------------ MODULE PolicyRuntime_proofs ------------------------
(***************************************************************************)
(* Proofs about the policy runtime, for every set of samples and requests. *)
(***************************************************************************)
EXTENDS PolicyRuntime, StepB_proofs

-----------------------------------------------------------------------------
(* Step C as a function *)

\* The throttle limit never amplifies the request (step_c.cpp:20-36, 63-66).
LEMMA ThrottleLimitBound ==
    ASSUME NEW c \in StepCInput, NEW state \in DriverState, NEW reason \in Reason
    PROVE  /\ ThrottleLimit(c, state, reason) \in Nat
           /\ ThrottleLimit(c, state, reason) <= NonNegative(c.lkas_throttle) * Scale
           /\ state = "ESCALATION" =>
                 5 * ThrottleLimit(c, state, reason) <= NonNegative(c.lkas_throttle) * Scale
           /\ state = "ABSENT" => ThrottleLimit(c, state, reason) = 0
<1> DEFINE raw == c.lkas_throttle
<1>1. raw \in Int
  BY DEF StepCInput
<1>2. ReasonOverlayGain(state, reason) \in {9, 10}
  BY DEF ReasonOverlayGain
<1>3. CASE state = "OK"
  <2>1. BaseThrottleGain(state) = 10
    BY <1>3 DEF BaseThrottleGain
  <2>2. QED
    BY <1>1, <1>2, <1>3, <2>1 DEF ThrottleLimit, NonNegative, Scale
<1>4. CASE state = "WARNING"
  <2>1. BaseThrottleGain(state) = 6
    BY <1>4 DEF BaseThrottleGain
  <2>2. QED
    BY <1>1, <1>2, <1>4, <2>1 DEF ThrottleLimit, NonNegative, Scale
<1>5. CASE state = "ESCALATION"
  <2>1. BaseThrottleGain(state) = 2
    BY <1>5 DEF BaseThrottleGain
  <2>2. QED
    BY <1>1, <1>2, <1>5, <2>1 DEF ThrottleLimit, NonNegative, Scale
<1>6. CASE state = "ABSENT"
  <2>1. BaseThrottleGain(state) = 0
    BY <1>6 DEF BaseThrottleGain
  <2>2. QED
    BY <1>1, <1>2, <1>6, <2>1 DEF ThrottleLimit, NonNegative, Scale
<1>7. QED
  BY <1>3, <1>4, <1>5, <1>6 DEF DriverState

\* What the answer of Step C says for an ABSENT driver and for the others
\* (step_c.cpp:57-84).
LEMMA PolicyFacts ==
    ASSUME NEW c \in StepCInput, NEW state \in DriverState, NEW reason \in Reason,
           NEW reengaged, NEW l \in StepCLatchedState, NEW out,
           out = EvaluatePolicy(c, state, reason, reengaged, l)
    PROVE  /\ out \in StepCOutput
           /\ out.throttle_limit <= NonNegative(c.lkas_throttle) * Scale
           /\ state = "ESCALATION" =>
                 5 * out.throttle_limit <= NonNegative(c.lkas_throttle) * Scale
           /\ state = "ABSENT" => out.throttle_limit = 0
           /\ out.mrm_active <=> MrmRuns(c, state, l)
           /\ out.mrm_active <=> out.hmi_action = "MRM"
<1>1. c.lkas_throttle \in Int
  BY DEF StepCInput
<1>2. CASE TakenOver(c, l)
  <2>1. out.throttle_limit = 0 /\ out.hmi_action = "INFO" /\ out.mrm_active = FALSE
    BY <1>2 DEF EvaluatePolicy
  <2>2. out \in StepCOutput
    BY <1>2 DEF EvaluatePolicy, StepCOutput, HmiAction
  <2>3. NonNegative(c.lkas_throttle) * Scale >= 0
    BY <1>1 DEF NonNegative, Scale
  <2>4. QED
    BY <1>1, <1>2, <2>1, <2>2, <2>3 DEF MrmRuns, NonNegative, Scale
<1>3. CASE ~TakenOver(c, l)
  <2>1. /\ out.throttle_limit = ThrottleLimit(c, state, reason)
        /\ out.hmi_action = Hmi(state, reengaged)
        /\ out.mrm_active = (state = "ABSENT")
    BY <1>3 DEF EvaluatePolicy
  <2>2. Hmi(state, reengaged) \in HmiAction /\ (Hmi(state, reengaged) = "MRM" <=> state = "ABSENT")
    BY DEF Hmi, HmiAction, DriverState
  <2>3. out \in StepCOutput
    <3>1. ThrottleLimit(c, state, reason) \in Nat
      BY ThrottleLimitBound
    <3>2. (state = "ABSENT") \in BOOLEAN
      OBVIOUS
    <3>3. QED
      BY <1>3, <2>2, <3>1, <3>2 DEF EvaluatePolicy, StepCOutput
  <2>4. QED
    BY <1>3, <2>1, <2>2, <2>3, ThrottleLimitBound DEF MrmRuns
<1>4. QED
  BY <1>2, <1>3

\* The order of the driver states is the order of the limits: for the same request
\* a strictly more severe state never allows more throttle, whatever the two
\* reasons are; the overlay of a DROWSY driver does not upset the order
\* (step_c.cpp:20-36, 63-66).
THEOREM SeverityCutsThrottle ==
    ASSUME NEW c \in StepCInput, NEW l \in StepCLatchedState,
           NEW mild \in DriverState, NEW severe \in DriverState,
           Severity(mild) < Severity(severe),
           NEW r \in Reason, NEW q \in Reason, NEW e, NEW f
    PROVE  EvaluatePolicy(c, severe, r, e, l).throttle_limit
              <= EvaluatePolicy(c, mild, q, f, l).throttle_limit
<1> DEFINE Gain(state, reason) == BaseThrottleGain(state) * ReasonOverlayGain(state, reason)
<1>1. c.lkas_throttle \in Int
  BY DEF StepCInput
<1>2. /\ \A reason : ReasonOverlayGain("OK", reason) = 10
      /\ \A reason : ReasonOverlayGain("ABSENT", reason) = 10
      /\ \A state, reason : ReasonOverlayGain(state, reason) \in {9, 10}
  BY DEF ReasonOverlayGain
<1>3. /\ BaseThrottleGain("OK") = 10 /\ BaseThrottleGain("WARNING") = 6
      /\ BaseThrottleGain("ESCALATION") = 2 /\ BaseThrottleGain("ABSENT") = 0
  BY DEF BaseThrottleGain
<1>4. /\ Severity("OK") = 0 /\ Severity("WARNING") = 1
      /\ Severity("ESCALATION") = 2 /\ Severity("ABSENT") = 3
  BY DEF Severity
<1>5. PICK g \in Nat, h \in Nat : g = Gain(severe, r) /\ h = Gain(mild, q) /\ g <= h
  BY <1>2, <1>3, <1>4 DEF DriverState
<1>6. ThrottleLimit(c, severe, r) = NonNegative(c.lkas_throttle * g)
  <2>1. BaseThrottleGain(severe) \in Int /\ ReasonOverlayGain(severe, r) \in Int
    BY <1>2, <1>3 DEF DriverState
  <2>2. QED
    BY <1>1, <1>5, <2>1 DEF ThrottleLimit
<1>7. ThrottleLimit(c, mild, q) = NonNegative(c.lkas_throttle * h)
  <2>1. BaseThrottleGain(mild) \in Int /\ ReasonOverlayGain(mild, q) \in Int
    BY <1>2, <1>3 DEF DriverState
  <2>2. QED
    BY <1>1, <1>5, <2>1 DEF ThrottleLimit
<1>8. NonNegative(c.lkas_throttle * g) <= NonNegative(c.lkas_throttle * h)
  BY <1>1, <1>5 DEF NonNegative
<1>9. QED
  BY <1>6, <1>7, <1>8 DEF EvaluatePolicy

\* How a tick moves the lock and its counter (step_c.cpp:81, 86-89).
LEMMA LatchedFacts ==
    ASSUME NEW c \in StepCInput, NEW state \in DriverState,
           NEW l \in StepCLatchedState, NEW next,
           next = NextLatchedState(c, state, l)
    PROVE  /\ next \in StepCLatchedState
           /\ next.mrm_activation_count_run_cycle = NextMrmCount(c, state, l)
           /\ next.driver_override_lock <=>
                 \/ l.driver_override_lock
                 \/ NextMrmCount(c, state, l) >= 2
<1>1. /\ l.driver_override_lock \in BOOLEAN
      /\ l.mrm_activation_count_run_cycle \in MrmCount
      /\ l.run_cycle_id \in Nat
      /\ l = [driver_override_lock |-> l.driver_override_lock,
              mrm_activation_count_run_cycle |-> l.mrm_activation_count_run_cycle,
              run_cycle_id |-> l.run_cycle_id]
  BY DEF StepCLatchedState
<1>2. IntMax \in Nat /\ IntMax >= 2
  BY IntMaxAssumption
<1>3. NextMrmCount(c, state, l) \in MrmCount
  BY <1>1, <1>2 DEF NextMrmCount, Increment, MrmCount
<1>4. PICK lock \in BOOLEAN :
        lock = (l.driver_override_lock \/ NextMrmCount(c, state, l) >= 2)
  OBVIOUS
<1>5. next = [driver_override_lock |-> lock,
              mrm_activation_count_run_cycle |-> NextMrmCount(c, state, l),
              run_cycle_id |-> l.run_cycle_id]
  BY <1>1, <1>4 DEF NextLatchedState
<1>6. next \in StepCLatchedState
  BY <1>1, <1>3, <1>4, <1>5 DEF StepCLatchedState
<1>7. /\ next.mrm_activation_count_run_cycle = NextMrmCount(c, state, l)
      /\ next.driver_override_lock = lock
  BY <1>5
<1>8. QED
  BY <1>4, <1>6, <1>7

\* The next LKAS mode is a mode, and it is ON_ACTIVE only for an OK driver with
\* a live notebook, and only by a switch-on request unless it was already
\* (step_c.cpp:44-61, 86-89).
LEMMA ModeFacts ==
    ASSUME NEW c \in StepCInput, NEW state \in DriverState, NEW mode \in LkasMode,
           NEW l, NEW next, next = NextLkasMode(c, state, mode, l)
    PROVE  /\ next \in LkasMode
           /\ next = "ON_ACTIVE" => state = "OK" /\ c.notebook_input_alive
           /\ next = "ON_ACTIVE" /\ mode # "ON_ACTIVE" => c.lkas_switch_event = "ON"
<1>1. c.lkas_switch_event \in LkasSwitchEvent /\ c.notebook_input_alive \in BOOLEAN
  BY DEF StepCInput
<1>2. ApplySwitchEvent(mode, c.lkas_switch_event) \in LkasMode
  BY <1>1 DEF ApplySwitchEvent, LkasMode, LkasSwitchEvent
<1>3. ApplySwitchEvent(mode, c.lkas_switch_event) = "ON_ACTIVE" => mode = "ON_ACTIVE"
  BY <1>1 DEF ApplySwitchEvent, LkasMode, LkasSwitchEvent
<1>4. /\ SwitchedMode(c, state, mode) \in LkasMode
      /\ SwitchedMode(c, state, mode) = "ON_ACTIVE" =>
            state = "OK" /\ c.notebook_input_alive
      /\ SwitchedMode(c, state, mode) = "ON_ACTIVE" /\ mode # "ON_ACTIVE" =>
            c.lkas_switch_event = "ON"
  BY <1>1, <1>2, <1>3 DEF SwitchedMode, CanActivate, LkasMode
<1>5. QED
  BY <1>4 DEF NextLkasMode, LkasMode

\* A latched ABSENT survives every call of Evaluate (step_b.cpp:38-48).
LEMMA AbsentStays ==
    ASSUME NEW in, Evaluate(in), absent_latched_run_cycle
    PROVE  absent_latched_run_cycle' = absent_latched_run_cycle
BY DEF Evaluate, HoldAbsent, BlockedCameraWarning, LatchCritical, AttentiveStep,
       InattentiveStep, TimersDecide

-----------------------------------------------------------------------------
(* The inductive invariant: that of Step B, the types, and the four        *)
(* invariants that relate the two steps.  LockoutAccounting is what makes  *)
(* the others inductive: it says that a locked override finds the driver   *)
(* ABSENT.                                                                 *)

RuntimeInv == /\ StepBInv
              /\ RuntimeTypeOK
              /\ LockoutAccounting
              /\ AbsentMeansStopping
              /\ NeverAmplifies
              /\ ActiveNeedsAttention

\* What a tick does, in terms of the state Step B hands to Step C.
LEMMA TickFacts ==
    ASSUME RuntimeInv, NEW b \in StepBInput, NEW c \in StepCInput, Tick(b, c)
    PROVE  /\ StepBInv'
           /\ c \in StepCInput
           /\ current_state' \in DriverState
           /\ absent_latched_run_cycle' \in BOOLEAN
           /\ absent_latched_run_cycle' <=> current_state' = "ABSENT"
           /\ absent_latched_run_cycle => absent_latched_run_cycle'
           /\ outB'.reason \in Reason
           /\ outC' = EvaluatePolicy(c, current_state', outB'.reason,
                                     outB'.reengagement_confirmed_200ms, latched)
           /\ lkas_mode' = NextLkasMode(c, current_state', lkas_mode, latched)
           /\ latched' = NextLatchedState(c, current_state', latched)
           /\ request' = c
<1>1. StepBInv'
  BY EvaluateInv DEF Tick, RuntimeInv
<1>2. c \in StepCInput
  OBVIOUS
<1>3. /\ current_state' \in DriverState /\ outB' \in StepBOutput
      /\ absent_latched_run_cycle' \in BOOLEAN
  BY <1>1 DEF StepBInv, StepBTypeOK
<1>4. /\ absent_latched_run_cycle' <=> current_state' = "ABSENT"
      /\ outB'.next_state = current_state'
  BY <1>1 DEF StepBInv, AbsentIffLatched
<1>5. outB'.reason \in Reason
  BY <1>3 DEF StepBOutput
<1>6. absent_latched_run_cycle => absent_latched_run_cycle'
  BY AbsentStays DEF Tick
<1>7. /\ outC' = EvaluatePolicy(c, outB'.next_state, outB'.reason,
                                outB'.reengagement_confirmed_200ms, latched)
      /\ lkas_mode' = NextLkasMode(c, outB'.next_state, lkas_mode, latched)
      /\ latched' = NextLatchedState(c, outB'.next_state, latched)
      /\ request' = c
  BY DEF Tick, EvaluateStepC
<1>8. QED
  BY <1>1, <1>2, <1>3, <1>4, <1>5, <1>6, <1>7

LEMMA TickInv ==
    ASSUME RuntimeInv, NEW b \in StepBInput, NEW c \in StepCInput, Tick(b, c)
    PROVE  RuntimeInv'
<1>1. PICK state \in DriverState : state = current_state'
  BY TickFacts
<1>2. PICK reason \in Reason : reason = outB'.reason
  BY TickFacts
<1>3. /\ c \in StepCInput
      /\ StepBInv'
      /\ absent_latched_run_cycle' <=> state = "ABSENT"
      /\ absent_latched_run_cycle => absent_latched_run_cycle'
      /\ outC' = EvaluatePolicy(c, state, reason,
                                outB'.reengagement_confirmed_200ms, latched)
      /\ lkas_mode' = NextLkasMode(c, state, lkas_mode, latched)
      /\ latched' = NextLatchedState(c, state, latched)
      /\ request' = c
  BY <1>1, <1>2, TickFacts
<1>4. /\ latched \in StepCLatchedState /\ lkas_mode \in LkasMode
      /\ mrm_episodes \in Nat
      /\ latched.mrm_activation_count_run_cycle \in Int
      /\ latched.driver_override_lock => absent_latched_run_cycle
      /\ latched.mrm_activation_count_run_cycle # 0 => absent_latched_run_cycle
      /\ ~latched.driver_override_lock =>
            latched.mrm_activation_count_run_cycle \in 0 .. 1
  <2>1. latched \in StepCLatchedState /\ lkas_mode \in LkasMode /\ mrm_episodes \in Nat
    BY DEF RuntimeInv, RuntimeTypeOK
  <2>2. latched.mrm_activation_count_run_cycle \in Int
    BY <2>1, IntMaxAssumption DEF StepCLatchedState, MrmCount
  <2>3. QED
    BY <2>1, <2>2 DEF RuntimeInv, LockoutAccounting, MrmTicks
<1>5. /\ outC' \in StepCOutput
      /\ outC'.throttle_limit <= NonNegative(c.lkas_throttle) * Scale
      /\ state = "ESCALATION" =>
            5 * outC'.throttle_limit <= NonNegative(c.lkas_throttle) * Scale
      /\ state = "ABSENT" => outC'.throttle_limit = 0
      /\ outC'.mrm_active <=> MrmRuns(c, state, latched)
      /\ outC'.mrm_active <=> outC'.hmi_action = "MRM"
  BY <1>3, <1>4, PolicyFacts
<1>6. /\ latched' \in StepCLatchedState
      /\ latched'.mrm_activation_count_run_cycle = NextMrmCount(c, state, latched)
      /\ latched'.driver_override_lock <=>
            \/ latched.driver_override_lock
            \/ NextMrmCount(c, state, latched) >= 2
  BY <1>3, <1>4, LatchedFacts
<1>7. /\ lkas_mode' \in LkasMode
      /\ lkas_mode' = "ON_ACTIVE" => state = "OK" /\ c.notebook_input_alive
  BY <1>3, <1>4, ModeFacts
<1>8. RuntimeTypeOK'
  <2>1. StepBTypeOK'
    BY <1>3 DEF StepBInv
  <2>2. mrm_episodes' \in Nat
    BY <1>4 DEF Tick
  <2>3. QED
    BY <1>3, <1>5, <1>6, <1>7, <2>1, <2>2 DEF RuntimeTypeOK
<1>9. LockoutAccounting'
  <2>1. CASE state = "ABSENT"
    <3>1. NextMrmCount(c, state, latched) \in Int
      BY <1>4, IntMaxAssumption DEF NextMrmCount, Increment
    <3>2. ~latched.driver_override_lock => NextMrmCount(c, state, latched) \in 0 .. 2
      BY <1>4, IntMaxAssumption DEF NextMrmCount, Increment
    <3>3. QED
      BY <1>3, <1>6, <2>1, <3>1, <3>2 DEF LockoutAccounting, MrmTicks
  <2>2. CASE state # "ABSENT"
    <3>1. /\ ~latched.driver_override_lock
          /\ latched.mrm_activation_count_run_cycle = 0
      BY <1>3, <1>4, <2>2
    <3>2. NextMrmCount(c, state, latched) = 0
      BY <2>2, <3>1 DEF NextMrmCount, MrmRuns
    <3>3. QED
      BY <1>6, <3>1, <3>2 DEF LockoutAccounting, MrmTicks
  <2>3. QED
    BY <2>1, <2>2
<1>10. AbsentMeansStopping'
  <2> SUFFICES ASSUME state = "ABSENT"
               PROVE  /\ outC'.throttle_limit = 0
                      /\ \/ outC'.mrm_active
                         \/ c.driver_override /\ ~latched'.driver_override_lock
                      /\ outC'.mrm_active <=> outC'.hmi_action = "MRM"
    BY <1>3 DEF AbsentMeansStopping
  <2>1. CASE TakenOver(c, latched)
    <3>1. ~latched.driver_override_lock /\ c.driver_override
      BY <2>1 DEF TakenOver
    <3>2. NextMrmCount(c, state, latched) = latched.mrm_activation_count_run_cycle
      BY <2>1 DEF NextMrmCount, MrmRuns
    <3>3. ~latched'.driver_override_lock
      BY <1>4, <1>6, <3>1, <3>2
    <3>4. QED
      BY <1>5, <3>1, <3>3
  <2>2. CASE ~TakenOver(c, latched)
    BY <1>5, <2>2 DEF MrmRuns
  <2>3. QED
    BY <2>1, <2>2
<1>11. NeverAmplifies'
  BY <1>1, <1>3, <1>5 DEF NeverAmplifies
<1>12. ActiveNeedsAttention'
  BY <1>1, <1>3, <1>7 DEF ActiveNeedsAttention
<1>13. QED
  BY <1>3, <1>8, <1>9, <1>10, <1>11, <1>12 DEF RuntimeInv

\* A new run cycle starts with nothing latched (policy_runtime.cpp:24-28).
LEMMA NewRunCycleInv ==
    ASSUME RuntimeInv, NEW id \in RunCycleIds, NewRunCycle(id)
    PROVE  RuntimeInv'
<1>1. StepBInv'
  BY ResetInv DEF NewRunCycle
<1>2. /\ latched'.driver_override_lock = FALSE
      /\ latched'.mrm_activation_count_run_cycle = 0
      /\ latched' \in StepCLatchedState
  <2>1. id \in Nat /\ 0 \in MrmCount
    BY RunCycleIdsAssumption, IntMaxAssumption DEF MrmCount
  <2>2. QED
    BY <2>1 DEF NewRunCycle, FreshLatchedState, StepCLatchedState
<1>3. /\ outC'.throttle_limit = 0 /\ outC'.mrm_active = FALSE
      /\ outC'.hmi_action = "INFO" /\ outC' \in StepCOutput
  BY DEF NewRunCycle, Silent, StepCOutput, HmiAction
<1>4. /\ request' = request /\ lkas_mode' = lkas_mode /\ mrm_episodes' = 0
      /\ absent_latched_run_cycle' = FALSE /\ current_state' = "OK"
  BY DEF NewRunCycle, ResetForNewRunCycle
<1>5. request \in StepCInput /\ lkas_mode \in LkasMode
  BY DEF RuntimeInv, RuntimeTypeOK
<1>6. RuntimeTypeOK'
  BY <1>1, <1>2, <1>3, <1>4, <1>5 DEF RuntimeTypeOK, StepBInv
<1>7. LockoutAccounting'
  BY <1>2 DEF LockoutAccounting, MrmTicks
<1>8. AbsentMeansStopping'
  BY <1>4 DEF AbsentMeansStopping
<1>9. NeverAmplifies'
  <2>1. NonNegative(request.lkas_throttle) \in Nat
    BY <1>5 DEF StepCInput, NonNegative
  <2>2. QED
    BY <1>3, <1>4, <2>1 DEF NeverAmplifies, Scale
<1>10. ActiveNeedsAttention'
  BY <1>4 DEF RuntimeInv, ActiveNeedsAttention
<1>11. QED
  BY <1>1, <1>6, <1>7, <1>8, <1>9, <1>10 DEF RuntimeInv

\* So does a caller, whatever LKAS mode it starts with (policy_runtime.cpp:5-7).
LEMMA StartCallerInv ==
    ASSUME RuntimeInv, NEW id \in RunCycleIds, NEW mode \in LkasMode, StartCaller(id, mode)
    PROVE  RuntimeInv'
<1>1. StepBInv'
  BY ResetInv DEF StartCaller
<1>2. /\ latched'.driver_override_lock = FALSE
      /\ latched'.mrm_activation_count_run_cycle = 0
      /\ latched' \in StepCLatchedState
  <2>1. id \in Nat /\ 0 \in MrmCount
    BY RunCycleIdsAssumption, IntMaxAssumption DEF MrmCount
  <2>2. QED
    BY <2>1 DEF StartCaller, FreshLatchedState, StepCLatchedState
<1>3. /\ outC'.throttle_limit = 0 /\ outC'.mrm_active = FALSE
      /\ outC'.hmi_action = "INFO" /\ outC' \in StepCOutput
  BY DEF StartCaller, Silent, StepCOutput, HmiAction
<1>4. /\ request' \in StepCInput /\ request'.notebook_input_alive = TRUE
      /\ request'.lkas_throttle = 0
  BY DEF StartCaller, NoRequest, StepCInput, LkasSwitchEvent
<1>5. /\ lkas_mode' \in LkasMode /\ mrm_episodes' = 0
      /\ absent_latched_run_cycle' = FALSE /\ current_state' = "OK"
  BY DEF StartCaller, ResetForNewRunCycle
<1>6. RuntimeTypeOK'
  BY <1>1, <1>2, <1>3, <1>4, <1>5 DEF RuntimeTypeOK, StepBInv
<1>7. LockoutAccounting'
  BY <1>2 DEF LockoutAccounting, MrmTicks
<1>8. AbsentMeansStopping'
  BY <1>5 DEF AbsentMeansStopping
<1>9. NeverAmplifies'
  BY <1>3, <1>4, <1>5 DEF NeverAmplifies, NonNegative, Scale
<1>10. ActiveNeedsAttention'
  BY <1>4, <1>5 DEF ActiveNeedsAttention
<1>11. QED
  BY <1>1, <1>6, <1>7, <1>8, <1>9, <1>10 DEF RuntimeInv

LEMMA RuntimeInitInv == RuntimeInit => RuntimeInv
<1> SUFFICES ASSUME RuntimeInit PROVE RuntimeInv
  OBVIOUS
<1>1. StepBInv
  BY StepBInitInv DEF RuntimeInit
<1>2. /\ latched.driver_override_lock = FALSE
      /\ latched.mrm_activation_count_run_cycle = 0
      /\ latched \in StepCLatchedState
  <2>1. PICK id \in RunCycleIds : latched = FreshLatchedState(id)
    BY DEF RuntimeInit
  <2>2. id \in Nat /\ 0 \in MrmCount
    BY RunCycleIdsAssumption, IntMaxAssumption DEF MrmCount
  <2>3. QED
    BY <2>1, <2>2 DEF FreshLatchedState, StepCLatchedState
<1>3. /\ outC.throttle_limit = 0 /\ outC.mrm_active = FALSE
      /\ outC.hmi_action = "INFO" /\ outC \in StepCOutput
  BY DEF RuntimeInit, Silent, StepCOutput, HmiAction
<1>4. /\ request \in StepCInput /\ request.notebook_input_alive = TRUE
      /\ request.lkas_throttle = 0
  BY DEF RuntimeInit, NoRequest, StepCInput, LkasSwitchEvent
<1>5. /\ lkas_mode \in LkasMode /\ mrm_episodes = 0
      /\ absent_latched_run_cycle = FALSE /\ current_state = "OK"
  BY DEF RuntimeInit, StepBInit
<1>6. RuntimeTypeOK
  BY <1>1, <1>2, <1>3, <1>4, <1>5 DEF RuntimeTypeOK, StepBInv
<1>7. LockoutAccounting
  BY <1>2 DEF LockoutAccounting, MrmTicks
<1>8. AbsentMeansStopping
  BY <1>5 DEF AbsentMeansStopping
<1>9. NeverAmplifies
  BY <1>3, <1>4 DEF NeverAmplifies, NonNegative, Scale
<1>10. ActiveNeedsAttention
  BY <1>4, <1>5 DEF ActiveNeedsAttention
<1>11. QED
  BY <1>1, <1>6, <1>7, <1>8, <1>9, <1>10 DEF RuntimeInv

LEMMA RuntimeStutterInv ==
    ASSUME RuntimeInv, UNCHANGED runtimeVars
    PROVE  RuntimeInv'
<1>1. StepBInv'
  BY StutterInv DEF RuntimeInv, runtimeVars
<1>2. RuntimeTypeOK'
  BY <1>1 DEF RuntimeInv, RuntimeTypeOK, StepBInv, runtimeVars
<1>3. QED
  BY <1>1, <1>2 DEF RuntimeInv, LockoutAccounting, MrmTicks, AbsentMeansStopping,
     NeverAmplifies, ActiveNeedsAttention, runtimeVars, stepBVars

\* The inductive invariant holds in every reachable state of the runtime.
THEOREM RuntimeInvariance == RuntimeSpec => []RuntimeInv
<1>1. RuntimeInit => RuntimeInv
  BY RuntimeInitInv
<1>2. RuntimeInv /\ [RuntimeNext]_runtimeVars => RuntimeInv'
  BY TickInv, NewRunCycleInv, StartCallerInv, RuntimeStutterInv,
     StepBInputsAssumption, StepCInputsAssumption DEF RuntimeNext, CallerStarts
<1>3. QED
  BY <1>1, <1>2, PTL DEF RuntimeSpec

\* Types, for every request and for a counter of any width (step_c.cpp:81).
THEOREM RuntimeTypeCorrect == RuntimeSpec => []RuntimeTypeOK
<1>1. RuntimeInv => RuntimeTypeOK
  BY DEF RuntimeInv
<1>2. QED
  BY <1>1, RuntimeInvariance, PTL

\* Only an ABSENT driver is locked out or has manoeuvres counted
\* (step_c.cpp:57-61, 81, 86-89).
THEOREM RuntimeLockoutAccounting == RuntimeSpec => []LockoutAccounting
<1>1. RuntimeInv => LockoutAccounting
  BY DEF RuntimeInv
<1>2. QED
  BY <1>1, RuntimeInvariance, PTL

\* ABSENT allows no throttle and runs the manoeuvre unless it is overridden
\* (step_c.cpp:57-61, 77-82).
THEOREM RuntimeAbsentMeansStopping == RuntimeSpec => []AbsentMeansStopping
<1>1. RuntimeInv => AbsentMeansStopping
  BY DEF RuntimeInv
<1>2. QED
  BY <1>1, RuntimeInvariance, PTL

\* The throttle limit never amplifies the request (step_c.cpp:63-66).
THEOREM RuntimeNeverAmplifies == RuntimeSpec => []NeverAmplifies
<1>1. RuntimeInv => NeverAmplifies
  BY DEF RuntimeInv
<1>2. QED
  BY <1>1, RuntimeInvariance, PTL

\* LKAS is active only with an OK driver and a live notebook, tick after tick
\* (step_c.cpp:44-55).
THEOREM RuntimeActiveNeedsAttention == RuntimeSpec => []ActiveNeedsAttention
<1>1. RuntimeInv => ActiveNeedsAttention
  BY DEF RuntimeInv
<1>2. QED
  BY <1>1, RuntimeInvariance, PTL

-----------------------------------------------------------------------------
(* What a step may do *)

\* The lock and the locked manoeuvre are final within a run cycle, even when
\* the counter wraps around (step_c.cpp:57, 81-89).
THEOREM RuntimeLockIsFinal == RuntimeSpec => LockIsFinal
<1> DEFINE Final == latched.driver_override_lock =>
                      \/ \E id \in RunCycleIds : NewRunCycle(id)
                      \/ CallerStarts
                      \/ /\ latched'.driver_override_lock
                         /\ outC'.mrm_active
<1>1. RuntimeInv /\ [RuntimeNext]_runtimeVars => [Final]_runtimeVars
  <2> SUFFICES ASSUME RuntimeInv, latched.driver_override_lock,
                      NEW b \in StepBInput, NEW c \in StepCInput, Tick(b, c)
               PROVE  latched'.driver_override_lock /\ outC'.mrm_active
    BY StepBInputsAssumption, StepCInputsAssumption DEF RuntimeNext
  <2>1. latched \in StepCLatchedState /\ absent_latched_run_cycle
    BY DEF RuntimeInv, RuntimeTypeOK, LockoutAccounting
  <2>2. PICK reason \in Reason : reason = outB'.reason
    BY TickFacts
  <2>3. /\ c \in StepCInput
        /\ current_state' = "ABSENT" /\ "ABSENT" \in DriverState
        /\ latched' = NextLatchedState(c, "ABSENT", latched)
        /\ outC' = EvaluatePolicy(c, "ABSENT", reason,
                                  outB'.reengagement_confirmed_200ms, latched)
    BY <2>1, <2>2, TickFacts
  <2>4. latched'.driver_override_lock
    BY <2>1, <2>3, LatchedFacts
  <2>5. outC'.mrm_active <=> MrmRuns(c, "ABSENT", latched)
    BY <2>1, <2>3, PolicyFacts
  <2>6. MrmRuns(c, "ABSENT", latched)
    BY DEF MrmRuns, TakenOver
  <2>7. QED
    BY <2>4, <2>5, <2>6
<1>2. QED
  BY <1>1, RuntimeInvariance, PTL DEF RuntimeSpec, LockIsFinal

\* Assistance becomes active only on a switch-on request (step_c.cpp:44-55).
THEOREM RuntimeNoAutomaticResume == RuntimeSpec => NoAutomaticResume
<1> DEFINE Asked == lkas_mode # "ON_ACTIVE" /\ lkas_mode' = "ON_ACTIVE" =>
                      request'.lkas_switch_event = "ON" \/ CallerStarts
<1>1. RuntimeInv /\ [RuntimeNext]_runtimeVars => [Asked]_runtimeVars
  <2>1. ASSUME NEW id \in RunCycleIds, NewRunCycle(id) PROVE Asked
    BY <2>1 DEF NewRunCycle
  <2>2. ASSUME RuntimeInv, NEW b \in StepBInput, NEW c \in StepCInput, Tick(b, c)
        PROVE  Asked
    <3>1. PICK state \in DriverState : state = current_state'
      BY <2>2, TickFacts
    <3>2. /\ c \in StepCInput /\ lkas_mode \in LkasMode /\ request' = c
          /\ lkas_mode' = NextLkasMode(c, state, lkas_mode, latched)
      BY <2>2, <3>1, TickFacts DEF RuntimeInv, RuntimeTypeOK
    <3>3. QED
      BY <3>2, ModeFacts
  <2>3. QED
    BY <2>1, <2>2, StepBInputsAssumption, StepCInputsAssumption DEF RuntimeNext
<1>2. QED
  BY <1>1, RuntimeInvariance, PTL DEF RuntimeSpec, NoAutomaticResume

-----------------------------------------------------------------------------
(* Refinement.  The abstract count of manoeuvre ticks saturates at two;    *)
(* the concrete one goes on (and may wrap), and is 2 in the abstraction    *)
(* from the moment the override is locked.                                 *)

Ticks == IF latched.driver_override_lock THEN 2 ELSE MrmTicks

\* A tick is an Assist, a Manoeuvre or a TakeOver step of the stop protocol,
\* depending on the driver state and on who is in control.
LEMMA TickRefines ==
    ASSUME RuntimeInv, NEW b \in StepBInput, NEW c \in StepCInput, Tick(b, c)
    PROVE  Stop!Next
<1>1. PICK state \in DriverState : state = current_state'
  BY TickFacts
<1>2. PICK reason \in Reason : reason = outB'.reason
  BY TickFacts
<1>3. /\ c \in StepCInput
      /\ absent_latched_run_cycle' \in BOOLEAN
      /\ absent_latched_run_cycle' <=> state = "ABSENT"
      /\ absent_latched_run_cycle => absent_latched_run_cycle'
      /\ outC' = EvaluatePolicy(c, state, reason,
                                outB'.reengagement_confirmed_200ms, latched)
      /\ latched' = NextLatchedState(c, state, latched)
  BY <1>1, <1>2, TickFacts
<1>4. /\ latched \in StepCLatchedState
      /\ absent_latched_run_cycle \in BOOLEAN
      /\ latched.driver_override_lock => absent_latched_run_cycle
      /\ latched.mrm_activation_count_run_cycle # 0 => absent_latched_run_cycle
      /\ ~latched.driver_override_lock =>
            latched.mrm_activation_count_run_cycle \in 0 .. 1
  BY DEF RuntimeInv, RuntimeTypeOK, LockoutAccounting, MrmTicks, StepBTypeOK
<1>5. /\ outC' \in StepCOutput
      /\ state = "ABSENT" => outC'.throttle_limit = 0
      /\ outC'.mrm_active <=> MrmRuns(c, state, latched)
  BY <1>3, <1>4, PolicyFacts
<1>6. /\ latched'.mrm_activation_count_run_cycle = NextMrmCount(c, state, latched)
      /\ latched'.driver_override_lock <=>
            \/ latched.driver_override_lock
            \/ NextMrmCount(c, state, latched) >= 2
  BY <1>3, <1>4, LatchedFacts
<1>7. outC'.mrm_active \in BOOLEAN
  BY <1>5 DEF StepCOutput
<1>8. CASE state # "ABSENT"
  <2>1. /\ ~absent_latched_run_cycle /\ ~absent_latched_run_cycle'
        /\ ~latched.driver_override_lock
        /\ latched.mrm_activation_count_run_cycle = 0
    BY <1>3, <1>4, <1>8
  <2>2. NextMrmCount(c, state, latched) = 0 /\ ~outC'.mrm_active
    BY <1>5, <1>8, <2>1 DEF NextMrmCount, MrmRuns
  <2>3. ~latched'.driver_override_lock /\ latched'.mrm_activation_count_run_cycle = 0
    BY <1>6, <2>1, <2>2
  <2>4. outC'.mrm_active = FALSE /\ absent_latched_run_cycle' = absent_latched_run_cycle
    BY <1>3, <1>4, <1>7, <2>1, <2>2
  <2>5. Ticks' = Ticks
    BY <2>1, <2>3 DEF Ticks, MrmTicks
  <2>6. (outC.throttle_limit = 0)' \in BOOLEAN
    OBVIOUS
  <2>7. Stop!Assist
    BY <2>1, <2>4, <2>5, <2>6 DEF Stop!Assist, Ticks
  <2>8. QED
    BY <2>7 DEF Stop!Next
<1>9. CASE state = "ABSENT" /\ TakenOver(c, latched)
  <2>1. ~latched.driver_override_lock /\ Ticks \in 0 .. 1 /\ Ticks = MrmTicks
    BY <1>4, <1>9 DEF TakenOver, Ticks, MrmTicks
  <2>2. /\ latched'.mrm_activation_count_run_cycle = latched.mrm_activation_count_run_cycle
        /\ ~outC'.mrm_active
    BY <1>5, <1>6, <1>9 DEF NextMrmCount, MrmRuns
  <2>3. ~latched'.driver_override_lock
    BY <1>4, <1>6, <2>1, <2>2
  <2>4. Ticks' = Ticks
    BY <2>1, <2>2, <2>3 DEF Ticks, MrmTicks
  <2>5. /\ outC'.mrm_active = FALSE /\ absent_latched_run_cycle' = TRUE
        /\ outC'.throttle_limit = 0
    BY <1>3, <1>5, <1>7, <1>9, <2>2
  <2>6. Stop!TakeOver
    BY <2>1, <2>4, <2>5 DEF Stop!TakeOver, Stop!LockAfter, Ticks
  <2>7. QED
    BY <2>6 DEF Stop!Next
<1>10. CASE state = "ABSENT" /\ ~TakenOver(c, latched)
  <2>1. outC'.mrm_active
    BY <1>5, <1>10 DEF MrmRuns
  <2>2. /\ outC'.mrm_active = TRUE /\ absent_latched_run_cycle' = TRUE
        /\ outC'.throttle_limit = 0
    BY <1>3, <1>5, <1>7, <1>10, <2>1
  <2>3. Ticks' = IF Ticks < 2 THEN Ticks + 1 ELSE 2
    <3>1. CASE latched.driver_override_lock
      BY <1>6, <3>1 DEF Ticks
    <3>2. CASE ~latched.driver_override_lock
      <4>1. /\ MrmTicks \in 0 .. 1 /\ Ticks = MrmTicks
        BY <1>4, <3>2 DEF MrmTicks, Ticks
      <4>2. NextMrmCount(c, state, latched) = MrmTicks + 1
        BY <1>10, <4>1, IntMaxAssumption DEF NextMrmCount, MrmRuns, Increment, MrmTicks
      <4>3. MrmTicks' = MrmTicks + 1
        BY <1>6, <4>2 DEF MrmTicks
      <4>4. latched'.driver_override_lock <=> MrmTicks + 1 >= 2
        BY <1>6, <3>2, <4>2
      <4>5. QED
        BY <4>1, <4>3, <4>4 DEF Ticks
    <3>3. QED
      BY <3>1, <3>2
  <2>4. Stop!Manoeuvre
    BY <2>2, <2>3 DEF Stop!Manoeuvre, Stop!LockAfter, Ticks
  <2>5. QED
    BY <2>4 DEF Stop!Next
<1>11. QED
  BY <1>8, <1>9, <1>10

LEMMA NewRunCycleRefines ==
    ASSUME NEW id \in RunCycleIds, NewRunCycle(id)
    PROVE  Stop!Next
<1>1. /\ absent_latched_run_cycle' = FALSE
      /\ outC'.mrm_active = FALSE /\ outC'.throttle_limit = 0
      /\ latched'.driver_override_lock = FALSE
      /\ latched'.mrm_activation_count_run_cycle = 0
  BY DEF NewRunCycle, ResetForNewRunCycle, Silent, FreshLatchedState
<1>2. Ticks' = 0
  BY <1>1 DEF Ticks, MrmTicks
<1>3. Stop!NewRunCycle
  BY <1>1, <1>2 DEF Stop!NewRunCycle, Ticks
<1>4. QED
  BY <1>3 DEF Stop!Next

LEMMA StartCallerRefines ==
    ASSUME CallerStarts
    PROVE  Stop!Next
<1>1. PICK id \in RunCycleIds, mode \in LkasMode : StartCaller(id, mode)
  BY DEF CallerStarts
<1>2. /\ absent_latched_run_cycle' = FALSE
      /\ outC'.mrm_active = FALSE /\ outC'.throttle_limit = 0
      /\ latched'.driver_override_lock = FALSE
      /\ latched'.mrm_activation_count_run_cycle = 0
  BY <1>1 DEF StartCaller, ResetForNewRunCycle, Silent, FreshLatchedState
<1>3. Ticks' = 0
  BY <1>2 DEF Ticks, MrmTicks
<1>4. Stop!NewRunCycle
  BY <1>2, <1>3 DEF Stop!NewRunCycle, Ticks
<1>5. QED
  BY <1>4 DEF Stop!Next

LEMMA InitRefines ==
    ASSUME RuntimeInit
    PROVE  Stop!Init
<1>1. /\ absent_latched_run_cycle = FALSE
      /\ outC.mrm_active = FALSE /\ outC.throttle_limit = 0
      /\ latched.driver_override_lock = FALSE
      /\ latched.mrm_activation_count_run_cycle = 0
  BY DEF RuntimeInit, StepBInit, Silent, FreshLatchedState
<1>2. Ticks = 0
  BY <1>1 DEF Ticks, MrmTicks
<1>3. QED
  BY <1>1, <1>2 DEF Stop!Init, Ticks

\* The policy engine implements the stop protocol: it stays decided, allows no
\* throttle while stopping, and closes the override after two ticks of MRM.
THEOREM RuntimeRefinesStopProtocol == RuntimeSpec => RefinesStopProtocol
<1>1. RuntimeInit => Stop!Init
  BY InitRefines
<1>2. RuntimeInv /\ [RuntimeNext]_runtimeVars => [Stop!Next]_(Stop!stopVars)
  <2>1. ASSUME UNCHANGED runtimeVars PROVE UNCHANGED Stop!stopVars
    BY <2>1 DEF runtimeVars, stepBVars, Stop!stopVars, MrmTicks
  <2>2. QED
    BY <2>1, TickRefines, NewRunCycleRefines, StartCallerRefines,
       StepBInputsAssumption, StepCInputsAssumption DEF RuntimeNext
<1>3. QED
  BY <1>1, <1>2, RuntimeInvariance, PTL DEF RuntimeSpec, RefinesStopProtocol, Stop!Spec
=============================================================================
