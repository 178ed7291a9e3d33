------------------------------ MODULE RtBridge ------------------------------
(***************************************************************************)
(* The control loop of dcas_rt_bridge.cpp around the policy runtime.  Each *)
(* iteration takes what is new in the three shared-memory slots, waits     *)
(* until a speed and an LKAS sample have been seen, ticks the runtime with *)
(* the samples it holds, and writes the command for the actuator, an MRM   *)
(* event and a status.  The process may end at any time, by itself or in a *)
(* crash, and be started again with the same command line.                 *)
(*                                                                         *)
(* The slots, the queue and the status socket belong to other processes,   *)
(* which run at their own pace: a slot keeps the sample written last and   *)
(* is read at most once by a process, the queue drops what does not fit,   *)
(* and so does the socket.  PerceptionSlot models the perception slot in   *)
(* detail.                                                                 *)
(*                                                                         *)
(* Time.  The grace period ends at any moment.  The loop stamps every      *)
(* sample with the current time of a clock that never goes back, so one    *)
(* reason timestamp stands for all.  It never sets camera_blocked_ts_ms,   *)
(* so the blockage Step B computes is the time since boot, Uptime.         *)
(* Steering is passed through and left out, and so is the log.             *)
(***************************************************************************)
EXTENDS PolicyRuntime, Sequences

CONSTANTS
    SpeedSamples,       \* what the actuator may report
    LkasThrottles,      \* what LKAS may request
    PerceptionSamples,  \* what the feeder may write
    CommandLines,       \* the options the process may be started with
    DeltaS,             \* --dt, in tenths of a second
    Uptime,             \* the steady clock, in tenths of a second since boot
    QueueCapacity,      \* the messages /mrm_event_queue holds
    None                \* no sample, command, event or status

SpeedSample      == [current_speed_kmh : Int, hardware_fault : BOOLEAN]
PerceptionSample == [is_attentive : BOOLEAN, reason : Reason, camera_blocked : BOOLEAN]
Command          == [final_throttle : Nat, is_valid : BOOLEAN]
Status           == [driver_state : DriverState, hmi_action : HmiAction,
                     lkas_mode : LkasMode, reason : Reason,
                     mrm_active : BOOLEAN, is_attentive : BOOLEAN]

\* iterations is -1 for ever, otherwise the number of ticks.
BridgeOptions    == [notebook_input_alive : BOOLEAN, driver_override : BOOLEAN,
                     lkas_mode : LkasMode, iterations : Int]

ASSUME BridgeInputsAssumption ==
    /\ SpeedSamples \subseteq SpeedSample
    /\ LkasThrottles \subseteq Int
    /\ PerceptionSamples \subseteq PerceptionSample
    /\ CommandLines \subseteq BridgeOptions
    /\ DeltaS \in Int /\ Uptime \in Int
    /\ QueueCapacity \in Nat \ {0}
ASSUME NoneAssumption ==
    None \notin SpeedSample \cup PerceptionSample \cup Command \cup Int
                \cup LkasMode \cup Status
ASSUME BridgeRunCycleAssumption == 1 \in RunCycleIds

VARIABLES
    speed_slot, lkas_slot, perception_slot,     \* the samples written last
    unread,                                     \* the slots this process has not read since
    have_speed, have_lkas,                      \* both inputs have been seen
    speed_sample, lkas_throttle,                \* what the loop holds
    perception,                                 \* tick_is_attentive, tick_reason, ...
    grace_over,                                 \* 3 s have passed since the start
    iterations,
    options,                                    \* the command line
    actuator,                                   \* the last command written
    mrm_queue,                                  \* the LKAS modes of the MRM events
    queue_opens,                                \* mq_open of the queue would succeed
    status                                      \* the status in the socket

slotVars   == <<speed_slot, lkas_slot, perception_slot>>
heldVars   == <<have_speed, have_lkas, speed_sample, lkas_throttle, perception>>
outputVars == <<actuator, mrm_queue, queue_opens, status>>
bridgeVars == <<runtimeVars, slotVars, unread, heldVars, grace_over, iterations,
                options, outputVars>>

NoSpeed == [current_speed_kmh |-> 0, hardware_fault |-> FALSE]
SafePerception == [is_attentive |-> TRUE, reason |-> "NONE", camera_blocked |-> FALSE]

\* Up to the first iteration: runtime.ResetForNewRunCycle(1) has been called.
BridgeInit ==
    /\ options \in CommandLines
    /\ RuntimeInit /\ latched.run_cycle_id = 1 /\ lkas_mode = options.lkas_mode
    /\ speed_slot = None /\ lkas_slot = None /\ perception_slot = None
    /\ unread = {}
    /\ have_speed = FALSE /\ have_lkas = FALSE
    /\ speed_sample = NoSpeed
    /\ lkas_throttle = 0
    /\ perception = SafePerception
    /\ grace_over = FALSE
    /\ iterations = options.iterations
    /\ actuator = None /\ status = None
    /\ mrm_queue = <<>> /\ queue_opens \in BOOLEAN

Written == {name \in {"speed", "lkas", "perception"} :
                \/ name = "speed" /\ speed_slot # None
                \/ name = "lkas" /\ lkas_slot # None
                \/ name = "perception" /\ perception_slot # None}

\* The process ends and is started again.  The shared memory and the queue
\* outlive it, and it reads every slot anew.
Restart ==
    /\ StartCaller(1, options.lkas_mode)
    /\ have_speed' = FALSE /\ have_lkas' = FALSE
    /\ speed_sample' = NoSpeed /\ lkas_throttle' = 0 /\ perception' = SafePerception
    /\ grace_over' = FALSE
    /\ iterations' = options.iterations
    /\ unread' = Written
    /\ status' \in {status, None}
    /\ UNCHANGED <<slotVars, options, actuator, mrm_queue, queue_opens>>

-----------------------------------------------------------------------------
(* The loop *)

Inputs == {"speed", "lkas"}

\* A read returns true, and the sample, if it has not been read before.
Read(name, slot, held) == IF name \in unread THEN slot ELSE held

Received(name, have) == have \/ name \in unread

\* Lines 146-152: take what is new.
TakeSlots ==
    /\ have_speed' = Received("speed", have_speed) /\ have_lkas' = Received("lkas", have_lkas)
    /\ speed_sample' = Read("speed", speed_slot, speed_sample)
    /\ lkas_throttle' = Read("lkas", lkas_slot, lkas_throttle)

MutInputsReadyOnEither == have_speed' \/ have_lkas'
InputsReady == have_speed' /\ have_lkas'

MutTakePerceptionInGrace ==
    perception' = Read("perception", perception_slot, perception) /\ unread' = {}

MutTakePerceptionDiscards ==
    /\ unread' = {}
    /\ perception' = IF grace_over THEN Read("perception", perception_slot, perception)
                     ELSE perception

\* Lines 159-167: within the grace period the slot is not looked at.
TakePerception ==
    IF grace_over
    THEN perception' = Read("perception", perception_slot, perception) /\ unread' = {}
    ELSE perception' = perception /\ unread' = unread \ Inputs

\* speed_to_jetracer_input: 0..40 km/h become 0..100 percent.
SpeedToInput(kmh) == LET scaled == (5 * kmh) \div 2
                     IN  IF scaled < 0 THEN 0 ELSE IF scaled > 100 THEN 100 ELSE scaled

\* The Step B half of a tick, from what the loop holds.
BuildSample(seen, kmh) ==
    [is_attentive   |-> seen.is_attentive,
     reason         |-> seen.reason,
     reason_ts_ms   |-> 1,
     camera_blocked |-> seen.camera_blocked,
     blocked_for    |-> Uptime,
     jetracer_input |-> SpeedToInput(kmh),
     delta_s        |-> DeltaS]

\* The Step C half.
BuildRequest(throttle, opts) ==
    [notebook_input_alive |-> opts.notebook_input_alive,
     driver_override      |-> opts.driver_override,
     lkas_throttle        |-> throttle,
     lkas_switch_event    |-> "NONE"]

\* The runtime's inputs include all that the loop can build.
HeldSpeeds      == SpeedSamples \cup {NoSpeed}
HeldThrottles   == LkasThrottles \cup {0}
HeldPerceptions == PerceptionSamples \cup {SafePerception}

BuiltSamples  == {BuildSample(p, s.current_speed_kmh) : p \in HeldPerceptions, s \in HeldSpeeds}
BuiltRequests == {BuildRequest(t, o) : t \in HeldThrottles, o \in CommandLines}

ASSUME BuiltInputsAssumption ==
    /\ BuiltSamples \subseteq StepBInputs
    /\ BuiltRequests \subseteq StepCInputs

MutFinalThrottleRaw(fault, raw, limit) ==
    IF fault THEN 0 ELSE NonNegative(raw)
MutFinalThrottleThroughFault(fault, raw, limit) ==
    IF NonNegative(raw) < limit THEN NonNegative(raw) ELSE limit

\* std::clamp(raw_throttle, 0.0, limit), zero during a hardware fault.
FinalThrottle(fault, raw, limit) ==
    IF fault THEN 0
    ELSE IF NonNegative(raw) < limit THEN NonNegative(raw) ELSE limit

WriteCommand ==
    LET fault == speed_sample'.hardware_fault
    IN  actuator' = [final_throttle |-> FinalThrottle(fault, lkas_throttle' * Scale,
                                                      outC'.throttle_limit),
                     is_valid       |-> ~fault]

MutSendMrmUnbounded ==
    mrm_queue' = IF outC'.mrm_active /\ queue_opens THEN Append(mrm_queue, lkas_mode')
                 ELSE mrm_queue
MutSendMrmOnce ==
    mrm_queue' = IF outC'.mrm_active /\ ~outC.mrm_active
                    /\ queue_opens /\ Len(mrm_queue) < QueueCapacity
                 THEN Append(mrm_queue, lkas_mode') ELSE mrm_queue

\* send_mrm_event: the event is lost when mq_open fails, and when the queue is
\* full and mq_send does not wait.
SendMrmEvent ==
    mrm_queue' = IF outC'.mrm_active /\ queue_opens /\ Len(mrm_queue) < QueueCapacity
                 THEN Append(mrm_queue, lkas_mode') ELSE mrm_queue

MutStatusLineMixesTicks ==
    [driver_state |-> outB'.next_state, hmi_action |-> outC'.hmi_action,
     lkas_mode    |-> lkas_mode,        reason     |-> outB'.reason,
     mrm_active   |-> outC'.mrm_active, is_attentive |-> perception'.is_attentive]

StatusLine ==
    [driver_state |-> outB'.next_state, hmi_action |-> outC'.hmi_action,
     lkas_mode    |-> lkas_mode',       reason     |-> outB'.reason,
     mrm_active   |-> outC'.mrm_active, is_attentive |-> perception'.is_attentive]

\* zmq_send(..., ZMQ_NOBLOCK) with a high water mark of one message.
PublishStatus == status' = IF status = None THEN StatusLine ELSE status

MutCountedStopsShort == iterations' = IF iterations > 1 THEN iterations - 1 ELSE iterations
Counted == iterations' = IF iterations > 0 THEN iterations - 1 ELSE iterations

\* Lines 154-157: until both samples have been seen an iteration ends here,
\* without being counted.
WaitForInputs ==
    /\ iterations # 0
    /\ TakeSlots
    /\ ~InputsReady
    /\ unread' = unread \ Inputs
    /\ UNCHANGED <<runtimeVars, slotVars, perception, grace_over, iterations, options,
                   outputVars>>

TickRuntime == Tick(BuildSample(perception', speed_sample'.current_speed_kmh),
                    BuildRequest(lkas_throttle', options))

\* An iteration with complete inputs, lines 145-248.  It works on copies and
\* waits for nobody, so what the other processes do meanwhile only counts for
\* the next one.
TickAndPublish ==
    /\ iterations # 0
    /\ TakeSlots
    /\ InputsReady
    /\ TakePerception
    /\ TickRuntime
    /\ WriteCommand /\ SendMrmEvent /\ PublishStatus /\ Counted
    /\ UNCHANGED <<slotVars, grace_over, options, queue_opens>>

LoopStep == WaitForInputs \/ TickAndPublish

-----------------------------------------------------------------------------
(* The other processes *)

loopVars == <<runtimeVars, heldVars, iterations, options>>

WriteSpeed(sample) ==
    /\ speed_slot' = sample /\ unread' = unread \cup {"speed"}
    /\ UNCHANGED <<loopVars, lkas_slot, perception_slot, grace_over, outputVars>>

WriteLkas(throttle) ==
    /\ lkas_slot' = throttle /\ unread' = unread \cup {"lkas"}
    /\ UNCHANGED <<loopVars, speed_slot, perception_slot, grace_over, outputVars>>

WritePerception(sample) ==
    /\ perception_slot' = sample /\ unread' = unread \cup {"perception"}
    /\ UNCHANGED <<loopVars, speed_slot, lkas_slot, grace_over, outputVars>>

GraceEnds ==
    /\ ~grace_over
    /\ grace_over' = TRUE
    /\ UNCHANGED <<loopVars, slotVars, unread, outputVars>>

TakeMrmEvent ==
    /\ mrm_queue # <<>>
    /\ mrm_queue' = Tail(mrm_queue)
    /\ UNCHANGED <<loopVars, slotVars, unread, grace_over, actuator, queue_opens, status>>

TakeStatus ==
    /\ status # None
    /\ status' = None
    /\ UNCHANGED <<loopVars, slotVars, unread, grace_over, actuator, mrm_queue, queue_opens>>

\* The queue cannot be opened any more (its permissions, no free descriptor, no
\* room for a new queue), or can be again.
QueueChanges ==
    /\ queue_opens' = ~queue_opens
    /\ UNCHANGED <<loopVars, slotVars, unread, grace_over, actuator, mrm_queue, status>>

EnvironmentStep == \/ \E s \in SpeedSamples : WriteSpeed(s)
                   \/ \E t \in LkasThrottles : WriteLkas(t)
                   \/ \E p \in PerceptionSamples : WritePerception(p)
                   \/ GraceEnds
                   \/ TakeMrmEvent
                   \/ TakeStatus
                   \/ QueueChanges

BridgeNext == LoopStep \/ EnvironmentStep \/ Restart

\* The loop only sleeps for bounded times, so it keeps running, and so does the
\* clock; the consumers of its outputs are assumed to keep reading; the writers
\* of its inputs may stop for ever, and nobody has to restart the process.
BridgeSpec == /\ BridgeInit /\ [][BridgeNext]_bridgeVars
              /\ WF_bridgeVars(LoopStep) /\ WF_bridgeVars(GraceEnds)
              /\ WF_bridgeVars(TakeMrmEvent) /\ WF_bridgeVars(TakeStatus)

-----------------------------------------------------------------------------
(* Properties *)

\* What the loop holds and writes has the types of the code; it takes nothing
\* from a slot that was never written (dcas_rt_bridge.cpp:127-135, 202-243).
BridgeTypeOK ==
    /\ RuntimeTypeOK
    /\ speed_slot \in SpeedSample \cup {None} /\ lkas_slot \in Int \cup {None}
    /\ perception_slot \in PerceptionSample \cup {None} /\ grace_over \in BOOLEAN
    /\ unread \subseteq Written
    /\ have_speed \in BOOLEAN /\ have_lkas \in BOOLEAN
    /\ speed_sample \in SpeedSample /\ lkas_throttle \in Int
    /\ perception \in PerceptionSample
    /\ iterations \in Int /\ options \in BridgeOptions
    /\ actuator \in Command \cup {None}
    /\ mrm_queue \in Seq(LkasMode) /\ Len(mrm_queue) <= QueueCapacity
    /\ queue_opens \in BOOLEAN
    /\ status \in Status \cup {None}

\* From the first tick of a process on, the car never gets more throttle than
\* the policy of that tick allows, none once the driver is ABSENT, and no valid
\* command while the actuator reports a hardware fault
\* (dcas_rt_bridge.cpp:202-212).
CommandObeysPolicy ==
    actuator # None /\ have_speed /\ have_lkas =>
        /\ actuator.final_throttle \in 0 .. outC.throttle_limit
        /\ absent_latched_run_cycle => actuator.final_throttle = 0
        /\ speed_sample.hardware_fault =>
              actuator.final_throttle = 0 /\ ~actuator.is_valid

\* A process that has not seen both inputs does nothing, whatever a process
\* before it has left behind: no command, no event, no status, no judgement of
\* the driver (dcas_rt_bridge.cpp:129-157).
QuietBeforeInputs ==
    [][ ~(have_speed' /\ have_lkas') =>
          /\ actuator' = actuator
          /\ Len(mrm_queue') <= Len(mrm_queue)
          /\ status' \in {status, None}
          /\ timers' = <<0, 0>> /\ current_state' = "OK" ]_bridgeVars

\* Whatever the slot holds from an earlier run, no driver is warned or stopped
\* because of it until the grace period is over (dcas_rt_bridge.cpp:132-167).
CalmInGrace ==
    ~grace_over => current_state = "OK" /\ ~outC.mrm_active /\ latest_reason = "NONE"

\* A status never mixes what belongs to different ticks or contradicts itself:
\* a manoeuvre only with an ABSENT driver, active assistance and a silent HMI
\* without a reason only with an OK one.  It may be old, for the socket drops
\* the newer ones (dcas_rt_bridge.cpp:186-187, 230-242).
StatusIsCoherent ==
    status # None =>
        /\ status.mrm_active => status.driver_state = "ABSENT"
        /\ status.mrm_active <=> status.hmi_action = "MRM"
        /\ status.lkas_mode = "ON_ACTIVE" => status.driver_state = "OK"
        /\ status.driver_state = "OK" => status.hmi_action = "INFO" /\ status.reason = "NONE"

PerceptionValue == INSTANCE LatestValue WITH
                       Samples <- PerceptionSamples \cup {SafePerception},
                       Default <- SafePerception,
                       latest  <- IF perception_slot = None THEN SafePerception
                                  ELSE perception_slot,
                       settled <- TRUE,
                       fresh   <- "perception" \in unread,
                       taken   <- perception

\* The perception slot, as the loop reads it, keeps what PerceptionSlot shows of
\* the words in it: the loop comes to hold the sample written last, also if it
\* was written within the grace period or before this process was started
\* (dcas_rt_bridge.cpp:132-135, 159-167).
RefinesLatestValue == PerceptionValue!Spec

\* The bridge never asks LKAS to switch on, so a driver who was inattentive
\* once gets no active assistance for the rest of the process; a new process
\* gives it only if its command line says so (dcas_rt_bridge.cpp:72, 88-89,
\* 180-187).  control-policy-Baseline.md:315 asks for it; line 132 says otherwise,
\* see PolicyDocuments.
StaysInactive ==
    [][ lkas_mode # "ON_ACTIVE" /\ lkas_mode' = "ON_ACTIVE" =>
          Restart /\ options.lkas_mode = "ON_ACTIVE" ]_bridgeVars

\* A driver last reported inattentive is stopped in the end, and stays stopped,
\* even if the feeder, the actuator and LKAS fall silent and the process is
\* started again in between: the loop judges by the samples it holds, and a new
\* one finds the last of them in the slots (dcas_rt_bridge.cpp:145-187).
SilentInattentionEndsInAbsent ==
    <>[](/\ have_speed /\ have_lkas /\ iterations # 0
         /\ perception_slot # None
         /\ ~perception_slot.is_attentive /\ ~perception_slot.camera_blocked)
    => <>[]absent_latched_run_cycle

\* A stop reaches its listeners although the queue and the socket lose
\* messages: both are written again on every tick.  The viewer learns that the
\* driver is ABSENT, and LKAS that it is off if from some point on the queue can
\* be opened, unless the process ends first (dcas_rt_bridge.cpp:53-61, 226-243).
StopIsAnnounced ==
    LET Over == ~absent_latched_run_cycle \/ iterations = 0
    IN  /\ <>[]queue_opens =>
             (absent_latched_run_cycle /\ ~options.driver_override) ~>
                 (Over \/ (mrm_queue # <<>> /\ Head(mrm_queue) = "OFF"))
        /\ absent_latched_run_cycle ~>
             (Over \/ (status # None /\ status.driver_state = "ABSENT"))

\* --iterations n ends by itself once both inputs have been seen, although the
\* iterations before that are not counted (dcas_rt_bridge.cpp:145-157,
\* 245-247).
BoundedRunEnds ==
    options.iterations > 0 /\ <>[](have_speed /\ have_lkas) => <>(iterations = 0)

\* A blocked camera leads to WARNING before it leads to ABSENT: "camera blocked
\* < 10s should enter WARNING" (tests/test_policy.cpp:451).
BlockedCameraWarnsFirst ==
    [][ current_state # "ABSENT" /\ outB'.next_state = "ABSENT"
        /\ outB'.reason = "BLOCKED_CAMERA" => outB.reason = "BLOCKED_CAMERA" ]_bridgeVars
=============================================================================
