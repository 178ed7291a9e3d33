# A TLA+ model of the DCAS policy engine

DCAS (driver control assistance) watches the driver through a perception
service and limits, or takes away, the lane keeping assistant's (LKAS) throttle
when the driver does not. This directory holds TLA+ modules translated from the
source, the TLC configurations that check them, and TLAPS proofs about them.
Paths below are relative to the repository.

## 1. Inventory

| Component | Source | State it keeps | Operations |
| --- | --- | --- | --- |
| Step B transition engine | `src/step_b.cpp`, `state_timer_store.hpp`, `threshold_scheduler.hpp`, `speed_band_estimator.hpp`, `perception_adapter.hpp` | driver state, inattention and recovery timers, ABSENT latch, latest reason and its timestamp | `Evaluate`, `ResetForNewRunCycle` |
| Step C policy engine | `src/step_c.cpp` | none: a function of its input | `Evaluate` |
| Policy runtime | `src/policy_runtime.cpp` | Step B's store, Step C's latched state (override lock, MRM counter, run cycle) | `Tick`, `ResetForNewRunCycle` |
| CLI runner | `src/main.cpp` | its options, the tick counter, the LKAS mode and switch event it feeds back | reading the options, the mock loop, its exits |
| Real-time bridge | `src/dcas_rt_bridge.cpp` | last speed, LKAS and perception samples, start-up grace, LKAS mode, options | the control loop, MRM event queue, status publisher; ending and starting again |
| Perception feeder and slot | `src/perception_feeder.py` | the shared-memory slot and its sequence number | write, restart |
| Web viewer | `src/dcas_web_viewer.py` | WebSocket clients, pending sends, subscriber threads, rate limits | broadcast, connect, start, stop |
| Browser page | `src/dcas_viewer.html` | connection, last shown state | connect, reconnect, apply |
| Outside the repository | rt-control-ipc, LKAS, actuator, `common.communication` | | |

How they interact. A perception service publishes samples; the feeder copies
each into a shared-memory slot; the bridge's loop reads the slot, the speed and
the LKAS request, and calls `PolicyRuntime::Tick`, which evaluates Step B, then
Step C on Step B's output and the latched state of the previous ticks. The
bridge writes the clamped throttle to the actuator, queues an MRM event while
the minimum-risk manoeuvre is active, and publishes a status that the web
viewer forwards to browsers. The CLI runner drives the same runtime with mock
input. Both callers feed the next LKAS mode back as the previous one.

What is hard: Step B's early returns (latch, blocked camera, critical reason)
freeze and later reuse timers and reasons; thresholds change with speed in the
middle of an episode; the latch lives in Step B and the lock that depends on it
in Step C; the LKAS mode lives with the caller; and around the engine, readers
and writers of shared memory run concurrently, inputs go stale, queues fill up
and processes restart. `PROJECT.json` lists each hazard at its line; four have no
property, for want of a document that promises anything, and say so.

What makes each part correct:

* Step B: inattention, as the code counts it, is answered by a state that never
  lags the slowest thresholds; no alarm without a cause; ABSENT is final in a
  run cycle; latch, state and output agree; late reasons do not replace newer
  ones; recovery takes unbroken attention.
* Step C and runtime: ABSENT means no throttle and a running manoeuvre unless
  overridden; only an ABSENT driver is locked out; the lock is final; throttle is
  never amplified; assistance is active only with its conditions and never
  becomes active by itself.
* Bridge: the actuator gets no more than the policy allows, nothing before the
  inputs have arrived, and nothing valid during a hardware fault; a status does
  not mix two ticks; a driver who stays inattentive is eventually stopped, also
  when the inputs fall silent or the process is started again.
* Slot: a reader that is caught up holds the last message, whole, but for two
  named cases; every message is visible when it is published, across restarts
  and wrap-around.
* CLI runner: a command line means the same in whatever order it is written, and
  what its ticks end in can be told from it; every command line ends.
* Viewer: a slow client never blocks the others and holds one frame at most; no
  client is taken for an earlier one with the same id; the last state reaches
  every connected page, and no page goes back to an older one.

## 2. Modules

| Module | Models | Notes |
| --- | --- | --- |
| `DcasTypes` | `types.hpp` | enumerations, critical reasons |
| `StepB` | Step B | one action per branch of `Evaluate`, plus the reset |
| `StepBHistory` | Step B observed | auxiliary variables: unbroken attention, critical reason received |
| `StepC` | Step C | operators only |
| `PolicyRuntime` | the runtime and its caller | `Tick` is Step B's `Evaluate` and Step C on its primed output; `StartCaller` is a caller that starts, with a new runtime |
| `PolicyDocuments` | the runtime observed | auxiliary variables: rules of the documents, and which of them have been broken |
| `StopProtocol` | abstract specification | what the engine promises about stopping |
| `LatestValue` | abstract specification | what a shared-memory slot promises its reader |
| `PerceptionSlot` | feeder and reader of the slot | word by word, with restarts |
| `RtBridge` | the control loop, its restarts, and the processes around it | extends `PolicyRuntime`: an iteration contains its `Tick` |
| `CliRunner` | the command line and the mock loop | extends `PolicyRuntime`, as the bridge does |
| `WebViewer` | viewer and pages | lock, event loop and threads |
| `MCStepB`, `MCPolicyRuntime`, `MCPolicyDocuments`, `MCRtBridge`, `MCCliRunner` | inputs for TLC | |
| `StepB_proofs`, `StepBHistory_proofs`, `PolicyRuntime_proofs`, `PerceptionSlot_proofs`, `RtBridge_proofs`, `CliRunner_proofs`, `CliCommandLine_proofs`, `WebViewer_proofs` | TLAPS proofs | |

`PolicyRuntime` implements `StopProtocol`; so do `RtBridge`, whose iterations
contain its tick, and `CliRunner`. `PerceptionSlot` implements `LatestValue`
word by word, and the perception slot of `RtBridge`, which is written and read
in one step, implements it too: that is what allows the bridge's model to leave
the words out. Where the implementations differ from the register is stated
there: a sample that is not yet settled may be torn, and stays so in the two
cases `PerceptionSlot` names. Operators named `Mut...` are faulty variants of
the definition that follows them; each property is checked to fail when its
variant is put in place.

### Correspondence

**Step B, Step C, runtime.** The variables of `StepB` are the fields of
`StepBStateStore` plus the last `StepBOutput`. `Evaluate(in)` is the disjunction
of the function's exits in their order: `HoldAbsent` (lines 38-48),
`BlockedCameraWarning` (57-67), `LatchCritical` (70-80), `AttentiveStep` and
`InattentiveStep` (82-122); adopting a reason (29-36) is part of each.
`PolicyRuntime` adds `step_c_latched_state_`, the caller's `lkas_mode`, the last
request and output, and an auxiliary counter of MRM activations. A caller may
start anew at any time (`CallerStarts`), which is how a restarted bridge and a
CLI runner whose options are complete appear to the runtime.

**Slot.** The feeder stores the words of a sample and then the sequence number
(`StoreWord`, `StoreSeq`), without a barrier: the target is weakly ordered, so
the stores become visible in any order. The reader loads the number and copies
word by word (`LoadSeq`, `CopyWord`, `TakeSample`); either may be killed and
started at any point. A word holds the message it comes from, so torn samples
are visible. The auxiliary variable `early` says that the reader loaded the
number before the words it announces were visible. The reader is outside the
repository and modelled from its use.

**Bridge.** An iteration is one action, `WaitForInputs` or `TickAndPublish`,
because it takes copies of its inputs first and then waits for nobody: what the
others do meanwhile is seen by the next iteration. The others are actions of
their own: writers of the three inputs, readers of the MRM queue and the status,
the end of the grace period. `queue_opens` says whether `mq_open` succeeds
(`QueueChanges`, at any time): while it fails, `SendMrmEvent` returns early and
every event is lost (lines 54-57). `unread` holds the slots written since this
process read them last. `Restart` ends the process at any point between two
iterations and starts it with the same options: runtime, held samples and grace
period are new, the slots, the queue and the last command are still there, and
the status may be lost with the socket. An iteration cut short by a crash is not
told apart from a crash before or after it. `camera_blocked_ts_ms` is never set
by the loop, so Step B gets the time since boot (`Uptime`) as the length of a
blockage.

**CLI runner.** Each kind of word is an action: `ReadOption` (a name and its
value), `MissingValue`, `UnreadableNumber` (the exception of `std::stoi` or
`std::stod`, which nobody catches), `Help`, `UnknownOption`; then `StartTicks`
(lines 124-128), one `RunTick` per tick, and `Finish`. `Whole` and `Tenths` say
what the standard library makes of a word; one set of integers stands for those that
`std::stoi` and `std::stoll` accept, whose ranges differ.

**Viewer.** `handler[h]` is where the coroutine `_ws_handler` of connection `h` is,
`loop_at` the handler that holds up the event loop while it waits for the lock,
`thread[t]` where a subscriber is; a broadcast visits its clients one step at a
time. A handle is the `id()` of a connection's object and is used again.

### Abstractions

Time in the engine is in tenths of a second, exact for every threshold; the
speed input is a percentage of its range; throttle limits are integers of 1/100
percent, so that gains 0.6, 0.2 and 0.9 are exact. Timestamps of attention and
of the camera appear only as their difference, as in the code. Copies to the
dashboard and the log, and `input_snapshot_ts_ms`, are left out; so is the
branch for an invalid snapshot, which `Normalize` never produces. Rounding of
doubles is not modelled. The recovery timer is counted up to the hold of 3 s
(`UpToHold`), since the code compares it with nothing larger. The MRM counter
has a width: it wraps at the constant `IntMax`, as the build does on signed
overflow. The viewer's statuses are the numbers of the bridge's successive
states, and repetitions of one status in a connection count once; frames have no
content.

The inputs of both steps are CONSTANT sets. TLC gets small ones; the theorems
hold for all of them.

## 3. Runs

Passing runs:

* `stepb_all`: types, `AbsentIffLatched`, `InattentionIsAnswered`,
  `CriticalReasonOnlyWaitsForCamera`, `AbsentIsFinal`, `AlarmIsJustified`,
  `ReasonNeverGoesBack`, `RecoveryIsContinuous`. Samples: ticks of 0.2 s and 1 s
  and a negative one, all bands, reasons with timestamps out of order, blockages
  of 0, 8 and 10 s.
* `runtime`: the composed engine, every request (alive, override, switch, a
  positive and a negative throttle), two run cycles, a counter that wraps at 3;
  its invariants and action properties, and that it implements `StopProtocol`.
* `slot`: two words, two messages, sequence numbers up to 3, stores in any order,
  one restart of the reader, any number of restarts of the feeder: 403,534 states.
  `PublishIsVisible`; `CaughtUpMeansCurrent` and `LastMessageArrives`, which name
  the two cases in which a torn or old sample lasts (the feeder died while it
  stored; `early`); and that the slot implements `LatestValue`.
* `bridge`: a slow speed and a fast one with a hardware fault, four drivers, two
  command lines (the defaults; a driver who overrides, with a dead notebook), a
  queue of one message that can be opened or not, restarts at any time: 1,379,232
  states. `CommandObeysPolicy`, `CalmInGrace`,
  `StatusIsCoherent`, `QuietBeforeInputs`.
* `bridge_liveness`: one speed, three drivers, a bounded run and an endless one.
  Inattention ends in a stop although the inputs fall silent and the process is
  started again; a stop is announced although queue and socket lose messages, to
  the viewer always and to LKAS if from some point on its queue can be opened; a
  bounded run ends.
* `cli`: four scenarios (the defaults, three ticks of inattention, three around
  the absent threshold of a blocked camera, three with timestamps that start
  below 0), each followed by up to two more options, good or bad.
  `CommandLineIsObeyed`, `OutcomeIsPredictable`, `AssistanceAsAsked`,
  `EveryCommandLineEnds`.
* `viewer`: two pages, two connections, two frame threads and the status thread.
  The safety properties.
* `viewer_liveness`: one page that takes what it is sent and one that takes
  nothing or keeps reloading, no frames; a page that keeps its connection ends up
  showing the bridge's state.

Runs that exhibit a disagreement between code and documents or tests (each
checks one property and TLC finds a counterexample; `findings` in
`PROJECT.json` quotes the text):

* `stepb_critical_while_blocked`: a critical reason during a short blockage does
  not make the driver ABSENT.
* `runtime_documents`: eight rules of the documents, see below.
* `bridge_blocked_camera`: in the bridge the first blocked sample makes the
  driver ABSENT.
* `slot_restart_at_wrap`: a feeder started when the slot holds the largest
  sequence number resumes with one that does not fit, and dies.

### Where the documents say something else

`state-machine-Baseline.md` (SM), `control-policy-Baseline.md` (CP) and a test make
rules that the engine does not keep. `PolicyDocuments` states each as a predicate on
one tick and records in `broken` which have been broken; its `pending` is the
inattention timer as the documents keep it. If the documents held, `broken` would
stay empty. The run checks a weak consequence of that, `SomeRuleIsKept` (not all
of them are broken), so that its one counterexample, of 13 ticks of one caller,
goes through every rule:

| Rule | Documents | Code |
| --- | --- | --- |
| `GlancesDoNotHelp` | a glance keeps the inattention timer (SM:347-369) | zeroes it (state_timer_store.hpp:24) |
| `SpeedDoesNotSoften` | no softening of a graver state (CP:183, SM:280, 293-303) | ESCALATION becomes WARNING when the speed band drops (step_b.cpp:98-101) |
| `GlancesDoNotSoften` | the same | and when the driver looks away again after a glance |
| `CameraDoesNotSoften` | the same | and when the camera is blocked (step_b.cpp:58) |
| `IntoxicatedIsLockedOut` | the override is locked at once (CP:192, 300, 444, 447) | an override before the second tick is obeyed (step_c.cpp:57) |
| `UnresponsiveMayTakeOver` | never locked (CP:193, 260, 445) | locked at the second tick (step_c.cpp:86) |
| `LockoutNeedsTwoActivations` | locked at the second manoeuvre (test_policy.cpp:242, CP:320, 327) | at the second tick of the first (step_c.cpp:81) |
| `StartsWhenConditionsAreMet` | a waiting LKAS starts when it can (CP:132; CP:124 says otherwise) | only on a switch-on event (step_c.cpp:44-55) |

The passing properties state what the code promises: `InattentionIsAnswered` is
about the code's timer, `AlarmIsJustified` about rises of the state only,
`NoAutomaticResume` and `AssistanceAsAsked` follow CP:124, `StopProtocol` has
the lock after two ticks whatever the reason, and in `OutcomeIsPredictable` an
override from the first tick on is obeyed, an intoxicated driver's too. One more
remark: the throttle gains are those of CP:176-179; `DCAS_TEST_SCENARIOS.md`
still gives older ones, 0.7 and 0.3.

### Bounds

No state constraint is used, so no behaviour is cut off. Inattention is bounded
by the latch (it stops at the absent threshold), recovery by `UpToHold`. Ticks
of 0.2 s and 1 s reach every threshold from both sides; in `runtime` ticks are
1.5 s and 2 s, in the bridge 3 s, so that every state is still reached: at its
two speeds inattention is WARNING after one tick, ESCALATION after two and
ABSENT after three or four. `IntMax = 3` lets the counter pass the lock
threshold and wrap (2 in the bridge). In `slot`, `SeqMax = 3` wraps in a few
messages and `MaxLag = 2` keeps the writer from lapping the reader by a full
round of numbers: with the code's 2^32 numbers and 30 messages a second that
takes four years between two looks of the reader. `MaxReaderRestarts = 1` is
enough for a reader that starts in the middle of a store. In the viewer two
pages and two connections suffice for one page to reload into the id the other
had; `MaxChanges = 1` gives an old and a new status to mix up; `Interval = 2`
lets statuses arrive several times within an interval. In `cli` two options more
than the scenario's bring every option before or after every other, and repeat
it; `StepBInputs` and `StepCInputs` are empty there because the runner builds
its own. Deadlock is checked everywhere but in `cli`, whose process ends.

### Fairness

`StepB`, `PolicyRuntime` and their runs check safety only: a caller may stop
ticking. `PerceptionSlot` assumes that the reader keeps reading (WF of
`ReaderStep`): the loop polls it in every iteration. `RtBridge` assumes WF of
`LoopStep`, since an iteration only sleeps for a bounded time, of the end of the
grace period, and of the readers of its two outputs; the writers of its inputs
get none, so they may stop for ever, nobody has to start the process again, and
the queue need not be opened ever. `CliRunner` assumes WF of its next step: the
process waits for nobody. `WebViewer` assumes that a thread or handler that
waits for the lock gets it in the end (SF: it is held for microseconds, a few
dozen times a second), that the event loop, which serves its tasks in order,
finishes the sends to prompt pages (SF), and WF of the bridge's publishing, of
receiving a status and of the clock. Pages, frames and sends to other pages get
no fairness.

## 4. Proofs

Assumed of the constants: samples, requests and run cycles are well typed,
`IntMax >= 2`, `SeqMax >= 2`, `MaxLag < SeqMax`, a command line is a sequence of
words, and the model values that stand for "none", or for a process that has not
ended, are not data. Nothing else bounds them.

* `StepB_proofs`: `StepBInv` (types, `AbsentIffLatched`,
  `InattentionIsAnswered`, `ReengagementWindow`) is inductive. They need each
  other: a blocked camera leaves the timers alone, so `InattentionIsAnswered`
  survives it only because an unlatched driver is below the absent threshold,
  which is `AbsentIffLatched` together with itself. There is one lemma per
  branch of `Evaluate`. `AbsentIsFinal`, `AlarmIsJustified` and
  `ReasonNeverGoesBack` follow from it as action properties.
  `ReengagementWindow` (re-engagement is reported only between its confirmation
  and the return to OK) is part of `StepBInv` and proved only, in no run;
  `CriticalReasonOnlyWaitsForCamera` has an inductive argument of its own.
* `StepBHistory_proofs`: `HistoryInv` adds to `StepBInv` that an unlatched recovery
  timer counts no more than the unbroken attention up to now, unless a blocked
  camera came between; `RecoveryIsContinuous` follows. Under `ClearCamera` (no
  sample reports a blocked camera) `CriticalReasonLatches` holds, which the run
  `stepb_critical_while_blocked` refutes without it.
* `PolicyRuntime_proofs`: Step C's operators are characterised by lemmas
  (`ThrottleLimitBound`, `PolicyFacts`, `LatchedFacts`, `ModeFacts`), and
  `SeverityCutsThrottle` says that they respect the order of the driver states: a
  worse state never allows more throttle, whatever the reasons. `RuntimeInv`
  adds to `StepBInv` the invariants that relate the steps. `LockoutAccounting` is
  the strengthening: a lock, or a nonzero count, finds the driver ABSENT, and
  without a lock the count is at most one, however the counter wraps later.
  From it follow `LockIsFinal`, `NoAutomaticResume` and
  `RuntimeRefinesStopProtocol` (initial states map to initial states; a tick maps
  to `Assist`, `Manoeuvre` or `TakeOver`).
* `PerceptionSlot_proofs`: `PublishIsVisible` for every `SeqMax` in any store order,
  from an invariant that counts how far the slot's number is ahead of the
  reader's; `CaughtUpMeansCurrent`, in any store order too, from what the slot and
  the reader's copy contain unless the number was loaded too early
  (`ContentInv`). From the two invariants follows `SlotRefinesLatestValue`:
  storing the number is the register's `Publish`, taking a sample its `Take`, a
  restart of the reader its `Forget`; to begin a message disturbs it, the last
  store settles it, and all other steps leave it alone.
* `RtBridge_proofs`: every iteration is a `Tick` of the runtime, a restart is a
  caller that starts, and all else leaves the runtime alone (the lemma
  `BridgeImplementsRuntime`, which is by construction), so the runtime's
  theorems, and the stop protocol, hold in the bridge; then its own safety
  properties. `HeldInv` (the loop holds nothing but samples) makes the iteration
  a tick on allowed inputs, `StatusInv` gives `StatusIsCoherent`. Proved only,
  and in no run: `StaysInactive` (assistance that was given up does not come
  back while the process lives); `BridgeWorksWithLatest` (an iteration works
  with the samples written last, from `LatestInv`: what is not unread is held)
  and `BridgeRefinesLatestValue`; and the safety halves of the liveness
  properties, listed below.
* `CliRunner_proofs`: the runner drives the runtime as specified
  (`CliKeepsRuntimeInv`), and `CliOutcomeIsPredictable`: what n ticks end in, in
  closed form, for every n, `--dt` and pair of timestamps. `ForeseenInv` is the
  invariant: as long as the driver is not ABSENT, the stored reason is not
  critical and the inattention timer is n times `--dt`; `TickOutcome` takes it
  through one tick, branch by branch, and `OutcomeStays` says that ABSENT, once
  foreseen, is foreseen for all later ticks. `OverrideInv` adds that who overrides
  from the first tick on is never locked out.
* `CliCommandLine_proofs`: `CliObeysTheCommandLine` for every sequence of words. The
  invariant `ReadInv` says at every word what the property says at the end: all
  names and values read so far are good, and each variable holds what it makes of
  the value read last, or its default. `ReadPlaces` is the step: the place just
  read is the last of its option and changes no other's. `CliAssistanceAsAsked`
  adds the ticks: `TickAssistance` is one tick, and `OutcomeOkBefore` says that a
  driver who is foreseen to be OK was so at every earlier tick.
  `CliRefinesStopProtocol` takes the stop protocol from the runtime to the runner.
* `WebViewer_proofs`: `ViewerInv` relates handlers, lock and futures: while a
  handler runs, its client is thought busy exactly when it has an unfinished
  frame. `OrderInv` orders the statuses along their way: page, sends, message,
  socket, bridge; `PageNeverGoesBack` follows.

The type invariant of every module is proved, too.

Only model-checked: the liveness properties, which are outside this prover. For
most of them what each step contributes is proved, so that what TLC adds on small
instances is mainly that the next step is taken:

| Liveness property | Proved for every instance |
| --- | --- |
| `SilentInattentionEndsInAbsent` | `BridgeInattentionRunsOut`: an iteration on an inattentive sample finds the driver ABSENT or uses up `--dt` of the time that is left; between iterations nothing but a restart gives time back |
| `BoundedRunEnds` | `BridgeCountsDown`: every tick uses up an iteration, no other step of the process changes their number |
| `StopIsAnnounced` | `BridgeStopIsWritten`: a tick with an ABSENT driver writes ABSENT into a free socket and, from the second tick of the manoeuvre on, OFF into a queue that can be opened and is empty, into none that cannot; it rests on `BridgeLockedMeansOff` |
| `LastMessageArrives` | `SlotPublishIsVisible`, `SlotCaughtUpMeansCurrent` |
| `EveryCommandLineEnds` | `CliEndsOnTime` (no exit in the middle of the ticks), `CliRunsOut` (every step uses up a word or a tick, or ends) |
| `PagesLearnStatus` | none |

With `--dt 0` time never runs out, so `SilentInattentionEndsInAbsent` is claimed for
a positive `DeltaS` only, as in its run.

## 5. Plan

Done: Step B, Step C, runtime, stop protocol; slot; bridge with its restarts;
CLI runner; viewer; a proof module for each; the register that the slot, and the
bridge's use of it, implement. Left:

1. The viewer's promise as an abstract specification: a page shows ever newer
   states and, once left alone, the last; what each step adds to
   `PagesLearnStatus` as a theorem.
2. Starting and stopping the viewer, once `asyncio` and `websockets` have a model
   of their own: what `stop` waits for depends on how they end their tasks.

## 6. Not modelled

The bridge's reading of its options (their values are in `CommandLines`),
formatting of output, the layout of the page (a reason keeps the class of a
blocked camera, dcas_viewer.html:427), the HTTP server, encoding of frames,
starting and stopping the viewer (the program ends with it, and what a shutdown
that overlaps with handlers and sends does is decided inside `asyncio`, whose
tasks and callbacks are not in the repository), wall clocks that are set back
(the viewer's rate limits compare wall clock times), rounding of doubles, the
relation of `--dt` to the period of the loop (its default is twice the default
period), build files and the documents themselves. rt-control-ipc, LKAS, the
actuator, websockets and `common.communication` are not in the repository; they
are modelled from their use and marked external. `build/` is generated.
