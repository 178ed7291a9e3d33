----------------------------- MODULE CliRunner -----------------------------
(***************************************************************************)
(* The command line runner, main.cpp: it reads its options one by one and  *)
(* then repeats a mock tick of the policy runtime.  A bad command line     *)
(* ends it before the first tick.                                          *)
(*                                                                         *)
(* A command line is a sequence of words.  What the standard library makes *)
(* of a word is a parameter: Whole for std::stoi and std::stoll, Tenths    *)
(* for std::stod, times ten; a word outside their domains makes them throw *)
(* and, as nobody catches it, the process abort.  The line printed for a   *)
(* tick is left out: it copies what Tick returns.                          *)
(***************************************************************************)
EXTENDS PolicyRuntime, Sequences, FiniteSetsExt

CONSTANTS
    CommandLines,   \* argv[1], argv[2], ... as the runner may be given them
    Whole, Tenths,
    Running         \* the exit code of a process that has none yet

ASSUME WordsAssumption ==
    /\ \A w \in DOMAIN Whole : Whole[w] \in Int
    /\ \A w \in DOMAIN Tenths : Tenths[w] \in Int
ASSUME CliRunCycleAssumption == 1 \in RunCycleIds
ASSUME RunningAssumption == Running \notin {"0", "2", "aborted"}
ASSUME CommandLinesAssumption == \A line \in CommandLines : line \in Seq(STRING)

VARIABLES
    argv, i,        \* the words and the position of the next one
    opts,           \* main's local variables
    ticking, tick,  \* the loop of the ticks and its counter
    exit_code

lineVars == <<argv, i, opts>>
loopVars == <<ticking, tick, exit_code>>
cliVars  == <<runtimeVars, lineVars, loopVars>>

CliOptions ==
    [is_attentive : BOOLEAN, reason : Reason, is_attentive_ts_ms : Int,
     reason_ts_ms : Int, reason_ts_overridden : BOOLEAN, delta_s : Int, ticks : Int,
     jetracer_input : Int, lkas_throttle : Int, lkas_mode : LkasMode,
     switch_event : LkasSwitchEvent, driver_override : BOOLEAN,
     notebook_alive : BOOLEAN, camera_blocked : BOOLEAN, camera_blocked_ts_ms : Int]

\* Durations in tenths of a second, speed and throttle in percent, as in StepB
\* and StepC.
Defaults ==
    [is_attentive |-> FALSE, reason |-> "DROWSY", is_attentive_ts_ms |-> 1000,
     reason_ts_ms |-> 1000, reason_ts_overridden |-> FALSE, delta_s |-> 25, ticks |-> 1,
     jetracer_input |-> 50, lkas_throttle |-> 50, lkas_mode |-> "ON_ACTIVE",
     switch_event |-> "NONE", driver_override |-> FALSE,
     notebook_alive |-> TRUE, camera_blocked |-> FALSE, camera_blocked_ts_ms |-> 0]

-----------------------------------------------------------------------------
(* Words *)

ParseBool(word) == word \in {"1", "true", "yes", "y"}

ParseReason(word) == IF      word = "phone"        THEN "PHONE"
                     ELSE IF word = "drowsy"       THEN "DROWSY"
                     ELSE IF word = "unresponsive" THEN "UNRESPONSIVE"
                     ELSE IF word = "intoxicated"  THEN "INTOXICATED"
                     ELSE IF word = "none"         THEN "NONE"
                     ELSE "UNKNOWN"

ParseLkasMode(word) == IF      word \in {"ON_INACTIVE", "on_inactive"} THEN "ON_INACTIVE"
                       ELSE IF word \in {"ON_ACTIVE", "on_active"}     THEN "ON_ACTIVE"
                       ELSE "OFF"

ParseSwitchEvent(word) == IF      word \in {"ON", "on"}   THEN "ON"
                          ELSE IF word \in {"OFF", "off"} THEN "OFF"
                          ELSE "NONE"

WholeOptions   == {"--ts", "--reason-ts", "--ticks", "--camera-blocked-ts"}
DecimalOptions == {"--dt", "--jetracer", "--lkas-throttle"}
WordOptions    == {"--attentive", "--reason", "--lkas-mode", "--switch", "--override",
                   "--notebook-alive", "--camera-blocked"}
OptionNames    == WholeOptions \cup DecimalOptions \cup WordOptions

Readable(name, word) == /\ name \in WholeOptions => word \in DOMAIN Whole
                        /\ name \in DecimalOptions => word \in DOMAIN Tenths

\* `name word` overwrites the variable of its option, and no other.
Store(name, word) ==
    \/ name = "--attentive"      /\ opts' = [opts EXCEPT !.is_attentive = ParseBool(word)]
    \/ name = "--reason"         /\ opts' = [opts EXCEPT !.reason = ParseReason(word)]
    \/ name = "--ts"             /\ opts' = [opts EXCEPT !.is_attentive_ts_ms = Whole[word]]
    \/ name = "--reason-ts"      /\ opts' = [opts EXCEPT !.reason_ts_ms = Whole[word],
                                                        !.reason_ts_overridden = TRUE]
    \/ name = "--dt"             /\ opts' = [opts EXCEPT !.delta_s = Tenths[word]]
    \/ name = "--ticks"          /\ opts' = [opts EXCEPT !.ticks = Whole[word]]
    \/ name = "--jetracer"       /\ opts' = [opts EXCEPT !.jetracer_input = 25 * Tenths[word]]
    \/ name = "--lkas-throttle"  /\ opts' = [opts EXCEPT !.lkas_throttle = 10 * Tenths[word]]
    \/ name = "--lkas-mode"      /\ opts' = [opts EXCEPT !.lkas_mode = ParseLkasMode(word)]
    \/ name = "--switch"         /\ opts' = [opts EXCEPT !.switch_event = ParseSwitchEvent(word)]
    \/ name = "--override"       /\ opts' = [opts EXCEPT !.driver_override = ParseBool(word)]
    \/ name = "--notebook-alive" /\ opts' = [opts EXCEPT !.notebook_alive = ParseBool(word)]
    \/ name = "--camera-blocked" /\ opts' = [opts EXCEPT !.camera_blocked = ParseBool(word)]
    \/ name = "--camera-blocked-ts" /\ opts' = [opts EXCEPT !.camera_blocked_ts_ms = Whole[word]]

-----------------------------------------------------------------------------
(* The process *)

CliInit ==
    /\ RuntimeInit /\ latched.run_cycle_id = 1 /\ lkas_mode = Defaults.lkas_mode
    /\ argv \in CommandLines /\ i = 1
    /\ opts = Defaults
    /\ ticking = FALSE /\ tick = 0
    /\ exit_code = Running

Exit(code) == exit_code' = code /\ UNCHANGED <<runtimeVars, lineVars, ticking, tick>>

AtWord == exit_code = Running /\ ~ticking /\ i <= Len(argv)

ReadOption ==
    /\ AtWord
    /\ argv[i] \in OptionNames
    /\ i < Len(argv) /\ Readable(argv[i], argv[i + 1])
    /\ Store(argv[i], argv[i + 1])
    /\ i' = i + 2
    /\ UNCHANGED <<runtimeVars, argv, loopVars>>

MissingValue == AtWord /\ argv[i] \in OptionNames /\ i = Len(argv) /\ Exit("2")

UnreadableNumber == /\ AtWord
                    /\ argv[i] \in OptionNames
                    /\ i < Len(argv) /\ ~Readable(argv[i], argv[i + 1])
                    /\ Exit("aborted")

Help == AtWord /\ argv[i] = "--help" /\ Exit("0")

UnknownOption == AtWord /\ argv[i] \notin OptionNames \cup {"--help"} /\ Exit("2")

MutDefaultReasonTsAlways(o) == [o EXCEPT !.reason_ts_ms = o.is_attentive_ts_ms]

\* Lines 124-126: --ts is the timestamp of the reason, too, unless it has its own.
DefaultReasonTs(o) == IF o.reason_ts_overridden THEN o
                      ELSE [o EXCEPT !.reason_ts_ms = o.is_attentive_ts_ms]

\* Line 128: the options are complete, the runtime is made.
StartTicks ==
    /\ exit_code = Running /\ ~ticking
    /\ i > Len(argv)
    /\ StartCaller(1, opts.lkas_mode)
    /\ opts' = DefaultReasonTs(opts)
    /\ ticking' = TRUE
    /\ UNCHANGED <<argv, i, tick, exit_code>>

MutTickStampFixed(o, n) == o.is_attentive_ts_ms

\* Time advances by a millisecond per tick, whatever --dt says.
TickStamp(o, n) == o.is_attentive_ts_ms + n

ReasonStamp(o, n) == IF o.reason_ts_overridden THEN o.reason_ts_ms ELSE TickStamp(o, n)

\* The Step B half of tick n.
TickSample(o, n) ==
    [is_attentive   |-> o.is_attentive,
     reason         |-> o.reason,
     reason_ts_ms   |-> ReasonStamp(o, n),
     camera_blocked |-> o.camera_blocked,
     blocked_for    |-> (TickStamp(o, n) - o.camera_blocked_ts_ms) \div 100,
     jetracer_input |-> o.jetracer_input,
     delta_s        |-> o.delta_s]

MutTickRequestWithoutSwitch(o) ==
    [notebook_input_alive |-> o.notebook_alive,
     driver_override      |-> o.driver_override,
     lkas_throttle        |-> o.lkas_throttle,
     lkas_switch_event    |-> "NONE"]

\* The Step C half.
TickRequest(o) ==
    [notebook_input_alive |-> o.notebook_alive,
     driver_override      |-> o.driver_override,
     lkas_throttle        |-> o.lkas_throttle,
     lkas_switch_event    |-> o.switch_event]

MutTickDueOnceMore == tick <= opts.ticks
MutTickDueOneShort == tick < opts.ticks - 1
TickDue == tick < opts.ticks

\* A switch event is given once.
RunTick ==
    /\ exit_code = Running /\ ticking
    /\ TickDue
    /\ Tick(TickSample(opts, tick), TickRequest(opts))
    /\ opts' = [opts EXCEPT !.switch_event = "NONE"]
    /\ tick' = tick + 1
    /\ UNCHANGED <<argv, i, ticking, exit_code>>

Finish == exit_code = Running /\ ticking /\ ~TickDue /\ Exit("0")

CliNext == \/ ReadOption \/ MissingValue \/ UnreadableNumber \/ Help \/ UnknownOption
           \/ StartTicks \/ RunTick \/ Finish

\* The process waits for nobody, so it keeps running.
CliSpec == CliInit /\ [][CliNext]_cliVars /\ WF_cliVars(CliNext)

-----------------------------------------------------------------------------
(* Properties *)

\* The options have the types of main's variables, and no tick runs beyond
\* --ticks (main.cpp:59-73, 130).
CliTypeOK ==
    /\ RuntimeTypeOK
    /\ opts \in CliOptions
    /\ i \in Nat \ {0} /\ ticking \in BOOLEAN
    /\ tick \in Nat /\ tick <= NonNegative(opts.ticks)
    /\ exit_code \in {Running, "0", "2", "aborted"}

\* The word given last for an option, wherever it stands.
Places(name) == {k \in 1 .. Len(argv) : k % 2 = 1 /\ argv[k] = name}
Given(name, default, Parse(_)) ==
    IF Places(name) = {} THEN default ELSE Parse(argv[Max(Places(name)) + 1])

WellFormed == /\ Len(argv) % 2 = 0
              /\ \A k \in 1 .. Len(argv) : k % 2 = 1 =>
                    argv[k] \in OptionNames /\ Readable(argv[k], argv[k + 1])

\* Only a command line without a mistake gets to the ticks, and they see for
\* each option what was given last, wherever it stands: in particular
\* --reason-ts holds whether --ts comes before or after it
\* (main.cpp:75-126).
CommandLineIsObeyed ==
    LET whole(w)    == Whole[w]
        tenths(w)   == Tenths[w]
        jetracer(w) == 25 * Tenths[w]
        throttle(w) == 10 * Tenths[w]
        ts          == Given("--ts", 1000, whole)
    IN  ticking =>
          /\ WellFormed
          /\ opts.is_attentive = Given("--attentive", FALSE, ParseBool)
          /\ opts.reason = Given("--reason", "DROWSY", ParseReason)
          /\ opts.is_attentive_ts_ms = ts
          /\ opts.reason_ts_ms = Given("--reason-ts", ts, whole)
          /\ opts.delta_s = Given("--dt", 25, tenths)
          /\ opts.ticks = Given("--ticks", 1, whole)
          /\ opts.jetracer_input = Given("--jetracer", 50, jetracer)
          /\ opts.lkas_throttle = Given("--lkas-throttle", 50, throttle)
          /\ opts.lkas_mode = Given("--lkas-mode", "ON_ACTIVE", ParseLkasMode)
          /\ tick = 0 => opts.switch_event = Given("--switch", "NONE", ParseSwitchEvent)
          /\ opts.driver_override = Given("--override", FALSE, ParseBool)
          /\ opts.notebook_alive = Given("--notebook-alive", TRUE, ParseBool)
          /\ opts.camera_blocked = Given("--camera-blocked", FALSE, ParseBool)
          /\ opts.camera_blocked_ts_ms = Given("--camera-blocked-ts", 0, whole)

\* The driver state after n > 0 repetitions of the same mock tick, directly from
\* the options.
Outcome(o, n) ==
    LET t           == Schedule(Estimate(o.jetracer_input))
        inattentive == n * NonNegative(o.delta_s)
        now         == o.is_attentive_ts_ms + n - 1
        reason_ts   == IF o.reason_ts_overridden THEN o.reason_ts_ms ELSE now
    IN  IF o.camera_blocked
        THEN IF (now - o.camera_blocked_ts_ms) \div 100 >= t.absent THEN "ABSENT" ELSE "WARNING"
        ELSE IF is_critical_reason(o.reason) /\ reason_ts >= 0 THEN "ABSENT"
        ELSE IF o.is_attentive \/ inattentive < t.warn THEN "OK"
        ELSE IF inattentive < t.esc THEN "WARNING"
        ELSE IF inattentive < t.absent THEN "ESCALATION" ELSE "ABSENT"

\* What a scenario of repeated ticks ends in can be told in advance: a critical
\* reason stops the car at once, whoever is attentive; inattention counts ticks
\* times --dt; a blocked camera counts milliseconds between the timestamps; and
\* the manoeuvre runs if and only if the driver is ABSENT and does not override
\* (DOCS/DCAS_TEST_SCENARIOS.md:85-145, 278-345; main.cpp:130-150).  That the
\* override counts for an intoxicated driver too is what the code does;
\* control-policy-Baseline.md:192, 300, 447 lock it, see PolicyDocuments.
OutcomeIsPredictable ==
    tick > 0 =>
        /\ current_state = Outcome(opts, tick)
        /\ outC.mrm_active <=> Outcome(opts, tick) = "ABSENT" /\ ~opts.driver_override

\* Assistance is active after a tick if and only if it was asked for, by the mode
\* or the switch, and nothing has spoken against it in any of the ticks
\* (main.cpp:142-150).  A runner that starts with ON_INACTIVE and no switch event
\* stays inactive, as control-policy-Baseline.md:124 says; its line 132 has it
\* become active, see PolicyDocuments.
AssistanceAsAsked ==
    LET switch == Given("--switch", "NONE", ParseSwitchEvent)
    IN  tick > 0 =>
          ( lkas_mode = "ON_ACTIVE" <=>
              /\ switch = "ON" \/ (opts.lkas_mode = "ON_ACTIVE" /\ switch = "NONE")
              /\ Outcome(opts, tick) = "OK"
              /\ opts.notebook_alive /\ ~opts.driver_override )

\* Every command line ends, after all its ticks or before the first; a negative
\* number of ticks is none (main.cpp:75-170).
EveryCommandLineEnds ==
    <>(exit_code # Running /\ tick = IF ticking THEN NonNegative(opts.ticks) ELSE 0)
=============================================================================
