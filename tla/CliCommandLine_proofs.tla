----------------------- MODULE CliCommandLine_proofs -----------------------
(***************************************************************************)
(* What the runner makes of a command line, for every command line: the    *)
(* options hold the words given last, a mistake keeps it from ticking, and *)
(* the assistance after a tick is the one that was asked for.  Also: the   *)
(* runner implements the stop protocol, and it runs out of steps.          *)
(***************************************************************************)
EXTENDS CliRunner_proofs

\* Reading stands before position i: the places of an option read so far, and
\* the word read last.
Before(name) == {k \in Places(name) : k < i}
LastWord(name) == argv[Max(Before(name)) + 1]

\* A variable of main holds the word read last.
Holds(value, name, default, Parse(_)) ==
    value = IF Before(name) = {} THEN default ELSE Parse(LastWord(name))

\* The inductive invariant: what has been read is well formed, and each variable
\* holds what it makes of the word last read for its option.  The ticks begin with
\* the default of --reason-ts and use up the switch event.
ReadSoFar ==
    /\ i % 2 = 1 /\ i <= Len(argv) + 1
    /\ \A k \in 1 .. Len(argv) :
          k % 2 = 1 /\ k < i => /\ k < Len(argv)
                                /\ argv[k] \in OptionNames
                                /\ Readable(argv[k], argv[k + 1])

FlagsRead ==
    /\ Holds(opts.is_attentive, "--attentive", FALSE, ParseBool)
    /\ Holds(opts.driver_override, "--override", FALSE, ParseBool)
    /\ Holds(opts.notebook_alive, "--notebook-alive", TRUE, ParseBool)
    /\ Holds(opts.camera_blocked, "--camera-blocked", FALSE, ParseBool)

NamesRead ==
    /\ Holds(opts.reason, "--reason", "DROWSY", ParseReason)
    /\ Holds(opts.lkas_mode, "--lkas-mode", "ON_ACTIVE", ParseLkasMode)
    /\ tick = 0 => Holds(opts.switch_event, "--switch", "NONE", ParseSwitchEvent)

StampsRead ==
    LET whole(w) == Whole[w]
    IN  /\ Holds(opts.is_attentive_ts_ms, "--ts", 1000, whole)
        /\ opts.reason_ts_overridden <=> Before("--reason-ts") # {}
        /\ Holds(opts.reason_ts_ms, "--reason-ts",
                 IF ticking THEN opts.is_attentive_ts_ms ELSE 1000, whole)
        /\ Holds(opts.camera_blocked_ts_ms, "--camera-blocked-ts", 0, whole)

NumbersRead ==
    LET whole(w)    == Whole[w]
        tenths(w)   == Tenths[w]
        jetracer(w) == 25 * Tenths[w]
        throttle(w) == 10 * Tenths[w]
    IN  /\ Holds(opts.delta_s, "--dt", 25, tenths)
        /\ Holds(opts.ticks, "--ticks", 1, whole)
        /\ Holds(opts.jetracer_input, "--jetracer", 50, jetracer)
        /\ Holds(opts.lkas_throttle, "--lkas-throttle", 50, throttle)

HoldsWords == FlagsRead /\ NamesRead /\ StampsRead /\ NumbersRead

ReadInv == /\ argv \in Seq(STRING)
           /\ ReadSoFar /\ HoldsWords
           /\ ticking => i > Len(argv)

LEMMA MaxIs ==
    ASSUME NEW S \in SUBSET Int, NEW m \in S, \A y \in S : m >= y
    PROVE  Max(S) = m
<1>1. \E x \in S : \A y \in S : x >= y
  OBVIOUS
<1>2. Max(S) \in S /\ \A y \in S : Max(S) >= y
  BY <1>1 DEF Max
<1>3. Max(S) \in Int /\ m \in Int /\ m >= Max(S) /\ Max(S) >= m
  BY <1>2
<1>4. QED
  BY <1>3

\* One option read: its own last word is new, those of the others are not.
LEMMA ReadPlaces ==
    ASSUME argv \in Seq(STRING), i \in Nat \ {0}, i % 2 = 1, i < Len(argv),
           argv' = argv, i' = i + 2, NEW name
    PROVE  /\ argv[i] = name => Before(name)' # {} /\ LastWord(name)' = argv[i + 1]
           /\ argv[i] # name =>
                 Before(name)' = Before(name) /\ LastWord(name)' = LastWord(name)
<1>0. Len(argv) \in Nat
  OBVIOUS
<1>1. Places(name)' = Places(name)
  BY DEF Places
<1>2. Before(name)' = {k \in Places(name) : k < i + 2}
  BY <1>1 DEF Before
<1>3. ASSUME NEW k \in Places(name), k < i + 2
      PROVE  k <= i
  <2>1. k \in Nat /\ k % 2 = 1
    BY <1>0, <1>3 DEF Places
  <2>2. QED
    BY <1>3, <2>1
<1>4. ASSUME argv[i] = name
      PROVE  Before(name)' # {} /\ LastWord(name)' = argv[i + 1]
  <2>1. i \in Places(name)
    BY <1>0, <1>4 DEF Places
  <2>2. i \in Before(name)' /\ \A y \in Before(name)' : i >= y
    BY <1>2, <1>3, <2>1, <1>0 DEF Places
  <2>3. Before(name)' \in SUBSET Int
    BY <1>2, <1>0 DEF Places
  <2>4. Max(Before(name)') = i
    BY <2>2, <2>3, MaxIs
  <2>5. LastWord(name)' = argv'[Max(Before(name)') + 1]
    BY DEF LastWord
  <2>6. QED
    BY <2>2, <2>4, <2>5
<1>5. ASSUME argv[i] # name
      PROVE  Before(name)' = Before(name) /\ LastWord(name)' = LastWord(name)
  <2>1. \A k \in Places(name) : k < i + 2 <=> k < i
    BY <1>3, <1>5, <1>0 DEF Places
  <2>2. Before(name)' = Before(name)
    BY <1>2, <2>1 DEF Before
  <2>3. QED
    BY <2>2 DEF LastWord
<1>6. QED
  BY <1>4, <1>5

LEMMA ReadOptionHolds ==
    ASSUME OptionsInv, LoopInv, ReadInv, ReadOption
    PROVE  HoldsWords'
<1> DEFINE n == argv[i]
           w == argv[i + 1]
<1>1. /\ argv \in Seq(STRING) /\ i \in Nat \ {0} /\ i % 2 = 1 /\ i < Len(argv)
      /\ argv' = argv /\ i' = i + 2
  BY DEF ReadInv, ReadSoFar, LoopInv, ReadOption, AtWord
<1>2. \A name : /\ n = name => Before(name)' # {} /\ LastWord(name)' = w
                /\ n # name => /\ Before(name)' = Before(name)
                               /\ LastWord(name)' = LastWord(name)
  BY <1>1, ReadPlaces
<1>3. HoldsWords /\ Store(n, w) /\ opts \in CliOptions
      /\ tick = 0 /\ ~ticking /\ UNCHANGED <<tick, ticking>>
  BY DEF ReadInv, ReadOption, AtWord, OptionsInv, loopVars
<1>4. FlagsRead'
  <2>1. /\ opts'.is_attentive = IF n = "--attentive" THEN ParseBool(w) ELSE opts.is_attentive
        /\ opts'.driver_override =
              IF n = "--override" THEN ParseBool(w) ELSE opts.driver_override
    BY <1>3 DEF Store, CliOptions
  <2>2. /\ opts'.notebook_alive =
              IF n = "--notebook-alive" THEN ParseBool(w) ELSE opts.notebook_alive
        /\ opts'.camera_blocked =
              IF n = "--camera-blocked" THEN ParseBool(w) ELSE opts.camera_blocked
    BY <1>3 DEF Store, CliOptions
  <2>3. QED
    BY <1>2, <1>3, <2>1, <2>2 DEF HoldsWords, FlagsRead, Holds
<1>5. NamesRead'
  <2>1. opts'.reason = IF n = "--reason" THEN ParseReason(w) ELSE opts.reason
    BY <1>3 DEF Store, CliOptions
  <2>2. opts'.lkas_mode = IF n = "--lkas-mode" THEN ParseLkasMode(w) ELSE opts.lkas_mode
    BY <1>3 DEF Store, CliOptions
  <2>3. opts'.switch_event =
           IF n = "--switch" THEN ParseSwitchEvent(w) ELSE opts.switch_event
    BY <1>3 DEF Store, CliOptions
  <2>4. QED
    BY <1>2, <1>3, <2>1, <2>2, <2>3 DEF HoldsWords, NamesRead, Holds
<1>6. StampsRead'
  <2>1. /\ opts'.is_attentive_ts_ms =
              IF n = "--ts" THEN Whole[w] ELSE opts.is_attentive_ts_ms
        /\ opts'.camera_blocked_ts_ms =
              IF n = "--camera-blocked-ts" THEN Whole[w] ELSE opts.camera_blocked_ts_ms
    BY <1>3 DEF Store, CliOptions
  <2>2. /\ opts'.reason_ts_overridden =
              IF n = "--reason-ts" THEN TRUE ELSE opts.reason_ts_overridden
        /\ opts'.reason_ts_ms = IF n = "--reason-ts" THEN Whole[w] ELSE opts.reason_ts_ms
    BY <1>3 DEF Store, CliOptions
  <2>3. QED
    BY <1>2, <1>3, <2>1, <2>2 DEF HoldsWords, StampsRead, Holds
<1>7. NumbersRead'
  <2>1. /\ opts'.delta_s = IF n = "--dt" THEN Tenths[w] ELSE opts.delta_s
        /\ opts'.ticks = IF n = "--ticks" THEN Whole[w] ELSE opts.ticks
    BY <1>3 DEF Store, CliOptions
  <2>2. opts'.jetracer_input =
           IF n = "--jetracer" THEN 25 * Tenths[w] ELSE opts.jetracer_input
    BY <1>3 DEF Store, CliOptions
  <2>3. opts'.lkas_throttle =
           IF n = "--lkas-throttle" THEN 10 * Tenths[w] ELSE opts.lkas_throttle
    BY <1>3 DEF Store, CliOptions
  <2>4. QED
    BY <1>2, <1>3, <2>1, <2>2, <2>3 DEF HoldsWords, NumbersRead, Holds
<1>8. QED
  BY <1>4, <1>5, <1>6, <1>7 DEF HoldsWords

LEMMA ReadNext ==
    ASSUME OptionsInv, LoopInv, ReadInv, [CliNext]_cliVars
    PROVE  ReadInv'
<1>1. CASE ReadOption
  <2>1. /\ argv \in Seq(STRING) /\ i \in Nat \ {0} /\ i % 2 = 1 /\ i < Len(argv)
        /\ argv' = argv /\ i' = i + 2 /\ ReadSoFar /\ ~ticking'
        /\ argv[i] \in OptionNames /\ Readable(argv[i], argv[i + 1])
    BY <1>1 DEF ReadInv, ReadSoFar, LoopInv, ReadOption, AtWord, loopVars
  <2>2. Len(argv) \in Nat
    BY <2>1
  <2>3. i' % 2 = 1 /\ i' <= Len(argv) + 1
    BY <2>1, <2>2
  <2>4. ASSUME NEW k \in 1 .. Len(argv), k % 2 = 1, k < i'
        PROVE  k < Len(argv) /\ argv[k] \in OptionNames /\ Readable(argv[k], argv[k + 1])
    <3>1. CASE k < i
      BY <2>1, <2>4, <3>1 DEF ReadSoFar
    <3>2. CASE k >= i
      <4>1. k = i
        BY <2>1, <2>2, <2>4, <3>2
      <4>2. QED
        BY <2>1, <4>1
    <3>3. QED
      BY <3>1, <3>2, <2>1, <2>2
  <2>5. ReadSoFar'
    BY <2>1, <2>3, <2>4 DEF ReadSoFar, Readable
  <2>6. QED
    BY <1>1, <2>1, <2>5, ReadOptionHolds DEF ReadInv
<1>2. CASE StartTicks
  <2>1. /\ opts' = DefaultReasonTs(opts) /\ opts \in CliOptions
        /\ ReadSoFar /\ HoldsWords /\ ~ticking /\ ticking' /\ i > Len(argv)
        /\ UNCHANGED <<argv, i, tick>>
    BY <1>2 DEF StartTicks, ReadInv, OptionsInv
  <2>2. /\ opts'.is_attentive = opts.is_attentive
        /\ opts'.reason = opts.reason
        /\ opts'.is_attentive_ts_ms = opts.is_attentive_ts_ms
        /\ opts'.reason_ts_overridden = opts.reason_ts_overridden
        /\ opts'.delta_s = opts.delta_s
        /\ opts'.ticks = opts.ticks
        /\ opts'.jetracer_input = opts.jetracer_input
        /\ opts'.lkas_throttle = opts.lkas_throttle
        /\ opts'.lkas_mode = opts.lkas_mode
        /\ opts'.switch_event = opts.switch_event
        /\ opts'.driver_override = opts.driver_override
        /\ opts'.notebook_alive = opts.notebook_alive
        /\ opts'.camera_blocked = opts.camera_blocked
        /\ opts'.camera_blocked_ts_ms = opts.camera_blocked_ts_ms
        /\ opts'.reason_ts_ms = IF opts.reason_ts_overridden THEN opts.reason_ts_ms
                                ELSE opts.is_attentive_ts_ms
    BY <2>1 DEF DefaultReasonTs, CliOptions
  <2>3. ReadSoFar'
    BY <2>1 DEF ReadSoFar, Readable
  <2>4. \A name : Before(name)' = Before(name) /\ LastWord(name)' = LastWord(name)
    BY <2>1 DEF Before, Places, LastWord
  <2>5. HoldsWords'
    <3>1. FlagsRead' /\ NamesRead'
      BY <2>1, <2>2, <2>4 DEF HoldsWords, FlagsRead, NamesRead, Holds
    <3>2. StampsRead'
      BY <2>1, <2>2, <2>4 DEF HoldsWords, StampsRead, Holds
    <3>3. NumbersRead'
      BY <2>1, <2>2, <2>4 DEF HoldsWords, NumbersRead, Holds
    <3>4. QED
      BY <3>1, <3>2, <3>3 DEF HoldsWords
  <2>6. QED
    BY <1>2, <2>1, <2>3, <2>5 DEF ReadInv
<1>3. CASE RunTick
  <2>1. /\ opts' = [opts EXCEPT !.switch_event = "NONE"] /\ opts \in CliOptions
        /\ ReadSoFar /\ HoldsWords /\ ticking /\ tick' # 0 /\ i > Len(argv)
        /\ UNCHANGED <<argv, i, ticking>>
    BY <1>3 DEF RunTick, ReadInv, OptionsInv
  <2>2. /\ opts'.is_attentive = opts.is_attentive
        /\ opts'.reason = opts.reason
        /\ opts'.is_attentive_ts_ms = opts.is_attentive_ts_ms
        /\ opts'.reason_ts_overridden = opts.reason_ts_overridden
        /\ opts'.delta_s = opts.delta_s
        /\ opts'.ticks = opts.ticks
        /\ opts'.jetracer_input = opts.jetracer_input
        /\ opts'.lkas_throttle = opts.lkas_throttle
        /\ opts'.lkas_mode = opts.lkas_mode
        /\ opts'.driver_override = opts.driver_override
        /\ opts'.notebook_alive = opts.notebook_alive
        /\ opts'.camera_blocked = opts.camera_blocked
        /\ opts'.camera_blocked_ts_ms = opts.camera_blocked_ts_ms
        /\ opts'.reason_ts_ms = opts.reason_ts_ms
    BY <2>1 DEF CliOptions
  <2>3. ReadSoFar'
    BY <2>1 DEF ReadSoFar, Readable
  <2>4. \A name : Before(name)' = Before(name) /\ LastWord(name)' = LastWord(name)
    BY <2>1 DEF Before, Places, LastWord
  <2>5. HoldsWords'
    <3>1. FlagsRead' /\ NamesRead'
      BY <2>1, <2>2, <2>4 DEF HoldsWords, FlagsRead, NamesRead, Holds
    <3>2. StampsRead'
      BY <2>1, <2>2, <2>4 DEF HoldsWords, StampsRead, Holds
    <3>3. NumbersRead'
      BY <2>1, <2>2, <2>4 DEF HoldsWords, NumbersRead, Holds
    <3>4. QED
      BY <3>1, <3>2, <3>3 DEF HoldsWords
  <2>6. QED
    BY <1>3, <2>1, <2>3, <2>5 DEF ReadInv
<1>4. CASE MissingValue \/ UnreadableNumber \/ Help \/ UnknownOption \/ Finish
           \/ UNCHANGED cliVars
  <2>1. UNCHANGED <<argv, i, opts, ticking, tick>>
    BY <1>4 DEF MissingValue, UnreadableNumber, Help, UnknownOption, Finish, Exit,
       lineVars, loopVars, cliVars
  <2>2. ReadSoFar => ReadSoFar'
    BY <2>1 DEF ReadSoFar, Readable
  <2>3. HoldsWords => HoldsWords'
    BY <2>1 DEF HoldsWords, FlagsRead, NamesRead, StampsRead, NumbersRead, Holds, Before,
       Places, LastWord
  <2>4. QED
    BY <2>1, <2>2, <2>3 DEF ReadInv
<1>5. QED
  BY <1>1, <1>2, <1>3, <1>4 DEF CliNext

LEMMA ReadInvariance == CliSpec => []ReadInv
<1>1. CliInit => ReadInv
  <2> SUFFICES ASSUME CliInit PROVE ReadInv
    OBVIOUS
  <2>1. argv \in Seq(STRING) /\ i = 1 /\ opts = Defaults /\ ticking = FALSE
    BY CommandLinesAssumption DEF CliInit
  <2>2. ReadSoFar
    BY <2>1 DEF ReadSoFar
  <2>3. \A name : Before(name) = {}
    BY <2>1 DEF Before, Places
  <2>4. HoldsWords
    <3>1. FlagsRead
      BY <2>1, <2>3 DEF FlagsRead, Holds, Defaults
    <3>2. NamesRead
      BY <2>1, <2>3 DEF NamesRead, Holds, Defaults
    <3>3. StampsRead
      BY <2>1, <2>3 DEF StampsRead, Holds, Defaults
    <3>4. NumbersRead
      BY <2>1, <2>3 DEF NumbersRead, Holds, Defaults
    <3>5. QED
      BY <3>1, <3>2, <3>3, <3>4 DEF HoldsWords
  <2>5. QED
    BY <2>1, <2>2, <2>4 DEF ReadInv
<1>2. OptionsInv /\ LoopInv /\ ReadInv /\ [CliNext]_cliVars => ReadInv'
  BY ReadNext
<1>3. QED
  BY <1>1, <1>2, OptionsInvariance, LoopInvariance, PTL DEF CliSpec

\* At the end of the line everything has been read.
LEMMA LineRead ==
    ASSUME OptionsInv, LoopInv, ReadInv
    PROVE  CommandLineIsObeyed
<1> SUFFICES ASSUME ticking PROVE CommandLineIsObeyed
  BY DEF CommandLineIsObeyed
<1> DEFINE whole(v)    == Whole[v]
           tenths(v)   == Tenths[v]
           jetracer(v) == 25 * Tenths[v]
           throttle(v) == 10 * Tenths[v]
<1>1. /\ argv \in Seq(STRING) /\ Len(argv) \in Nat /\ i \in Nat /\ i > Len(argv)
      /\ ReadSoFar /\ HoldsWords
  BY DEF ReadInv, LoopInv
<1>2. i = Len(argv) + 1
  BY <1>1 DEF ReadSoFar
<1>3. WellFormed
  BY <1>1, <1>2 DEF ReadSoFar, WellFormed
<1>4. \A name : Before(name) = Places(name)
  BY <1>1, <1>2 DEF Places, Before
<1>5. /\ opts.is_attentive = Given("--attentive", FALSE, ParseBool)
      /\ opts.driver_override = Given("--override", FALSE, ParseBool)
      /\ opts.notebook_alive = Given("--notebook-alive", TRUE, ParseBool)
      /\ opts.camera_blocked = Given("--camera-blocked", FALSE, ParseBool)
  BY <1>1, <1>4 DEF HoldsWords, FlagsRead, Holds, Given, LastWord
<1>6. /\ opts.reason = Given("--reason", "DROWSY", ParseReason)
      /\ opts.lkas_mode = Given("--lkas-mode", "ON_ACTIVE", ParseLkasMode)
      /\ tick = 0 => opts.switch_event = Given("--switch", "NONE", ParseSwitchEvent)
  BY <1>1, <1>4 DEF HoldsWords, NamesRead, Holds, Given, LastWord
<1>7. /\ opts.is_attentive_ts_ms = Given("--ts", 1000, whole)
      /\ opts.reason_ts_ms = Given("--reason-ts", Given("--ts", 1000, whole), whole)
      /\ opts.camera_blocked_ts_ms = Given("--camera-blocked-ts", 0, whole)
  BY <1>1, <1>4 DEF HoldsWords, StampsRead, Holds, Given, LastWord
<1>8. /\ opts.delta_s = Given("--dt", 25, tenths)
      /\ opts.ticks = Given("--ticks", 1, whole)
      /\ opts.jetracer_input = Given("--jetracer", 50, jetracer)
      /\ opts.lkas_throttle = Given("--lkas-throttle", 50, throttle)
  BY <1>1, <1>4 DEF HoldsWords, NumbersRead, Holds, Given, LastWord
<1>9. QED
  BY <1>3, <1>5, <1>6, <1>7, <1>8 DEF CommandLineIsObeyed, Given

\* Only a command line without a mistake gets to the ticks, and each option has
\* the word given last, wherever it stands, for every command line
\* (main.cpp:75-126).
THEOREM CliObeysTheCommandLine == CliSpec => []CommandLineIsObeyed
<1>1. OptionsInv /\ LoopInv /\ ReadInv => CommandLineIsObeyed
  BY LineRead
<1>2. QED
  BY <1>1, OptionsInvariance, LoopInvariance, ReadInvariance, PTL

-----------------------------------------------------------------------------
(* Assistance *)

\* A driver who is OK after a tick has been OK after every earlier one.
LEMMA OutcomeOkBefore ==
    ASSUME NEW o \in CliOptions, NEW n \in Nat \ {0}, Outcome(o, n + 1) = "OK"
    PROVE  Outcome(o, n) = "OK"
<1> DEFINE t == Schedule(Estimate(o.jetracer_input))
           d == NonNegative(o.delta_s)
<1>1. t.warn \in Int /\ t.esc \in Int /\ t.absent \in Int
  BY DEF Schedule, Estimate, Slowest, Medium, Fastest
<1>2. d \in Nat /\ o.is_attentive_ts_ms \in Int /\ o.camera_blocked_ts_ms \in Int
      /\ o.reason_ts_ms \in Int
  BY DEF NonNegative, CliOptions
<1>3. n * d \in Nat /\ (n + 1) * d = n * d + d
  BY <1>2, Product
<1>4. QED
  BY <1>1, <1>2, <1>3 DEF Outcome

\* The mode after a tick whose driver is OK and has not taken over.
LEMMA ModeIfOk ==
    ASSUME NEW c \in StepCInput, NEW mode \in LkasMode, NEW l,
           c.notebook_input_alive, ~TakenOver(c, l), ~(NextMrmCount(c, "OK", l) >= 2)
    PROVE  NextLkasMode(c, "OK", mode, l) = "ON_ACTIVE" <=>
              \/ c.lkas_switch_event = "ON"
              \/ mode = "ON_ACTIVE" /\ c.lkas_switch_event = "NONE"
<1>1. c.lkas_switch_event \in LkasSwitchEvent
  BY DEF StepCInput
<1>2. CanActivate(c, "OK")
  BY DEF CanActivate
<1>3. NextLkasMode(c, "OK", mode, l) =
        IF c.lkas_switch_event = "ON" THEN "ON_ACTIVE"
        ELSE ApplySwitchEvent(mode, c.lkas_switch_event)
  BY <1>2 DEF NextLkasMode, SwitchedMode
<1>4. QED
  BY <1>1, <1>3 DEF ApplySwitchEvent, LkasSwitchEvent, LkasMode

\* What the command line asks for.
AskedFor == LET switch == Given("--switch", "NONE", ParseSwitchEvent)
            IN  switch = "ON" \/ (opts.lkas_mode = "ON_ACTIVE" /\ switch = "NONE")

\* The inductive invariant: before the first tick the mode is the option's; the
\* switch event is gone after it.
AssistanceInv ==
    ticking => /\ tick = 0 => lkas_mode = opts.lkas_mode
               /\ tick > 0 => opts.switch_event = "NONE"

\* The first tick finds the switch event the command line asks for.
LEMMA FirstSwitch ==
    ASSUME CommandLineIsObeyed, ticking, tick = 0
    PROVE  opts.switch_event = Given("--switch", "NONE", ParseSwitchEvent)
BY DEF CommandLineIsObeyed, Given

LEMMA TickAssistance ==
    ASSUME OptionsInv, RuntimeInv, RuntimeInv', ForeseenInv, ForeseenInv', OverrideInv,
           CommandLineIsObeyed, AssistanceInv, AssistanceAsAsked, RunTick
    PROVE  AssistanceInv' /\ AssistanceAsAsked'
<1> DEFINE b == TickSample(opts, tick)
           c == TickRequest(opts)
           n == tick + 1
           switch == Given("--switch", "NONE", ParseSwitchEvent)
<1>1. /\ Tick(b, c) /\ b \in StepBInput /\ c \in StepCInput
      /\ ticking /\ ticking' /\ tick \in Nat /\ tick' = n /\ opts \in CliOptions
      /\ opts' = [opts EXCEPT !.switch_event = "NONE"] /\ argv' = argv
  BY BuiltInputs DEF RunTick, OptionsInv
<1>2. /\ opts'.switch_event = "NONE" /\ opts'.lkas_mode = opts.lkas_mode
      /\ opts'.notebook_alive = opts.notebook_alive
      /\ opts'.driver_override = opts.driver_override
      /\ Outcome(opts', n) = Outcome(opts, n)
  BY <1>1, OutcomeIgnoresSwitch DEF CliOptions
<1>3. /\ c.notebook_input_alive = opts.notebook_alive
      /\ c.driver_override = opts.driver_override
      /\ c.lkas_switch_event = opts.switch_event
  BY DEF TickRequest
<1>4. AssistanceInv'
  BY <1>1, <1>2 DEF AssistanceInv
<1>5. AskedFor' <=> AskedFor
  BY <1>1, <1>2 DEF AskedFor, Given, Places
<1>6. current_state' = Outcome(opts, n)
  BY <1>1, <1>2 DEF ForeseenInv
<1>7. PICK state \in DriverState : state = current_state'
  BY <1>1, TickFacts
<1>8. /\ lkas_mode' = NextLkasMode(c, state, lkas_mode, latched) /\ lkas_mode \in LkasMode
      /\ latched' = NextLatchedState(c, state, latched) /\ latched \in StepCLatchedState
      /\ absent_latched_run_cycle' <=> state = "ABSENT"
  BY <1>1, <1>7, TickFacts DEF RuntimeInv, RuntimeTypeOK
<1>9. lkas_mode' = "ON_ACTIVE" => state = "OK" /\ opts.notebook_alive
  BY <1>1, <1>3, <1>8, ModeFacts
<1>10. opts.driver_override => lkas_mode' # "ON_ACTIVE"
  <2>1. opts.driver_override => TakenOver(c, latched)
    BY <1>1, <1>3 DEF OverrideInv, TakenOver
  <2>2. QED
    BY <1>8, <2>1 DEF NextLkasMode
<1>11. ASSUME state = "OK", opts.notebook_alive, ~opts.driver_override
       PROVE  lkas_mode' = "ON_ACTIVE" <=> AskedFor
  <2>1. NextMrmCount(c, "OK", latched) = 0
    <3>1. latched'.mrm_activation_count_run_cycle = NextMrmCount(c, state, latched)
      BY <1>1, <1>8, LatchedFacts
    <3>2. ~absent_latched_run_cycle'
      BY <1>8, <1>11
    <3>3. latched'.mrm_activation_count_run_cycle = 0
      BY <3>2 DEF RuntimeInv, LockoutAccounting, MrmTicks
    <3>4. QED
      BY <1>11, <3>1, <3>3
  <2>2. lkas_mode' = "ON_ACTIVE" <=>
           \/ opts.switch_event = "ON"
           \/ lkas_mode = "ON_ACTIVE" /\ opts.switch_event = "NONE"
    <3>1. ~TakenOver(c, latched) /\ c.notebook_input_alive
      BY <1>3, <1>11 DEF TakenOver
    <3>2. ~(NextMrmCount(c, "OK", latched) >= 2)
      BY <2>1
    <3>3. QED
      BY <1>1, <1>3, <1>8, <1>11, <3>1, <3>2, ModeIfOk
  <2>3. CASE tick = 0
    <3>1. opts.switch_event = switch
      BY <1>1, <2>3, FirstSwitch
    <3>2. lkas_mode = opts.lkas_mode
      BY <1>1, <2>3 DEF AssistanceInv
    <3>3. QED
      BY <2>2, <3>1, <3>2 DEF AskedFor
  <2>4. CASE tick > 0
    <3>1. Outcome(opts, tick) = "OK"
      BY <1>1, <1>6, <1>7, <1>11, <2>4, OutcomeOkBefore
    <3>2. lkas_mode = "ON_ACTIVE" <=> AskedFor
      BY <1>11, <2>4, <3>1 DEF AssistanceAsAsked, AskedFor
    <3>3. opts.switch_event = "NONE"
      BY <1>1, <2>4 DEF AssistanceInv
    <3>4. QED
      BY <2>2, <3>2, <3>3
  <2>5. QED
    BY <1>1, <2>3, <2>4
<1>12. lkas_mode' = "ON_ACTIVE" <=>
          AskedFor /\ Outcome(opts, n) = "OK" /\ opts.notebook_alive /\ ~opts.driver_override
  BY <1>6, <1>7, <1>9, <1>10, <1>11
<1>13. AssistanceAsAsked'
  BY <1>1, <1>2, <1>5, <1>12 DEF AssistanceAsAsked, AskedFor
<1>14. QED
  BY <1>4, <1>13

LEMMA AssistanceNext ==
    ASSUME OptionsInv, OptionsInv', RuntimeInv, RuntimeInv', ForeseenInv, ForeseenInv',
           OverrideInv, CommandLineIsObeyed, AssistanceInv, AssistanceAsAsked,
           [CliNext]_cliVars
    PROVE  AssistanceInv' /\ AssistanceAsAsked'
<1>1. CASE RunTick
  BY <1>1, TickAssistance
<1>2. CASE StartTicks
  <2>1. lkas_mode' = opts.lkas_mode /\ opts' = DefaultReasonTs(opts) /\ tick' = 0
    BY <1>2 DEF StartTicks, StartCaller, OptionsInv
  <2>2. opts'.lkas_mode = opts.lkas_mode
    BY <2>1 DEF DefaultReasonTs, OptionsInv, CliOptions
  <2>3. QED
    BY <2>1, <2>2 DEF AssistanceInv, AssistanceAsAsked
<1>3. CASE ReadOption
  <2>1. ~ticking' /\ tick' = 0
    BY <1>3 DEF ReadOption, AtWord, loopVars, OptionsInv
  <2>2. QED
    BY <2>1 DEF AssistanceInv, AssistanceAsAsked
<1>4. CASE MissingValue \/ UnreadableNumber \/ Help \/ UnknownOption \/ Finish
           \/ UNCHANGED cliVars
  <2>1. UNCHANGED <<argv, opts, ticking, tick, lkas_mode>>
    BY <1>4 DEF MissingValue, UnreadableNumber, Help, UnknownOption, Finish, Exit,
       lineVars, loopVars, cliVars, runtimeVars
  <2>2. Outcome(opts, tick)' = Outcome(opts, tick)
    BY <2>1
  <2>3. QED
    BY <2>1, <2>2 DEF AssistanceInv, AssistanceAsAsked, Given, Places
<1>5. QED
  BY <1>1, <1>2, <1>3, <1>4 DEF CliNext

\* Assistance is active after a tick if and only if it was asked for and nothing
\* has spoken against it in any of the ticks, for every command line
\* (main.cpp:142-150, step_c.cpp:44-61).
THEOREM CliAssistanceAsAsked == CliSpec => []AssistanceAsAsked
<1>1. CliInit => AssistanceInv /\ AssistanceAsAsked
  BY DEF CliInit, AssistanceInv, AssistanceAsAsked
<1>2. /\ OptionsInv /\ OptionsInv' /\ RuntimeInv /\ RuntimeInv'
      /\ ForeseenInv /\ ForeseenInv' /\ OverrideInv /\ CommandLineIsObeyed
      /\ AssistanceInv /\ AssistanceAsAsked /\ [CliNext]_cliVars
      => AssistanceInv' /\ AssistanceAsAsked'
  BY AssistanceNext
<1>3. QED
  BY <1>1, <1>2, OptionsInvariance, CliKeepsRuntimeInv, ForeseenInvariance,
     OverrideInvariance, CliObeysTheCommandLine, PTL DEF CliSpec

-----------------------------------------------------------------------------
(* The runner and the stop protocol *)

\* The runtime the runner drives implements the stop protocol, whatever the
\* command line (main.cpp:124-150).
THEOREM CliRefinesStopProtocol == CliSpec => RefinesStopProtocol
<1>1. CliInit => Stop!Init
  BY InitRefines DEF CliInit
<1>2. OptionsInv /\ RuntimeInv /\ [CliNext]_cliVars => [Stop!Next]_(Stop!stopVars)
  <2> SUFFICES ASSUME OptionsInv, RuntimeInv, [CliNext]_cliVars
               PROVE  [Stop!Next]_(Stop!stopVars)
    OBVIOUS
  <2>1. CASE RunTick
    BY <2>1, BuiltInputs, TickRefines DEF RunTick, OptionsInv
  <2>2. CASE StartTicks
    <3>1. opts.lkas_mode \in LkasMode
      BY DEF OptionsInv, CliOptions
    <3>2. CallerStarts
      BY <2>2, <3>1, CliRunCycleAssumption DEF StartTicks, CallerStarts
    <3>3. QED
      BY <3>2, StartCallerRefines
  <2>3. CASE ~RunTick /\ ~StartTicks
    <3>1. UNCHANGED runtimeVars
      BY <2>3, OtherCliSteps
    <3>2. QED
      BY <3>1 DEF runtimeVars, stepBVars, Stop!stopVars, MrmTicks
  <2>4. QED
    BY <2>1, <2>2, <2>3
<1>3. QED
  BY <1>1, <1>2, OptionsInvariance, CliKeepsRuntimeInv, PTL
     DEF CliSpec, RefinesStopProtocol, Stop!Spec

-----------------------------------------------------------------------------
(* The end *)

\* An exit comes before the first tick or after the last one.
EndsOnTime == exit_code # Running =>
                 tick = IF ticking THEN NonNegative(opts.ticks) ELSE 0

LEMMA EndsOnTimeNext ==
    ASSUME OptionsInv, LoopInv, EndsOnTime, [CliNext]_cliVars
    PROVE  EndsOnTime'
<1>1. CASE ReadOption \/ StartTicks \/ RunTick
  BY <1>1 DEF ReadOption, AtWord, loopVars, StartTicks, RunTick, EndsOnTime
<1>2. CASE MissingValue \/ UnreadableNumber \/ Help \/ UnknownOption
  BY <1>2 DEF MissingValue, UnreadableNumber, Help, UnknownOption, AtWord, Exit,
     OptionsInv, EndsOnTime
<1>3. CASE Finish
  <2>1. /\ ticking /\ ~(tick < opts.ticks) /\ UNCHANGED <<opts, ticking, tick>>
        /\ tick <= NonNegative(opts.ticks) /\ tick \in Nat /\ opts.ticks \in Int
    BY <1>3 DEF Finish, Exit, lineVars, TickDue, LoopInv, OptionsInv, CliOptions
  <2>2. tick = NonNegative(opts.ticks)
    BY <2>1 DEF NonNegative
  <2>3. QED
    BY <2>1, <2>2 DEF EndsOnTime
<1>4. CASE UNCHANGED cliVars
  BY <1>4 DEF cliVars, lineVars, loopVars, EndsOnTime
<1>5. QED
  BY <1>1, <1>2, <1>3, <1>4 DEF CliNext

\* The safety half of EveryCommandLineEnds: a process that has ended has done all
\* its ticks, or none (main.cpp:75-170).
THEOREM CliEndsOnTime == CliSpec => []EndsOnTime
<1>1. CliInit => EndsOnTime
  BY DEF CliInit, EndsOnTime
<1>2. OptionsInv /\ LoopInv /\ EndsOnTime /\ [CliNext]_cliVars => EndsOnTime'
  BY EndsOnTimeNext
<1>3. QED
  BY <1>1, <1>2, OptionsInvariance, LoopInvariance, PTL DEF CliSpec

\* What is left to do, by phases: words to read, then ticks to run.
WordsLeft == Len(argv) + 1 - i
TicksLeft == opts.ticks - tick

\* Every step of the process ends it or brings it nearer to its end.
RunsOut == /\ exit_code = Running
           /\ \/ exit_code' # Running
              \/ ~ticking /\ ~ticking' /\ 0 <= WordsLeft' /\ WordsLeft' < WordsLeft
              \/ ~ticking /\ ticking'
              \/ ticking /\ ticking' /\ 0 <= TicksLeft' /\ TicksLeft' < TicksLeft

\* The other half: no step is left after the end, none goes back to reading, and
\* each lowers the number of words or ticks left to do, so no command line keeps
\* the process running; that it goes on at all is the fairness of CliSpec
\* (main.cpp:75-170).
THEOREM CliRunsOut == CliSpec => [][RunsOut]_cliVars
<1>1. OptionsInv /\ ReadInv /\ LoopInv /\ [CliNext]_cliVars => [RunsOut]_cliVars
  <2> SUFFICES ASSUME OptionsInv, ReadInv, LoopInv, CliNext PROVE RunsOut
    OBVIOUS
  <2>1. Len(argv) \in Nat /\ i \in Nat /\ tick \in Nat /\ opts.ticks \in Int
    BY DEF ReadInv, LoopInv, OptionsInv, CliOptions
  <2>2. CASE ReadOption
    <3>1. /\ exit_code = Running /\ ~ticking /\ ~ticking' /\ i < Len(argv)
          /\ i' = i + 2 /\ argv' = argv
      BY <2>2 DEF ReadOption, AtWord, loopVars
    <3>2. QED
      BY <2>1, <3>1 DEF RunsOut, WordsLeft
  <2>3. CASE StartTicks
    BY <2>3 DEF StartTicks, RunsOut
  <2>4. CASE RunTick
    <3>1. /\ exit_code = Running /\ ticking /\ ticking' /\ tick < opts.ticks
          /\ tick' = tick + 1 /\ opts'.ticks = opts.ticks
      BY <2>4 DEF RunTick, TickDue, OptionsInv, CliOptions
    <3>2. QED
      BY <2>1, <3>1 DEF RunsOut, TicksLeft
  <2>5. CASE MissingValue \/ UnreadableNumber \/ Help \/ UnknownOption \/ Finish
    BY <2>5, RunningAssumption DEF MissingValue, UnreadableNumber, Help, UnknownOption,
       Finish, AtWord, Exit, RunsOut
  <2>6. QED
    BY <2>2, <2>3, <2>4, <2>5 DEF CliNext
<1>2. QED
  BY <1>1, OptionsInvariance, ReadInvariance, LoopInvariance, PTL DEF CliSpec
=============================================================================
