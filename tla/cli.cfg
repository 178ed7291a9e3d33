SPECIFICATION CliSpec
CONSTANTS
    StepBInputs = {}
    StepCInputs = {}
    RunCycleIds = {1}
    IntMax = 3
    CommandLines <- Lines
    Whole <- Numbers
    Tenths <- TenfoldNumbers
    Running = running
CHECK_DEADLOCK FALSE
INVARIANTS CliTypeOK CommandLineIsObeyed OutcomeIsPredictable AssistanceAsAsked
PROPERTIES EveryCommandLineEnds
