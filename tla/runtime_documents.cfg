SPECIFICATION DocumentsSpec
CONSTANTS
    StepBInputs <- Samples
    StepCInputs <- Requests
    RunCycleIds = {1}
    IntMax = 3
INVARIANT SomeRuleIsKept
