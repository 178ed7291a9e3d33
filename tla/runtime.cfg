SPECIFICATION RuntimeSpec
CONSTANTS
    StepBInputs <- Samples
    StepCInputs <- Requests
    RunCycleIds = {1, 2}
    IntMax = 3
INVARIANTS RuntimeTypeOK LockoutAccounting AbsentMeansStopping NeverAmplifies ActiveNeedsAttention
PROPERTIES LockIsFinal NoAutomaticResume RefinesStopProtocol
