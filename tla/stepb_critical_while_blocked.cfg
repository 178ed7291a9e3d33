SPECIFICATION HistorySpec
CONSTANT StepBInputs <- WithCamera
INVARIANTS CriticalReasonLatches
