SPECIFICATION HistorySpec
CONSTANT StepBInputs <- WithCamera
INVARIANTS StepBTypeOK AbsentIffLatched InattentionIsAnswered CriticalReasonOnlyWaitsForCamera
PROPERTIES AbsentIsFinal AlarmIsJustified ReasonNeverGoesBack RecoveryIsContinuous
