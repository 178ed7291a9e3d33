SPECIFICATION BridgeSpec
CONSTANTS
    StepBInputs <- BuiltSamples
    StepCInputs <- BuiltRequests
    RunCycleIds = {1}
    IntMax = 2
    SpeedSamples <- OneSpeed
    LkasThrottles = {50}
    PerceptionSamples <- ThreeDrivers
    DeltaS = 30
    Uptime = 100
    CommandLines <- BoundedOrNot
    QueueCapacity = 1
    None = none
PROPERTIES SilentInattentionEndsInAbsent StopIsAnnounced BoundedRunEnds
