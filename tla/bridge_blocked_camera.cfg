SPECIFICATION BridgeSpec
CONSTANTS
    StepBInputs <- BuiltSamples
    StepCInputs <- BuiltRequests
    RunCycleIds = {1}
    IntMax = 2
    SpeedSamples <- Speeds
    LkasThrottles = {50}
    PerceptionSamples <- Drivers
    DeltaS = 30
    Uptime = 100
    CommandLines <- Commands
    QueueCapacity = 1
    None = none
PROPERTIES BlockedCameraWarnsFirst
