SPECIFICATION ViewerSpec
CONSTANTS
    Pages = {slow, fast}
    Prompt = {fast}
    Handles = {h1, h2}
    FrameThreads = {lkas, driver}
    StatusThread = status
    Interval = 1
    MaxChanges = 1
    None = none
INVARIANTS ViewerTypeOK BroadcastReachesClients OneFrameInFlight NoForeignFuture
PROPERTIES PageNeverGoesBack
