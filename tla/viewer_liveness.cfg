SPECIFICATION ViewerSpec
CONSTANTS
    Pages = {slow, fast}
    Prompt = {fast}
    Handles = {h1, h2}
    FrameThreads = {}
    StatusThread = status
    Interval = 2
    MaxChanges = 1
    None = none
PROPERTIES PagesLearnStatus
