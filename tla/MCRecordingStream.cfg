CONSTANTS
    v1 = v1
    v2 = v2
    Viewers <- MCViewers
    QueueMax = 2
    MaxFrames = 5
SPECIFICATION StreamSpec
CHECK_DEADLOCK FALSE
PROPERTIES
    NeverBack
    ViewersEnd
    DrainEndsOrWaits
