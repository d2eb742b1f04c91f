CONSTANTS
    RecordingDebounce = 2
    StopDebounce = 2
    ArmDebounce = 3
    MaxAge = 3
SPECIFICATION Spec
PROPERTIES
    SessionStopConfirmed
    SessionStartConfirmed
    NoRestartInFlight
    LandedStops
    RecordingStopAfterDisarm
