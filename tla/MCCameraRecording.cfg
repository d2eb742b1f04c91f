CONSTANTS
    api = api
    main = main
    Threads <- MCThreads
    Loop <- main
    MaxTakes = 2
    MaxSessions = 1
SPECIFICATION Spec
INVARIANTS
    OneCamera
    LastFileComplete
PROPERTY MarkedForItsSession
