CONSTANTS
    t1 = t1
    t2 = t2
    main = main
    Threads <- MCThreads
    Loop <- main
    MaxId = 2
SPECIFICATION Spec
SYMMETRY MCSymmetry
INVARIANTS
    OneOpenSession
    StoresAgree
    NoStaleHome
PROPERTY OrphanCauses
