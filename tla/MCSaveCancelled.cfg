SPECIFICATION Spec
CONSTANTS
    MaxSaves = 2
    SharedLock = TRUE
    Cancellable = TRUE
    Absent = Absent
    Blank = Blank
    Torn = Torn
INVARIANT
    FinalIntact
