SPECIFICATION FairSpec
CONSTANTS
    MaxSaves = 3
    SharedLock = TRUE
    Cancellable = FALSE
    Absent = Absent
    Blank = Blank
    Torn = Torn
INVARIANTS
    FinalIntact
    AckedSurvives
PROPERTIES
    SavesReturn
    RegisterSpec
