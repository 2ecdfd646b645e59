SPECIFICATION FairSpec
CONSTANTS
    MaxSaves = 3
    SharedLock = FALSE
    Cancellable = TRUE
    Absent = Absent
    Blank = Blank
    Torn = Torn
INVARIANTS
    SoleWriterPublishesItself
PROPERTIES
    SavesReturn
