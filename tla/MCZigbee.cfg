SPECIFICATION Spec
CONSTANTS
    d1 = d1
    DEVICE = {d1}
    CLUSTERS <- MCClusters
    REPORT <- MCReport
    CACHED <- MCCached
    SENSOR <- MCSensor
    EDIT = {Fresh, Disabled}
    Disabled = Disabled
    Fresh = Fresh
    LOOK = {Plain}
    Plain = Plain
    On = On
    Off = Off
    Yes = Yes
    No = No
    Text = Text
    Unavailable = Unavailable
    None = None
    CAPACITY = 1
    BUCKET = 1
    MaxEvents = 2
    MaxEdits = 1
    MaxTime = 1
    MaxFaults = 1
INVARIANTS
    HistoryAgrees
    RecordsBelong
    EditsSurvive
    RestoredUntilHeard
PROPERTIES
    DisabledIsQuiet
CHECK_DEADLOCK FALSE
