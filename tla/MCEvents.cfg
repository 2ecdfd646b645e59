SPECIFICATION Spec
CONSTANTS
    light = light
    cover = cover
    ENTITY = {light, cover}
    BadId = BadId
    TooLong = TooLong
    None = None
    Malformed = Malformed
    Fractional = Fractional
    ZIGBEE = {light}
    ASKED = {"entities"}
    SOCKET = {s1}
    SUBID = {i1}
    CALL <- MCCall
    MADE <- MCMade
    VALUE = {"on"}
    REPORTED = {"off"}
    RING = 1
    QUEUE = 1
    LOGBOOK = 2
    MaxEvents = 2
    MaxAlone = 3
    MaxTasks = 2
INVARIANTS
    StatesAreAsTold
    ListenersKeepOrder
    MirrorIsCurrent
    OnlyReplacedTasksOutlive
    CallsAreAsPromised
PROPERTIES
    EventuallyTold
CHECK_DEADLOCK FALSE
