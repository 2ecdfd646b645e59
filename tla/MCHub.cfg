SPECIFICATION MCSpec
CONSTANTS
    APP = {a1, a2}
    DEVID = {d1}
    ENTITYTYPE = {"sensor", "binary_sensor"}
    Unsupported = "switch"
    UID = {1, 2}
    EDIT = {x1}
    MADEUP = {m1}
    m1 = m1
    PLACE = {p1}
    ZONENAME = {"home", "work"}
    Home = "home"
    AREANAME = {"kitchen", "attic"}
    None = None
    Text = Text
    Refused = Refused
    MaxDevices = 2
    MaxZones = 2
    MaxAreas = 3
    Slug <- MCSlug
    Shows <- MCShows
    SeedAreas <- MCSeed
    BATCH <- MCBatch
    NAME <- MCNAME
    Alphabet <- MCAlphabet
    HOMES <- MCHomes
    CLIENT = {c1, c2}
    PASSWORD = {old, new}
    STEP = {s1, s2}
    NoClient = NoClient
    MaxFlows = 2
    REQUEST = {r1, r2}
    TOKEN = {t1, t2, t3}
    Broken = Broken
    DURATION = {0, 1, 2}
    Room = 1
    MaxWaiting = 3
    MaxTime = 4
INVARIANTS
    RegistryIsSound
    DevicesMovePersons
    PlacesAreTold
    BatchDoesAsAnswered
    DashboardIsComplete
    FlowsAreOneClients
    TokensAreAsAnswered
    PagesShowTheWindow
PROPERTIES
    DeviceKeepsWhatItWasGiven
