SPECIFICATION Spec
CONSTANTS
    Requests = {p1, p2, p3}
    MaxActive = 2
    Kinds <- EveryKind
    Subjects = {"entities", "zigbee"}
    Names = {n1}
    Suffixed = {x1}
    NotLoaded = NotLoaded
    Nobody = Nobody
SYMMETRY Symmetry
INVARIANTS
    AnswersHold
    LocksAreInUse
    LabelsExist
