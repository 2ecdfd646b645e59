SPECIFICATION Spec
CONSTANTS
    Requests = {p1, p2, p3}
    MaxActive = 2
    Kinds <- EveryKind
    Usernames = {u1}
    Passwords = {w1, w2}
    Trimmed <- OnePassword
    Starts = {"fresh", "legacy"}
    Nobody = Nobody
SYMMETRY Symmetry
INVARIANTS
    OperationalImpliesOnboarded
    OnboardedHasOwner
    AnswersHoldInTurn
PROPERTIES
    OnboardedForGood
    HashedForGoodInTurn
