SPECIFICATION Spec
CONSTANTS
    Requests = {p1, p2}
    MaxActive = 2
    Kinds = {"create_user"}
    Usernames = {u1}
    Passwords = {w1, w2}
    Trimmed <- OnePassword
    Starts = {"fresh"}
    Nobody = Nobody
SYMMETRY Symmetry
INVARIANT
    UserStepRunsOnce
