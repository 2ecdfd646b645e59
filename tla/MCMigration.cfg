SPECIFICATION Spec
CONSTANTS
    Requests = {p1, p2}
    MaxActive = 2
    Kinds = {"login"}
    Usernames = {u1}
    Passwords = {w1, w2}
    Trimmed <- OnePassword
    Starts = {"legacy"}
    Nobody = Nobody
SYMMETRY Symmetry
PROPERTY
    HashedForGood
