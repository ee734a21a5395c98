\* Two logins at once.
SPECIFICATION Spec
CONSTANTS
    l1 = l1
    l2 = l2
    Logins = {l1, l2}
    Spellings <- MCSpellings
    Normal <- MCNormal
    Malformed = "malformed"
    Names <- MCNames
    Issuers = {"x", "y"}
    ClientIDs = {"laptop", "shared"}
    Hostname = "laptop"
    Overlap = TRUE
    Quiet <- NoLogin
    MaxEdits = 0
INVARIANT
    NoDuplicateKeys
\* A file that cannot be read stops every login and command until it is edited.
CHECK_DEADLOCK FALSE
