\* Logins one after the other on every file, edited or linked until they save.
SPECIFICATION Spec
CONSTANTS
    l1 = l1
    l2 = l2
    Logins = {l1}
    Spellings <- MCSpellings
    Normal <- MCNormal
    Malformed = "malformed"
    Names <- MCNames
    Issuers = {"x", "y"}
    ClientIDs = {"laptop", "shared"}
    Hostname = "laptop"
    Overlap = FALSE
    Quiet <- UntilSave
    MaxEdits = 2
INVARIANTS
    DeployInv
    TypeOK
    NoDuplicateKeys
    ApprovedLoginCanBeSaved
    TokenOfTheFilesIssuer
PROPERTIES
    KeepsWhatTheFileSays
    LinkedNeverWritten
\* A file that cannot be read stops every login and command until it is edited.
CHECK_DEADLOCK FALSE
