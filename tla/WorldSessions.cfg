SPECIFICATION Spec
CONSTANTS
    None = None
    s1 = s1
    s2 = s2
    s3 = s3
    a1 = a1
    a2 = a2
    Sessions = {s1, s2, s3}
    Accounts = {a1, a2}
    Account <- TwoAndOne
    Exempt = {s2}
    Limit = 1
    Tolerance = TRUE
    MisjudgesFailure = FALSE
    Playing = {s1, s2}
    MaxKeys = 1
    MaxProgress = 1
INVARIANTS
    
    WaitsForRoom
    
    
PROPERTIES
    Admission
