SPECIFICATION StartupSpec
CONSTANTS
    Starts = {s1, s2, s3}
    s1 = s1
    s2 = s2
    s3 = s3
    Providers = {"p1", "p2"}
    Keys = {"k1", "k2"}
    Identity <- MCIdentity
    InitialFiles <- MCFiles
    None = None
    Foreign = Foreign
CHECK_DEADLOCK FALSE
INVARIANTS StartupTypeOK AdmittedServesItsOwn RejectedByAnother RefusedStartsLeaveNoTrace
PROPERTIES FormedAtOnce ImplementsIdentity
