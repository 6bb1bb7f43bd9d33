SPECIFICATION ApiSpec
CONSTANTS
    Calls = {c1, c2, c3, c4}
    ApiRequests <- RevocationRequests
    Requests <- MCRequests
    Workspaces = {"w1", "w2"}
    SecretIds = {"s1"}
    Correlations = {"k1"}
    Subjects = {"alice"}
    Intents <- MCIntents
    KnownIntents <- MCKnownIntents
    Issuers = {"hub"}
    References = {"ref1"}
    VersionIds = {v1}
    Values = {"old", "new"}
    KeyPairs = {g1}
    Credentials <- MCCredentials
    MaxDamage = 1
    MaxCrashes = 0
    None = None
    Unstated = None
    NonAscii = {"non-ascii"}
    Wildcard = "*"
CHECK_DEADLOCK FALSE
SYMMETRY SafetySymmetry
INVARIANTS RevocationIsHonoured
