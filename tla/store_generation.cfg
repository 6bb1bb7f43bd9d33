SPECIFICATION Spec
CONSTANTS
    Calls = {c1, c2, c3, c4}
    Requests <- GenerationRequests
    Workspaces = {"w1"}
    SecretIds = {"s1", "s2"}
    Correlations = {"k1", "k2"}
    Subjects = {"alice", "bob"}
    Intents <- MCIntents
    Issuers = {"hub", "edge"}
    References = {"ref1", "ref2"}
    VersionIds = {v1, v2}
    Values = {"old", "new"}
    KeyPairs = {g1, g2}
    MaxDamage = 0
    None = None
SYMMETRY SafetySymmetry
CHECK_DEADLOCK FALSE
INVARIANTS OneIdentityPerGeneration GenerationBacked AuditedAtomically
