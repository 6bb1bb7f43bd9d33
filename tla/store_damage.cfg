SPECIFICATION Spec
CONSTANTS
    Calls = {c1, c2, c3, c4}
    Requests <- DamageRequests
    Workspaces = {"w1", "w2"}
    SecretIds = {"s1", "s2"}
    Correlations = {"k1", "k2"}
    Subjects = {"alice", "bob"}
    Intents <- MCIntents
    Issuers = {"hub", "edge"}
    References = {"ref1", "ref2"}
    VersionIds = {v1, v2, v3}
    Values = {"old", "new"}
    KeyPairs = {g1, g2}
    MaxDamage = 1
    None = None
SYMMETRY SafetySymmetry
CHECK_DEADLOCK FALSE
INVARIANTS UndamagedRowsAuthenticate PinnedResolution
PROPERTIES VersionsPersist NoMaterialAfterRevocation RevocationScope RefusalsChangeNothing ImplementsLifecycle
