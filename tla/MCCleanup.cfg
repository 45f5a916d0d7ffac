SPECIFICATION UninstallSpec
CONSTANTS
    a1 = a1
    u1 = u1
    u2 = u2
    c1 = c1
    c2 = c2
    l1 = l1
    Attempts = {a1}
    Containers = {c1, c2}
    Leaves = {l1}
    Providers = {"SoftwareKSP", "OtherKSP"}
    ExpectedCNGProvider = "SoftwareKSP"
    ProviderTypes = {0}
    KeySpecs = {0, 1}
    Hidden = {c2}
    Foreign = Foreign
    NoKey = NoKey
    NotInstalled = NotInstalled
    NoContainer = NoContainer
    NoProvider = NoProvider
    NoLeaf = NoLeaf
    NoInfo = NoInfo
    Callers = {u1, u2}
    Persisted <- MCPersisted
INVARIANTS
    CleanupTypeOK
    RefusalMeansUntouched
    UninstallInv
PROPERTIES
    LeafBeforeKey
    DeletesOnlyVerified
    NilMeansGone
CHECK_DEADLOCK FALSE
