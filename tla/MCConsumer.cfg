SPECIFICATION ConsumerSpec
CONSTANTS
    a1 = a1
    a2 = a2
    u1 = u1
    u2 = u2
    c1 = c1
    c2 = c2
    l1 = l1
    l2 = l2
    Attempts = {a1, a2}
    Containers = {c1, c2}
    Leaves = {l1, l2}
    Providers = {"SoftwareKSP"}
    ExpectedCNGProvider = "SoftwareKSP"
    ProviderTypes = {0}
    KeySpecs = {0, 1}
    Hidden = {c2}
    Foreign = Foreign
    NoKey = NoKey
    NotInstalled = NotInstalled
    NoContainer = NoContainer
    NoProvider = NoProvider
    NoLeaf = NoLeaf
    NoInfo = NoInfo
    LocalhostSpellings = {"localhost"}
    Authorities = {"root"}
    Issuer <- MCIssuer
    Roots = {"root"}
    IssuesServerAuth = {"root"}
    Now = 2
    PublicKeys = {a1, a2, Foreign}
    NoPublicKey = NoPublicKey
    Configured = {a1, a2}
    WithDeadline = {}
    Contents <- MCContents
    Material <- MCMaterial
    NoMaterial = NoMaterial
    Callers = {u1, u2}
    Persisted = {}
    NoFile = NoFile
    Empty = Empty
    Torn = Torn
INVARIANTS
    FileInv
    FileIsTrustworthy
    PersistedUntilRenewed
PROPERTIES
    UsesLifecycle
CHECK_DEADLOCK FALSE
