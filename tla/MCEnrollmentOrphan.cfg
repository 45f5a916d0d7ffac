SPECIFICATION Spec
CONSTANTS
    a1 = a1
    a2 = a2
    a3 = a3
    c1 = c1
    c2 = c2
    l1 = l1
    l2 = l2
    x1 = x1
    Attempts = {a1, a2}
    Containers = {c1, c2}
    Leaves = {l1, l2, x1}
    Providers = {"SoftwareKSP", "OtherKSP"}
    ExpectedCNGProvider = "SoftwareKSP"
    ProviderTypes = {0}
    KeySpecs = {0, 1}
    Hidden = {c2}
    Foreign = Foreign
    NoKey = NoKey
    NotInstalled = NotInstalled
    NoContainer = NoContainer
    NoProvider = NoProvider
    NoLeaf = NoLeaf
    NoInfo = NoInfo
    LocalhostSpellings = {"localhost"}
    Authorities = {"root", "sub"}
    Issuer <- MCIssuer
    Roots = {"root"}
    IssuesServerAuth = {"root", "sub"}
    Now = 2
    PublicKeys = {a1, a2, a3, Foreign}
    NoPublicKey = NoPublicKey
    Configured = {a1, a2}
    WithDeadline = {a1}
    Contents <- MCContents
    Material <- MCMaterial
    NoMaterial = NoMaterial
INVARIANTS
    InstalledKeepsKey
CHECK_DEADLOCK FALSE
