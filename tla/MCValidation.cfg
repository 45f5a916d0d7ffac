SPECIFICATION MCSpec
CONSTANTS
    LocalhostSpellings = {"localhost", "LOCALHOST"}
    Authorities = {"root", "sub", "leafCA", "old", "rogue"}
    Issuer <- MCIssuer
    Roots = {"root"}
    IssuesServerAuth = {"root", "sub", "leafCA", "rogue"}
    Now = 2
    PublicKeys = {"k1", "k2"}
    NoPublicKey = NoPublicKey
INVARIANTS
    AcceptsExactlyPolicy
CHECK_DEADLOCK FALSE
