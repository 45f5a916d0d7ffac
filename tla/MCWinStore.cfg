SPECIFICATION WinSpec
CONSTANTS
    p1 = p1
    l1 = l1
    l2 = l2
    l3 = l3
    k1 = k1
    k2 = k2
    Clients = {p1}
    Leaves = {l1, l2, l3}
    Associations = {k1, k2}
    NotInstalled = NotInstalled
    NoContext = NoContext
INVARIANTS
    WinTypeOK
    ContextDiscipline
    SearchComplete
PROPERTIES
    ImplementsCertStore
    OperationReturns
CHECK_DEADLOCK FALSE
