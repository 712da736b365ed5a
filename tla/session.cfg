SPECIFICATION Spec
CONSTANTS
    Tabs = {t1, t2}
    People = {p1}
    Addresses = {e1, e2}
    AccountIds = {a1, a2}
    NULL = NULL
    Deleted = Deleted
    Stale = Stale
    MaxFlows = 2
    MaxEvents = 2
INVARIANTS
    TypeOK
    OneAccountEach
PROPERTIES
    OnlyLastFlow
    RedirectsSettle
    DeletionEndsAtLogin
