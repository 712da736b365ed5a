\* One tab, one person, and an address that changes between two sign-ins.
SPECIFICATION Spec
CONSTANTS
    Tabs = {t1}
    People = {p1}
    Addresses = {e1, e2}
    AccountIds = {a1, a2}
    NULL = NULL
    Deleted = Deleted
    Stale = Stale
    MaxFlows = 2
    MaxEvents = 2
PROPERTY ReturningUserLetIn
