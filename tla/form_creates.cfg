\* Does the form of the end-to-end tests create a subscription?
SPECIFICATION Spec
CONSTANTS
    Dates <- MCDates
    Instants = {1, 31, 86400}
    Offset <- NewYork
    Methods = {m1}
    None = None
    Absent = Absent
    NULL = NULL
    MaxUpdates = 1
INVARIANT FormCreates
