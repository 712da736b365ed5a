\* Does null take the payment method of a subscription away?
SPECIFICATION Spec
CONSTANTS
    Dates <- MCDates
    Instants = {1, 31, 86400}
    Offset <- NewYork
    Methods = {m1}
    None = None
    Absent = Absent
    NULL = NULL
    MaxUpdates = 1
PROPERTY NullClears
