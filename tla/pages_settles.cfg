SPECIFICATION Spec
CONSTANTS
    UserIds = {u1}
    Me = u1
    PaymentMethodIds = {}
    SubscriptionIds = {s1}
    Names = {n1}
    ValidNames = {n1}
    Plans = {a}
    ValidPlans = {a}
    NULL = NULL
    MaxMutations = 1
    MaxChanges = 1
    MaxAnswers = 1
    MaxTurns = 2
PROPERTIES
    RefreshEnds
    LoadingEnds
CHECK_DEADLOCK FALSE
