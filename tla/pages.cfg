SPECIFICATION Spec
CONSTANTS
    UserIds = {u1}
    Me = u1
    PaymentMethodIds = {p1}
    SubscriptionIds = {s1}
    Names = {n1, n2}
    ValidNames = {n1}
    Plans = {a}
    ValidPlans = {a}
    NULL = NULL
    MaxMutations = 1
    MaxChanges = 1
    MaxAnswers = 1
    MaxTurns = 2
INVARIANTS
    TypeOK
    RefetchedIsCurrent
    OffersAreHonest
    NothingForgotten
PROPERTIES
    LeadsAwayFromItsFormOnly
    InputSurvives
CHECK_DEADLOCK FALSE
