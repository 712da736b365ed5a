\* One user, three requests at a time that share and delete rows.
SPECIFICATION Spec
CONSTANTS
    UserIds = {u1}
    PaymentMethodIds = {p1}
    SubscriptionIds = {s1, s2}
    Names = {n1}
    ValidNames = {n1}
    Plans = {a1}
    ValidPlans = {a1}
    NULL = NULL
    Requests = {r1, r2, r3}
    Ops = {"CreateSubscription", "UpdateSubscription", "DeleteSubscriptions", "CreatePaymentMethod", "DeletePaymentMethods", "DeleteCurrentUser"}
SYMMETRY Symmetric
INVARIANT LocksProtect
INVARIANT DeletedMeansGone
PROPERTY UsedMethodsStay
