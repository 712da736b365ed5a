\* Two PATCHes of one subscription, one of the plan and one of the payment method.
SPECIFICATION Spec
CONSTANTS
    UserIds = {u1}
    PaymentMethodIds = {p1}
    SubscriptionIds = {s1}
    Names = {n1}
    ValidNames = {n1}
    Plans = {a1, a2}
    ValidPlans = {a1, a2}
    NULL = NULL
    Requests = {r1, r2}
    Ops = {"CreateSubscription", "UpdateSubscription", "CreatePaymentMethod"}
PROPERTY PatchKeepsTheRest
