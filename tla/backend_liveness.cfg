\* Two users' requests for few rows, under the fairness of the scheduler and of
\* PostgreSQL's lock queues.
SPECIFICATION FairSpec
CONSTANTS
    UserIds = {u1}
    PaymentMethodIds = {p1}
    SubscriptionIds = {s1}
    Names = {n1}
    ValidNames = {n1}
    Plans = {a1}
    ValidPlans = {a1}
    NULL = NULL
    Requests = {r1, r2}
    Ops = {"CreateSubscription", "UpdateSubscription", "DeleteSubscription", "DeleteSubscriptions", "CreatePaymentMethod", "UpdatePaymentMethod", "DeletePaymentMethods", "DeleteCurrentUser"}
PROPERTY EveryRequestAnswered
