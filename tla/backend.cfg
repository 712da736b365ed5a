\* Two users, two requests at a time, all operations, legal and illegal names and
\* plans.
SPECIFICATION Spec
CONSTANTS
    UserIds = {u1, u2}
    PaymentMethodIds = {p1, p2}
    SubscriptionIds = {s1}
    Names = {n1, long}
    ValidNames = {n1}
    Plans = {a1, a2, bad}
    ValidPlans = {a1, a2}
    NULL = NULL
    Requests = {r1, r2}
    Ops = {"CreateSubscription", "UpdateSubscription", "DeleteSubscription", "DeleteSubscriptions", "CreatePaymentMethod", "UpdatePaymentMethod", "DeletePaymentMethods", "DeleteCurrentUser"}
SYMMETRY Symmetric
INVARIANT TypeOK
INVARIANT PaymentMethodIntegrity
INVARIANT NoOrphans
INVARIANT LocksProtect
INVARIANT VerifiedRows
INVARIANT DeletedMeansGone
INVARIANT ReadsLast
PROPERTY OnlyOwnRowsChange
PROPERTY KeepsPromises
PROPERTY UsedMethodsStay
