----------------------------- MODULE SubsqCalls -----------------------------
(***************************************************************************)
(* The calls of the HTTP API that change the database, and the answers they  *)
(* can get: the request bodies the controllers bind, and the statuses that  *)
(* handleError chooses.  Shared by what the API promises (SubsqAPI) and by   *)
(* what the backend does (SubsqBackend).                                     *)
(*                                                                          *)
(* A list of ids is the set of the ids in it and whether one of them occurs *)
(* twice.  DELETE of one payment method runs the same transaction as DELETE *)
(* of a list of one, so it is not a call of its own.                         *)
(***************************************************************************)
EXTENDS SubsqStore

CONSTANTS
    Requests,   \* requests that can be in progress at the same time
    Ops         \* the operations that clients call

VARIABLES
    call,       \* the call that a request in progress carries, else NULL
    answer      \* what the client of its last call was told; NULL while it waits

KeepPlan == NULL            \* a PATCH that does not mention the plan
KeepPaymentMethod == NULL   \* a PATCH that does not mention paymentMethodId

CreateSubscriptionCalls ==
    [op : {"CreateSubscription"}, user : UserIds, plan : Plans,
     paymentMethod : PaymentMethodIds \cup {NULL}]

UpdateSubscriptionCalls ==
    [op : {"UpdateSubscription"}, user : UserIds, id : SubscriptionIds,
     plan : Plans \cup {KeepPlan},
     paymentMethod : PaymentMethodIds \cup {KeepPaymentMethod}]

DeleteSubscriptionCalls ==
    [op : {"DeleteSubscription"}, user : UserIds, id : SubscriptionIds]

DeleteSubscriptionsCalls ==
    [op : {"DeleteSubscriptions"}, user : UserIds, ids : SUBSET SubscriptionIds,
     repeated : BOOLEAN]

CreatePaymentMethodCalls ==
    [op : {"CreatePaymentMethod"}, user : UserIds, name : Names]

UpdatePaymentMethodCalls ==
    [op : {"UpdatePaymentMethod"}, user : UserIds, id : PaymentMethodIds, name : Names]

DeletePaymentMethodsCalls ==
    [op : {"DeletePaymentMethods"}, user : UserIds, ids : SUBSET PaymentMethodIds,
     repeated : BOOLEAN]

DeleteCurrentUserCalls == [op : {"DeleteCurrentUser"}, user : UserIds]

Calls ==
    UNION {CreateSubscriptionCalls, UpdateSubscriptionCalls, DeleteSubscriptionCalls,
           DeleteSubscriptionsCalls, CreatePaymentMethodCalls, UpdatePaymentMethodCalls,
           DeletePaymentMethodsCalls, DeleteCurrentUserCalls}

\* 2xx; 400; 404; 409; 500 or no answer at all
Answers == {"ok", "invalid", "notfound", "inuse", "error"}

\* The checks that need no database: ids must not be empty in the controllers,
\* ValidateFields first thing in the use cases.  (Update of a subscription
\* validates later, what the PATCH makes of the row.)
WellFormed(c) ==
    /\ c.op \in {"DeleteSubscriptions", "DeletePaymentMethods"} => c.ids # {}
    /\ c.op = "CreateSubscription" => c.plan \in ValidPlans
    /\ c.op \in {"CreatePaymentMethod", "UpdatePaymentMethod"} => c.name \in ValidNames

\* Forgets the user.
NewRowOfNobody(c) == [user |-> NULL, plan |-> c.plan, paymentMethod |-> c.paymentMethod]

\* NewSubscription
NewRow(c) == [user |-> c.user, plan |-> c.plan, paymentMethod |-> c.paymentMethod]

\* WithUpdate: what c does not mention keeps its value.
WithUpdate(old, c) ==
    [user |-> old.user,
     plan |-> IF c.plan = KeepPlan THEN old.plan ELSE c.plan,
     paymentMethod |-> IF c.paymentMethod = KeepPaymentMethod
                       THEN old.paymentMethod ELSE c.paymentMethod]

\* DELETE ... WHERE id = ANY(ids), of whatever user.
TargetsOfAnyone(c) ==
    CASE c.op = "DeleteSubscription" -> {c.id}
      [] c.op = "DeleteSubscriptions" -> {s \in c.ids : subscriptions[s] # NULL}
      [] c.op = "DeletePaymentMethods" -> {p \in c.ids : paymentMethods[p] # NULL}

\* The rows that a deleting call names: DELETE FROM ... WHERE id = ANY(ids)
\* AND user_id = user.
Targets(c) ==
    CASE c.op = "DeleteSubscription" -> OwnSubscriptions({c.id}, c.user)
      [] c.op = "DeleteSubscriptions" -> OwnSubscriptions(c.ids, c.user)
      [] c.op = "DeletePaymentMethods" -> OwnPaymentMethods(c.ids, c.user)

\* len(rows found) # len(ids)
SomeMissing(c) == c.repeated \/ Targets(c) # c.ids
=============================================================================
