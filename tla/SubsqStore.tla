----------------------------- MODULE SubsqStore -----------------------------
(***************************************************************************)
(* The three PostgreSQL tables of the backend and the SQL statements that   *)
(* touch them: migrations/20260228000000_init_schema.up.sql and the sqlc    *)
(* queries.  A table maps an id to its row, or to NULL when there is none.  *)
(* Ids come from gen_random_uuid(), so an id is handed out once: fresh holds *)
(* the ids that were never used.                                            *)
(*                                                                          *)
(* The columns service_name, amount, billing_cycle, base_date and memo are  *)
(* one value, the plan; ValidPlans are the plans ValidateFields accepts.    *)
(***************************************************************************)
EXTENDS Naturals, FiniteSets, Sequences

CONSTANTS
    UserIds,            \* ids a row of users can get
    PaymentMethodIds,   \* ids a row of payment_methods can get
    SubscriptionIds,    \* ids a row of subscriptions can get
    Names, ValidNames,  \* names of payment methods, and those of legal length
    Plans, ValidPlans,  \* contents of subscriptions, and the legal ones
    NULL                \* no row; also SQL's NULL

VARIABLES
    users,              \* ids of the rows of users
    paymentMethods,     \* payment_methods, by id
    subscriptions,      \* subscriptions, by id
    fresh               \* ids not handed out yet

tables == <<users, paymentMethods, subscriptions, fresh>>

PaymentMethodRow == [user : UserIds, name : Names]

SubscriptionRow == [user : UserIds, plan : Plans,
                    paymentMethod : PaymentMethodIds \cup {NULL}]

RowIds == PaymentMethodIds \cup SubscriptionIds

ASSUME IdsAssumption ==
    /\ UserIds \cap RowIds = {}
    /\ PaymentMethodIds \cap SubscriptionIds = {}

ASSUME NullAssumption ==
    /\ NULL \notin UserIds \cup RowIds \cup Names \cup Plans
    /\ NULL \notin PaymentMethodRow
    /\ NULL \notin SubscriptionRow

ASSUME ValidityAssumption ==
    /\ ValidNames \subseteq Names
    /\ ValidPlans \subseteq Plans

TablesTypeOK ==
    /\ users \subseteq UserIds
    /\ paymentMethods \in [PaymentMethodIds -> PaymentMethodRow \cup {NULL}]
    /\ subscriptions \in [SubscriptionIds -> SubscriptionRow \cup {NULL}]
    /\ fresh \subseteq UserIds \cup RowIds

InitTables ==
    /\ users = {}
    /\ paymentMethods = [p \in PaymentMethodIds |-> NULL]
    /\ subscriptions = [s \in SubscriptionIds |-> NULL]
    /\ fresh = UserIds \cup RowIds

-----------------------------------------------------------------------------
(***************************************************************************)
(* Queries.                                                                 *)
(***************************************************************************)

\* GetPaymentMethodByID finds a row: WHERE id = p AND user_id = u.
OwnPaymentMethod(p, u) ==
    /\ paymentMethods[p] # NULL
    /\ paymentMethods[p].user = u

\* GetSubscriptionByID finds a row: WHERE id = s AND user_id = u.
OwnSubscription(s, u) ==
    /\ subscriptions[s] # NULL
    /\ subscriptions[s].user = u

\* The rows of ids that WHERE id = ANY(ids) AND user_id = u selects.
OwnPaymentMethods(ids, u) == {p \in ids \cap PaymentMethodIds : OwnPaymentMethod(p, u)}

OwnSubscriptions(ids, u) == {s \in ids \cap SubscriptionIds : OwnSubscription(s, u)}

\* The subscriptions that the usage count over ids counts, of whatever user.
Usage(ids) ==
    {s \in SubscriptionIds :
        subscriptions[s] # NULL /\ subscriptions[s].paymentMethod \in ids}

Used(ids) == Usage(ids) # {}

\* What the foreign keys of the row of subscriptions demand.
ReferencesExist(row) ==
    /\ row.user \in users
    /\ row.paymentMethod # NULL => paymentMethods[row.paymentMethod] # NULL

-----------------------------------------------------------------------------
(***************************************************************************)
(* Statements.                                                              *)
(***************************************************************************)

InsertUser(u) ==
    /\ u \in fresh
    /\ users' = users \cup {u}
    /\ fresh' = fresh \ {u}
    /\ UNCHANGED <<paymentMethods, subscriptions>>

InsertPaymentMethodRow(row) ==
    \E p \in PaymentMethodIds \cap fresh :
        /\ paymentMethods' = [paymentMethods EXCEPT ![p] = row]
        /\ fresh' = fresh \ {p}
        /\ UNCHANGED <<users, subscriptions>>

SetPaymentMethodName(p, name) ==
    /\ paymentMethods' = [paymentMethods EXCEPT ![p].name = name]
    /\ UNCHANGED <<users, subscriptions, fresh>>

InsertSubscriptionRow(row) ==
    \E s \in SubscriptionIds \cap fresh :
        /\ subscriptions' = [subscriptions EXCEPT ![s] = row]
        /\ fresh' = fresh \ {s}
        /\ UNCHANGED <<users, paymentMethods>>

SetSubscriptionRow(s, row) ==
    /\ subscriptions' = [subscriptions EXCEPT ![s] = row]
    /\ UNCHANGED <<users, paymentMethods, fresh>>

Without(table, ids) == [i \in DOMAIN table |-> IF i \in ids THEN NULL ELSE table[i]]

RemoveRows(ids) ==
    /\ paymentMethods' = Without(paymentMethods, ids)
    /\ subscriptions' = Without(subscriptions, ids)
    /\ UNCHANGED <<users, fresh>>

\* The rows that ON DELETE CASCADE removes with user u.
RowsOf(u) == OwnPaymentMethods(PaymentMethodIds, u) \cup OwnSubscriptions(SubscriptionIds, u)

\* ON DELETE RESTRICT, once the cascades are done: nobody else's subscription
\* refers to a payment method of u.
CascadeLeavesNoReference(u) == Usage(OwnPaymentMethods(PaymentMethodIds, u)) \subseteq RowsOf(u)

\* A schema whose subscriptions do not cascade.
RemoveUserOnly(u) ==
    /\ users' = users \ {u}
    /\ paymentMethods' = Without(paymentMethods, RowsOf(u))
    /\ UNCHANGED <<subscriptions, fresh>>

RemoveUser(u) ==
    /\ users' = users \ {u}
    /\ paymentMethods' = Without(paymentMethods, RowsOf(u))
    /\ subscriptions' = Without(subscriptions, RowsOf(u))
    /\ UNCHANGED fresh

-----------------------------------------------------------------------------
(***************************************************************************)
(* What the data must satisfy between statements.                           *)
(***************************************************************************)

\* A subscription's payment method is a row that exists, and it belongs to
\* the subscription's own user.  The schema only guarantees the first half
\* (payment_method_id REFERENCES payment_methods); the second rests on the
\* check by FindByID(paymentMethodID, userID) that the use cases make some
\* statements before they write.
PaymentMethodIntegrity ==
    \A s \in SubscriptionIds :
        subscriptions[s] # NULL /\ subscriptions[s].paymentMethod # NULL =>
            OwnPaymentMethod(subscriptions[s].paymentMethod, subscriptions[s].user)

\* No row outlives its user: an account that is deleted while requests of the
\* same user are in flight leaves nothing behind, and none of them adds a row
\* later.
NoOrphans ==
    /\ \A p \in PaymentMethodIds :
        paymentMethods[p] # NULL => paymentMethods[p].user \in users
    /\ \A s \in SubscriptionIds :
        subscriptions[s] # NULL => subscriptions[s].user \in users

\* An id that was never handed out has no row, and a user who is gone stays
\* gone.
FreshIdsUnused ==
    /\ users \cap fresh = {}
    /\ \A p \in PaymentMethodIds \cap fresh : paymentMethods[p] = NULL
    /\ \A s \in SubscriptionIds \cap fresh : subscriptions[s] = NULL
=============================================================================
