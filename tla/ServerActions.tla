--------------------------- MODULE ServerActions ---------------------------
(***************************************************************************)
(* The server side of the frontend as its pages see it: server actions that  *)
(* ask for data or send a mutation, withAuth in front of each, and behind     *)
(* them the services that call the API.  The API is what SubsqAPI promises,   *)
(* which the backend implements: a call takes effect at one moment, or fails. *)
(*                                                                          *)
(* One user, Me.  Other devices of Me change the data too.                    *)
(***************************************************************************)
EXTENDS SubsqStore

CONSTANTS
    Me,             \* the user whose pages these are
    MaxMutations,   \* bound on the mutations in flight
    MaxChanges      \* bound on the changes of the data

ASSUME MeAssumption == Me \in UserIds

ASSUME BoundsAssumption == MaxMutations \in Nat /\ MaxChanges \in Nat

VARIABLES
    signedIn,   \* the cookie names a session that the API accepts
    mutations,  \* in flight: what each calls, if the component that sent it is
                \* still mounted, and if the API has done it
    version,    \* by id, what else of a row's response changes: updatedAt, which
                \* every update sets, and the next billing date, which is of the day
    changes     \* of the data so far

server == <<tables, signedIn, version, changes>>

API == INSTANCE SubsqAPI WITH
    Requests <- {}, Ops <- {}, call <- <<>>, answer <- <<>>, phase <- <<>>

\* The calls that the services make; the account stays.
Calls ==
    {c \in UNION {API!CreateSubscriptionCalls, API!UpdateSubscriptionCalls,
                  API!DeleteSubscriptionCalls, API!CreatePaymentMethodCalls,
                  API!UpdatePaymentMethodCalls,
                  {d \in API!DeletePaymentMethodsCalls :
                      ~d.repeated /\ Cardinality(d.ids) = 1}} :
        c.user = Me /\ API!WellFormed(c)}

Mutations == [call : Calls, mine : BOOLEAN, done : BOOLEAN]

-----------------------------------------------------------------------------
(***************************************************************************)
(* Queries.  A key is what the key factories build.                         *)
(***************************************************************************)

SubscriptionList == <<"subscriptions", "list">>
SubscriptionDetail(s) == <<"subscriptions", "detail", s>>
PaymentMethodList == <<"paymentMethods", "list">>
PaymentMethodDetail(p) == <<"paymentMethods", "detail", p>>

ListKeys == {SubscriptionList, PaymentMethodList}
DetailKeys == {SubscriptionDetail(s) : s \in SubscriptionIds}
                \cup {PaymentMethodDetail(p) : p \in PaymentMethodIds}
Keys == ListKeys \cup DetailKeys

\* The response carries the name of the payment method.
SubscriptionResponse(s) ==
    LET row == subscriptions[s]
    IN  [plan |-> row.plan, paymentMethod |-> row.paymentMethod,
         name |-> IF row.paymentMethod = NULL THEN NULL
                  ELSE paymentMethods[row.paymentMethod].name,
         version |-> version[s]]

PaymentMethodResponse(p) ==
    [name |-> paymentMethods[p].name, usageCount |-> Cardinality(Usage({p})),
     version |-> version[p]]

\* What the API has now: rows by id for a list, a row or NULL.
CurrentSubscriptions ==
    [s \in OwnSubscriptions(SubscriptionIds, Me) |-> SubscriptionResponse(s)]

CurrentSubscription(s) == IF OwnSubscription(s, Me) THEN SubscriptionResponse(s) ELSE NULL

CurrentPaymentMethods ==
    [p \in OwnPaymentMethods(PaymentMethodIds, Me) |-> PaymentMethodResponse(p)]

CurrentPaymentMethod(p) == IF OwnPaymentMethod(p, Me) THEN PaymentMethodResponse(p) ELSE NULL

Current(k) ==
    IF k = SubscriptionList THEN CurrentSubscriptions
    ELSE IF k = PaymentMethodList THEN CurrentPaymentMethods
    ELSE IF k[1] = "subscriptions" THEN CurrentSubscription(k[3])
    ELSE CurrentPaymentMethod(k[3])

\* A service that fails throws for a list and answers null for a detail.
Answers(k) == IF k \in DetailKeys THEN {Current(k), NULL} ELSE {Current(k)}

-----------------------------------------------------------------------------
(***************************************************************************)
(* Mutations.                                                               *)
(***************************************************************************)

Send(c) ==
    /\ Cardinality(mutations) < MaxMutations
    /\ mutations' = mutations \cup {[call |-> c, mine |-> TRUE, done |-> FALSE]}

\* An update sets updatedAt, whatever it changes.  (One within the second of the last,
\* which changes nothing else, is a step that no page can tell from none.)
NewVersion(c) ==
    version' = IF c.op \in {"UpdateSubscription", "UpdatePaymentMethod"}
               THEN [version EXCEPT ![c.id] = changes + 1] ELSE version

Change(c) ==
    /\ changes < MaxChanges
    /\ changes' = changes + 1
    /\ API!Effect(c)
    /\ NewVersion(c)

\* The day changes, and with it the next billing date of some subscriptions.
DayPasses ==
    /\ changes < MaxChanges
    /\ changes' = changes + 1
    /\ \E due \in SUBSET OwnSubscriptions(SubscriptionIds, Me) \ {{}} :
        version' = [i \in RowIds |-> IF i \in due THEN changes + 1 ELSE version[i]]
    /\ UNCHANGED tables

\* The call takes effect; the answer is on its way.
Accept(m) ==
    /\ m \in mutations /\ ~m.done /\ signedIn
    /\ Change(m.call)
    /\ mutations' = (mutations \ {m})
                    \cup {[call |-> m.call, mine |-> m.mine, done |-> TRUE]}
    /\ UNCHANGED signedIn

\* The pages that sent them are gone.
Orphaned == {[call |-> m.call, mine |-> FALSE, done |-> m.done] : m \in mutations}
=============================================================================
