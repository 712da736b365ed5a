------------------------------- MODULE Pages -------------------------------
(***************************************************************************)
(* The pages of SubsQ in a browser tab: navigation, queries, forms, dialogs,   *)
(* mutations and pull to refresh, interleaved with each other, with the         *)
(* server, and with other devices of the same user.                           *)
(***************************************************************************)
EXTENDS PaymentMethodPages

CONSTANTS
    MaxAnswers,     \* server actions that the server has done and the tab still awaits
    MaxTurns        \* bound on what the user, other devices and failures start

ASSUME TurnsAssumption == MaxAnswers \in Nat /\ MaxTurns \in Nat

VARIABLES
    refresh,    \* the keys that a pull to refresh waits for, or NULL
    current,    \* keys fetched again for an own mutation or a pull, or come with the
                \* page, since which nothing has changed (for the properties)
    turns       \* so far (for the bound)

vars == <<tables, signedIn, version, changes, mutations, cache, asked, answers, failed,
          page, next, dialog, form, refresh, current, turns>>

-----------------------------------------------------------------------------
\* Any data of one user, and the address of any page.
Init ==
    /\ users = {Me}
    /\ paymentMethods \in [PaymentMethodIds -> {NULL} \cup [user : {Me}, name : ValidNames]]
    /\ subscriptions \in [SubscriptionIds -> {NULL} \cup
            [user : {Me}, plan : ValidPlans, paymentMethod : PaymentMethodIds \cup {NULL}]]
    /\ PaymentMethodIntegrity
    /\ fresh = {p \in PaymentMethodIds : paymentMethods[p] = NULL}
                \cup {s \in SubscriptionIds : subscriptions[s] = NULL}
    /\ signedIn = TRUE
    /\ version = [i \in RowIds |-> 0]
    /\ changes = 0
    /\ mutations = {}
    /\ NothingCached
    /\ page = Blank
    /\ next \in {Asking(p) : p \in AppPages}
    /\ dialog = NULL /\ form = NULL
    /\ refresh = NULL /\ current = {} /\ turns = 0

\* The links and buttons that lead to another page.
Header == IF page \in AppPages THEN {Subscriptions, PaymentMethods, Settings} ELSE {}

Links ==
    Header \cup
    (IF page = Subscriptions THEN SubscriptionListLinks
     ELSE IF page \in SubscriptionDetails THEN SubscriptionDetailLinks
     ELSE IF page \in SubscriptionForms THEN SubscriptionFormLinks
     ELSE IF page = PaymentMethods THEN PaymentMethodListLinks
     ELSE IF page \in PaymentMethodForms THEN PaymentMethodFormLinks
     ELSE IF page = NotFound THEN {Subscriptions, Login} ELSE {})

\* The rows whose button for deletion can be used.
Deletes ==
    IF page = Subscriptions THEN SubscriptionListDeletes
    ELSE IF page \in SubscriptionDetails THEN SubscriptionDetailDeletes
    ELSE IF page = PaymentMethods THEN PaymentMethodListDeletes
    ELSE IF page \in PaymentMethodForms THEN PaymentMethodFormDeletes ELSE {}

Navigate == (\E p \in Links : Go(p)) /\ UNCHANGED <<refresh, current>>

\* What the page comes with and the server still has, with no older answer on its way.
Delivered ==
    {k \in DOMAIN next.data :
        next.data[k] = Current(k) /\ (Answered(k) => answers[k] = Current(k))}

ShowPage ==
    \/ Render /\ UNCHANGED <<refresh, current>>
    \/ /\ Arrive
       /\ refresh' = IF page' \in AppPages THEN refresh ELSE NULL
       /\ current' = current \cup Delivered

\* handleDeleteRequest
RequestDeletion ==
    /\ dialog = NULL
    /\ dialog' \in Deletes
    /\ UNCHANGED <<server, mutations, client, page, next, form, refresh, current>>

\* handleDeleteCancel: the button, or Escape, which works during the deletion too.
CancelDeletion ==
    /\ dialog # NULL
    /\ dialog' = NULL
    /\ UNCHANGED <<server, mutations, client, page, next, form, refresh, current>>

UseForm ==
    /\ \/ ChangeSubscriptionForm \/ SubmitSubscriptionForm
       \/ ChangePaymentMethodForm \/ SubmitPaymentMethodForm
       \/ ConfirmSubscriptionDeletion \/ ConfirmPaymentMethodDeletion
    /\ UNCHANGED <<refresh, current>>

-----------------------------------------------------------------------------
(***************************************************************************)
(* Queries.                                                                 *)
(***************************************************************************)

\* Next sends one server action of a tab at a time; asking for another page lets the
\* next go although one is out.
Busy ==
    Cardinality(DOMAIN answers) + Cardinality({m \in mutations : m.done})
        >= MaxAnswers

Answer(k) ==
    /\ Read(k, Current(k)) /\ ~Busy
    /\ UNCHANGED <<server, mutations, screen, refresh, current>>

\* The service of a row answers null, whatever went wrong.
AnswerNothing(k) ==
    /\ Read(k, NULL) /\ ~Busy
    /\ current' = current \ {k}
    /\ UNCHANGED <<server, mutations, screen, refresh>>

\* What waits for the fetch of k has waited for it.
Awaited(k) == refresh' = IF refresh = NULL THEN NULL ELSE refresh \ {k}

\* Loads the form from every answer.
ReceiveAndLoad(k) ==
    /\ Store(k)
    /\ Outdated(k)
    /\ form' = IF /\ k \in Rows(page)
                  /\ Loaded(page, answers[k]) # NULL
               THEN Loaded(page, answers[k]) ELSE form
    /\ Awaited(k)
    /\ UNCHANGED <<server, mutations, page, dialog, current>>

\* A row that is there again as it was is the same object, and the effect that loads
\* the form does not run.
Receive(k) ==
    /\ Store(k)
    /\ Outdated(k)
    /\ form' = IF /\ k \in Rows(page)
                  /\ HasData(k) => cache[k] # answers[k]
                  /\ Loaded(page, answers[k]) # NULL
               THEN Loaded(page, answers[k]) ELSE form
    /\ Awaited(k)
    /\ UNCHANGED <<server, mutations, page, dialog, current>>

\* Waits for successes only.
FetchFailsUnawaited(k) ==
    /\ Fail(k)
    /\ current' = current \ {k}
    /\ UNCHANGED <<server, mutations, screen, refresh>>

FetchFails(k) ==
    /\ Fail(k)
    /\ current' = current \ {k}
    /\ Awaited(k)
    /\ UNCHANGED <<server, mutations, screen>>

\* withAuth turns a query away, without a session or when it cannot be checked.
TurnQueryAway(k) ==
    /\ Fail(k)
    /\ Push(Login)
    /\ current' = current \ {k}
    /\ Awaited(k)
    /\ UNCHANGED <<server, mutations, page, dialog, form>>

CollectUnused(k) ==
    /\ k \notin InUse
    /\ Collect(k)
    /\ current' = current \ {k}
    /\ UNCHANGED <<server, mutations, screen, refresh>>

-----------------------------------------------------------------------------
(***************************************************************************)
(* Mutations.                                                               *)
(***************************************************************************)

AcceptMutation(m) ==
    /\ Accept(m) /\ ~Busy
    /\ current' = {}
    /\ UNCHANGED <<client, screen, refresh>>

\* The keys in use that a call of this kind changes and its mutation invalidates:
\* the list of its rows, and the row that it updates.
Concerned(c) ==
    InUse \cap
    (IF SubscriptionCall(c)
     THEN {SubscriptionList}
          \cup (IF c.op = "UpdateSubscription" THEN {SubscriptionDetail(c.id)} ELSE {})
     ELSE {PaymentMethodList}
          \cup (IF c.op = "UpdatePaymentMethod" THEN {PaymentMethodDetail(c.id)} ELSE {}))

WithData(keys) == {k \in keys : HasData(k)}

Succeed(m) ==
    /\ m \in mutations /\ m.done
    /\ mutations' = mutations \ {m}
    /\ SubscriptionMutationSucceeds(m) \/ PaymentMethodMutationSucceeds(m)
    /\ current' = current \cup WithData(Concerned(m.call))
    /\ UNCHANGED <<server, page, form, refresh>>

\* Refused, or the way there or back was lost: onError.
MutationFails(m) ==
    /\ m \in mutations
    /\ mutations' = mutations \ {m}
    /\ UNCHANGED <<server, client, screen, refresh, current>>

\* withAuth
TurnMutationAway(m) ==
    /\ m \in mutations /\ ~m.done
    /\ mutations' = mutations \ {m}
    /\ Push(Login)
    /\ UNCHANGED <<server, client, page, dialog, form, refresh, current>>

-----------------------------------------------------------------------------
(***************************************************************************)
(* Pull to refresh, other devices, and the session.                         *)
(***************************************************************************)

Pull ==
    /\ page \in AppPages /\ dialog = NULL /\ refresh = NULL
    /\ Invalidate(InUse)
    /\ refresh' = InUse
    /\ current' = current \cup WithData(InUse)
    /\ UNCHANGED <<server, mutations, screen>>

\* Every query has settled; the indicator goes.
RefreshDone ==
    /\ refresh = {}
    /\ refresh' = NULL
    /\ UNCHANGED <<server, mutations, client, screen, current>>

\* Another device changes the data, or the day does.
OtherDevice ==
    /\ (\E c \in Calls : Change(c)) \/ DayPasses
    /\ current' = {}
    /\ UNCHANGED <<signedIn, mutations, client, screen, refresh>>

\* The token expires, or another tab signs out.
Expire ==
    /\ signedIn
    /\ signedIn' = FALSE
    /\ UNCHANGED <<tables, version, changes, mutations, client, screen, refresh, current>>

\* Google sends the browser back to the root, which redirects to the list; the tab
\* starts anew.
SignIn ==
    /\ page = Login
    /\ signedIn' = TRUE
    /\ ClearAll
    /\ mutations' = {}
    /\ page' = Blank /\ Push(Subscriptions) /\ dialog' = NULL /\ form' = NULL
    /\ refresh' = NULL /\ current' = {}
    /\ UNCHANGED <<tables, version, changes>>

\* What is asked of the session check fails: a page, a query, or a mutation.
SessionUnknown ==
    \/ SessionCheckFails /\ UNCHANGED <<refresh, current>>
    \/ \E k \in Keys : signedIn /\ TurnQueryAway(k)
    \/ \E m \in mutations : signedIn /\ TurnMutationAway(m)

Turns ==
    \/ Navigate \/ Pull \/ SignIn \/ OtherDevice \/ Expire \/ SessionUnknown
    \/ \E k \in Keys : AnswerNothing(k) \/ FetchFails(k) \/ CollectUnused(k)
    \/ \E m \in mutations : MutationFails(m)

ServeQueries ==
    \E k \in Keys : Answer(k) \/ Receive(k) \/ (~signedIn /\ TurnQueryAway(k))

ServeMutations ==
    \E m \in mutations :
        AcceptMutation(m) \/ Succeed(m) \/ (~signedIn /\ TurnMutationAway(m))

\* What the server and the tab do by themselves.
Proceed == ShowPage \/ ServeQueries \/ ServeMutations \/ RefreshDone

\* What the user does on the page.
Use == RequestDeletion \/ CancelDeletion \/ UseForm

Next ==
    \/ turns < MaxTurns /\ turns' = turns + 1 /\ Turns
    \/ (Proceed \/ Use) /\ UNCHANGED turns

\* What is asked of the server is served in turn, and the tab runs what is ready.
Fairness ==
    /\ WF_vars(ServeQueries /\ UNCHANGED turns)
    /\ WF_vars(ServeMutations /\ UNCHANGED turns)
    /\ WF_vars(RefreshDone /\ UNCHANGED turns)

Spec == Init /\ [][Next]_vars /\ Fairness
-----------------------------------------------------------------------------
Forms ==
    {NULL} \cup [plan : Plans \cup {NULL}, paymentMethod : PaymentMethodIds \cup {NULL}]
        \cup [name : Names \cup {NULL}]

\* The state has its types.
TypeOK ==
    /\ TablesTypeOK /\ signedIn \in BOOLEAN /\ changes \in 0..MaxChanges
    /\ version \in [RowIds -> 0..MaxChanges]
    /\ mutations \subseteq Mutations
    /\ DOMAIN cache \cup asked \cup DOMAIN answers \cup failed \subseteq Keys
    /\ page \in Pages
    /\ next # NULL => next.to \in Pages \ {Blank} /\ DOMAIN next.data \subseteq Keys
    /\ dialog \in {NULL} \cup SubscriptionIds \cup PaymentMethodIds
    /\ form \in Forms
    /\ refresh # NULL => refresh \subseteq Keys
    /\ current \subseteq Keys /\ turns \in 0..MaxTurns

\* What an own mutation or a pull to refresh has had fetched again, over data that was
\* there, or what a page has come with, is what the server has once it is at rest, unless
\* something has changed since: no older answer that was on its way ends up in the cache.
RefetchedIsCurrent ==
    \A k \in current : ~Fetching(k) => HasData(k) /\ cache[k] = Current(k)

\* After a pull on the page of payment methods, at rest, a payment method can be deleted
\* there if and only if no subscription uses it.
OffersAreHonest ==
    (/\ page = PaymentMethods /\ ListKeys \subseteq current
     /\ \A k \in ListKeys : ~Fetching(k)) =>
        Deletes = {p \in OwnPaymentMethods(PaymentMethodIds, Me) : Usage({p}) = {}}

\* What a page shows is there, on its way, or known to have failed: no page waits for
\* data that nobody fetches.
NothingForgotten ==
    \A k \in InUse : HasData(k) \/ Fetching(k) \/ k \in failed

\* The pages from which a call is sent.
SentFrom(c, p) ==
    \/ c.op = "CreateSubscription" /\ p = NewSubscription
    \/ c.op = "UpdateSubscription" /\ p = EditSubscription(c.id)
    \/ c.op = "DeleteSubscription" /\ p \in {Subscriptions} \cup SubscriptionDetails
    \/ c.op = "CreatePaymentMethod" /\ p = NewPaymentMethod
    \/ c.op = "UpdatePaymentMethod" /\ p = EditPaymentMethod(c.id)
    \/ c.op = "DeletePaymentMethods" /\ p \in {PaymentMethods} \cup PaymentMethodForms

\* The mutation of a form leads away from that form only: when its success comes after
\* the user has gone elsewhere, the tab stays there.
LeadsAwayFromItsFormOnly ==
    [][\A m \in mutations :
        Succeed(m) => UNCHANGED <<next, dialog>> \/ SentFrom(m.call, page)]_vars

\* What the user has typed is never replaced on account of news that is none: once the
\* page has come with the row that the form edits, or the row has been fetched again, and
\* the cache has it as the server does, no fetch of it, whether of the mount, for a
\* mutation or a pull, early or late, loads the form anew until something changes.  (A
\* change of the usage count, of updatedAt or of the next billing date is one, and loads
\* the form anew; so does the same row after a fetch that failed, whose null is cached in
\* its place.)
InputSurvives ==
    [][page' = page /\ form' # form /\ client' # client =>
        \E k \in Rows(page) : ~(k \in current /\ HasData(k) /\ cache[k] = Current(k))]_vars

\* A pull to refresh comes to its end, whatever becomes of the queries it waits for:
\* answered, failed, turned away, or cancelled and asked again.
RefreshEnds == refresh # NULL ~> refresh = NULL

\* No page is left with its indicator of loading: the data comes, or its absence is known.
LoadingEnds == \A k \in Keys : k \in InUse /\ Loading(k) ~> ~(k \in InUse /\ Loading(k))
=============================================================================
