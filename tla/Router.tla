------------------------------- MODULE Router -------------------------------
(***************************************************************************)
(* The pages of a browser tab and the way from one to another: the app         *)
(* router, the page templates that prefetch on the server and hydrate the        *)
(* cache, the layout that wants a session, and the proxy in front of them.        *)
(*                                                                          *)
(* A page that is asked for is rendered on the server while the old one stays      *)
(* in use, and replaces it when it is there.  Asking for another page in the        *)
(* meantime drops the first.                                                  *)
(***************************************************************************)
EXTENDS QueryCache

VARIABLES
    page,       \* on the screen
    next,       \* the page on its way and what it was rendered with, or NULL
    dialog,     \* the row whose deletion is to be confirmed, or NULL
    form        \* formData of a page with a form

screen == <<page, next, dialog, form>>

Subscriptions == [path |-> "subscriptions"]
NewSubscription == [path |-> "subscriptions/new"]
Subscription(s) == [path |-> "subscriptions/id", id |-> s]
EditSubscription(s) == [path |-> "subscriptions/id/edit", id |-> s]
PaymentMethods == [path |-> "payment-methods"]
NewPaymentMethod == [path |-> "payment-methods/new"]
EditPaymentMethod(p) == [path |-> "payment-methods/id/edit", id |-> p]
Settings == [path |-> "settings"]
Login == [path |-> "login"]
NotFound == [path |-> "not-found"]
Blank == [path |-> "about:blank"]

AppPages ==
    {Subscriptions, NewSubscription, PaymentMethods, NewPaymentMethod, Settings}
        \cup {Subscription(s) : s \in SubscriptionIds}
        \cup {EditSubscription(s) : s \in SubscriptionIds}
        \cup {EditPaymentMethod(p) : p \in PaymentMethodIds}

Pages == AppPages \cup {Login, NotFound, Blank}

SubscriptionOf(p) ==
    IF p.path \in {"subscriptions/id", "subscriptions/id/edit"}
    THEN {SubscriptionDetail(p.id)} ELSE {}

PaymentMethodOf(p) ==
    IF p.path = "payment-methods/id/edit" THEN {PaymentMethodDetail(p.id)} ELSE {}

\* The key of the row that a page is about, if there is one.
Rows(p) == SubscriptionOf(p) \cup PaymentMethodOf(p)

\* Lists count uses or offer a choice on other pages than their own.
SubscriptionListOf(p) ==
    IF p.path \in {"subscriptions", "payment-methods", "payment-methods/new",
                   "payment-methods/id/edit"}
    THEN {SubscriptionList} ELSE {}

PaymentMethodListOf(p) ==
    IF p.path \in {"subscriptions/new", "subscriptions/id/edit", "payment-methods"}
    THEN {PaymentMethodList} ELSE {}

\* The keys of the queries that the hooks of a page use.
Uses(p) == Rows(p) \cup SubscriptionListOf(p) \cup PaymentMethodListOf(p)

InUse == Uses(page)

\* The key that the template of a page prefetches: the row, the list, or none.
Prefetches(p) ==
    Rows(p)
    \cup (IF p.path = "subscriptions" THEN {SubscriptionList} ELSE {})
    \cup (IF p.path = "payment-methods" THEN {PaymentMethodList} ELSE {})

\* The form that edits a row, if there is one.
Loaded(p, row) ==
    IF row = NULL THEN NULL
    ELSE IF p.path = "subscriptions/id/edit"
    THEN [plan |-> row.plan, paymentMethod |-> row.paymentMethod]
    ELSE IF p.path = "payment-methods/id/edit" THEN [name |-> row.name] ELSE NULL

EmptyForm(p) ==
    IF p.path \in {"subscriptions/new", "subscriptions/id/edit"}
    THEN [plan |-> NULL, paymentMethod |-> NULL]
    ELSE IF p.path \in {"payment-methods/new", "payment-methods/id/edit"}
    THEN [name |-> NULL] ELSE NULL

\* The form of a page that mounts over a cache: empty, or loaded by the effect.
InitialForm(p, contents) ==
    LET rows == {Loaded(p, contents[k]) : k \in Rows(p) \cap DOMAIN contents} \ {NULL}
    IN  IF rows = {} THEN EmptyForm(p) ELSE CHOOSE f \in rows : TRUE

-----------------------------------------------------------------------------
NotRendered == <<>>

Asking(p) == [to |-> p, rendered |-> FALSE, data |-> NotRendered]

\* router.push
Push(p) == next' = Asking(p)

\* A click on something that leads to page p.
Go(p) ==
    /\ p # page /\ dialog = NULL
    /\ Push(p)
    /\ UNCHANGED <<server, mutations, client, page, dialog, form>>

Rendered(p, data) == next' = [to |-> p, rendered |-> TRUE, data |-> data]

\* Without a session the proxy, the layout or the query of a row sends to the login
\* page, and the login page with one to the subscriptions.
Redirect ==
    \/ ~signedIn /\ next.to \in AppPages /\ Rendered(Login, NotRendered)
    \/ signedIn /\ next.to = Login /\ Push(Subscriptions)

\* Between pages the layout is not asked again, and of a page without a row prefetchQuery
\* swallows the redirection.
Unchecked ==
    /\ {page, next.to} \subseteq AppPages
    /\ next.to # Settings /\ Rows(next.to) = {}

\* A cookie that is refused passes the proxy: the page is rendered without data.
RenderUnchecked == ~signedIn /\ Unchecked /\ Rendered(next.to, NotRendered)

\* fetchQuery of a row, with notFound.
RenderRow ==
    \E k \in Rows(next.to) : \E row \in Answers(k) :
        IF row = NULL THEN Rendered(NotFound, NotRendered) ELSE Rendered(next.to, Only(k, row))

\* prefetchQuery of a list swallows an error; a page without a list prefetches nothing.
RenderList ==
    /\ Rows(next.to) = {}
    /\ \/ Rendered(next.to, NotRendered)
       \/ \E k \in Prefetches(next.to) : Rendered(next.to, Only(k, Current(k)))

RenderPage == signedIn /\ next.to \in AppPages /\ (RenderRow \/ RenderList)

Render ==
    /\ next # NULL /\ ~next.rendered
    /\ \/ Redirect
       \/ RenderUnchecked
       \/ RenderPage
       \/ ~signedIn /\ next.to = Login /\ Rendered(Login, NotRendered)
    /\ UNCHANGED <<server, mutations, client, page, dialog, form>>

\* The API cannot be asked for the session: a session that it accepts counts for none.
SessionCheckFails ==
    /\ next # NULL /\ ~next.rendered /\ signedIn
    /\ \/ next.to \in AppPages /\ ~Unchecked /\ Push(Login)
       \/ next.to = Login /\ Rendered(Login, NotRendered)
    /\ UNCHANGED <<server, mutations, client, page, dialog, form>>

\* The old page unmounts, the new one mounts.
Arrive ==
    /\ next # NULL /\ next.rendered
    /\ page' = next.to
    /\ next' = NULL
    /\ dialog' = NULL
    /\ Mount(next.data, Uses(next.to))
    /\ form' = InitialForm(next.to, cache')
    /\ mutations' = Orphaned
    /\ UNCHANGED server

\* Of the page on its way, what the cache has newer data for is dropped.
Outdated(k) ==
    next' = IF next = NULL THEN NULL
            ELSE [next EXCEPT !.data = Forget(next.data, k)]
=============================================================================
