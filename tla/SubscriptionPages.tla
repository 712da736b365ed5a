------------------------- MODULE SubscriptionPages -------------------------
(***************************************************************************)
(* The pages of subscriptions: list, detail, and the form that creates or      *)
(* edits one.  For each, what its presenter offers in which state, and what     *)
(* its hook does when that is used.                                            *)
(*                                                                          *)
(* The server refuses the base date of every form today (SubscriptionForm); the  *)
(* pages are modelled for a server that accepts some, so that what they promise    *)
(* does not rest on that.                                                     *)
(***************************************************************************)
EXTENDS Router

SubscriptionForms == {NewSubscription} \cup {EditSubscription(s) : s \in SubscriptionIds}
SubscriptionDetails == {Subscription(s) : s \in SubscriptionIds}

\* A mutation of an operation that the mounted component has sent: isPending.
Sent(op) == {m \in mutations : m.mine /\ m.call.op = op}

-----------------------------------------------------------------------------
(***************************************************************************)
(* Presenters.                                                              *)
(***************************************************************************)

\* The rows of the list; none while it loads, and none when it could not be had.
ListedSubscriptions == DOMAIN Data(SubscriptionList)

SubscriptionListLinks ==
    IF Loading(SubscriptionList) THEN {}
    ELSE {NewSubscription}
         \cup {Subscription(s) : s \in ListedSubscriptions}
         \cup {EditSubscription(s) : s \in ListedSubscriptions}

SubscriptionListDeletes == IF Loading(SubscriptionList) THEN {} ELSE ListedSubscriptions

SubscriptionDetailShown ==
    HasData(SubscriptionDetail(page.id)) /\ cache[SubscriptionDetail(page.id)] # NULL

SubscriptionDetailLinks ==
    IF Loading(SubscriptionDetail(page.id)) THEN {}
    ELSE {Subscriptions}
         \cup (IF SubscriptionDetailShown THEN {EditSubscription(page.id)} ELSE {})

SubscriptionDetailDeletes == IF SubscriptionDetailShown THEN {page.id} ELSE {}

SubscriptionSubmitting == Sent("CreateSubscription") \cup Sent("UpdateSubscription") # {}

\* The fields and buttons of the form can be used.
SubscriptionFormOpen ==
    /\ \A k \in SubscriptionOf(page) : ~Loading(k)
    /\ ~SubscriptionSubmitting

\* handleCancel
SubscriptionFormLinks ==
    IF ~SubscriptionFormOpen THEN {}
    ELSE IF page = NewSubscription THEN {Subscriptions} ELSE {Subscription(page.id)}

\* The payment methods of the select; what is selected stays so while it is disabled.
SelectablePaymentMethods ==
    IF Loading(PaymentMethodList) \/ PaymentMethodList \in failed
    THEN {form.paymentMethod}
    ELSE {form.paymentMethod, NULL} \cup DOMAIN Data(PaymentMethodList)

-----------------------------------------------------------------------------
(***************************************************************************)
(* Hooks.                                                                   *)
(***************************************************************************)

\* handleChange
ChangeSubscriptionForm ==
    /\ page \in SubscriptionForms /\ SubscriptionFormOpen
    /\ \E plan \in Plans, paymentMethod \in SelectablePaymentMethods :
        /\ form' = [plan |-> plan, paymentMethod |-> paymentMethod]
        /\ form' # form
    /\ UNCHANGED <<server, mutations, client, page, next, dialog>>

\* An empty payment method goes as null, and means that it stays.
SubscriptionRequest ==
    IF page = NewSubscription
    THEN [op |-> "CreateSubscription", user |-> Me,
          plan |-> form.plan, paymentMethod |-> form.paymentMethod]
    ELSE [op |-> "UpdateSubscription", user |-> Me, id |-> page.id,
          plan |-> form.plan, paymentMethod |-> form.paymentMethod]

\* Sends what the form contains, checked or not.
SubmitUnchecked ==
    /\ page \in SubscriptionForms /\ SubscriptionFormOpen
    /\ Send(SubscriptionRequest)
    /\ UNCHANGED <<server, client, screen>>

\* handleSubmit; contents that the schema refuses are not sent.
SubmitSubscriptionForm ==
    /\ page \in SubscriptionForms /\ SubscriptionFormOpen
    /\ form.plan \in ValidPlans
    /\ Send(SubscriptionRequest)
    /\ UNCHANGED <<server, client, screen>>

\* handleDeleteConfirm, of the list and of the detail.
DeletionSent == Sent("DeleteSubscription") # {}

ConfirmSubscriptionDeletion ==
    /\ page \in {Subscriptions} \cup SubscriptionDetails
    /\ dialog # NULL /\ ~DeletionSent
    /\ Send([op |-> "DeleteSubscription", user |-> Me, id |-> dialog])
    /\ UNCHANGED <<server, client, screen>>

\* The queries in use that a successful mutation invalidates.
SubscriptionInvalidates(c) ==
    InUse \cap ({SubscriptionList}
                \cup (IF c.op = "UpdateSubscription" THEN {SubscriptionDetail(c.id)} ELSE {}))

SubscriptionCall(c) ==
    c.op \in {"CreateSubscription", "UpdateSubscription", "DeleteSubscription"}

\* What the component that sent the mutation does when it has succeeded.
AfterSubscriptionMutation(c) ==
    IF c.op = "DeleteSubscription" /\ page = Subscriptions
    THEN dialog' = NULL /\ UNCHANGED next
    ELSE /\ Push(IF c.op = "UpdateSubscription" THEN Subscription(c.id) ELSE Subscriptions)
         /\ UNCHANGED dialog

\* Does so wherever the user is.
SucceedsAnywhere(m) ==
    /\ SubscriptionCall(m.call)
    /\ Invalidate(SubscriptionInvalidates(m.call))
    /\ AfterSubscriptionMutation(m.call)

SubscriptionMutationSucceeds(m) ==
    /\ SubscriptionCall(m.call)
    /\ Invalidate(SubscriptionInvalidates(m.call))
    /\ IF m.mine THEN AfterSubscriptionMutation(m.call) ELSE UNCHANGED <<next, dialog>>
=============================================================================
