------------------------- MODULE PaymentMethodPages -------------------------
(***************************************************************************)
(* The pages of payment methods: the list and the form, with what their        *)
(* presenters offer and what their hooks do.  How many subscriptions use a        *)
(* payment method is counted in the cached list of subscriptions.              *)
(***************************************************************************)
EXTENDS SubscriptionPages

PaymentMethodForms == {NewPaymentMethod} \cup {EditPaymentMethod(p) : p \in PaymentMethodIds}

-----------------------------------------------------------------------------
(***************************************************************************)
(* Presenters.                                                              *)
(***************************************************************************)

\* usageCount > 0; without a list of subscriptions it is 0.
ShownInUse(p) ==
    \E s \in DOMAIN Data(SubscriptionList) : Data(SubscriptionList)[s].paymentMethod = p

\* The rows of the list, none unless both lists are there.
ListedPaymentMethods ==
    IF HasData(SubscriptionList) THEN DOMAIN Data(PaymentMethodList) ELSE {}

PaymentMethodListLinks ==
    IF Loading(PaymentMethodList) THEN {}
    ELSE {NewPaymentMethod} \cup {EditPaymentMethod(p) : p \in ListedPaymentMethods}

\* Offers to delete every row.
DeletesOfAll == IF Loading(PaymentMethodList) THEN {} ELSE ListedPaymentMethods

PaymentMethodListDeletes ==
    IF Loading(PaymentMethodList) THEN {} ELSE {p \in ListedPaymentMethods : ~ShownInUse(p)}

PaymentMethodSubmitting == Sent("CreatePaymentMethod") \cup Sent("UpdatePaymentMethod") # {}

PaymentMethodFormOpen ==
    /\ \A k \in PaymentMethodOf(page) : ~Loading(k)
    /\ ~PaymentMethodSubmitting

\* handleCancel
PaymentMethodFormLinks == IF PaymentMethodFormOpen THEN {PaymentMethods} ELSE {}

\* handleDeleteRequest of the form that edits a payment method.
PaymentMethodFormDeletes ==
    IF /\ PaymentMethodFormOpen /\ page # NewPaymentMethod
       /\ Data(PaymentMethodDetail(page.id)) \notin {NULL, <<>>}
       /\ ~ShownInUse(page.id)
    THEN {page.id} ELSE {}

-----------------------------------------------------------------------------
(***************************************************************************)
(* Hooks.                                                                   *)
(***************************************************************************)

\* handleChange
ChangePaymentMethodForm ==
    /\ page \in PaymentMethodForms /\ PaymentMethodFormOpen /\ dialog = NULL
    /\ \E name \in Names : form' = [name |-> name] /\ form' # form
    /\ UNCHANGED <<server, mutations, client, page, next, dialog>>

PaymentMethodRequest ==
    IF page = NewPaymentMethod
    THEN [op |-> "CreatePaymentMethod", user |-> Me, name |-> form.name]
    ELSE [op |-> "UpdatePaymentMethod", user |-> Me, id |-> page.id, name |-> form.name]

\* handleSubmit
SubmitPaymentMethodForm ==
    /\ page \in PaymentMethodForms /\ PaymentMethodFormOpen /\ dialog = NULL
    /\ form.name \in ValidNames
    /\ Send(PaymentMethodRequest)
    /\ UNCHANGED <<server, client, screen>>

\* isDeleting: the buttons of the dialog are disabled.
PaymentMethodDeletionSent == Sent("DeletePaymentMethods") # {}

\* handleDeleteConfirm, of the list and of the form.
ConfirmPaymentMethodDeletion ==
    /\ page \in {PaymentMethods} \cup PaymentMethodForms
    /\ dialog # NULL /\ ~PaymentMethodDeletionSent
    /\ Send([op |-> "DeletePaymentMethods", user |-> Me, ids |-> {dialog}, repeated |-> FALSE])
    /\ UNCHANGED <<server, client, screen>>

\* The queries in use that a successful mutation invalidates.
PaymentMethodInvalidates(c) ==
    InUse \cap ({PaymentMethodList}
                \cup (IF c.op = "UpdatePaymentMethod" THEN {PaymentMethodDetail(c.id)} ELSE {}))

PaymentMethodCall(c) ==
    c.op \in {"CreatePaymentMethod", "UpdatePaymentMethod", "DeletePaymentMethods"}

\* What the component that sent the mutation does when it has succeeded.
AfterPaymentMethodMutation ==
    IF page = PaymentMethods
    THEN dialog' = NULL /\ UNCHANGED next
    ELSE Push(PaymentMethods) /\ UNCHANGED dialog

PaymentMethodMutationSucceeds(m) ==
    /\ PaymentMethodCall(m.call)
    /\ Invalidate(PaymentMethodInvalidates(m.call))
    /\ IF m.mine THEN AfterPaymentMethodMutation ELSE UNCHANGED <<next, dialog>>
=============================================================================
