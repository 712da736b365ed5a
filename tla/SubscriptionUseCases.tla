------------------------ MODULE SubscriptionUseCases ------------------------
(***************************************************************************)
(* usecase/subscription_interactor.go: Create, Update, Delete, DeleteMany,   *)
(* statement by statement.  Only DeleteMany runs in a transaction.           *)
(***************************************************************************)
EXTENDS SubsqRequests

\* Update without ValidateFields.
FindUnvalidated(r) ==
    /\ At(r, "UpdateSubscription", "find")
    /\ IF OwnSubscription(call[r].id, call[r].user)
       THEN LET updated == WithUpdate(subscriptions[call[r].id], call[r]) IN
            /\ Proceed(r, IF updated.paymentMethod = NULL THEN "write" ELSE "verify", updated)
            /\ UNCHANGED tables
       ELSE Finish(r, "notfound")

\* Update: FindByID, WithUpdate and ValidateFields of what it makes of the row.
FindSubscription(r) ==
    /\ At(r, "UpdateSubscription", "find")
    /\ IF OwnSubscription(call[r].id, call[r].user)
       THEN LET updated == WithUpdate(subscriptions[call[r].id], call[r]) IN
            IF updated.plan \in ValidPlans
            THEN /\ Proceed(r, IF updated.paymentMethod = NULL THEN "write" ELSE "verify",
                            updated)
                 /\ UNCHANGED tables
            ELSE Finish(r, "invalid")
       ELSE Finish(r, "notfound")

\* Looks the payment method up by its id alone.
VerifyAnyPaymentMethod(r) ==
    /\ pc[r] = "verify"
    /\ IF paymentMethods[row[r].paymentMethod] # NULL
       THEN Proceed(r, "write", row[r]) /\ UNCHANGED tables
       ELSE Finish(r, "invalid")

\* Create, Update: FindByID of the payment method that the row will refer to.
VerifyPaymentMethod(r) ==
    /\ pc[r] = "verify"
    /\ IF OwnPaymentMethod(row[r].paymentMethod, call[r].user)
       THEN Proceed(r, "write", row[r]) /\ UNCHANGED tables
       ELSE Finish(r, "invalid")

\* Create: the INSERT.  Its foreign keys wait for a payment method that an open
\* transaction has deleted.
CreateSubscription(r) ==
    /\ At(r, "CreateSubscription", "write")
    /\ \/ /\ ReferencesExist(row[r])
          /\ ~LockedByOther(r, {row[r].paymentMethod})
          /\ InsertSubscriptionRow(row[r])
          /\ GoTo(r, "respond")
       \/ /\ ~ReferencesExist(row[r])
          /\ Finish(r, "error")

\* The foreign key accepts a row that an open transaction has deleted.
UpdateWithoutWaiting(r) ==
    /\ At(r, "UpdateSubscription", "write")
    /\ ~LockedByOther(r, {call[r].id})
    /\ OwnSubscription(call[r].id, call[r].user)
    /\ ReferencesExist(row[r])
    /\ SetSubscriptionRow(call[r].id, row[r])
    /\ GoTo(r, "respond")

\* Update: the UPDATE, which writes every column of the row found before.  The
\* foreign key is checked when payment_method_id changes.
UpdateSubscription(r) ==
    /\ At(r, "UpdateSubscription", "write")
    /\ ~LockedByOther(r, {call[r].id})
    /\ LET Changes == row[r].paymentMethod # subscriptions[call[r].id].paymentMethod IN
        \/ /\ OwnSubscription(call[r].id, call[r].user)
           /\ Changes => /\ ReferencesExist(row[r])
                         /\ ~LockedByOther(r, {row[r].paymentMethod})
           /\ SetSubscriptionRow(call[r].id, row[r])
           /\ GoTo(r, "respond")
        \/ /\ OwnSubscription(call[r].id, call[r].user)
           /\ Changes /\ ~ReferencesExist(row[r])
           /\ Finish(r, "error")
        \/ /\ ~OwnSubscription(call[r].id, call[r].user)
           /\ Finish(r, "error")

-----------------------------------------------------------------------------
\* Delete: FindByID.
FindDoomedSubscription(r) ==
    /\ At(r, "DeleteSubscription", "find")
    /\ IF OwnSubscription(call[r].id, call[r].user)
       THEN GoTo(r, "delete") /\ UNCHANGED tables
       ELSE Finish(r, "notfound")

\* Delete: the DELETE; no row to delete is no error.
DeleteSubscription(r) ==
    /\ At(r, "DeleteSubscription", "delete")
    /\ ~LockedByOther(r, {call[r].id})
    /\ RemoveRows(Targets(call[r]))
    /\ GoTo(r, "respond")

\* DeleteMany without the comparison of lengths.
FindSomeSubscriptions(r) ==
    /\ At(r, "DeleteSubscriptions", "find")
    /\ GoTo(r, "delete")
    /\ UNCHANGED tables

\* DeleteMany: FindByIDs, and as many rows as ids.
FindSubscriptions(r) ==
    /\ At(r, "DeleteSubscriptions", "find")
    /\ IF SomeMissing(call[r])
       THEN Finish(r, "notfound")
       ELSE GoTo(r, "delete") /\ UNCHANGED tables

\* The DELETE passes over rows that another transaction has deleted.
DeleteSkippingLocked(r) ==
    /\ At(r, "DeleteSubscriptions", "delete")
    /\ locks' = [locks EXCEPT ![r] = {s \in Targets(call[r]) : ~LockedByOther(r, {s})}]
    /\ pc' = [pc EXCEPT ![r] = "commit"]
    /\ UNCHANGED <<tables, call, answer, row>>

\* DeleteMany: the DELETE.
DeleteSubscriptions(r) ==
    /\ At(r, "DeleteSubscriptions", "delete")
    /\ ~LockedByOther(r, Targets(call[r]))
    /\ locks' = [locks EXCEPT ![r] = Targets(call[r])]
    /\ pc' = [pc EXCEPT ![r] = "commit"]
    /\ UNCHANGED <<tables, call, answer, row>>

SubscriptionStep(r) ==
    \/ FindSubscription(r)
    \/ VerifyPaymentMethod(r)
    \/ CreateSubscription(r)
    \/ UpdateSubscription(r)
    \/ FindDoomedSubscription(r)
    \/ DeleteSubscription(r)
    \/ FindSubscriptions(r)
    \/ DeleteSubscriptions(r)
=============================================================================
