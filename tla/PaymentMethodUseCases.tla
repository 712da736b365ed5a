------------------------ MODULE PaymentMethodUseCases ------------------------
(***************************************************************************)
(* usecase/payment_method_interactor.go: Create, Update, and Delete with     *)
(* DeleteMany, statement by statement.                                       *)
(***************************************************************************)
EXTENDS SubsqRequests

\* Create: one INSERT; the row's user may have been deleted.
CreatePaymentMethod(r) ==
    /\ At(r, "CreatePaymentMethod", "write")
    /\ \/ /\ call[r].user \in users
          /\ InsertPaymentMethodRow([user |-> call[r].user, name |-> call[r].name])
          /\ GoTo(r, "respond")
       \/ /\ call[r].user \notin users
          /\ Finish(r, "error")

\* Update: FindByID.
FindPaymentMethod(r) ==
    /\ At(r, "UpdatePaymentMethod", "find")
    /\ IF OwnPaymentMethod(call[r].id, call[r].user)
       THEN GoTo(r, "write") /\ UNCHANGED tables
       ELSE Finish(r, "notfound")

\* Update: the UPDATE.  When the row is gone by now, pgx.ErrNoRows comes back
\* wrapped and is not taken for a missing payment method.
RenamePaymentMethod(r) ==
    /\ At(r, "UpdatePaymentMethod", "write")
    /\ ~LockedByOther(r, {call[r].id})
    /\ \/ /\ OwnPaymentMethod(call[r].id, call[r].user)
          /\ SetPaymentMethodName(call[r].id, call[r].name)
          /\ GoTo(r, "recount")
       \/ /\ ~OwnPaymentMethod(call[r].id, call[r].user)
          /\ Finish(r, "error")

\* Update: the usage count of the response.  (A failure here is Fail: the name
\* has changed and the client gets a 500.)
RecountUsage(r) ==
    /\ At(r, "UpdatePaymentMethod", "recount")
    /\ GoTo(r, "respond")
    /\ UNCHANGED tables

-----------------------------------------------------------------------------
\* Delete, DeleteMany: FindByIDs, and as many rows as ids.
FindPaymentMethods(r) ==
    /\ At(r, "DeletePaymentMethods", "find")
    /\ IF SomeMissing(call[r])
       THEN Finish(r, "notfound")
       ELSE GoTo(r, "count") /\ UNCHANGED tables

\* Delete, DeleteMany: CountByPaymentMethodIDs and CanDelete.
CountUsage(r) ==
    /\ At(r, "DeletePaymentMethods", "count")
    /\ IF Used(call[r].ids)
       THEN Finish(r, "inuse")
       ELSE GoTo(r, "delete") /\ UNCHANGED tables

\* The DELETE without ON DELETE RESTRICT: it trusts the count.
DeleteTrustingCount(r) ==
    /\ At(r, "DeletePaymentMethods", "delete")
    /\ ~LockedByOther(r, Targets(call[r]))
    /\ locks' = [locks EXCEPT ![r] = Targets(call[r])]
    /\ pc' = [pc EXCEPT ![r] = "commit"]
    /\ UNCHANGED <<tables, call, answer, row>>

\* Delete, DeleteMany: the DELETE.  It waits for rows that another transaction
\* has deleted: payment methods among its own, and subscriptions that refer to
\* one of them.  A reference that came up after the count violates the foreign
\* key (23503).
DeletePaymentMethods(r) ==
    /\ At(r, "DeletePaymentMethods", "delete")
    /\ LET doomed == Targets(call[r]) IN
        /\ ~LockedByOther(r, doomed \cup Usage(doomed))
        /\ \/ /\ ~Used(doomed)
              /\ locks' = [locks EXCEPT ![r] = doomed]
              /\ pc' = [pc EXCEPT ![r] = "commit"]
              /\ UNCHANGED <<tables, call, answer, row>>
           \/ /\ Used(doomed)
              /\ Finish(r, "inuse")

PaymentMethodStep(r) ==
    \/ CreatePaymentMethod(r)
    \/ FindPaymentMethod(r)
    \/ RenamePaymentMethod(r)
    \/ RecountUsage(r)
    \/ FindPaymentMethods(r)
    \/ CountUsage(r)
    \/ DeletePaymentMethods(r)
=============================================================================
