---------------------------- MODULE UserUseCases ----------------------------
(***************************************************************************)
(* usecase/user_interactor.go: DeleteCurrentUser, and the row of users that  *)
(* a first login inserts.                                                    *)
(***************************************************************************)
EXTENDS SubsqRequests

\* UpsertUser of somebody without an account.
Register(u) ==
    /\ InsertUser(u)
    /\ UNCHANGED requestVars

\* DeleteCurrentUser: FindByID.
FindUser(r) ==
    /\ At(r, "DeleteCurrentUser", "find")
    /\ IF call[r].user \in users
       THEN GoTo(r, "delete") /\ UNCHANGED tables
       ELSE Finish(r, "notfound")

\* DeleteCurrentUser: the DELETE and its cascades, which wait for rows of the
\* user that an open transaction has deleted.  Another user's reference to one
\* of the payment methods makes it fail.
DeleteCurrentUser(r) ==
    /\ At(r, "DeleteCurrentUser", "delete")
    /\ ~LockedByOther(r, RowsOf(call[r].user))
    /\ IF CascadeLeavesNoReference(call[r].user)
       THEN RemoveUser(call[r].user) /\ GoTo(r, "respond")
       ELSE Finish(r, "error")

UserStep(r) ==
    \/ FindUser(r)
    \/ DeleteCurrentUser(r)
=============================================================================
