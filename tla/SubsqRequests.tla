--------------------------- MODULE SubsqRequests ---------------------------
(***************************************************************************)
(* How a request moves through the backend, whatever it asks for: the       *)
(* controllers and handleError, WithinTransaction, and the row locks that    *)
(* PostgreSQL (READ COMMITTED) holds for a transaction until it ends.        *)
(*                                                                          *)
(* Every SQL statement is one step of its request.  A statement outside a    *)
(* transaction commits by itself.  In a transaction the reads see what is    *)
(* committed, and only its last statement writes, a DELETE: the deleted rows *)
(* stay visible to the others, and locked, until Commit removes them or the  *)
(* request fails.  A statement that needs such a row waits.                  *)
(***************************************************************************)
EXTENDS SubsqCalls

VARIABLES
    pc,         \* the statement a request makes next
    row,        \* the row of subscriptions it is about to write
    locks       \* the rows its open transaction has deleted

requestVars == <<call, answer, pc, row, locks>>

Statements == {"find", "verify", "write", "recount", "count", "delete", "commit"}

Steps == {"idle", "respond"} \cup Statements

InProgress(r) == pc[r] # "idle"

At(r, op, step) == pc[r] = step /\ call[r].op = op

LockedByOther(r, ids) == \E q \in Requests \ {r} : locks[q] \cap ids # {}

RequestsTypeOK ==
    /\ call \in [Requests -> Calls \cup {NULL}]
    /\ answer \in [Requests -> Answers \cup {NULL}]
    /\ pc \in [Requests -> Steps]
    /\ row \in [Requests -> SubscriptionRow \cup {NULL}]
    /\ locks \in [Requests -> SUBSET RowIds]

InitRequests ==
    /\ call = [r \in Requests |-> NULL]
    /\ answer = [r \in Requests |-> NULL]
    /\ pc = [r \in Requests |-> "idle"]
    /\ row = [r \in Requests |-> NULL]
    /\ locks = [r \in Requests |-> {}]

-----------------------------------------------------------------------------
\* The next statement of r is step; rw is the row it is about to write.
Proceed(r, step, rw) ==
    /\ pc' = [pc EXCEPT ![r] = step]
    /\ row' = [row EXCEPT ![r] = rw]
    /\ UNCHANGED <<call, answer, locks>>

GoTo(r, step) == Proceed(r, step, NULL)

\* Returns without rolling the transaction back.
FinishWithoutRollback(r, status) ==
    /\ call' = [call EXCEPT ![r] = NULL]
    /\ answer' = [answer EXCEPT ![r] = status]
    /\ pc' = [pc EXCEPT ![r] = "idle"]
    /\ row' = [row EXCEPT ![r] = NULL]
    /\ UNCHANGED <<tables, locks>>

\* The client gets status; the request is over, and so is its transaction.
Finish(r, status) ==
    /\ call' = [call EXCEPT ![r] = NULL]
    /\ answer' = [answer EXCEPT ![r] = status]
    /\ pc' = [pc EXCEPT ![r] = "idle"]
    /\ row' = [row EXCEPT ![r] = NULL]
    /\ locks' = [locks EXCEPT ![r] = {}]
    /\ UNCHANGED tables

\* The first statement of a call.
FirstStep(c) ==
    CASE c.op = "CreateSubscription" -> IF c.paymentMethod = NULL THEN "write" ELSE "verify"
      [] c.op = "CreatePaymentMethod" -> "write"
      [] OTHER -> "find"

\* A controller binds a request and calls the use case.  The user is the one of
\* the token: somebody who once had an account, and may have deleted it since.
Receive(r, c) ==
    /\ ~InProgress(r)
    /\ c.user \notin fresh
    /\ WellFormed(c)
    /\ call' = [call EXCEPT ![r] = c]
    /\ answer' = [answer EXCEPT ![r] = NULL]
    /\ pc' = [pc EXCEPT ![r] = FirstStep(c)]
    /\ row' = [row EXCEPT ![r] = IF c.op = "CreateSubscription" THEN NewRow(c) ELSE NULL]
    /\ UNCHANGED <<tables, locks>>

\* A request that fails the checks of the controller or of ValidateFields.
Reject(r, c) ==
    /\ ~InProgress(r)
    /\ c.user \notin fresh
    /\ ~WellFormed(c)
    /\ Finish(r, "invalid")

\* fn returned nil: the transaction commits, the rows it deleted are gone.
Commit(r) ==
    /\ pc[r] = "commit"
    /\ RemoveRows(locks[r])
    /\ pc' = [pc EXCEPT ![r] = "respond"]
    /\ locks' = [locks EXCEPT ![r] = {}]
    /\ UNCHANGED <<call, answer, row>>

\* The use case returned nil and the response reaches the client.
Respond(r) ==
    /\ pc[r] = "respond"
    /\ Finish(r, "ok")

\* A statement fails without taking effect (the connection, the deadlock
\* detector, the client that went away and cancelled the context, the process
\* that died), or the effect is there and its acknowledgement is lost.  An open
\* transaction is rolled back.
Fail(r) ==
    /\ InProgress(r)
    /\ Finish(r, "error")
=============================================================================
