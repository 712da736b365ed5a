---------------------------- MODULE SubsqBackend ----------------------------
(***************************************************************************)
(* The Go backend over PostgreSQL: requests of several users in progress at  *)
(* the same time, their statements interleaved.                              *)
(***************************************************************************)
EXTENDS PaymentMethodUseCases, SubscriptionUseCases, UserUseCases

vars == <<tables, requestVars>>

Init == InitTables /\ InitRequests

Accept(r) == \E c \in Calls : c.op \in Ops /\ (Receive(r, c) \/ Reject(r, c))

\* What the backend does by itself with a request it has accepted.
RequestStep(r) ==
    \/ SubscriptionStep(r)
    \/ PaymentMethodStep(r)
    \/ UserStep(r)
    \/ Commit(r)
    \/ Respond(r)

Next ==
    \/ \E u \in UserIds : Register(u)
    \/ \E r \in Requests : Accept(r) \/ RequestStep(r) \/ Fail(r)

Spec == Init /\ [][Next]_vars

-----------------------------------------------------------------------------
(***************************************************************************)
(* Invariants.                                                              *)
(***************************************************************************)

\* Every variable has its type, a request in progress carries a call, and holds
\* locks only while its transaction waits to commit.
TypeOK ==
    /\ TablesTypeOK
    /\ RequestsTypeOK
    /\ \A r \in Requests :
        /\ pc[r] # "idle" => call[r] \in Calls
        /\ locks[r] # {} => pc[r] = "commit"

\* The row locks do their work: what an open transaction has deleted is still
\* there, belongs to the user of the request, is held by that transaction only,
\* and no subscription has come to refer to it since the DELETE looked.
LocksProtect ==
    \A r \in Requests : locks[r] # {} =>
        /\ locks[r] \subseteq RowsOf(call[r].user)
        /\ ~Used(locks[r])
        /\ ~LockedByOther(r, locks[r])

WritesSubscription(r) ==
    /\ pc[r] \in {"verify", "write"}
    /\ call[r].op \in {"CreateSubscription", "UpdateSubscription"}

\* What FindByID established stays good until the write: the row about to be
\* written belongs to the user of the request, and its payment method, once
\* verified, is that user's or is gone for ever.  (So the foreign key, which
\* does not look at users, is enough at the write itself.)
VerifiedRows ==
    \A r \in Requests : WritesSubscription(r) =>
        /\ row[r] \in SubscriptionRow
        /\ row[r].user = call[r].user
        /\ LET p == row[r].paymentMethod IN
            /\ pc[r] = "verify" => p # NULL
            /\ pc[r] = "write" /\ p # NULL =>
                p \notin fresh /\ (paymentMethods[p] = NULL \/ OwnPaymentMethod(p, call[r].user))

\* The rows that a deleting call names are gone.
Gone(c) ==
    CASE c.op = "DeleteCurrentUser" -> c.user \notin users /\ RowsOf(c.user) = {}
      [] c.op = "DeleteSubscription" -> subscriptions[c.id] = NULL
      [] c.op = "DeleteSubscriptions" -> \A s \in c.ids : subscriptions[s] = NULL
      [] c.op = "DeletePaymentMethods" -> \A p \in c.ids : paymentMethods[p] = NULL
      [] OTHER -> TRUE

\* A 2xx to a DELETE is the truth: the rows it names are gone when the response
\* is on its way, although their deletion was decided on rows read some
\* statements earlier.
DeletedMeansGone == \A r \in Requests : pc[r] = "respond" => Gone(call[r])

\* The inductive invariant: what makes PaymentMethodIntegrity and NoOrphans hold
\* after every statement.
IInv ==
    /\ TypeOK
    /\ FreshIdsUnused
    /\ PaymentMethodIntegrity
    /\ NoOrphans
    /\ LocksProtect
    /\ VerifiedRows

\* What a request has read stays good until it ends.  A row that was found among
\* u's is u's, or gone for ever: ids are not handed out twice and rows do not
\* change hands.
MethodSeen(p, u) == p \notin fresh /\ (paymentMethods[p] = NULL \/ OwnPaymentMethod(p, u))

SubscriptionSeen(s, u) == s \notin fresh /\ (subscriptions[s] = NULL \/ OwnSubscription(s, u))

\* After FindByIDs, every row that the call names was there, and the user's.
Seen(r) ==
    /\ call[r].user \notin fresh
    /\ call[r].op = "DeleteSubscription" /\ pc[r] \in {"delete", "respond"} =>
        SubscriptionSeen(call[r].id, call[r].user)
    /\ call[r].op = "DeleteSubscriptions" /\ pc[r] \in {"delete", "commit", "respond"} =>
        \A s \in call[r].ids : SubscriptionSeen(s, call[r].user)
    /\ call[r].op = "DeletePaymentMethods" /\ pc[r] \in {"count", "delete", "commit", "respond"} =>
        \A p \in call[r].ids : MethodSeen(p, call[r].user)

\* A transaction that waits to commit has deleted what its call names, as far as
\* it still is there.
Staged(r) ==
    /\ pc[r] = "verify" => call[r].op \in {"CreateSubscription", "UpdateSubscription"}
    /\ pc[r] = "commit" =>
        /\ call[r].op \in {"DeleteSubscriptions", "DeletePaymentMethods"}
        /\ locks[r] = Targets(call[r])

\* The row about to be written is legal and says what the call says; what an
\* update keeps of the payment method was found with the row.
RowFollows(r) ==
    /\ row[r].plan \in ValidPlans
    /\ call[r].op = "CreateSubscription" => row[r] = NewRow(call[r])
    /\ call[r].op = "UpdateSubscription" =>
        /\ call[r].plan # KeepPlan => row[r].plan = call[r].plan
        /\ call[r].paymentMethod # KeepPaymentMethod =>
            row[r].paymentMethod = call[r].paymentMethod
        /\ call[r].paymentMethod = KeepPaymentMethod /\ row[r].paymentMethod # NULL =>
            MethodSeen(row[r].paymentMethod, call[r].user)

PlansAreValid ==
    \A s \in SubscriptionIds : subscriptions[s] # NULL => subscriptions[s].plan \in ValidPlans

\* What a use case has found with FindByID or FindByIDs, and built or deleted since,
\* stays right until the request is answered, whatever others do between its
\* statements.  Inductive together with IInv; the refinement below rests on both.
ReadsLast ==
    /\ PlansAreValid
    /\ DeletedMeansGone
    /\ \A r \in Requests : InProgress(r) =>
        /\ Seen(r)
        /\ Staged(r)
        /\ WritesSubscription(r) => RowFollows(r)

-----------------------------------------------------------------------------
(***************************************************************************)
(* Action properties.                                                       *)
(***************************************************************************)

RowOwner(table, i) == IF table[i] = NULL THEN NULL ELSE table[i].user

\* A step changes, adds or removes rows of the user of the request that makes
\* it, and of nobody else, whatever ids the request names.
OnlyOwnRowsChange ==
    [][\A r \in Requests : pc'[r] # pc[r] =>
        /\ \A p \in PaymentMethodIds : paymentMethods'[p] # paymentMethods[p] =>
            {RowOwner(paymentMethods, p), RowOwner(paymentMethods', p)}
                \subseteq {call[r].user, NULL}
        /\ \A s \in SubscriptionIds : subscriptions'[s] # subscriptions[s] =>
            {RowOwner(subscriptions, s), RowOwner(subscriptions', s)}
                \subseteq {call[r].user, NULL}]_vars

\* A payment method that a subscription refers to goes only together with the
\* account, never by a DELETE of payment methods whose count was out of date.
UsedMethodsStay ==
    [][\A p \in PaymentMethodIds :
        Used({p}) /\ paymentMethods'[p] = NULL => users' # users]_vars

\* "nil means not provided - keep existing value": an update that does not
\* mention the plan leaves it as it is at that moment.
PatchKeepsTheRest ==
    [][\A r \in Requests :
        /\ At(r, "UpdateSubscription", "write")
        /\ call[r].plan = KeepPlan
        /\ pc'[r] = "respond"
        => subscriptions'[call[r].id].plan = subscriptions[call[r].id].plan]_vars

-----------------------------------------------------------------------------
(***************************************************************************)
(* The backend keeps the API's promises.                                    *)
(***************************************************************************)

Phase(r) ==
    CASE pc[r] \in {"find", "verify", "write", "count", "delete", "commit"} -> "pending"
      [] pc[r] \in {"recount", "respond"} -> "applied"
      [] pc[r] = "idle" -> "idle"

API == INSTANCE SubsqAPI WITH phase <- [r \in Requests |-> Phase(r)]

\* Every behaviour of the backend is one that the API promises: each call takes
\* effect at once, at its write or commit, and every refusal is right when the
\* backend decides on it.
KeepsPromises == API!Spec

-----------------------------------------------------------------------------
(***************************************************************************)
(* Liveness.  A request runs in a goroutine of its own, and PostgreSQL wakes *)
(* the waiters of a row in the order they came, so a statement that can go   *)
(* on again and again goes on: strong fairness.                              *)
(***************************************************************************)
FairSpec == Spec /\ \A r \in Requests : SF_vars(RequestStep(r))

\* gen_random_uuid() never runs out of ids; an instance does.
OutOfIds(r) ==
    \/ At(r, "CreatePaymentMethod", "write") /\ PaymentMethodIds \cap fresh = {}
    \/ At(r, "CreateSubscription", "write") /\ SubscriptionIds \cap fresh = {}

\* Every request gets its answer: no two wait for each other, and nobody waits
\* for ever for a row that transactions keep taking.
EveryRequestAnswered ==
    \A r \in Requests : InProgress(r) ~> ~InProgress(r) \/ OutOfIds(r)
=============================================================================
