----------------------- MODULE SubsqRefinement_proofs -----------------------
(***************************************************************************)
(* Proofs that SubsqBackend keeps the promises of SubsqAPI, for any sets of  *)
(* ids and any number of requests, and of the properties about whose rows    *)
(* change and what a 2xx to a DELETE means.                                  *)
(*                                                                          *)
(* The argument: a step changes rows of its request's user only, and brings   *)
(* no row back (ChangesOwnRows); so what the other requests have read stays   *)
(* good, and ReadsLast is inductive together with IInv; from both, every      *)
(* step is one that the API promises, or none of the API's business.         *)
(***************************************************************************)
EXTENDS SubsqBackend_proofs

-----------------------------------------------------------------------------
(***************************************************************************)
(* What a step does to the tables.                                          *)
(***************************************************************************)

\* Rows that differ after the step belong to the user of r, before and after;
\* an id that was handed out and has no row does not get one; and what is
\* written is legal.
ChangesOwnRows(r) ==
    /\ fresh' \subseteq fresh
    /\ users' \subseteq users
    /\ \A p \in PaymentMethodIds : paymentMethods'[p] # paymentMethods[p] =>
        /\ {RowOwner(paymentMethods, p), RowOwner(paymentMethods', p)}
                \subseteq {call[r].user, NULL}
        /\ paymentMethods[p] = NULL => p \in fresh
    /\ \A s \in SubscriptionIds : subscriptions'[s] # subscriptions[s] =>
        /\ {RowOwner(subscriptions, s), RowOwner(subscriptions', s)}
                \subseteq {call[r].user, NULL}
        /\ subscriptions[s] = NULL => s \in fresh
        /\ subscriptions'[s] # NULL => subscriptions'[s].plan \in ValidPlans

\* A step that leaves the tables alone.
LEMMA NothingChanges ==
    ASSUME NEW r \in Requests, UNCHANGED tables
    PROVE  ChangesOwnRows(r)
  BY DEF tables, ChangesOwnRows

\* Rows of the request's user go.
LEMMA RemovalChanges ==
    ASSUME IInv, NEW r \in Requests, NEW ids,
           ids \subseteq RowsOf(call[r].user),
           fresh' = fresh, users' \subseteq users,
           paymentMethods' = Without(paymentMethods, ids),
           subscriptions' = Without(subscriptions, ids)
    PROVE  ChangesOwnRows(r)
<1>1. \A i \in ids : /\ i \in PaymentMethodIds => OwnPaymentMethod(i, call[r].user)
                     /\ i \in SubscriptionIds => OwnSubscription(i, call[r].user)
  BY IdsAssumption DEF RowsOf, OwnPaymentMethods, OwnSubscriptions
<1>2. /\ \A p \in PaymentMethodIds : p \notin ids => paymentMethods'[p] = paymentMethods[p]
      /\ \A p \in PaymentMethodIds : p \in ids => paymentMethods'[p] = NULL
      /\ \A s \in SubscriptionIds : s \notin ids => subscriptions'[s] = subscriptions[s]
      /\ \A s \in SubscriptionIds : s \in ids => subscriptions'[s] = NULL
  BY DEF Without, IInv, TypeOK, TablesTypeOK
<1> QED
  BY <1>1, <1>2 DEF ChangesOwnRows, RowOwner, OwnPaymentMethod, OwnSubscription

LEMMA CreatePaymentMethodChanges ==
    ASSUME IInv, NEW r \in Requests, CreatePaymentMethod(r)
    PROVE  ChangesOwnRows(r)
<1> DEFINE new == [user |-> call[r].user, name |-> call[r].name]
<1>1. CASE call[r].user \notin users
  BY <1>1, NothingChanges DEF CreatePaymentMethod, Finish
<1>2. CASE call[r].user \in users
  <2>1. PICK p \in PaymentMethodIds \cap fresh :
          /\ paymentMethods' = [paymentMethods EXCEPT ![p] = new]
          /\ fresh' = fresh \ {p}
          /\ UNCHANGED <<users, subscriptions>>
    BY <1>2 DEF CreatePaymentMethod, InsertPaymentMethodRow
  <2>2. paymentMethods[p] = NULL /\ new.user = call[r].user
    BY <2>1 DEF IInv, FreshIdsUnused
  <2> HIDE DEF new
  <2>3. \A q \in PaymentMethodIds :
            paymentMethods'[q] = IF q = p THEN new ELSE paymentMethods[q]
    BY <2>1 DEF IInv, TypeOK, TablesTypeOK
  <2> QED
    BY <2>1, <2>2, <2>3 DEF ChangesOwnRows, RowOwner
<1> QED
  BY <1>1, <1>2

LEMMA RenamePaymentMethodChanges ==
    ASSUME IInv, NEW r \in Requests, RenamePaymentMethod(r)
    PROVE  ChangesOwnRows(r)
<1> DEFINE p == call[r].id
           name == call[r].name
<1>1. CASE ~OwnPaymentMethod(p, call[r].user)
  BY <1>1, NothingChanges DEF RenamePaymentMethod, Finish
<1>2. CASE OwnPaymentMethod(p, call[r].user)
  <2>1. /\ paymentMethods' = [paymentMethods EXCEPT ![p].name = name]
        /\ UNCHANGED <<users, subscriptions, fresh>>
    BY <1>2 DEF RenamePaymentMethod, SetPaymentMethodName
  <2>2. p \in PaymentMethodIds
    BY CallOf, CallFields DEF RenamePaymentMethod, At, UpdatePaymentMethodCalls
  <2>3. paymentMethods[p] \in PaymentMethodRow /\ paymentMethods[p].user = call[r].user
    BY <1>2, <2>2 DEF OwnPaymentMethod, IInv, TypeOK, TablesTypeOK
  <2>4. /\ paymentMethods'[p].user = paymentMethods[p].user
        /\ \A q \in PaymentMethodIds \ {p} : paymentMethods'[q] = paymentMethods[q]
    BY <2>1, <2>2, <2>3 DEF IInv, TypeOK, TablesTypeOK, PaymentMethodRow
  <2>5. paymentMethods[p] # NULL
    BY <1>2 DEF OwnPaymentMethod
  <2> HIDE DEF p, name
  <2> QED
    BY <2>1, <2>3, <2>4, <2>5 DEF ChangesOwnRows, RowOwner
<1> QED
  BY <1>1, <1>2

\* What a write of subscriptions knows about its row.
LEMMA RowToWrite ==
    ASSUME IInv, ReadsLast, NEW r \in Requests, WritesSubscription(r)
    PROVE  /\ row[r] \in SubscriptionRow
           /\ row[r].user = call[r].user
           /\ row[r].plan \in ValidPlans
           /\ RowFollows(r)
  BY DEF IInv, VerifiedRows, ReadsLast, WritesSubscription, InProgress, RowFollows

LEMMA CreateSubscriptionChanges ==
    ASSUME IInv, ReadsLast, NEW r \in Requests, CreateSubscription(r)
    PROVE  ChangesOwnRows(r)
<1>1. CASE ~ReferencesExist(row[r])
  BY <1>1, NothingChanges DEF CreateSubscription, Finish
<1>2. CASE ReferencesExist(row[r])
  <2>1. PICK s \in SubscriptionIds \cap fresh :
          /\ subscriptions' = [subscriptions EXCEPT ![s] = row[r]]
          /\ fresh' = fresh \ {s}
          /\ UNCHANGED <<users, paymentMethods>>
    BY <1>2 DEF CreateSubscription, InsertSubscriptionRow
  <2>2. row[r].user = call[r].user /\ row[r].plan \in ValidPlans
    BY RowToWrite DEF CreateSubscription, At, WritesSubscription
  <2>3. subscriptions[s] = NULL
    BY <2>1 DEF IInv, FreshIdsUnused
  <2>4. \A i \in SubscriptionIds :
            subscriptions'[i] = IF i = s THEN row[r] ELSE subscriptions[i]
    BY <2>1 DEF IInv, TypeOK, TablesTypeOK
  <2> QED
    BY <2>1, <2>2, <2>3, <2>4 DEF ChangesOwnRows, RowOwner
<1> QED
  BY <1>1, <1>2

LEMMA UpdateSubscriptionChanges ==
    ASSUME IInv, ReadsLast, NEW r \in Requests, UpdateSubscription(r)
    PROVE  ChangesOwnRows(r)
<1>1. CASE UNCHANGED tables
  BY <1>1, NothingChanges
<1>2. CASE ~UNCHANGED tables
  <2> DEFINE s == call[r].id
  <2>1. /\ OwnSubscription(s, call[r].user)
        /\ SetSubscriptionRow(s, row[r])
    BY <1>2 DEF UpdateSubscription, Finish
  <2>2. row[r].user = call[r].user /\ row[r].plan \in ValidPlans
    BY RowToWrite DEF UpdateSubscription, At, WritesSubscription
  <2>3. \A i \in SubscriptionIds :
            subscriptions'[i] = IF i = s THEN row[r] ELSE subscriptions[i]
    BY <2>1 DEF SetSubscriptionRow, IInv, TypeOK, TablesTypeOK
  <2> HIDE DEF s
  <2> QED
    BY <2>1, <2>2, <2>3 DEF ChangesOwnRows, RowOwner, SetSubscriptionRow, OwnSubscription
<1> QED
  BY <1>1, <1>2

\* Whatever r does, it changes rows of its own user only.
LEMMA RequestStepChanges ==
    ASSUME IInv, ReadsLast, NEW r \in Requests, RequestStep(r)
    PROVE  ChangesOwnRows(r)
<1>1. CASE UNCHANGED tables
  BY <1>1, NothingChanges
<1>2. CASE ~UNCHANGED tables
  <2>1. \/ CreatePaymentMethod(r) \/ RenamePaymentMethod(r)
        \/ CreateSubscription(r) \/ UpdateSubscription(r) \/ DeleteSubscription(r)
        \/ DeleteCurrentUser(r) \/ Commit(r)
    <3>1. ~Respond(r)
      BY <1>2 DEF Respond, Finish
    <3>2. UserStep(r) => DeleteCurrentUser(r)
      BY <1>2 DEF UserStep, FindUser, Finish
    <3>3. SubscriptionStep(r) =>
            CreateSubscription(r) \/ UpdateSubscription(r) \/ DeleteSubscription(r)
      BY <1>2 DEF SubscriptionStep, FindSubscription, VerifyPaymentMethod,
         FindDoomedSubscription, FindSubscriptions, DeleteSubscriptions, Finish, tables
    <3>4. PaymentMethodStep(r) => CreatePaymentMethod(r) \/ RenamePaymentMethod(r)
      BY <1>2 DEF PaymentMethodStep, FindPaymentMethod, RecountUsage, FindPaymentMethods,
         CountUsage, DeletePaymentMethods, Finish, tables
    <3> QED
      BY <3>1, <3>2, <3>3, <3>4 DEF RequestStep
  <2>2. CASE DeleteSubscription(r)
    <3>1. Targets(call[r]) \subseteq RowsOf(call[r].user)
      BY <2>2 DEF DeleteSubscription, At, Targets, RowsOf, OwnSubscriptions
    <3> QED
      BY <2>2, <3>1, RemovalChanges DEF DeleteSubscription, RemoveRows
  <2>3. CASE DeleteCurrentUser(r)
    <3>1. RemoveUser(call[r].user)
      BY <1>2, <2>3 DEF DeleteCurrentUser, Finish
    <3> QED
      BY <3>1, RemovalChanges DEF RemoveUser
  <2>4. CASE Commit(r)
    <3>1. locks[r] \subseteq RowsOf(call[r].user)
      BY DEF IInv, LocksProtect
    <3> QED
      BY <2>4, <3>1, RemovalChanges DEF Commit, RemoveRows
  <2> QED
    BY <2>1, <2>2, <2>3, <2>4, CreatePaymentMethodChanges, RenamePaymentMethodChanges,
       CreateSubscriptionChanges, UpdateSubscriptionChanges
<1> QED
  BY <1>1, <1>2

-----------------------------------------------------------------------------
(***************************************************************************)
(* What the other requests have read stays good.                            *)
(***************************************************************************)

\* A step of r leaves the control state of the other requests alone.
OthersWait(r) ==
    \A q \in Requests \ {r} :
        /\ pc'[q] = pc[q]
        /\ call'[q] = call[q]
        /\ row'[q] = row[q]
        /\ locks'[q] = locks[q]

LEMMA OneRequestSteps ==
    ASSUME IInv, NEW r \in Requests, Accept(r) \/ RequestStep(r) \/ Fail(r)
    PROVE  OthersWait(r)
<1> USE DEF IInv, TypeOK, RequestsTypeOK, OthersWait
<1>1. ASSUME NEW status, Finish(r, status) PROVE OthersWait(r)
  BY <1>1 DEF Finish
<1>2. ASSUME NEW step, NEW rw, Proceed(r, step, rw) PROVE OthersWait(r)
  BY <1>2 DEF Proceed
<1>3. CASE Accept(r)
  BY <1>1, <1>3 DEF Accept, Receive, Reject
<1>4. CASE SubscriptionStep(r)
  <2>1. CASE DeleteSubscriptions(r)
    BY <2>1 DEF DeleteSubscriptions
  <2> QED
    BY <1>1, <1>2, <1>4, <2>1 DEF SubscriptionStep, FindSubscription, VerifyPaymentMethod,
       CreateSubscription, UpdateSubscription, FindDoomedSubscription, DeleteSubscription,
       FindSubscriptions, GoTo
<1>5. CASE PaymentMethodStep(r)
  <2>1. CASE DeletePaymentMethods(r)
    BY <1>1, <2>1 DEF DeletePaymentMethods
  <2> QED
    BY <1>1, <1>2, <1>5, <2>1 DEF PaymentMethodStep, CreatePaymentMethod, FindPaymentMethod,
       RenamePaymentMethod, RecountUsage, FindPaymentMethods, CountUsage, GoTo
<1>6. CASE UserStep(r)
  BY <1>1, <1>2, <1>6 DEF UserStep, FindUser, DeleteCurrentUser, GoTo
<1>7. CASE Commit(r)
  BY <1>7 DEF Commit
<1>8. CASE Respond(r) \/ Fail(r)
  BY <1>1, <1>8 DEF Respond, Fail
<1> QED
  BY <1>3, <1>4, <1>5, <1>6, <1>7, <1>8 DEF RequestStep

\* The ids that the call of a request in progress names.
LEMMA CallIds ==
    ASSUME IInv, NEW r \in Requests, InProgress(r)
    PROVE  /\ call[r].op = "UpdateSubscription" => call[r].id \in SubscriptionIds
           /\ call[r].op = "DeleteSubscription" => call[r].id \in SubscriptionIds
           /\ call[r].op = "DeleteSubscriptions" => call[r].ids \subseteq SubscriptionIds
           /\ call[r].op = "UpdatePaymentMethod" => call[r].id \in PaymentMethodIds
           /\ call[r].op = "DeletePaymentMethods" => call[r].ids \subseteq PaymentMethodIds
  BY CallOf, CallFields DEF InProgress, UpdateSubscriptionCalls, DeleteSubscriptionCalls,
     DeleteSubscriptionsCalls, UpdatePaymentMethodCalls, DeletePaymentMethodsCalls

\* The clauses of ReadsLast about one request.
ReadsLastOf(r) ==
    InProgress(r) =>
        /\ Seen(r)
        /\ Staged(r)
        /\ WritesSubscription(r) => RowFollows(r)
        /\ pc[r] = "respond" => Gone(call[r])

LEMMA ReadsLastParts ==
    ReadsLast <=> PlansAreValid /\ \A r \in Requests : ReadsLastOf(r)
  BY DEF ReadsLast, ReadsLastOf, DeletedMeansGone, InProgress

\* An id handed out keeps its owner or loses its row for ever.
LEMMA SeenStaysSeen ==
    ASSUME IInv, IInv', NEW r \in Requests, ChangesOwnRows(r)
    PROVE  /\ \A p \in PaymentMethodIds, u \in UserIds : MethodSeen(p, u) => MethodSeen(p, u)'
           /\ \A s \in SubscriptionIds, u \in UserIds :
                SubscriptionSeen(s, u) => SubscriptionSeen(s, u)'
           /\ \A p \in PaymentMethodIds :
                p \notin fresh /\ paymentMethods[p] = NULL => paymentMethods'[p] = NULL
           /\ \A s \in SubscriptionIds :
                s \notin fresh /\ subscriptions[s] = NULL => subscriptions'[s] = NULL
<1>1. \A p \in PaymentMethodIds :
        /\ paymentMethods[p] # NULL => paymentMethods[p].user \in UserIds
        /\ paymentMethods'[p] # NULL => paymentMethods'[p].user \in UserIds
  BY DEF IInv, TypeOK, TablesTypeOK, PaymentMethodRow
<1>2. \A s \in SubscriptionIds :
        /\ subscriptions[s] # NULL => subscriptions[s].user \in UserIds
        /\ subscriptions'[s] # NULL => subscriptions'[s].user \in UserIds
  BY DEF IInv, TypeOK, TablesTypeOK, SubscriptionRow
<1>3. NULL \notin UserIds
  BY NullAssumption
<1>4. \A p \in PaymentMethodIds : paymentMethods[p] # NULL /\ paymentMethods'[p] # NULL =>
            paymentMethods'[p].user = paymentMethods[p].user
  BY <1>1, <1>3 DEF ChangesOwnRows, RowOwner
<1>5. \A s \in SubscriptionIds : subscriptions[s] # NULL /\ subscriptions'[s] # NULL =>
            subscriptions'[s].user = subscriptions[s].user
  BY <1>2, <1>3 DEF ChangesOwnRows, RowOwner
<1>6. /\ fresh' \subseteq fresh
      /\ \A p \in PaymentMethodIds :
            p \notin fresh /\ paymentMethods[p] = NULL => paymentMethods'[p] = NULL
      /\ \A s \in SubscriptionIds :
            s \notin fresh /\ subscriptions[s] = NULL => subscriptions'[s] = NULL
  BY DEF ChangesOwnRows
<1> QED
  BY <1>4, <1>5, <1>6 DEF MethodSeen, SubscriptionSeen, OwnPaymentMethod, OwnSubscription

\* Somebody without an account has no rows.
LEMMA NoAccountNoRows ==
    ASSUME IInv, NEW u \in UserIds, u \notin users
    PROVE  RowsOf(u) = {}
  BY DEF RowsOf, OwnPaymentMethods, OwnSubscriptions, OwnPaymentMethod, OwnSubscription,
     IInv, NoOrphans

\* A step of r leaves what q has read as it is.
LEMMA OthersReadsLast ==
    ASSUME IInv, IInv', NEW r \in Requests, ChangesOwnRows(r), OthersWait(r),
           NEW q \in Requests, q # r, ReadsLastOf(q)
    PROVE  ReadsLastOf(q)'
<1> SUFFICES ASSUME InProgress(q)
             PROVE  /\ Seen(q)' /\ Staged(q)'
                    /\ WritesSubscription(q)' => RowFollows(q)'
                    /\ pc'[q] = "respond" => Gone(call[q])'
  BY DEF OthersWait, InProgress, ReadsLastOf
<1> DEFINE c == call[q]
<1>1. /\ pc'[q] = pc[q] /\ call'[q] = c /\ row'[q] = row[q] /\ locks'[q] = locks[q]
      /\ c.user \in UserIds
  BY CallOf DEF OthersWait, InProgress
<1>2. Seen(q) /\ Staged(q)
  BY DEF ReadsLastOf
<1>3. Seen(q)'
  BY <1>1, <1>2, CallIds, SeenStaysSeen DEF Seen, ChangesOwnRows
<1>4. Staged(q)'
  <2> SUFFICES ASSUME pc[q] = "commit" PROVE locks[q] = Targets(c)'
    BY <1>1, <1>2 DEF Staged
  <2>1. /\ c.op \in {"DeleteSubscriptions", "DeletePaymentMethods"}
        /\ locks[q] = Targets(c)
    BY <1>2 DEF Staged
  <2>2. locks[q] \subseteq RowsOf(c.user)'
    BY <1>1 DEF IInv, LocksProtect
  <2>3. CASE c.op = "DeleteSubscriptions"
    <3>1. \A s \in c.ids : SubscriptionSeen(s, c.user) /\ s \in SubscriptionIds
      BY <1>2, <2>3, CallIds DEF Seen
    <3>2. Targets(c) = OwnSubscriptions(c.ids, c.user)
      BY <2>3 DEF Targets
    <3>3. Targets(c)' = OwnSubscriptions(c.ids, c.user)'
      BY <1>1, <2>3 DEF Targets
    <3>4. ASSUME NEW s \in c.ids PROVE OwnSubscription(s, c.user)' <=> OwnSubscription(s, c.user)
      <4>1. s \in locks[q] <=> OwnSubscription(s, c.user)
        BY <2>1, <3>1, <3>2 DEF OwnSubscriptions
      <4>2. CASE s \in locks[q]
        BY <1>1, <2>2, <3>1, <4>1, <4>2, IdsAssumption
           DEF RowsOf, OwnSubscriptions, OwnPaymentMethods
      <4>3. CASE s \notin locks[q]
        BY <3>1, <4>1, <4>3, SeenStaysSeen DEF SubscriptionSeen, OwnSubscription
      <4> QED
        BY <4>2, <4>3
    <3> QED
      BY <1>1, <2>1, <3>2, <3>3, <3>4 DEF OwnSubscriptions
  <2>4. CASE c.op = "DeletePaymentMethods"
    <3>1. \A p \in c.ids : MethodSeen(p, c.user) /\ p \in PaymentMethodIds
      BY <1>2, <2>4, CallIds DEF Seen
    <3>2. Targets(c) = OwnPaymentMethods(c.ids, c.user)
      BY <2>4 DEF Targets
    <3>3. Targets(c)' = OwnPaymentMethods(c.ids, c.user)'
      BY <1>1, <2>4 DEF Targets
    <3>4. ASSUME NEW p \in c.ids PROVE OwnPaymentMethod(p, c.user)' <=> OwnPaymentMethod(p, c.user)
      <4>1. p \in locks[q] <=> OwnPaymentMethod(p, c.user)
        BY <2>1, <3>1, <3>2 DEF OwnPaymentMethods
      <4>2. CASE p \in locks[q]
        BY <1>1, <2>2, <3>1, <4>1, <4>2, IdsAssumption
           DEF RowsOf, OwnSubscriptions, OwnPaymentMethods
      <4>3. CASE p \notin locks[q]
        BY <3>1, <4>1, <4>3, SeenStaysSeen DEF MethodSeen, OwnPaymentMethod
      <4> QED
        BY <4>2, <4>3
    <3> QED
      BY <1>1, <2>1, <3>2, <3>3, <3>4 DEF OwnPaymentMethods
  <2> QED
    BY <2>1, <2>3, <2>4
<1>5. WritesSubscription(q)' => RowFollows(q)'
  <2> SUFFICES ASSUME WritesSubscription(q) PROVE RowFollows(q)'
    BY <1>1 DEF WritesSubscription
  <2>1. RowFollows(q) /\ row[q] \in SubscriptionRow
    BY DEF ReadsLastOf, IInv, VerifiedRows
  <2>2. \A p \in PaymentMethodIds : MethodSeen(p, c.user) => MethodSeen(p, c.user)'
    BY <1>1, SeenStaysSeen
  <2> QED
    BY <1>1, <2>1, <2>2 DEF RowFollows, SubscriptionRow, MethodSeen, OwnPaymentMethod, NewRow
<1>6. pc'[q] = "respond" => Gone(call[q])'
  <2> SUFFICES ASSUME pc[q] = "respond" PROVE Gone(c)'
    BY <1>1
  <2>1. Gone(c)
    BY DEF ReadsLastOf
  <2>2. CASE c.op = "DeleteCurrentUser"
    <3>1. c.user \notin users'
      BY <2>1, <2>2 DEF Gone, ChangesOwnRows
    <3>2. RowsOf(c.user)' = {}
      BY <1>1, <3>1 DEF RowsOf, OwnPaymentMethods, OwnSubscriptions, OwnPaymentMethod,
         OwnSubscription, IInv, NoOrphans
    <3> QED
      BY <1>1, <2>2, <3>1, <3>2 DEF Gone
  <2>3. CASE c.op = "DeleteSubscription"
    <3>1. c.id \in SubscriptionIds /\ c.id \notin fresh /\ subscriptions[c.id] = NULL
      BY <1>2, <2>1, <2>3, CallIds DEF Seen, SubscriptionSeen, Gone
    <3> QED
      BY <1>1, <2>3, <3>1, SeenStaysSeen DEF Gone
  <2>4. CASE c.op = "DeleteSubscriptions"
    <3>1. \A s \in c.ids :
            s \in SubscriptionIds /\ s \notin fresh /\ subscriptions[s] = NULL
      BY <1>2, <2>1, <2>4, CallIds DEF Seen, SubscriptionSeen, Gone
    <3> QED
      BY <1>1, <2>4, <3>1, SeenStaysSeen DEF Gone
  <2>5. CASE c.op = "DeletePaymentMethods"
    <3>1. \A p \in c.ids :
            p \in PaymentMethodIds /\ p \notin fresh /\ paymentMethods[p] = NULL
      BY <1>2, <2>1, <2>5, CallIds DEF Seen, MethodSeen, Gone
    <3> QED
      BY <1>1, <2>5, <3>1, SeenStaysSeen DEF Gone
  <2>6. CASE c.op \notin {"DeleteCurrentUser", "DeleteSubscription", "DeleteSubscriptions",
                          "DeletePaymentMethods"}
    BY <1>1, <2>6 DEF Gone
  <2> QED
    BY <2>2, <2>3, <2>4, <2>5, <2>6
<1> QED
  BY <1>3, <1>4, <1>5, <1>6

-----------------------------------------------------------------------------
(***************************************************************************)
(* What a request has read itself.                                          *)
(***************************************************************************)

LEMMA ProceedsTo ==
    ASSUME IInv, NEW r \in Requests, NEW step, NEW rw, Proceed(r, step, rw)
    PROVE  pc'[r] = step /\ row'[r] = rw /\ call'[r] = call[r] /\ locks'[r] = locks[r]
  BY DEF Proceed, IInv, TypeOK, RequestsTypeOK

LEMMA FinishReadsLast ==
    ASSUME IInv, NEW r \in Requests, NEW status, Finish(r, status)
    PROVE  ReadsLastOf(r)'
<1>1. pc'[r] = "idle"
  BY DEF Finish, IInv, TypeOK, RequestsTypeOK
<1> QED
  BY <1>1 DEF ReadsLastOf, InProgress

LEMMA AcceptReadsLast ==
    ASSUME IInv, NEW r \in Requests, Accept(r)
    PROVE  ReadsLastOf(r)'
<1>1. PICK c \in Calls : Receive(r, c) \/ Reject(r, c)
  BY DEF Accept
<1>2. CASE Reject(r, c)
  BY <1>2, FinishReadsLast DEF Reject
<1>3. CASE Receive(r, c)
  <2>1. /\ call'[r] = c /\ pc'[r] = FirstStep(c)
        /\ c.op = "CreateSubscription" => row'[r] = NewRow(c)
        /\ c.user \notin fresh' /\ WellFormed(c)
    BY <1>3 DEF Receive, tables, IInv, TypeOK, RequestsTypeOK
  <2>2. /\ FirstStep(c) \in {"find", "verify", "write"}
        /\ FirstStep(c) = "verify" => c.op = "CreateSubscription"
        /\ c.op = "UpdateSubscription" => FirstStep(c) = "find"
    BY DEF FirstStep
  <2>3. Seen(r)' /\ Staged(r)' /\ pc'[r] # "respond"
    BY <2>1, <2>2 DEF Seen, Staged
  <2>4. WritesSubscription(r)' => RowFollows(r)'
    BY <2>1, <2>2 DEF WritesSubscription, RowFollows, WellFormed, NewRow
  <2> QED
    BY <2>3, <2>4 DEF ReadsLastOf
<1> QED
  BY <1>1, <1>2, <1>3

\* An answer of 2xx is on its way, or nearly: nothing is to be known of the calls
\* that delete nothing.
LEMMA WritesReadsLast ==
    ASSUME IInv, NEW r \in Requests, ReadsLastOf(r), InProgress(r),
           NEW step \in {"respond", "recount"}, GoTo(r, step), fresh' \subseteq fresh,
           call[r].op \in {"CreateSubscription", "UpdateSubscription",
                           "CreatePaymentMethod", "UpdatePaymentMethod"}
    PROVE  ReadsLastOf(r)'
<1>1. pc'[r] = step /\ call'[r] = call[r]
  BY ProceedsTo DEF GoTo
<1> QED
  BY <1>1 DEF ReadsLastOf, Seen, Staged, WritesSubscription, Gone

\* Steps of the subscription use cases.
LEMMA SubscriptionReadsLast ==
    ASSUME IInv, IInv', ReadsLast, NEW r \in Requests, SubscriptionStep(r), ChangesOwnRows(r)
    PROVE  ReadsLastOf(r)'
<1> DEFINE c == call[r]
<1>1. InProgress(r) /\ ReadsLastOf(r) /\ Seen(r) /\ Staged(r)
  <2>1. InProgress(r)
    BY DEF SubscriptionStep, InProgress, FindSubscription, VerifyPaymentMethod,
       CreateSubscription, UpdateSubscription, FindDoomedSubscription, DeleteSubscription,
       FindSubscriptions, DeleteSubscriptions, At
  <2> QED
    BY <2>1, ReadsLastParts DEF ReadsLastOf
<1>2. CASE \E status : Finish(r, status)
  BY <1>2, FinishReadsLast
<1>3. CASE ~\E status : Finish(r, status)
  <2>1. CASE FindSubscription(r)
    <3> DEFINE old == subscriptions[c.id]
               updated == WithUpdate(old, c)
               step == IF updated.paymentMethod = NULL THEN "write" ELSE "verify"
    <3>1. /\ At(r, "UpdateSubscription", "find")
          /\ OwnSubscription(c.id, c.user)
          /\ updated.plan \in ValidPlans
          /\ Proceed(r, step, updated)
          /\ UNCHANGED tables
      BY <1>3, <2>1 DEF FindSubscription
    <3>2. /\ pc'[r] = step /\ row'[r] = updated /\ call'[r] = c
          /\ c.op = "UpdateSubscription"
      BY <3>1, ProceedsTo DEF At
    <3>3. c.id \in SubscriptionIds
      BY <1>1, <3>2, CallIds
    <3>4. old \in SubscriptionRow /\ old # NULL /\ old.user = c.user
      BY <3>1, <3>3 DEF OwnSubscription, IInv, TypeOK, TablesTypeOK
    <3>5. old.paymentMethod # NULL => MethodSeen(old.paymentMethod, c.user)
      BY <3>3, <3>4 DEF IInv, PaymentMethodIntegrity, FreshIdsUnused, MethodSeen,
         OwnPaymentMethod, SubscriptionRow
    <3>6. /\ c.plan # KeepPlan => updated.plan = c.plan
          /\ c.paymentMethod # KeepPaymentMethod => updated.paymentMethod = c.paymentMethod
          /\ c.paymentMethod = KeepPaymentMethod => updated.paymentMethod = old.paymentMethod
      BY DEF WithUpdate
    <3>7. step \in {"write", "verify"}
      OBVIOUS
    <3> HIDE DEF old, updated, step
    <3>8. RowFollows(r)'
      BY <3>1, <3>2, <3>5, <3>6 DEF RowFollows, MethodSeen, OwnPaymentMethod, tables
    <3>9. Seen(r)' /\ Staged(r)' /\ pc'[r] # "respond"
      BY <1>1, <3>1, <3>2, <3>7 DEF Seen, Staged, tables
    <3> QED
      BY <3>8, <3>9 DEF ReadsLastOf
  <2>2. CASE VerifyPaymentMethod(r)
    <3>1. pc[r] = "verify" /\ Proceed(r, "write", row[r]) /\ UNCHANGED tables
      BY <1>3, <2>2 DEF VerifyPaymentMethod
    <3>2. pc'[r] = "write" /\ row'[r] = row[r] /\ call'[r] = c
      BY <3>1, ProceedsTo
    <3>3. c.op \in {"CreateSubscription", "UpdateSubscription"}
      BY <1>1, <3>1 DEF Staged
    <3>4. RowFollows(r)
      BY <1>1, <3>1, <3>3 DEF ReadsLastOf, WritesSubscription
    <3>5. RowFollows(r)'
      BY <3>1, <3>2, <3>4 DEF RowFollows, MethodSeen, OwnPaymentMethod, NewRow, tables
    <3>6. Seen(r)' /\ Staged(r)' /\ pc'[r] # "respond"
      BY <1>1, <3>1, <3>2, <3>3 DEF Seen, Staged, tables
    <3> QED
      BY <3>5, <3>6 DEF ReadsLastOf
  <2>3. CASE CreateSubscription(r) \/ UpdateSubscription(r)
    <3>1. GoTo(r, "respond") /\ c.op \in {"CreateSubscription", "UpdateSubscription"}
      BY <1>3, <2>3 DEF CreateSubscription, UpdateSubscription, At
    <3> QED
      BY <1>1, <3>1, WritesReadsLast DEF ChangesOwnRows
  <2>4. CASE FindDoomedSubscription(r)
    <3>1. /\ At(r, "DeleteSubscription", "find") /\ OwnSubscription(c.id, c.user)
          /\ GoTo(r, "delete") /\ UNCHANGED tables
      BY <1>3, <2>4 DEF FindDoomedSubscription
    <3>2. pc'[r] = "delete" /\ call'[r] = c /\ c.op = "DeleteSubscription"
      BY <3>1, ProceedsTo DEF GoTo, At
    <3>3. SubscriptionSeen(c.id, c.user)
      BY <1>1, <3>1, <3>2, CallIds
         DEF SubscriptionSeen, OwnSubscription, IInv, FreshIdsUnused
    <3> QED
      BY <1>1, <3>1, <3>2, <3>3
         DEF ReadsLastOf, Seen, Staged, WritesSubscription, SubscriptionSeen, OwnSubscription,
             tables
  <2>5. CASE DeleteSubscription(r)
    <3>1. /\ At(r, "DeleteSubscription", "delete")
          /\ RemoveRows(Targets(c))
          /\ GoTo(r, "respond")
      BY <2>5 DEF DeleteSubscription
    <3>2. pc'[r] = "respond" /\ call'[r] = c /\ c.op = "DeleteSubscription"
      BY <3>1, ProceedsTo DEF GoTo, At
    <3>3. c.id \in SubscriptionIds /\ c.user \in UserIds /\ SubscriptionSeen(c.id, c.user)
      BY <1>1, <3>1, <3>2, CallIds, CallOf DEF Seen, At, InProgress
    <3>4. SubscriptionSeen(c.id, c.user)'
      BY <3>2, <3>3, SeenStaysSeen
    <3>5. subscriptions'[c.id] = NULL
      BY <3>1, <3>2, <3>3 DEF RemoveRows, Without, Targets, OwnSubscriptions, OwnSubscription,
         SubscriptionSeen, IInv, TypeOK, TablesTypeOK
    <3> QED
      BY <1>1, <3>2, <3>4, <3>5 DEF ReadsLastOf, Seen, Staged, WritesSubscription, Gone,
         ChangesOwnRows
  <2>6. CASE FindSubscriptions(r)
    <3>1. /\ At(r, "DeleteSubscriptions", "find") /\ Targets(c) = c.ids
          /\ GoTo(r, "delete") /\ UNCHANGED tables
      BY <1>3, <2>6 DEF FindSubscriptions, SomeMissing
    <3>2. pc'[r] = "delete" /\ call'[r] = c /\ c.op = "DeleteSubscriptions"
      BY <3>1, ProceedsTo DEF GoTo, At
    <3>3. \A s \in c.ids : SubscriptionSeen(s, c.user)
      BY <3>1, <3>2 DEF Targets, OwnSubscriptions, SubscriptionSeen, OwnSubscription, IInv,
         FreshIdsUnused
    <3> QED
      BY <1>1, <3>1, <3>2, <3>3
         DEF ReadsLastOf, Seen, Staged, WritesSubscription, SubscriptionSeen, OwnSubscription,
             tables
  <2>7. CASE DeleteSubscriptions(r)
    <3>1. /\ At(r, "DeleteSubscriptions", "delete")
          /\ pc'[r] = "commit" /\ call'[r] = c /\ locks'[r] = Targets(c)
          /\ UNCHANGED tables
      BY <2>7 DEF DeleteSubscriptions, IInv, TypeOK, RequestsTypeOK
    <3>2. c.op = "DeleteSubscriptions" /\ Targets(c)' = Targets(c)
      BY <3>1 DEF At, Targets, OwnSubscriptions, OwnSubscription, tables
    <3> QED
      BY <1>1, <3>1, <3>2
         DEF ReadsLastOf, Seen, Staged, WritesSubscription, SubscriptionSeen, OwnSubscription,
             tables, At
  <2> QED
    BY <2>1, <2>2, <2>3, <2>4, <2>5, <2>6, <2>7 DEF SubscriptionStep
<1> QED
  BY <1>2, <1>3

\* Steps of the payment method use cases.
LEMMA PaymentMethodReadsLast ==
    ASSUME IInv, IInv', ReadsLast, NEW r \in Requests, PaymentMethodStep(r), ChangesOwnRows(r)
    PROVE  ReadsLastOf(r)'
<1> DEFINE c == call[r]
<1>1. InProgress(r) /\ ReadsLastOf(r) /\ Seen(r) /\ Staged(r)
  <2>1. InProgress(r)
    BY DEF PaymentMethodStep, InProgress, CreatePaymentMethod, FindPaymentMethod,
       RenamePaymentMethod, RecountUsage, FindPaymentMethods, CountUsage, DeletePaymentMethods,
       At
  <2> QED
    BY <2>1, ReadsLastParts DEF ReadsLastOf
<1>2. CASE \E status : Finish(r, status)
  BY <1>2, FinishReadsLast
<1>3. CASE ~\E status : Finish(r, status)
  <2>1. CASE CreatePaymentMethod(r) \/ RenamePaymentMethod(r) \/ RecountUsage(r)
    <3>1. PICK step \in {"respond", "recount"} :
            GoTo(r, step) /\ c.op \in {"CreatePaymentMethod", "UpdatePaymentMethod"}
      BY <1>3, <2>1 DEF CreatePaymentMethod, RenamePaymentMethod, RecountUsage, At
    <3> QED
      BY <1>1, <3>1, WritesReadsLast DEF ChangesOwnRows
  <2>2. CASE FindPaymentMethod(r)
    <3>1. At(r, "UpdatePaymentMethod", "find") /\ GoTo(r, "write")
      BY <1>3, <2>2 DEF FindPaymentMethod
    <3>2. pc'[r] = "write" /\ call'[r] = c /\ c.op = "UpdatePaymentMethod"
      BY <3>1, ProceedsTo DEF GoTo, At
    <3> QED
      BY <1>1, <3>2 DEF ReadsLastOf, Seen, Staged, WritesSubscription, ChangesOwnRows
  <2>3. CASE FindPaymentMethods(r)
    <3>1. /\ At(r, "DeletePaymentMethods", "find") /\ Targets(c) = c.ids
          /\ GoTo(r, "count") /\ UNCHANGED tables
      BY <1>3, <2>3 DEF FindPaymentMethods, SomeMissing
    <3>2. pc'[r] = "count" /\ call'[r] = c /\ c.op = "DeletePaymentMethods"
      BY <3>1, ProceedsTo DEF GoTo, At
    <3>3. \A p \in c.ids : MethodSeen(p, c.user)
      BY <3>1, <3>2 DEF Targets, OwnPaymentMethods, MethodSeen, OwnPaymentMethod, IInv,
         FreshIdsUnused
    <3> QED
      BY <1>1, <3>1, <3>2, <3>3
         DEF ReadsLastOf, Seen, Staged, WritesSubscription, MethodSeen, OwnPaymentMethod, tables
  <2>4. CASE CountUsage(r)
    <3>1. At(r, "DeletePaymentMethods", "count") /\ GoTo(r, "delete") /\ UNCHANGED tables
      BY <1>3, <2>4 DEF CountUsage
    <3>2. /\ pc'[r] = "delete" /\ call'[r] = c
          /\ c.op = "DeletePaymentMethods" /\ pc[r] = "count"
      BY <3>1, ProceedsTo DEF GoTo, At
    <3> QED
      BY <1>1, <3>1, <3>2
         DEF ReadsLastOf, Seen, Staged, WritesSubscription, MethodSeen, OwnPaymentMethod, tables
  <2>5. CASE DeletePaymentMethods(r)
    <3>1. /\ At(r, "DeletePaymentMethods", "delete")
          /\ pc'[r] = "commit" /\ call'[r] = c /\ locks'[r] = Targets(c)
          /\ UNCHANGED tables
      BY <1>3, <2>5 DEF DeletePaymentMethods, IInv, TypeOK, RequestsTypeOK
    <3>2. c.op = "DeletePaymentMethods" /\ Targets(c)' = Targets(c)
      BY <3>1 DEF At, Targets, OwnPaymentMethods, OwnPaymentMethod, tables
    <3> QED
      BY <1>1, <3>1, <3>2
         DEF ReadsLastOf, Seen, Staged, WritesSubscription, MethodSeen, OwnPaymentMethod,
             tables, At
  <2> QED
    BY <2>1, <2>2, <2>3, <2>4, <2>5 DEF PaymentMethodStep
<1> QED
  BY <1>2, <1>3

\* Steps of the user use cases.
LEMMA UserReadsLast ==
    ASSUME IInv, IInv', ReadsLast, NEW r \in Requests, UserStep(r), ChangesOwnRows(r)
    PROVE  ReadsLastOf(r)'
<1> DEFINE c == call[r]
<1>1. InProgress(r) /\ c.op = "DeleteCurrentUser"
  BY DEF UserStep, FindUser, DeleteCurrentUser, At, InProgress
<1>2. Seen(r) /\ c.user \in UserIds
  BY <1>1, CallOf, ReadsLastParts DEF ReadsLastOf, InProgress
<1>3. CASE \E status : Finish(r, status)
  BY <1>3, FinishReadsLast
<1>4. CASE FindUser(r) /\ GoTo(r, "delete")
  <2>1. pc'[r] = "delete" /\ call'[r] = c
    BY <1>4, ProceedsTo DEF GoTo
  <2> QED
    BY <1>1, <1>2, <2>1 DEF ReadsLastOf, Seen, Staged, WritesSubscription, ChangesOwnRows
<1>5. CASE DeleteCurrentUser(r) /\ RemoveUser(c.user) /\ GoTo(r, "respond")
  <2>1. pc'[r] = "respond" /\ call'[r] = c
    BY <1>5, ProceedsTo DEF GoTo
  <2>2. c.user \notin users'
    BY <1>5 DEF RemoveUser
  <2>3. RowsOf(c.user)' = {}
    BY <1>2, <2>1, <2>2 DEF RowsOf, OwnPaymentMethods, OwnSubscriptions, OwnPaymentMethod,
       OwnSubscription, IInv, NoOrphans
  <2> QED
    BY <1>1, <1>2, <2>1, <2>2, <2>3
       DEF ReadsLastOf, Seen, Staged, WritesSubscription, Gone, ChangesOwnRows
<1> QED
  BY <1>3, <1>4, <1>5 DEF UserStep, FindUser, DeleteCurrentUser

\* The rows that a transaction has not deleted, of those its call names, were
\* gone before.
LEMMA CommitReadsLast ==
    ASSUME IInv, IInv', ReadsLast, NEW r \in Requests, Commit(r), ChangesOwnRows(r)
    PROVE  ReadsLastOf(r)'
<1> DEFINE c == call[r]
<1>1. InProgress(r) /\ pc[r] = "commit" /\ c.user \in UserIds
  BY CallOf DEF Commit, InProgress
<1>2. Seen(r) /\ Staged(r)
  BY <1>1, ReadsLastParts DEF ReadsLastOf
<1>3. pc'[r] = "respond" /\ call'[r] = c /\ RemoveRows(locks[r])
  BY DEF Commit, IInv, TypeOK, RequestsTypeOK
<1>4. CASE c.op = "DeleteSubscriptions"
  <2>1. \A s \in c.ids : s \in SubscriptionIds /\ SubscriptionSeen(s, c.user)
    BY <1>1, <1>2, <1>4, CallIds DEF Seen
  <2>2. locks[r] = OwnSubscriptions(c.ids, c.user)
    BY <1>1, <1>2, <1>4 DEF Staged, Targets
  <2>3. \A s \in c.ids : subscriptions'[s] = NULL
    BY <1>3, <2>1, <2>2 DEF RemoveRows, Without, OwnSubscriptions, SubscriptionSeen, IInv,
       TypeOK, TablesTypeOK
  <2>4. \A s \in c.ids : SubscriptionSeen(s, c.user)'
    BY <1>1, <1>3, <2>1, SeenStaysSeen
  <2> QED
    BY <1>2, <1>3, <1>4, <2>3, <2>4
       DEF ReadsLastOf, Seen, Staged, WritesSubscription, Gone, ChangesOwnRows
<1>5. CASE c.op = "DeletePaymentMethods"
  <2>1. \A p \in c.ids : p \in PaymentMethodIds /\ MethodSeen(p, c.user)
    BY <1>1, <1>2, <1>5, CallIds DEF Seen
  <2>2. locks[r] = OwnPaymentMethods(c.ids, c.user)
    BY <1>1, <1>2, <1>5 DEF Staged, Targets
  <2>3. \A p \in c.ids : paymentMethods'[p] = NULL
    BY <1>3, <2>1, <2>2 DEF RemoveRows, Without, OwnPaymentMethods, MethodSeen, IInv,
       TypeOK, TablesTypeOK
  <2>4. \A p \in c.ids : MethodSeen(p, c.user)'
    BY <1>1, <1>3, <2>1, SeenStaysSeen
  <2> QED
    BY <1>2, <1>3, <1>5, <2>3, <2>4
       DEF ReadsLastOf, Seen, Staged, WritesSubscription, Gone, ChangesOwnRows
<1> QED
  BY <1>1, <1>2, <1>4, <1>5 DEF Staged

-----------------------------------------------------------------------------
(***************************************************************************)
(* ReadsLast is inductive together with IInv.                               *)
(***************************************************************************)

LEMMA InitReadsLast == Init => ReadsLast
<1> SUFFICES ASSUME Init PROVE ReadsLast
  OBVIOUS
<1> QED
  BY DEF Init, InitTables, InitRequests, ReadsLast, PlansAreValid, DeletedMeansGone, InProgress

\* A new account was nobody's before, so no request in progress is its.
LEMMA RegisterReadsLast ==
    ASSUME IInv, IInv', ReadsLast, NEW u \in UserIds, Register(u)
    PROVE  ReadsLast'
<1>1. /\ UNCHANGED <<paymentMethods, subscriptions, call, pc, row, locks>>
      /\ users' = users \cup {u} /\ fresh' = fresh \ {u} /\ u \in fresh
  BY DEF Register, InsertUser, requestVars
<1>2. PlansAreValid'
  BY <1>1 DEF ReadsLast, PlansAreValid
<1>3. ASSUME NEW q \in Requests PROVE ReadsLastOf(q)'
  <2> SUFFICES ASSUME InProgress(q) PROVE ReadsLastOf(q)'
    BY <1>1 DEF ReadsLastOf, InProgress
  <2>1. ReadsLastOf(q) /\ Seen(q) /\ Staged(q)
    BY ReadsLastParts DEF ReadsLastOf
  <2>2. Seen(q)' /\ Staged(q)'
    BY <1>1, <2>1 DEF Seen, Staged, SubscriptionSeen, MethodSeen, OwnSubscription,
       OwnPaymentMethod, Targets, OwnSubscriptions, OwnPaymentMethods
  <2>3. WritesSubscription(q)' => RowFollows(q)'
    BY <1>1, <2>1 DEF ReadsLastOf, WritesSubscription, RowFollows, MethodSeen,
       OwnPaymentMethod, NewRow
  <2>4. pc'[q] = "respond" => Gone(call[q])'
    BY <1>1, <2>1 DEF ReadsLastOf, Seen, Gone, RowsOf, OwnSubscriptions, OwnPaymentMethods,
       OwnSubscription, OwnPaymentMethod
  <2> QED
    BY <2>2, <2>3, <2>4 DEF ReadsLastOf
<1> QED
  BY <1>2, <1>3 DEF ReadsLast, ReadsLastOf, DeletedMeansGone, InProgress

LEMMA StepChanges ==
    ASSUME IInv, ReadsLast, NEW r \in Requests, Accept(r) \/ RequestStep(r) \/ Fail(r)
    PROVE  ChangesOwnRows(r)
<1>1. Accept(r) \/ Fail(r) => UNCHANGED tables
  BY DEF Accept, Fail, Receive, Reject, Finish
<1> QED
  BY <1>1, NothingChanges, RequestStepChanges

LEMMA NextReadsLast == IInv /\ IInv' /\ ReadsLast /\ [Next]_vars => ReadsLast'
<1> SUFFICES ASSUME IInv, IInv', ReadsLast, [Next]_vars PROVE ReadsLast'
  OBVIOUS
<1>1. CASE UNCHANGED vars
  <2>1. PlansAreValid'
    BY <1>1 DEF vars, tables, ReadsLast, PlansAreValid
  <2>2. ASSUME NEW q \in Requests PROVE ReadsLastOf(q)'
    <3>1. ReadsLastOf(q)
      BY ReadsLastParts
    <3>2. (Seen(q) => Seen(q)') /\ (Staged(q) => Staged(q)')
      BY <1>1 DEF vars, tables, requestVars, Seen, Staged, SubscriptionSeen, MethodSeen,
         OwnSubscription, OwnPaymentMethod, Targets, OwnSubscriptions, OwnPaymentMethods
    <3>3. /\ InProgress(q)' <=> InProgress(q)
          /\ WritesSubscription(q)' <=> WritesSubscription(q)
          /\ RowFollows(q) => RowFollows(q)'
      BY <1>1 DEF vars, tables, requestVars, InProgress, WritesSubscription, RowFollows,
         MethodSeen, OwnPaymentMethod, NewRow
    <3>4. Gone(call[q]) => Gone(call[q])'
      BY <1>1 DEF vars, tables, requestVars, Gone, RowsOf, OwnSubscriptions,
         OwnPaymentMethods, OwnSubscription, OwnPaymentMethod
    <3>5. pc'[q] = pc[q]
      BY <1>1 DEF vars, requestVars
    <3> QED
      BY <3>1, <3>2, <3>3, <3>4, <3>5 DEF ReadsLastOf
  <2> QED
    BY <2>1, <2>2 DEF ReadsLast, ReadsLastOf, DeletedMeansGone, InProgress
<1>2. ASSUME NEW u \in UserIds, Register(u) PROVE ReadsLast'
  BY <1>2, RegisterReadsLast
<1>3. ASSUME NEW r \in Requests, Accept(r) \/ RequestStep(r) \/ Fail(r) PROVE ReadsLast'
  <2>1. ChangesOwnRows(r) /\ OthersWait(r)
    BY <1>3, StepChanges, OneRequestSteps
  <2>2. PlansAreValid'
    BY <2>1 DEF ReadsLast, PlansAreValid, ChangesOwnRows
  <2>3. ReadsLastOf(r)'
    <3>1. Respond(r) \/ Fail(r) => ReadsLastOf(r)'
      BY FinishReadsLast DEF Respond, Fail
    <3> QED
      BY <1>3, <2>1, <3>1, AcceptReadsLast, SubscriptionReadsLast, PaymentMethodReadsLast,
         UserReadsLast, CommitReadsLast DEF RequestStep
  <2>4. \A q \in Requests \ {r} : ReadsLastOf(q)'
    BY <2>1, OthersReadsLast, ReadsLastParts
  <2> QED
    BY <2>2, <2>3, <2>4 DEF ReadsLast, ReadsLastOf, DeletedMeansGone, InProgress
<1> QED
  BY <1>1, <1>2, <1>3 DEF Next

\* What a request has read stays good until it ends: the rows it found are its
\* user's or gone for ever, the row it is about to write is legal and says what
\* the call says, and its transaction holds what the call names.
THEOREM ReadsStayGood == Spec => []ReadsLast
  BY InitReadsLast, NextReadsLast, Invariance, PTL DEF Spec

\* When a DELETE is answered with 2xx the rows it names are gone, and stay so.
THEOREM DeletedRowsAreGone == Spec => []DeletedMeansGone
<1>1. ReadsLast => DeletedMeansGone
  BY DEF ReadsLast
<1> QED
  BY <1>1, ReadsStayGood, PTL

\* A request changes rows of its own user only, whatever ids it names.
THEOREM OwnRowsOnly == Spec => OnlyOwnRowsChange
<1>1. IInv /\ ReadsLast /\ [Next]_vars =>
        \A r \in Requests : pc'[r] # pc[r] =>
            /\ \A p \in PaymentMethodIds : paymentMethods'[p] # paymentMethods[p] =>
                {RowOwner(paymentMethods, p), RowOwner(paymentMethods', p)}
                    \subseteq {call[r].user, NULL}
            /\ \A s \in SubscriptionIds : subscriptions'[s] # subscriptions[s] =>
                {RowOwner(subscriptions, s), RowOwner(subscriptions', s)}
                    \subseteq {call[r].user, NULL}
  <2> SUFFICES ASSUME IInv, ReadsLast, [Next]_vars, NEW r \in Requests, pc'[r] # pc[r]
               PROVE  ChangesOwnRows(r)
    BY DEF ChangesOwnRows
  <2>1. PICK q \in Requests : Accept(q) \/ RequestStep(q) \/ Fail(q)
    BY DEF Next, Register, vars, requestVars
  <2> QED
    BY <2>1, OneRequestSteps, StepChanges DEF OthersWait
<1> QED
  BY <1>1, Invariance, ReadsStayGood, PTL DEF Spec, OnlyOwnRowsChange

-----------------------------------------------------------------------------
(***************************************************************************)
(* The words of SubsqAPI mean in its instance what they mean here.           *)
(***************************************************************************)

Phases == [r \in Requests |-> Phase(r)]

LEMMA SameWords ==
    /\ API!tables = tables
    /\ API!vars = <<tables, call, answer, Phases>>
    /\ API!Calls = Calls
    /\ \A c : API!WellFormed(c) <=> WellFormed(c)
    /\ \A c : API!NewRow(c) = NewRow(c)
    /\ \A c : API!Targets(c) = Targets(c)
    /\ \A c : API!SomeMissing(c) <=> SomeMissing(c)
    /\ \A p, u : API!OwnPaymentMethod(p, u) <=> OwnPaymentMethod(p, u)
    /\ \A s, u : API!OwnSubscription(s, u) <=> OwnSubscription(s, u)
    /\ \A ids : API!Used(ids) <=> Used(ids)
    /\ API!SubscriptionRow = SubscriptionRow
    /\ API!KeepPlan = KeepPlan /\ API!KeepPaymentMethod = KeepPaymentMethod
<1>1. \A p, u : API!OwnPaymentMethod(p, u) <=> OwnPaymentMethod(p, u)
  BY DEF API!OwnPaymentMethod, OwnPaymentMethod
<1>2. \A s, u : API!OwnSubscription(s, u) <=> OwnSubscription(s, u)
  BY DEF API!OwnSubscription, OwnSubscription
<1>3. \A c : API!Targets(c) = Targets(c)
  BY DEF API!Targets, Targets, API!OwnSubscriptions, API!OwnPaymentMethods, OwnSubscriptions,
     OwnPaymentMethods, API!OwnPaymentMethod, OwnPaymentMethod, API!OwnSubscription,
     OwnSubscription
<1>4. \A c : API!SomeMissing(c) <=> SomeMissing(c)
  BY <1>3 DEF API!SomeMissing, SomeMissing
<1>5. \A ids : API!Used(ids) <=> Used(ids)
  BY DEF API!Used, Used, API!Usage, Usage
<1>6. API!Calls = Calls
  BY DEF API!Calls, Calls, API!CreateSubscriptionCalls, CreateSubscriptionCalls,
     API!UpdateSubscriptionCalls, UpdateSubscriptionCalls, API!DeleteSubscriptionCalls,
     DeleteSubscriptionCalls, API!DeleteSubscriptionsCalls, DeleteSubscriptionsCalls,
     API!CreatePaymentMethodCalls, CreatePaymentMethodCalls, API!UpdatePaymentMethodCalls,
     UpdatePaymentMethodCalls, API!DeletePaymentMethodsCalls, DeletePaymentMethodsCalls,
     API!DeleteCurrentUserCalls, DeleteCurrentUserCalls, API!KeepPlan, KeepPlan,
     API!KeepPaymentMethod, KeepPaymentMethod
<1>7. \A c : API!WellFormed(c) <=> WellFormed(c)
  BY DEF API!WellFormed, WellFormed
<1>8. API!tables = tables /\ API!vars = <<tables, call, answer, Phases>>
  BY DEF API!tables, tables, API!vars, Phases
<1> QED
  BY <1>1, <1>2, <1>3, <1>4, <1>5, <1>6, <1>7, <1>8 DEF API!NewRow, NewRow,
     API!SubscriptionRow, SubscriptionRow, API!KeepPlan, KeepPlan, API!KeepPaymentMethod,
     KeepPaymentMethod

PhaseAt(step) ==
    CASE step \in {"find", "verify", "write", "count", "delete", "commit"} -> "pending"
      [] step \in {"recount", "respond"} -> "applied"
      [] step = "idle" -> "idle"

LEMMA PhaseMoves ==
    ASSUME IInv, NEW r \in Requests, NEW step, pc' = [pc EXCEPT ![r] = step]
    PROVE  Phases' = [Phases EXCEPT ![r] = PhaseAt(step)]
<1>1. \A q \in Requests : Phases[q] = PhaseAt(pc[q]) /\ Phases'[q] = PhaseAt(pc'[q])
  BY DEF Phases, Phase, PhaseAt
<1>2. \A q \in Requests : pc'[q] = IF q = r THEN step ELSE pc[q]
  BY DEF IInv, TypeOK, RequestsTypeOK
<1>3. Phases = [q \in Requests |-> Phases[q]] /\ Phases' = [q \in Requests |-> Phases'[q]]
  BY DEF Phases
<1> QED
  BY <1>1, <1>2, <1>3

\* A step between two statements of one phase is none of the API's business.
LEMMA Stutter ==
    ASSUME IInv, NEW r \in Requests, NEW step, pc' = [pc EXCEPT ![r] = step],
           PhaseAt(step) = Phases[r], UNCHANGED <<tables, call, answer>>
    PROVE  UNCHANGED API!vars
<1>1. Phases' = Phases
  BY PhaseMoves DEF Phases
<1> QED
  BY <1>1 DEF API!vars, API!tables, tables, Phases

LEMMA AnswerGiven ==
    ASSUME IInv, NEW r \in Requests, NEW status, Finish(r, status)
    PROVE  API!Give(r, status)
<1>1. Phases' = [Phases EXCEPT ![r] = "idle"]
  BY PhaseMoves DEF Finish, PhaseAt
<1>2. UNCHANGED API!tables
  BY DEF Finish, tables, API!tables
<1> QED
  BY <1>1, <1>2 DEF API!Give, Finish, Phases

\* The statement at which a call takes effect.
LEMMA EffectApplied ==
    ASSUME IInv, NEW r \in Requests, NEW step \in {"respond", "recount"},
           pc' = [pc EXCEPT ![r] = step], Phases[r] = "pending",
           UNCHANGED <<call, answer>>, API!Effect(call[r])
    PROVE  API!Apply(r)
<1>1. Phases' = [Phases EXCEPT ![r] = "applied"]
  BY PhaseMoves DEF PhaseAt
<1> QED
  BY <1>1 DEF API!Apply, Phases

-----------------------------------------------------------------------------
(***************************************************************************)
(* Every step is one that the API promises, or a stutter.                    *)
(***************************************************************************)

LEMMA PhaseNow ==
    ASSUME NEW r \in Requests
    PROVE  Phases[r] = PhaseAt(pc[r])
  BY DEF Phases, Phase, PhaseAt

\* An error may end a call at any moment.
LEMMA ErrorPromised ==
    ASSUME IInv, NEW r \in Requests, InProgress(r), Finish(r, "error")
    PROVE  API!Next
<1>1. Phases[r] \in {"pending", "applied"}
  BY PhaseNow DEF PhaseAt, InProgress, IInv, TypeOK, RequestsTypeOK, Steps, Statements
<1>2. API!Error(r)
  BY <1>1, AnswerGiven DEF API!Error, Phases
<1> QED
  BY <1>2 DEF API!Next

LEMMA NotFoundPromised ==
    ASSUME IInv, NEW r \in Requests, Phases[r] = "pending", API!Missing(call[r]),
           Finish(r, "notfound")
    PROVE  API!Next
<1>1. API!NotFound(r)
  BY AnswerGiven DEF API!NotFound, Phases
<1> QED
  BY <1>1 DEF API!Next

LEMMA InvalidPromised ==
    ASSUME IInv, NEW r \in Requests, Phases[r] = "pending", API!Unacceptable(call[r]),
           Finish(r, "invalid")
    PROVE  API!Next
<1>1. API!Invalid(r)
  BY AnswerGiven DEF API!Invalid, Phases
<1> QED
  BY <1>1 DEF API!Next

LEMMA InUsePromised ==
    ASSUME IInv, NEW r \in Requests, Phases[r] = "pending",
           call[r].op = "DeletePaymentMethods", Used(call[r].ids), Finish(r, "inuse")
    PROVE  API!Next
<1>1. API!InUse(r)
  BY AnswerGiven, SameWords DEF API!InUse, Phases
<1> QED
  BY <1>1 DEF API!Next

LEMMA EffectPromised ==
    ASSUME IInv, NEW r \in Requests, NEW step \in {"respond", "recount"},
           pc' = [pc EXCEPT ![r] = step], Phases[r] = "pending",
           UNCHANGED <<call, answer>>, API!Effect(call[r])
    PROVE  API!Next
  BY EffectApplied DEF API!Next

LEMMA ReadPromised ==
    ASSUME IInv, NEW r \in Requests, NEW step, NEW rw, Proceed(r, step, rw),
           UNCHANGED tables, PhaseAt(step) = Phases[r]
    PROVE  UNCHANGED API!vars
  BY Stutter DEF Proceed

\* The call is accepted, or refused at once.
LEMMA AcceptPromised ==
    ASSUME IInv, NEW r \in Requests, Accept(r)
    PROVE  API!Next
<1>1. PICK c \in Calls : Receive(r, c) \/ Reject(r, c)
  BY DEF Accept
<1>2. CASE Reject(r, c)
  <2>1. Phases[r] = "idle" /\ API!Give(r, "invalid")
    BY <1>2, AnswerGiven, PhaseNow DEF Reject, InProgress, PhaseAt
  <2>2. API!Reject(r)
    BY <2>1 DEF API!Reject, Phases
  <2> QED
    BY <2>2 DEF API!Next
<1>3. CASE Receive(r, c)
  <2>1. PhaseAt(FirstStep(c)) = "pending" /\ Phases[r] = "idle"
    BY <1>3, PhaseNow DEF PhaseAt, FirstStep, Receive, InProgress
  <2>2. Phases' = [Phases EXCEPT ![r] = "pending"]
    BY <1>3, <2>1, PhaseMoves DEF Receive
  <2>3. API!Submit(r)
    BY <1>3, <2>1, <2>2, SameWords DEF Receive, API!Submit, Phases, tables, API!tables
  <2> QED
    BY <2>3, SameWords DEF API!Next
<1> QED
  BY <1>1, <1>2, <1>3

\* Steps of the subscription use cases.
LEMMA SubscriptionPromised ==
    ASSUME IInv, ReadsLast, NEW r \in Requests, SubscriptionStep(r)
    PROVE  API!Next \/ UNCHANGED API!vars
<1> DEFINE c == call[r]
<1>1. /\ pc[r] \in {"find", "verify", "write", "delete"}
      /\ InProgress(r)
      /\ Phases[r] = "pending"
  BY PhaseNow DEF SubscriptionStep, InProgress, FindSubscription, VerifyPaymentMethod,
     CreateSubscription, UpdateSubscription, FindDoomedSubscription, DeleteSubscription,
     FindSubscriptions, DeleteSubscriptions, At, PhaseAt
<1>2. Seen(r) /\ Staged(r) /\ (WritesSubscription(r) => RowFollows(r))
  BY <1>1 DEF ReadsLast
<1>3. CASE FindSubscription(r)
  <2> DEFINE updated == WithUpdate(subscriptions[c.id], c)
  <2>1. At(r, "UpdateSubscription", "find")
    BY <1>3 DEF FindSubscription
  <2>2. CASE ~OwnSubscription(c.id, c.user)
    <3>1. API!Missing(c) /\ Finish(r, "notfound")
      BY <1>3, <2>1, <2>2, SameWords DEF FindSubscription, API!Missing, At
    <3> QED
      BY <1>1, <3>1, NotFoundPromised
  <2>3. CASE OwnSubscription(c.id, c.user) /\ updated.plan \notin ValidPlans
    <3>1. Finish(r, "invalid")
      BY <1>3, <2>3 DEF FindSubscription
    <3>2. subscriptions[c.id].plan \in ValidPlans
      BY <1>1, <2>1, <2>3, CallIds DEF At, OwnSubscription, ReadsLast, PlansAreValid
    <3>3. c.plan # KeepPlan /\ c.plan \notin ValidPlans
      BY <2>3, <3>2 DEF WithUpdate
    <3>4. API!Unacceptable(c)
      BY <2>1, <3>3, SameWords DEF API!Unacceptable, At
    <3> QED
      BY <1>1, <3>1, <3>4, InvalidPromised
  <2>4. CASE OwnSubscription(c.id, c.user) /\ updated.plan \in ValidPlans
    <3>1. PICK step \in {"write", "verify"} : Proceed(r, step, updated) /\ UNCHANGED tables
      BY <1>3, <2>4 DEF FindSubscription
    <3> QED
      BY <1>1, <3>1, ReadPromised DEF PhaseAt
  <2> QED
    BY <2>2, <2>3, <2>4
<1>4. CASE VerifyPaymentMethod(r)
  <2> DEFINE p == row[r].paymentMethod
  <2>1. CASE OwnPaymentMethod(p, c.user)
    <3>1. Proceed(r, "write", row[r]) /\ UNCHANGED tables
      BY <1>4, <2>1 DEF VerifyPaymentMethod
    <3> QED
      BY <1>1, <3>1, ReadPromised DEF PhaseAt
  <2>2. CASE ~OwnPaymentMethod(p, c.user)
    <3>1. pc[r] = "verify" /\ Finish(r, "invalid")
      BY <1>4, <2>2 DEF VerifyPaymentMethod
    <3>2. c.op \in {"CreateSubscription", "UpdateSubscription"}
      BY <1>2, <3>1 DEF Staged
    <3>3. WritesSubscription(r) /\ RowFollows(r)
      BY <1>2, <3>1, <3>2 DEF WritesSubscription
    <3>4. p # NULL /\ p \in PaymentMethodIds
      BY <3>1, <3>3 DEF IInv, VerifiedRows, SubscriptionRow
    <3>5. API!Unacceptable(c)
      <4>1. CASE c.op = "CreateSubscription"
        <5>1. c.paymentMethod = p
          BY <3>3, <4>1 DEF RowFollows, NewRow
        <5> QED
          BY <2>2, <3>4, <4>1, <5>1, SameWords DEF API!Unacceptable, API!Referable
      <4>2. CASE c.op = "UpdateSubscription" /\ c.paymentMethod # KeepPaymentMethod
        <5>1. c.paymentMethod = p
          BY <3>3, <4>2 DEF RowFollows
        <5> QED
          BY <2>2, <4>2, <5>1, SameWords DEF API!Unacceptable
      <4>3. CASE c.op = "UpdateSubscription" /\ c.paymentMethod = KeepPaymentMethod
        <5>1. p \in PaymentMethodIds \ fresh /\ paymentMethods[p] = NULL
          BY <2>2, <3>3, <3>4, <4>3 DEF RowFollows, MethodSeen
        <5> QED
          BY <4>3, <5>1, SameWords DEF API!Unacceptable
      <4> QED
        BY <3>2, <4>1, <4>2, <4>3
    <3> QED
      BY <1>1, <3>1, <3>5, InvalidPromised
  <2> QED
    BY <2>1, <2>2
<1>5. CASE CreateSubscription(r)
  <2>1. CASE ~ReferencesExist(row[r])
    BY <1>1, <1>5, <2>1, ErrorPromised DEF CreateSubscription
  <2>2. CASE ReferencesExist(row[r])
    <3>1. /\ At(r, "CreateSubscription", "write")
          /\ InsertSubscriptionRow(row[r])
          /\ GoTo(r, "respond")
      BY <1>5, <2>2 DEF CreateSubscription
    <3>2. row[r] = NewRow(c) /\ row[r] \in SubscriptionRow /\ row[r].user = c.user
      BY <3>1, RowToWrite DEF At, WritesSubscription, RowFollows
    <3>3. c.user \in users /\ API!Referable(c.paymentMethod, c.user)
      <4>1. row[r].paymentMethod = c.paymentMethod
        BY <3>2 DEF NewRow
      <4> QED
        BY <2>2, <3>1, <3>2, <4>1, SameWords
           DEF ReferencesExist, API!Referable, At, IInv, VerifiedRows, WritesSubscription
    <3>4. API!InsertSubscriptionRow(API!NewRow(c))
      BY <3>1, <3>2, SameWords DEF InsertSubscriptionRow, API!InsertSubscriptionRow
    <3>5. API!Effect(c)
      BY <3>1, <3>3, <3>4 DEF API!Effect, At
    <3> QED
      BY <1>1, <3>1, <3>5, EffectPromised DEF GoTo, Proceed
  <2> QED
    BY <2>1, <2>2
<1>6. CASE UpdateSubscription(r)
  <2> DEFINE old == subscriptions[c.id]
             new == row[r]
  <2>1. CASE Finish(r, "error")
    BY <1>1, <2>1, ErrorPromised
  <2>2. CASE ~Finish(r, "error")
    <3>1. /\ At(r, "UpdateSubscription", "write")
          /\ OwnSubscription(c.id, c.user)
          /\ new.paymentMethod # old.paymentMethod => ReferencesExist(new)
          /\ SetSubscriptionRow(c.id, new)
          /\ GoTo(r, "respond")
      BY <1>6, <2>2 DEF UpdateSubscription
    <3>2. c.id \in SubscriptionIds /\ old \in SubscriptionRow /\ old.user = c.user
      BY <1>1, <3>1, CallIds DEF At, OwnSubscription, IInv, TypeOK, TablesTypeOK
    <3>3. new \in SubscriptionRow /\ new.user = old.user /\ new.plan \in ValidPlans
      BY <3>1, <3>2, RowToWrite DEF At, WritesSubscription
    <3>4. /\ c.plan # KeepPlan => new.plan = c.plan
          /\ c.paymentMethod # KeepPaymentMethod => new.paymentMethod = c.paymentMethod
      BY <3>1, RowToWrite DEF At, WritesSubscription, RowFollows
    <3>5. new.paymentMethod # NULL => OwnPaymentMethod(new.paymentMethod, new.user)
      BY <3>1, <3>2, <3>3
         DEF At, IInv, VerifiedRows, WritesSubscription, ReferencesExist,
             PaymentMethodIntegrity, OwnPaymentMethod, OwnSubscription
    <3>6. API!Patched(old, new, c)
      BY <3>3, <3>4, <3>5, SameWords DEF API!Patched, API!Referable
    <3>7. API!SetSubscriptionRow(c.id, new)
      BY <3>1 DEF SetSubscriptionRow, API!SetSubscriptionRow
    <3>8. API!Effect(c)
      BY <3>1, <3>3, <3>6, <3>7, SameWords DEF API!Effect, At
    <3> QED
      BY <1>1, <3>1, <3>8, EffectPromised DEF GoTo, Proceed
  <2> QED
    BY <2>1, <2>2
<1>7. CASE FindDoomedSubscription(r)
  <2>1. CASE OwnSubscription(c.id, c.user)
    BY <1>1, <1>7, <2>1, ReadPromised DEF FindDoomedSubscription, GoTo, PhaseAt
  <2>2. CASE ~OwnSubscription(c.id, c.user)
    <3>1. API!Missing(c) /\ Finish(r, "notfound")
      BY <1>7, <2>2, SameWords DEF FindDoomedSubscription, API!Missing, At
    <3> QED
      BY <1>1, <3>1, NotFoundPromised
  <2> QED
    BY <2>1, <2>2
<1>8. CASE DeleteSubscription(r)
  <2>1. /\ c.op = "DeleteSubscription"
        /\ RemoveRows(Targets(c))
        /\ GoTo(r, "respond")
    BY <1>8 DEF DeleteSubscription, At
  <2>2. API!RemoveRows(API!Targets(c))
    BY <2>1, SameWords DEF RemoveRows, API!RemoveRows, Without, API!Without
  <2>3. API!Effect(c)
    BY <2>1, <2>2 DEF API!Effect
  <2> QED
    BY <1>1, <2>1, <2>3, EffectPromised DEF GoTo, Proceed
<1>9. CASE FindSubscriptions(r)
  <2>1. CASE ~SomeMissing(c)
    BY <1>1, <1>9, <2>1, ReadPromised DEF FindSubscriptions, GoTo, PhaseAt
  <2>2. CASE SomeMissing(c)
    <3>1. API!Missing(c) /\ Finish(r, "notfound")
      BY <1>9, <2>2, SameWords DEF FindSubscriptions, API!Missing, At
    <3> QED
      BY <1>1, <3>1, NotFoundPromised
  <2> QED
    BY <2>1, <2>2
<1>10. CASE DeleteSubscriptions(r)
  BY <1>1, <1>10, Stutter DEF DeleteSubscriptions, PhaseAt
<1> QED
  BY <1>3, <1>4, <1>5, <1>6, <1>7, <1>8, <1>9, <1>10 DEF SubscriptionStep

\* Steps of the payment method use cases.
LEMMA PaymentMethodPromised ==
    ASSUME IInv, ReadsLast, NEW r \in Requests, PaymentMethodStep(r)
    PROVE  API!Next \/ UNCHANGED API!vars
<1> DEFINE c == call[r]
<1>1. InProgress(r) /\ (pc[r] \in {"find", "count", "write", "delete"} => Phases[r] = "pending")
  BY PhaseNow DEF PaymentMethodStep, InProgress, CreatePaymentMethod, FindPaymentMethod,
     RenamePaymentMethod, RecountUsage, FindPaymentMethods, CountUsage, DeletePaymentMethods,
     At, PhaseAt
<1>2. CASE CreatePaymentMethod(r)
  <2>1. CASE c.user \notin users
    BY <1>1, <1>2, <2>1, ErrorPromised DEF CreatePaymentMethod
  <2>2. CASE c.user \in users
    <3>1. /\ At(r, "CreatePaymentMethod", "write")
          /\ InsertPaymentMethodRow([user |-> c.user, name |-> c.name])
          /\ GoTo(r, "respond")
      BY <1>2, <2>2 DEF CreatePaymentMethod
    <3>2. API!InsertPaymentMethodRow([user |-> c.user, name |-> c.name])
      BY <3>1 DEF InsertPaymentMethodRow, API!InsertPaymentMethodRow
    <3>3. API!Effect(c)
      BY <2>2, <3>1, <3>2 DEF API!Effect, At
    <3> QED
      BY <1>1, <3>1, <3>3, EffectPromised DEF GoTo, Proceed, At
  <2> QED
    BY <2>1, <2>2
<1>3. CASE FindPaymentMethod(r)
  <2>1. pc[r] = "find" /\ c.op = "UpdatePaymentMethod"
    BY <1>3 DEF FindPaymentMethod, At
  <2>2. CASE OwnPaymentMethod(c.id, c.user)
    BY <1>1, <1>3, <2>1, <2>2, ReadPromised DEF FindPaymentMethod, GoTo, PhaseAt
  <2>3. CASE ~OwnPaymentMethod(c.id, c.user)
    <3>1. API!Missing(c) /\ Finish(r, "notfound")
      BY <1>3, <2>1, <2>3, SameWords DEF FindPaymentMethod, API!Missing
    <3> QED
      BY <1>1, <2>1, <3>1, NotFoundPromised
  <2> QED
    BY <2>2, <2>3
<1>4. CASE RenamePaymentMethod(r)
  <2>1. CASE ~OwnPaymentMethod(c.id, c.user)
    BY <1>1, <1>4, <2>1, ErrorPromised DEF RenamePaymentMethod
  <2>2. CASE OwnPaymentMethod(c.id, c.user)
    <3>1. /\ At(r, "UpdatePaymentMethod", "write")
          /\ SetPaymentMethodName(c.id, c.name)
          /\ GoTo(r, "recount")
      BY <1>4, <2>2 DEF RenamePaymentMethod
    <3>2. API!SetPaymentMethodName(c.id, c.name)
      BY <3>1 DEF SetPaymentMethodName, API!SetPaymentMethodName
    <3>3. API!Effect(c)
      BY <2>2, <3>1, <3>2, SameWords DEF API!Effect, At
    <3> QED
      BY <1>1, <3>1, <3>3, EffectPromised DEF GoTo, Proceed, At
  <2> QED
    BY <2>1, <2>2
<1>5. CASE RecountUsage(r)
  <2>1. Phases[r] = "applied"
    BY <1>5, PhaseNow DEF RecountUsage, At, PhaseAt
  <2> QED
    BY <1>5, <2>1, ReadPromised DEF RecountUsage, GoTo, PhaseAt
<1>6. CASE FindPaymentMethods(r)
  <2>1. pc[r] = "find" /\ c.op = "DeletePaymentMethods"
    BY <1>6 DEF FindPaymentMethods, At
  <2>2. CASE ~SomeMissing(c)
    BY <1>1, <1>6, <2>1, <2>2, ReadPromised DEF FindPaymentMethods, GoTo, PhaseAt
  <2>3. CASE SomeMissing(c)
    <3>1. API!Missing(c) /\ Finish(r, "notfound")
      BY <1>6, <2>1, <2>3, SameWords DEF FindPaymentMethods, API!Missing
    <3> QED
      BY <1>1, <2>1, <3>1, NotFoundPromised
  <2> QED
    BY <2>2, <2>3
<1>7. CASE CountUsage(r)
  <2>1. pc[r] = "count" /\ c.op = "DeletePaymentMethods"
    BY <1>7 DEF CountUsage, At
  <2>2. CASE ~Used(c.ids)
    BY <1>1, <1>7, <2>1, <2>2, ReadPromised DEF CountUsage, GoTo, PhaseAt
  <2>3. CASE Used(c.ids)
    BY <1>1, <1>7, <2>1, <2>3, InUsePromised DEF CountUsage
  <2> QED
    BY <2>2, <2>3
<1>8. CASE DeletePaymentMethods(r)
  <2> DEFINE doomed == Targets(c)
  <2>1. pc[r] = "delete" /\ c.op = "DeletePaymentMethods"
    BY <1>8 DEF DeletePaymentMethods, At
  <2>2. CASE ~Used(doomed)
    BY <1>1, <1>8, <2>1, <2>2, Stutter DEF DeletePaymentMethods, PhaseAt
  <2>3. CASE Used(doomed)
    <3>1. Finish(r, "inuse")
      BY <1>8, <2>3 DEF DeletePaymentMethods
    <3>2. doomed \subseteq c.ids
      BY <2>1 DEF Targets, OwnPaymentMethods
    <3>3. Used(c.ids)
      BY <2>3, <3>2 DEF Used, Usage
    <3> QED
      BY <1>1, <2>1, <3>1, <3>3, InUsePromised
  <2> QED
    BY <2>2, <2>3
<1> QED
  BY <1>2, <1>3, <1>4, <1>5, <1>6, <1>7, <1>8 DEF PaymentMethodStep

\* Steps of the user use cases.
LEMMA UserPromised ==
    ASSUME IInv, NEW r \in Requests, UserStep(r)
    PROVE  API!Next \/ UNCHANGED API!vars
<1> DEFINE c == call[r]
<1>1. /\ InProgress(r) /\ Phases[r] = "pending"
      /\ c.op = "DeleteCurrentUser"
  BY PhaseNow DEF UserStep, FindUser, DeleteCurrentUser, InProgress, At, PhaseAt
<1>2. CASE FindUser(r)
  <2>1. CASE c.user \in users
    BY <1>1, <1>2, <2>1, ReadPromised DEF FindUser, GoTo, PhaseAt
  <2>2. CASE c.user \notin users
    <3>1. API!Missing(c) /\ Finish(r, "notfound")
      BY <1>1, <1>2, <2>2 DEF FindUser, API!Missing
    <3> QED
      BY <1>1, <3>1, NotFoundPromised
  <2> QED
    BY <2>1, <2>2
<1>3. CASE DeleteCurrentUser(r)
  <2>1. CASE ~CascadeLeavesNoReference(c.user)
    BY <1>1, <1>3, <2>1, ErrorPromised DEF DeleteCurrentUser
  <2>2. CASE CascadeLeavesNoReference(c.user)
    <3>1. RemoveUser(c.user) /\ GoTo(r, "respond")
      BY <1>3, <2>2 DEF DeleteCurrentUser
    <3>2. API!RemoveUser(c.user)
      BY <3>1 DEF RemoveUser, API!RemoveUser, Without, API!Without, RowsOf, API!RowsOf,
         OwnPaymentMethods, API!OwnPaymentMethods, OwnSubscriptions, API!OwnSubscriptions,
         OwnPaymentMethod, API!OwnPaymentMethod, OwnSubscription, API!OwnSubscription
    <3>3. API!Effect(c)
      BY <1>1, <3>2 DEF API!Effect
    <3> QED
      BY <1>1, <3>1, <3>3, EffectPromised DEF GoTo, Proceed
  <2> QED
    BY <2>1, <2>2
<1> QED
  BY <1>2, <1>3 DEF UserStep

\* The commit of a transaction is the moment at which its call takes effect: what
\* it removes is what the call names now, not what it named at the DELETE.
LEMMA CommitPromised ==
    ASSUME IInv, ReadsLast, NEW r \in Requests, Commit(r)
    PROVE  API!Next
<1> DEFINE c == call[r]
<1>1. pc[r] = "commit" /\ Phases[r] = "pending" /\ InProgress(r)
  BY PhaseNow DEF Commit, PhaseAt, InProgress
<1>2. /\ c.op \in {"DeleteSubscriptions", "DeletePaymentMethods"}
      /\ locks[r] = Targets(c)
  BY <1>1 DEF ReadsLast, Staged
<1>3. ~Used(locks[r])
  BY DEF IInv, LocksProtect, Used, Usage
<1>4. API!RemoveRows(API!Targets(c))
  BY <1>2, SameWords DEF Commit, RemoveRows, API!RemoveRows, Without, API!Without
<1>5. API!Effect(c)
  BY <1>2, <1>3, <1>4, SameWords DEF API!Effect
<1> QED
  BY <1>1, <1>5, EffectPromised DEF Commit

\* The initial states of the backend are the API's.
LEMMA InitPromised == Init => API!Init
  BY DEF Init, InitTables, InitRequests, API!Init, API!InitTables, API!RowIds, RowIds, Phase

LEMMA NextPromised == IInv /\ ReadsLast /\ [Next]_vars => [API!Next]_API!vars
<1> SUFFICES ASSUME IInv, ReadsLast, [Next]_vars
             PROVE  API!Next \/ UNCHANGED API!vars
  OBVIOUS
<1>1. CASE UNCHANGED vars
  BY <1>1 DEF vars, tables, requestVars, API!vars, API!tables, Phase
<1>2. ASSUME NEW u \in UserIds, Register(u) PROVE API!Next
  <2>1. Phases' = Phases
    BY <1>2 DEF Register, requestVars, Phases, Phase
  <2>2. API!Register(u)
    BY <1>2, <2>1 DEF Register, requestVars, API!Register, InsertUser, API!InsertUser, Phases
  <2> QED
    BY <2>2 DEF API!Next
<1>3. ASSUME NEW r \in Requests, Respond(r) PROVE API!Next
  <2>1. API!Give(r, "ok")
    BY <1>3, AnswerGiven DEF Respond
  <2>2. Phases[r] = "applied"
    BY <1>3, PhaseNow DEF Respond, PhaseAt
  <2>3. API!Succeed(r)
    BY <2>1, <2>2 DEF API!Succeed, Phases
  <2> QED
    BY <2>3 DEF API!Next
<1>4. ASSUME NEW r \in Requests, Fail(r) PROVE API!Next
  BY <1>4, ErrorPromised DEF Fail
<1> QED
  BY <1>1, <1>2, <1>3, <1>4, AcceptPromised, SubscriptionPromised, PaymentMethodPromised,
     UserPromised, CommitPromised DEF Next, RequestStep

\* Every behaviour of the backend is one that the API promises: each call takes
\* effect at once or not at all, and every refusal is right when it is decided.
THEOREM PromisesAreKept == Spec => KeepsPromises
  BY InitPromised, NextPromised, Invariance, ReadsStayGood, PTL
     DEF Spec, KeepsPromises, API!Spec
=============================================================================
