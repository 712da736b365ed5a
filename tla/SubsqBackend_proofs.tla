------------------------ MODULE SubsqBackend_proofs ------------------------
(***************************************************************************)
(* Proofs about SubsqBackend, for any sets of ids and any number of         *)
(* requests: the inductive invariant IInv, and with it the integrity of the  *)
(* references and the absence of orphans.                                    *)
(***************************************************************************)
EXTENDS SubsqBackend, TLAPS

\* A call has the fields that its operation says.
LEMMA CallFields ==
    ASSUME NEW c \in Calls
    PROVE  /\ c.user \in UserIds
           /\ c.op = "CreateSubscription" => c \in CreateSubscriptionCalls
           /\ c.op = "UpdateSubscription" => c \in UpdateSubscriptionCalls
           /\ c.op = "DeleteSubscription" => c \in DeleteSubscriptionCalls
           /\ c.op = "DeleteSubscriptions" => c \in DeleteSubscriptionsCalls
           /\ c.op = "CreatePaymentMethod" => c \in CreatePaymentMethodCalls
           /\ c.op = "UpdatePaymentMethod" => c \in UpdatePaymentMethodCalls
           /\ c.op = "DeletePaymentMethods" => c \in DeletePaymentMethodsCalls
  BY DEF Calls, CreateSubscriptionCalls, UpdateSubscriptionCalls,
         DeleteSubscriptionCalls, DeleteSubscriptionsCalls, CreatePaymentMethodCalls,
         UpdatePaymentMethodCalls, DeletePaymentMethodsCalls, DeleteCurrentUserCalls

\* The invariant holds of the empty database.
LEMMA InitIInv == Init => IInv
<1> SUFFICES ASSUME Init PROVE IInv
  OBVIOUS
<1> USE NullAssumption DEF Init, InitTables, InitRequests
<1>1. TypeOK
  BY DEF TypeOK, TablesTypeOK, RequestsTypeOK, Steps, Statements
<1>2. FreshIdsUnused /\ PaymentMethodIntegrity /\ NoOrphans
  BY DEF FreshIdsUnused, PaymentMethodIntegrity, NoOrphans
<1>3. LocksProtect /\ VerifiedRows
  BY DEF LocksProtect, VerifiedRows, WritesSubscription
<1> QED
  BY <1>1, <1>2, <1>3 DEF IInv

\* The answer ends a request and rolls its transaction back: it gives up locks
\* and touches no table.
LEMMA FinishIInv ==
    ASSUME IInv, NEW r \in Requests, NEW status \in Answers, Finish(r, status)
    PROVE  IInv'
<1> USE DEF IInv, Finish, tables
<1>1. TypeOK'
  BY DEF TypeOK, TablesTypeOK, RequestsTypeOK, Steps, Statements, Answers
<1>2. FreshIdsUnused' /\ PaymentMethodIntegrity' /\ NoOrphans'
  BY DEF FreshIdsUnused, PaymentMethodIntegrity, NoOrphans, OwnPaymentMethod
<1>3. LocksProtect'
  BY DEF LocksProtect, RowsOf, OwnPaymentMethods, OwnSubscriptions, OwnPaymentMethod,
         OwnSubscription, Used, Usage, LockedByOther, TypeOK, RequestsTypeOK
<1>4. VerifiedRows'
  BY DEF VerifiedRows, WritesSubscription, OwnPaymentMethod, TypeOK, RequestsTypeOK
<1> QED
  BY <1>1, <1>2, <1>3, <1>4

\* Reads: the request goes to its next statement, and knows about the row it
\* will write what VerifiedRows says.
LEMMA ProceedIInv ==
    ASSUME IInv, NEW r \in Requests,
           NEW step \in Steps \ {"idle", "commit"},
           NEW rw \in SubscriptionRow \cup {NULL},
           pc[r] \notin {"idle", "commit"},
           step \in {"verify", "write"}
             /\ call[r].op \in {"CreateSubscription", "UpdateSubscription"} =>
                /\ rw \in SubscriptionRow
                /\ rw.user = call[r].user
                /\ step = "verify" => rw.paymentMethod # NULL
                /\ step = "write" /\ rw.paymentMethod # NULL =>
                    /\ rw.paymentMethod \notin fresh
                    /\ \/ paymentMethods[rw.paymentMethod] = NULL
                       \/ OwnPaymentMethod(rw.paymentMethod, call[r].user),
           Proceed(r, step, rw), UNCHANGED tables
    PROVE  IInv'
<1> USE DEF IInv, Proceed, tables
<1>1. TypeOK'
  BY DEF TypeOK, TablesTypeOK, RequestsTypeOK
<1>2. FreshIdsUnused' /\ PaymentMethodIntegrity' /\ NoOrphans'
  BY DEF FreshIdsUnused, PaymentMethodIntegrity, NoOrphans, OwnPaymentMethod
<1>3. LocksProtect'
  BY DEF LocksProtect, RowsOf, OwnPaymentMethods, OwnSubscriptions, OwnPaymentMethod,
         OwnSubscription, Used, Usage, LockedByOther, TypeOK, RequestsTypeOK
<1>4. VerifiedRows'
  BY DEF VerifiedRows, WritesSubscription, OwnPaymentMethod, TypeOK, RequestsTypeOK
<1> QED
  BY <1>1, <1>2, <1>3, <1>4

\* The deleting statement of a transaction: the rows are the user's, unused and
\* nobody else has deleted them.
LEMMA StageIInv ==
    ASSUME IInv, NEW r \in Requests, NEW doomed \in SUBSET RowIds,
           pc[r] = "delete",
           doomed \subseteq RowsOf(call[r].user),
           ~Used(doomed),
           ~LockedByOther(r, doomed),
           locks' = [locks EXCEPT ![r] = doomed],
           pc' = [pc EXCEPT ![r] = "commit"],
           UNCHANGED <<tables, call, answer, row>>
    PROVE  IInv'
<1> USE DEF IInv, tables
<1>1. TypeOK'
  BY DEF TypeOK, TablesTypeOK, RequestsTypeOK, Steps, Statements
<1>2. FreshIdsUnused' /\ PaymentMethodIntegrity' /\ NoOrphans'
  BY DEF FreshIdsUnused, PaymentMethodIntegrity, NoOrphans, OwnPaymentMethod
<1>3. LocksProtect'
  BY DEF LocksProtect, RowsOf, OwnPaymentMethods, OwnSubscriptions, OwnPaymentMethod,
         OwnSubscription, Used, Usage, LockedByOther, TypeOK, RequestsTypeOK
<1>4. VerifiedRows'
  BY DEF VerifiedRows, WritesSubscription, OwnPaymentMethod, TypeOK, RequestsTypeOK
<1> QED
  BY <1>1, <1>2, <1>3, <1>4

\* Rows go, by a DELETE that commits by itself or by the commit of a
\* transaction.  Payment methods among them are unused.
LEMMA RemoveRowsIInv ==
    ASSUME IInv, NEW r \in Requests, NEW doomed \in SUBSET RowIds,
           pc[r] \in {"delete", "commit"},
           ~Used(doomed),
           ~LockedByOther(r, doomed),
           RemoveRows(doomed),
           pc' = [pc EXCEPT ![r] = "respond"],
           row' = [row EXCEPT ![r] = NULL] \/ row' = row,
           locks' = [locks EXCEPT ![r] = {}],
           UNCHANGED <<call, answer>>
    PROVE  IInv'
<1> USE DEF IInv, RemoveRows, Without
<1>1. TypeOK'
  BY DEF TypeOK, TablesTypeOK, RequestsTypeOK, Steps, Statements
<1>2. FreshIdsUnused'
  BY DEF FreshIdsUnused, TypeOK, TablesTypeOK
<1>3. PaymentMethodIntegrity'
  BY DEF PaymentMethodIntegrity, OwnPaymentMethod, Used, Usage, TypeOK, TablesTypeOK,
         SubscriptionRow
<1>4. NoOrphans'
  BY DEF NoOrphans, TypeOK, TablesTypeOK
<1>5. LocksProtect'
  BY DEF LocksProtect, RowsOf, OwnPaymentMethods, OwnSubscriptions, OwnPaymentMethod,
         OwnSubscription, Used, Usage, LockedByOther, TypeOK, TablesTypeOK, RequestsTypeOK
<1>6. VerifiedRows'
  BY NullAssumption
     DEF VerifiedRows, WritesSubscription, OwnPaymentMethod, TypeOK, TablesTypeOK,
         RequestsTypeOK, SubscriptionRow
<1> QED
  BY <1>1, <1>2, <1>3, <1>4, <1>5, <1>6

-----------------------------------------------------------------------------
\* A new account has no rows yet.
LEMMA RegisterIInv ==
    ASSUME IInv, NEW u \in UserIds, Register(u)
    PROVE  IInv'
<1> USE DEF IInv, Register, InsertUser, requestVars
<1>1. TypeOK'
  BY DEF TypeOK, TablesTypeOK, RequestsTypeOK
<1>2. FreshIdsUnused' /\ PaymentMethodIntegrity' /\ NoOrphans'
  BY DEF FreshIdsUnused, PaymentMethodIntegrity, NoOrphans, OwnPaymentMethod, TypeOK,
         TablesTypeOK
<1>3. LocksProtect'
  BY DEF LocksProtect, RowsOf, OwnPaymentMethods, OwnSubscriptions, OwnPaymentMethod,
         OwnSubscription, Used, Usage, LockedByOther
<1>4. VerifiedRows'
  BY DEF VerifiedRows, WritesSubscription, OwnPaymentMethod
<1> QED
  BY <1>1, <1>2, <1>3, <1>4

\* A controller accepts a call: a create knows its row at once, and the payment
\* method that the row names has yet to be verified.
LEMMA ReceiveIInv ==
    ASSUME IInv, NEW r \in Requests, NEW c \in Calls, Receive(r, c)
    PROVE  IInv'
<1> USE DEF IInv, Receive, tables, InProgress
<1>1. c.op = "CreateSubscription" =>
        NewRow(c) \in SubscriptionRow /\ NewRow(c).user = c.user
              /\ NewRow(c).paymentMethod = c.paymentMethod
  BY CallFields DEF NewRow, SubscriptionRow, CreateSubscriptionCalls
<1>2. FirstStep(c) \in Steps \ {"idle", "commit"}
  BY DEF FirstStep, Steps, Statements
<1>3. locks[r] = {} /\ locks' = locks
  BY DEF TypeOK
<1>4. TypeOK'
  BY <1>1, <1>2, <1>3 DEF TypeOK, TablesTypeOK, RequestsTypeOK
<1>5. FreshIdsUnused' /\ PaymentMethodIntegrity' /\ NoOrphans'
  BY DEF FreshIdsUnused, PaymentMethodIntegrity, NoOrphans, OwnPaymentMethod
<1>6. LocksProtect'
  BY <1>3 DEF LocksProtect, RowsOf, OwnPaymentMethods, OwnSubscriptions, OwnPaymentMethod,
         OwnSubscription, Used, Usage, LockedByOther, TypeOK, RequestsTypeOK
<1>7. ASSUME NEW q \in Requests, WritesSubscription(q)',
             c.op = "CreateSubscription", q = r
      PROVE  /\ row'[q] = NewRow(c)
             /\ call'[q] = c
             /\ pc'[q] = "verify" <=> c.paymentMethod # NULL
             /\ pc'[q] = "write" <=> c.paymentMethod = NULL
  BY <1>7 DEF TypeOK, RequestsTypeOK, FirstStep
<1>8. ASSUME NEW q \in Requests, WritesSubscription(q)', q = r
      PROVE  c.op = "CreateSubscription"
  BY <1>8 DEF TypeOK, RequestsTypeOK, FirstStep, WritesSubscription
<1>9. VerifiedRows'
  BY <1>1, <1>7, <1>8 DEF VerifiedRows, WritesSubscription, OwnPaymentMethod, TypeOK,
     RequestsTypeOK
<1> QED
  BY <1>4, <1>5, <1>6, <1>9

\* A row of payment_methods comes, for a user who has an account.
LEMMA CreatePaymentMethodIInv ==
    ASSUME IInv, NEW r \in Requests, CreatePaymentMethod(r)
    PROVE  IInv'
<1>1. CASE call[r].user \notin users
  BY <1>1, FinishIInv DEF CreatePaymentMethod, Answers
<1>2. CASE call[r].user \in users
  <2> DEFINE new == [user |-> call[r].user, name |-> call[r].name]
  <2>1. PICK p \in PaymentMethodIds \cap fresh :
          /\ paymentMethods' = [paymentMethods EXCEPT ![p] = new]
          /\ fresh' = fresh \ {p}
          /\ UNCHANGED <<users, subscriptions>>
    BY <1>2 DEF CreatePaymentMethod, InsertPaymentMethodRow
  <2>2. /\ At(r, "CreatePaymentMethod", "write")
        /\ GoTo(r, "respond")
    BY <1>2 DEF CreatePaymentMethod
  <2>3. call[r] \in CreatePaymentMethodCalls
    BY <2>2, CallFields DEF IInv, TypeOK, RequestsTypeOK, At
  <2>4. new \in PaymentMethodRow
    BY <2>3 DEF PaymentMethodRow, CreatePaymentMethodCalls
  <2>5. paymentMethods[p] = NULL
    BY <2>1 DEF IInv, FreshIdsUnused
  <2> HIDE DEF new
  <2> USE <2>1, <2>2, <2>4, <2>5 DEF IInv, GoTo, Proceed, At
  <2>6. TypeOK'
    BY DEF TypeOK, TablesTypeOK, RequestsTypeOK, Steps
  <2>7. FreshIdsUnused'
    BY IdsAssumption DEF FreshIdsUnused, TypeOK, TablesTypeOK, RowIds
  <2>8. PaymentMethodIntegrity'
    BY DEF PaymentMethodIntegrity, OwnPaymentMethod, TypeOK, TablesTypeOK, SubscriptionRow
  <2>9. NoOrphans'
    BY <1>2 DEF NoOrphans, TypeOK, TablesTypeOK, new
  <2>10. LocksProtect'
    BY DEF LocksProtect, RowsOf, OwnPaymentMethods, OwnSubscriptions, OwnPaymentMethod,
           OwnSubscription, Used, Usage, LockedByOther, TypeOK, TablesTypeOK, RequestsTypeOK
  <2>11. VerifiedRows'
    BY DEF VerifiedRows, WritesSubscription, OwnPaymentMethod, TypeOK, TablesTypeOK,
           RequestsTypeOK, SubscriptionRow
  <2> QED
    BY <2>6, <2>7, <2>8, <2>9, <2>10, <2>11
<1> QED
  BY <1>1, <1>2

\* A payment method keeps its user when its name changes.
LEMMA RenamePaymentMethodIInv ==
    ASSUME IInv, NEW r \in Requests, RenamePaymentMethod(r)
    PROVE  IInv'
<1>1. CASE ~OwnPaymentMethod(call[r].id, call[r].user)
  BY <1>1, FinishIInv DEF RenamePaymentMethod, Answers
<1>2. CASE OwnPaymentMethod(call[r].id, call[r].user)
  <2> DEFINE p == call[r].id
             name == call[r].name
  <2>1. p \in PaymentMethodIds /\ name \in Names
    BY CallFields DEF RenamePaymentMethod, At, IInv, TypeOK, RequestsTypeOK,
       UpdatePaymentMethodCalls
  <2>2. /\ paymentMethods' = [paymentMethods EXCEPT ![p].name = name]
        /\ UNCHANGED <<users, subscriptions, fresh>>
        /\ GoTo(r, "recount")
        /\ pc[r] = "write"
    BY <1>2 DEF RenamePaymentMethod, SetPaymentMethodName, At
  <2>3. paymentMethods[p] \in PaymentMethodRow
    BY <1>2, <2>1 DEF OwnPaymentMethod, IInv, TypeOK, TablesTypeOK
  <2>4. /\ paymentMethods'[p] \in PaymentMethodRow
        /\ paymentMethods'[p].user = paymentMethods[p].user
        /\ \A q \in PaymentMethodIds \ {p} : paymentMethods'[q] = paymentMethods[q]
        /\ paymentMethods' \in [PaymentMethodIds -> PaymentMethodRow \cup {NULL}]
    BY <2>1, <2>2, <2>3 DEF IInv, TypeOK, TablesTypeOK, PaymentMethodRow
  <2>5. \A q \in PaymentMethodIds, v \in UserIds :
            OwnPaymentMethod(q, v)' <=> OwnPaymentMethod(q, v)
    BY <1>2, <2>1, <2>4, NullAssumption DEF OwnPaymentMethod
  <2>6. \A q \in PaymentMethodIds : /\ paymentMethods'[q] = NULL <=> paymentMethods[q] = NULL
                                    /\ paymentMethods[q] # NULL =>
                                        paymentMethods'[q].user = paymentMethods[q].user
    BY <2>1, <2>3, <2>4, NullAssumption
  <2> HIDE DEF p, name
  <2> USE DEF IInv, GoTo, Proceed
  <2>7. TypeOK'
    BY <2>2, <2>4 DEF TypeOK, TablesTypeOK, RequestsTypeOK, Steps, Statements
  <2>8. FreshIdsUnused' /\ PaymentMethodIntegrity' /\ NoOrphans'
    BY <2>2, <2>6 DEF FreshIdsUnused, PaymentMethodIntegrity, NoOrphans, OwnPaymentMethod,
       TypeOK, TablesTypeOK, SubscriptionRow
  <2>9. LocksProtect'
    BY <2>2, <2>6 DEF LocksProtect, RowsOf, OwnPaymentMethods, OwnSubscriptions,
       OwnPaymentMethod, OwnSubscription, Used, Usage, LockedByOther, TypeOK, RequestsTypeOK
  <2>10. VerifiedRows'
    BY <2>2, <2>6 DEF VerifiedRows, WritesSubscription, OwnPaymentMethod, TypeOK,
       RequestsTypeOK, SubscriptionRow
  <2> QED
    BY <2>7, <2>8, <2>9, <2>10
<1> QED
  BY <1>1, <1>2

-----------------------------------------------------------------------------
\* A row of subscriptions comes: its user has an account, and its payment method
\* is the user's by VerifiedRows and exists by the foreign key, which also waits
\* for the transactions that have deleted it.
LEMMA CreateSubscriptionIInv ==
    ASSUME IInv, NEW r \in Requests, CreateSubscription(r)
    PROVE  IInv'
<1>1. CASE ~ReferencesExist(row[r])
  BY <1>1, FinishIInv DEF CreateSubscription, Answers
<1>2. CASE ReferencesExist(row[r])
  <2>1. PICK s \in SubscriptionIds \cap fresh :
          /\ subscriptions' = [subscriptions EXCEPT ![s] = row[r]]
          /\ fresh' = fresh \ {s}
          /\ UNCHANGED <<users, paymentMethods>>
    BY <1>2 DEF CreateSubscription, InsertSubscriptionRow
  <2>2. /\ At(r, "CreateSubscription", "write")
        /\ ~LockedByOther(r, {row[r].paymentMethod})
        /\ GoTo(r, "respond")
    BY <1>2 DEF CreateSubscription
  <2>3. /\ row[r] \in SubscriptionRow
        /\ row[r].user \in users
        /\ row[r].paymentMethod # NULL => OwnPaymentMethod(row[r].paymentMethod, row[r].user)
    BY <1>2, <2>2 DEF IInv, VerifiedRows, WritesSubscription, At, ReferencesExist
  <2>4. subscriptions[s] = NULL
    BY <2>1 DEF IInv, FreshIdsUnused
  <2>5. \A q \in Requests : row[r].paymentMethod \notin locks[q]
    BY <2>2 DEF IInv, TypeOK, LockedByOther, At
  <2> USE DEF IInv, GoTo, Proceed
  <2>6. TypeOK'
    BY <2>1, <2>2, <2>3 DEF TypeOK, TablesTypeOK, RequestsTypeOK, Steps, At
  <2>7. FreshIdsUnused'
    BY <2>1, IdsAssumption DEF FreshIdsUnused, TypeOK, TablesTypeOK, RowIds
  <2>8. PaymentMethodIntegrity'
    BY <2>1, <2>3 DEF PaymentMethodIntegrity, OwnPaymentMethod, TypeOK, TablesTypeOK
  <2>9. NoOrphans'
    BY <2>1, <2>3 DEF NoOrphans, TypeOK, TablesTypeOK
  <2>10. LocksProtect'
    <3>1. ASSUME NEW q \in Requests, locks[q] # {} PROVE ~Used(locks[q])'
      BY <3>1, <2>1, <2>2, <2>5 DEF LocksProtect, Used, Usage, TypeOK, TablesTypeOK
    <3>2. \A q \in Requests : RowsOf(call[q].user) \subseteq RowsOf(call[q].user)'
      BY <2>1, <2>2, <2>4 DEF RowsOf, OwnPaymentMethods, OwnSubscriptions, OwnPaymentMethod,
         OwnSubscription, TypeOK, TablesTypeOK
    <3> QED
      BY <3>1, <3>2, <2>2 DEF LocksProtect, LockedByOther, TypeOK, RequestsTypeOK
  <2>11. VerifiedRows'
    BY <2>1, <2>2 DEF VerifiedRows, WritesSubscription, OwnPaymentMethod, TypeOK, TablesTypeOK,
       RequestsTypeOK, SubscriptionRow
  <2> QED
    BY <2>6, <2>7, <2>8, <2>9, <2>10, <2>11
<1> QED
  BY <1>1, <1>2

\* A row of subscriptions is overwritten.  The foreign key looks at the payment
\* method only when it changes; when it does not, the old row vouches for it.
LEMMA UpdateSubscriptionIInv ==
    ASSUME IInv, NEW r \in Requests, UpdateSubscription(r)
    PROVE  IInv'
<1> DEFINE s == call[r].id
           old == subscriptions[s]
           new == row[r]
<1>1. CASE \E status \in Answers : Finish(r, status)
  BY <1>1, FinishIInv
<1>2. CASE ~\E status \in Answers : Finish(r, status)
  <2>1. /\ At(r, "UpdateSubscription", "write")
        /\ ~LockedByOther(r, {s})
        /\ OwnSubscription(s, call[r].user)
        /\ new.paymentMethod # old.paymentMethod =>
              ReferencesExist(new) /\ ~LockedByOther(r, {new.paymentMethod})
        /\ SetSubscriptionRow(s, new)
        /\ GoTo(r, "respond")
    BY <1>2 DEF UpdateSubscription, Answers
  <2>2. s \in SubscriptionIds
    BY <2>1, CallFields DEF IInv, TypeOK, RequestsTypeOK, At, UpdateSubscriptionCalls
  <2>3. old # NULL /\ old \in SubscriptionRow /\ old.user = call[r].user
    BY <2>1, <2>2 DEF OwnSubscription, IInv, TypeOK, TablesTypeOK
  <2>4. new \in SubscriptionRow /\ new.user = old.user /\ new.user \in users
    BY <2>1, <2>2, <2>3 DEF IInv, VerifiedRows, WritesSubscription, At, NoOrphans
  <2>5. new.paymentMethod # NULL => OwnPaymentMethod(new.paymentMethod, new.user)
    BY <2>1, <2>2, <2>3, <2>4
       DEF IInv, VerifiedRows, WritesSubscription, At, ReferencesExist, PaymentMethodIntegrity,
           OwnPaymentMethod
  <2>6. \A q \in Requests : new.paymentMethod # old.paymentMethod =>
                                new.paymentMethod \notin locks[q]
    BY <2>1 DEF IInv, TypeOK, LockedByOther, At
  <2>7. subscriptions' = [subscriptions EXCEPT ![s] = new] /\ UNCHANGED <<users, paymentMethods, fresh>>
    BY <2>1 DEF SetSubscriptionRow
  <2>8. pc[r] = "write" /\ GoTo(r, "respond")
    BY <2>1 DEF At
  <2> HIDE DEF s, old, new
  <2> USE DEF IInv, GoTo, Proceed
  <2>9. TypeOK'
    BY <2>2, <2>4, <2>7, <2>8 DEF TypeOK, TablesTypeOK, RequestsTypeOK, Steps
  <2>10. FreshIdsUnused'
    BY <2>2, <2>3, <2>7 DEF FreshIdsUnused, TypeOK, TablesTypeOK, old
  <2>11. PaymentMethodIntegrity' /\ NoOrphans'
    BY <2>2, <2>4, <2>5, <2>7 DEF PaymentMethodIntegrity, NoOrphans, OwnPaymentMethod, TypeOK,
       TablesTypeOK
  <2>12. LocksProtect'
    <3>1. ASSUME NEW q \in Requests, locks[q] # {} PROVE ~Used(locks[q])'
      BY <3>1, <2>2, <2>3, <2>6, <2>7, <2>8 DEF LocksProtect, Used, Usage, TypeOK, TablesTypeOK, old
    <3>2. \A i \in SubscriptionIds, v \in UserIds : OwnSubscription(i, v)' <=> OwnSubscription(i, v)
      BY <2>2, <2>3, <2>4, <2>7, NullAssumption DEF OwnSubscription, TypeOK, TablesTypeOK, old
    <3>3. \A q \in Requests : RowsOf(call[q].user)' = RowsOf(call[q].user)
      BY <2>2, <2>3, <2>4, <2>7, <2>8, NullAssumption
         DEF RowsOf, OwnPaymentMethods, OwnSubscriptions, OwnPaymentMethod, OwnSubscription,
             TypeOK, TablesTypeOK, old
    <3> QED
      BY <3>1, <3>3, <2>8 DEF LocksProtect, LockedByOther, TypeOK, RequestsTypeOK
  <2>13. VerifiedRows'
    BY <2>7, <2>8 DEF VerifiedRows, WritesSubscription, OwnPaymentMethod, TypeOK, RequestsTypeOK
  <2> QED
    BY <2>9, <2>10, <2>11, <2>12, <2>13
<1> QED
  BY <1>1, <1>2

\* An account goes with all its rows.  Its payment methods are referred to by
\* its own subscriptions only, and no open transaction has deleted any.
LEMMA DeleteCurrentUserIInv ==
    ASSUME IInv, NEW r \in Requests, DeleteCurrentUser(r)
    PROVE  IInv'
<1>1. CASE ~CascadeLeavesNoReference(call[r].user)
  BY <1>1, FinishIInv DEF DeleteCurrentUser, Answers
<1>2. CASE CascadeLeavesNoReference(call[r].user)
  <2> USE <1>2 DEF IInv, DeleteCurrentUser, RemoveUser, Without, GoTo, Proceed, At
  <2>1. TypeOK'
    BY DEF TypeOK, TablesTypeOK, RequestsTypeOK, Steps
  <2>2. FreshIdsUnused'
    BY DEF FreshIdsUnused, TypeOK, TablesTypeOK
  <2>3. PaymentMethodIntegrity'
    BY IdsAssumption DEF PaymentMethodIntegrity, OwnPaymentMethod, RowsOf, OwnPaymentMethods,
       OwnSubscriptions, OwnSubscription, TypeOK, TablesTypeOK, SubscriptionRow, RowIds
  <2>4. NoOrphans'
    BY DEF NoOrphans, RowsOf, OwnPaymentMethods, OwnSubscriptions, OwnPaymentMethod,
       OwnSubscription, TypeOK, TablesTypeOK
  <2>5. LocksProtect'
    BY DEF LocksProtect, RowsOf, OwnPaymentMethods, OwnSubscriptions, OwnPaymentMethod,
       OwnSubscription, Used, Usage, LockedByOther, TypeOK, TablesTypeOK, RequestsTypeOK
  <2>6. VerifiedRows'
    BY DEF VerifiedRows, WritesSubscription, OwnPaymentMethod, TypeOK, TablesTypeOK,
       RequestsTypeOK, SubscriptionRow
  <2> QED
    BY <2>1, <2>2, <2>3, <2>4, <2>5, <2>6
<1> QED
  BY <1>1, <1>2

-----------------------------------------------------------------------------
\* The fields of the call of a request in progress.
LEMMA CallOf ==
    ASSUME IInv, NEW r \in Requests, pc[r] # "idle"
    PROVE  /\ call[r] \in Calls
           /\ call[r].user \in UserIds
  BY CallFields DEF IInv, TypeOK

\* Steps of the subscription use cases.
LEMMA SubscriptionStepIInv ==
    ASSUME IInv, NEW r \in Requests, SubscriptionStep(r)
    PROVE  IInv'
<1>1. CASE \E status \in Answers : Finish(r, status)
  BY <1>1, FinishIInv
<1>2. CASE ~\E status \in Answers : Finish(r, status)
  <2>1. CASE FindSubscription(r)
    <3> DEFINE old == subscriptions[call[r].id]
               updated == WithUpdate(old, call[r])
    <3>1. /\ At(r, "UpdateSubscription", "find")
          /\ OwnSubscription(call[r].id, call[r].user)
          /\ Proceed(r, IF updated.paymentMethod = NULL THEN "write" ELSE "verify", updated)
          /\ UNCHANGED tables
      BY <1>2, <2>1 DEF FindSubscription, Answers
    <3>2. call[r] \in UpdateSubscriptionCalls
      BY <3>1, CallFields DEF IInv, TypeOK, At
    <3>3. old \in SubscriptionRow /\ old.user = call[r].user
      BY <3>1, <3>2 DEF OwnSubscription, IInv, TypeOK, TablesTypeOK, UpdateSubscriptionCalls
    <3>4. updated \in SubscriptionRow /\ updated.user = call[r].user
      BY <3>2, <3>3
         DEF WithUpdate, SubscriptionRow, UpdateSubscriptionCalls, KeepPlan, KeepPaymentMethod
    <3> HIDE DEF updated
    <3>5. PICK step \in {"verify", "write"} :
            /\ Proceed(r, step, updated)
            /\ step = "write" <=> updated.paymentMethod = NULL
      BY <3>1
    <3>6. step \in Steps \ {"idle", "commit"} /\ pc[r] \notin {"idle", "commit"}
      BY <3>1 DEF At, Steps, Statements
    <3> QED
      BY <3>1, <3>4, <3>5, <3>6, ProceedIInv
  <2>2. CASE VerifyPaymentMethod(r)
    <3>1. /\ pc[r] = "verify"
          /\ OwnPaymentMethod(row[r].paymentMethod, call[r].user)
          /\ Proceed(r, "write", row[r])
          /\ UNCHANGED tables
      BY <1>2, <2>2 DEF VerifyPaymentMethod, Answers
    <3>2. row[r] \in SubscriptionRow \cup {NULL}
      BY DEF IInv, TypeOK, RequestsTypeOK
    <3>3. call[r].op \in {"CreateSubscription", "UpdateSubscription"} =>
            /\ row[r] \in SubscriptionRow
            /\ row[r].user = call[r].user
            /\ row[r].paymentMethod \in PaymentMethodIds
      BY <3>1 DEF IInv, VerifiedRows, WritesSubscription, SubscriptionRow
    <3>4. row[r].paymentMethod \in PaymentMethodIds => row[r].paymentMethod \notin fresh
      BY <3>1 DEF OwnPaymentMethod, IInv, FreshIdsUnused
    <3>5. "write" \in Steps \ {"idle", "commit"}
      BY DEF Steps, Statements
    <3> QED
      BY <3>1, <3>2, <3>3, <3>4, <3>5, ProceedIInv
  <2>3. CASE CreateSubscription(r)
    BY <2>3, CreateSubscriptionIInv
  <2>4. CASE UpdateSubscription(r)
    BY <2>4, UpdateSubscriptionIInv
  <2>5. CASE FindDoomedSubscription(r) \/ FindSubscriptions(r)
    <3>1. pc[r] = "find" /\ Proceed(r, "delete", NULL) /\ UNCHANGED tables
      BY <1>2, <2>5 DEF FindDoomedSubscription, FindSubscriptions, At, GoTo, Answers
    <3>2. "delete" \in Steps \ {"idle", "commit"}
      BY DEF Steps, Statements
    <3> QED
      BY <3>1, <3>2, ProceedIInv
  <2>6. CASE DeleteSubscription(r)
    <3> DEFINE doomed == Targets(call[r])
    <3>1. /\ call[r].op = "DeleteSubscription"
          /\ pc[r] = "delete"
          /\ ~LockedByOther(r, {call[r].id})
          /\ RemoveRows(doomed)
          /\ Proceed(r, "respond", NULL)
      BY <2>6 DEF DeleteSubscription, At, GoTo
    <3>2. doomed \subseteq {call[r].id} \cap SubscriptionIds
      BY <3>1 DEF Targets, OwnSubscriptions
    <3>3. ~Used(doomed) /\ ~LockedByOther(r, doomed) /\ doomed \in SUBSET RowIds
      BY <3>1, <3>2, IdsAssumption, NullAssumption
         DEF Used, Usage, LockedByOther, RowIds, IInv, TypeOK, TablesTypeOK, SubscriptionRow
    <3>4. locks' = [locks EXCEPT ![r] = {}]
      BY <3>1 DEF Proceed, IInv, TypeOK, RequestsTypeOK
    <3> HIDE DEF doomed
    <3> QED
      BY <3>1, <3>3, <3>4, RemoveRowsIInv DEF Proceed
  <2>7. CASE DeleteSubscriptions(r)
    <3> DEFINE doomed == Targets(call[r])
    <3>1. /\ call[r].op = "DeleteSubscriptions"
          /\ pc[r] = "delete"
          /\ ~LockedByOther(r, doomed)
          /\ locks' = [locks EXCEPT ![r] = doomed]
          /\ pc' = [pc EXCEPT ![r] = "commit"]
          /\ UNCHANGED <<tables, call, answer, row>>
      BY <2>7 DEF DeleteSubscriptions, At
    <3>2. doomed = OwnSubscriptions(call[r].ids, call[r].user)
      BY <3>1 DEF Targets
    <3>3. doomed \subseteq RowsOf(call[r].user) /\ doomed \in SUBSET RowIds
      BY <3>2 DEF RowsOf, OwnSubscriptions, RowIds
    <3>4. ~Used(doomed)
      BY <3>2, IdsAssumption, NullAssumption
         DEF OwnSubscriptions, Used, Usage, RowIds, IInv, TypeOK, TablesTypeOK, SubscriptionRow
    <3> HIDE DEF doomed
    <3> QED
      BY <3>1, <3>3, <3>4, StageIInv
  <2> QED
    BY <2>1, <2>2, <2>3, <2>4, <2>5, <2>6, <2>7 DEF SubscriptionStep
<1> QED
  BY <1>1, <1>2

\* Steps of the payment method use cases.
LEMMA PaymentMethodStepIInv ==
    ASSUME IInv, NEW r \in Requests, PaymentMethodStep(r)
    PROVE  IInv'
<1>1. CASE \E status \in Answers : Finish(r, status)
  BY <1>1, FinishIInv
<1>2. CASE ~\E status \in Answers : Finish(r, status)
  <2>1. CASE CreatePaymentMethod(r)
    BY <2>1, CreatePaymentMethodIInv
  <2>2. CASE RenamePaymentMethod(r)
    BY <2>2, RenamePaymentMethodIInv
  <2>3. CASE FindPaymentMethod(r)
    <3>1. /\ At(r, "UpdatePaymentMethod", "find")
          /\ Proceed(r, "write", NULL)
          /\ UNCHANGED tables
      BY <1>2, <2>3 DEF FindPaymentMethod, GoTo, Answers
    <3>2. "write" \in Steps \ {"idle", "commit"}
      BY DEF Steps, Statements
    <3> QED
      BY <3>1, <3>2, ProceedIInv DEF At
  <2>4. CASE RecountUsage(r) \/ FindPaymentMethods(r) \/ CountUsage(r)
    <3>1. PICK step \in {"respond", "count", "delete"} :
            pc[r] \in {"recount", "find", "count"} /\ Proceed(r, step, NULL) /\ UNCHANGED tables
      BY <1>2, <2>4 DEF RecountUsage, FindPaymentMethods, CountUsage, At, GoTo, Answers
    <3>2. step \in Steps \ {"idle", "commit"}
      BY DEF Steps, Statements
    <3> QED
      BY <3>1, <3>2, ProceedIInv
  <2>5. CASE DeletePaymentMethods(r)
    <3> DEFINE doomed == Targets(call[r])
    <3>1. /\ call[r].op = "DeletePaymentMethods"
          /\ pc[r] = "delete"
          /\ ~LockedByOther(r, doomed \cup Usage(doomed))
          /\ ~Used(doomed)
          /\ locks' = [locks EXCEPT ![r] = doomed]
          /\ pc' = [pc EXCEPT ![r] = "commit"]
          /\ UNCHANGED <<tables, call, answer, row>>
      BY <1>2, <2>5 DEF DeletePaymentMethods, At, Answers
    <3>2. doomed = OwnPaymentMethods(call[r].ids, call[r].user)
      BY <3>1 DEF Targets
    <3>3. doomed \subseteq RowsOf(call[r].user) /\ doomed \in SUBSET RowIds
      BY <3>2 DEF RowsOf, OwnPaymentMethods, RowIds
    <3> HIDE DEF doomed
    <3>4. ~LockedByOther(r, doomed)
      BY <3>1 DEF LockedByOther
    <3> QED
      BY <3>1, <3>3, <3>4, StageIInv
  <2> QED
    BY <2>1, <2>2, <2>3, <2>4, <2>5 DEF PaymentMethodStep
<1> QED
  BY <1>1, <1>2

\* Steps of the user use cases.
LEMMA UserStepIInv ==
    ASSUME IInv, NEW r \in Requests, UserStep(r)
    PROVE  IInv'
<1>1. CASE \E status \in Answers : Finish(r, status)
  BY <1>1, FinishIInv
<1>2. CASE FindUser(r) /\ ~\E status \in Answers : Finish(r, status)
  <2>1. pc[r] = "find" /\ Proceed(r, "delete", NULL) /\ UNCHANGED tables
    BY <1>2 DEF FindUser, At, GoTo, Answers
  <2>2. "delete" \in Steps \ {"idle", "commit"}
    BY DEF Steps, Statements
  <2> QED
    BY <2>1, <2>2, ProceedIInv
<1>3. CASE DeleteCurrentUser(r)
  BY <1>3, DeleteCurrentUserIInv
<1> QED
  BY <1>1, <1>2, <1>3 DEF UserStep

\* A commit removes what the locks protect.
LEMMA CommitIInv ==
    ASSUME IInv, NEW r \in Requests, Commit(r)
    PROVE  IInv'
<1>1. locks[r] \in SUBSET RowIds
  BY DEF IInv, TypeOK, RequestsTypeOK
<1>2. ~Used(locks[r]) /\ ~LockedByOther(r, locks[r])
  BY DEF IInv, LocksProtect, Used, Usage, LockedByOther
<1> QED
  BY <1>1, <1>2, RemoveRowsIInv DEF Commit

\* Every step of the backend keeps the invariant.
LEMMA NextIInv == IInv /\ [Next]_vars => IInv'
<1> SUFFICES ASSUME IInv, [Next]_vars PROVE IInv'
  OBVIOUS
<1>1. CASE UNCHANGED vars
  BY <1>1 DEF vars, tables, requestVars, IInv, TypeOK, TablesTypeOK, RequestsTypeOK,
     FreshIdsUnused, PaymentMethodIntegrity, NoOrphans, LocksProtect, VerifiedRows,
     WritesSubscription, RowsOf, OwnPaymentMethods, OwnSubscriptions, OwnPaymentMethod,
     OwnSubscription, Used, Usage, LockedByOther
<1>2. ASSUME NEW u \in UserIds, Register(u) PROVE IInv'
  BY <1>2, RegisterIInv
<1>3. ASSUME NEW r \in Requests, Accept(r) PROVE IInv'
  BY <1>3, ReceiveIInv, FinishIInv DEF Accept, Reject, Answers
<1>4. ASSUME NEW r \in Requests, RequestStep(r) PROVE IInv'
  <2>1. Respond(r) => IInv'
    BY FinishIInv DEF Respond, Answers
  <2> QED
    BY <1>4, <2>1, SubscriptionStepIInv, PaymentMethodStepIInv, UserStepIInv, CommitIInv
       DEF RequestStep
<1>5. ASSUME NEW r \in Requests, Fail(r) PROVE IInv'
  BY <1>5, FinishIInv DEF Fail, Answers
<1> QED
  BY <1>1, <1>2, <1>3, <1>4, <1>5 DEF Next

-----------------------------------------------------------------------------
\* The inductive invariant holds for any number of requests and rows.
THEOREM Invariance == Spec => []IInv
  BY InitIInv, NextIInv, PTL DEF Spec

\* Type correctness; a transaction holds locks only while it waits to commit.
THEOREM TypeCorrect == Spec => []TypeOK
<1>1. IInv => TypeOK
  BY DEF IInv
<1> QED
  BY <1>1, Invariance, PTL

\* A subscription's payment method always exists and is its own user's.
THEOREM References == Spec => []PaymentMethodIntegrity
<1>1. IInv => PaymentMethodIntegrity
  BY DEF IInv
<1> QED
  BY <1>1, Invariance, PTL

\* No row outlives the account it belongs to.
THEOREM NothingLeftBehind == Spec => []NoOrphans
<1>1. IInv => NoOrphans
  BY DEF IInv
<1> QED
  BY <1>1, Invariance, PTL

\* What an open transaction has deleted stays its own, and unused, until it ends.
THEOREM LocksHold == Spec => []LocksProtect
<1>1. IInv => LocksProtect
  BY DEF IInv
<1> QED
  BY <1>1, Invariance, PTL

\* What FindByID of the payment method established stays good until the write.
THEOREM VerificationLasts == Spec => []VerifiedRows
<1>1. IInv => VerifiedRows
  BY DEF IInv
<1> QED
  BY <1>1, Invariance, PTL

-----------------------------------------------------------------------------
\* Rows of payment_methods go by the commit of a transaction that deleted them,
\* or with the account.
LEMMA WhenMethodsGo ==
    ASSUME IInv, [Next]_vars,
           NEW p \in PaymentMethodIds, paymentMethods[p] # NULL, paymentMethods'[p] = NULL
    PROVE  \E r \in Requests :
        (Commit(r) /\ p \in locks[r]) \/ (DeleteCurrentUser(r) /\ RemoveUser(call[r].user))
<1> USE NullAssumption
<1>1. paymentMethods \in [PaymentMethodIds -> PaymentMethodRow \cup {NULL}]
  BY DEF IInv, TypeOK, TablesTypeOK
<1>2. paymentMethods' # paymentMethods
  OBVIOUS
<1>3. ASSUME NEW u \in UserIds, Register(u) PROVE FALSE
  BY <1>2, <1>3 DEF Register, InsertUser
<1>4. ASSUME NEW r \in Requests, NEW status \in Answers, Finish(r, status) PROVE FALSE
  BY <1>2, <1>4 DEF Finish, tables
<1>5. ASSUME NEW r \in Requests, Accept(r) PROVE FALSE
  BY <1>2, <1>4, <1>5 DEF Accept, Receive, Reject, Answers, tables
<1>6. ASSUME NEW r \in Requests, SubscriptionStep(r) PROVE FALSE
  <2>1. CASE DeleteSubscription(r)
    <3>1. Targets(call[r]) \subseteq SubscriptionIds
      BY <2>1 DEF DeleteSubscription, At, Targets, OwnSubscriptions
    <3> QED
      BY <1>1, <2>1, <3>1, IdsAssumption DEF DeleteSubscription, RemoveRows, Without
  <2>2. CASE CreateSubscription(r) \/ UpdateSubscription(r)
    BY <1>2, <1>4, <2>2 DEF CreateSubscription, UpdateSubscription, InsertSubscriptionRow,
       SetSubscriptionRow, Answers
  <2> QED
    BY <1>2, <1>4, <1>6, <2>1, <2>2 DEF SubscriptionStep, FindSubscription,
       VerifyPaymentMethod, FindDoomedSubscription, FindSubscriptions, DeleteSubscriptions,
       Answers, tables
<1>7. ASSUME NEW r \in Requests, PaymentMethodStep(r) PROVE FALSE
  <2>1. CASE CreatePaymentMethod(r)
    <3>1. ASSUME InsertPaymentMethodRow([user |-> call[r].user, name |-> call[r].name])
          PROVE  FALSE
      <4>1. PICK q \in PaymentMethodIds \cap fresh :
              paymentMethods' = [paymentMethods EXCEPT
                                  ![q] = [user |-> call[r].user, name |-> call[r].name]]
        BY <3>1 DEF InsertPaymentMethodRow
      <4>2. p # q
        BY <4>1 DEF IInv, FreshIdsUnused
      <4> QED
        BY <1>1, <4>1, <4>2
    <3> QED
      BY <1>4, <2>1, <3>1 DEF CreatePaymentMethod, Answers
  <2>2. CASE RenamePaymentMethod(r)
    <3>1. ASSUME SetPaymentMethodName(call[r].id, call[r].name) PROVE FALSE
      <4>1. call[r].op = "UpdatePaymentMethod" /\ pc[r] = "write"
        BY <2>2 DEF RenamePaymentMethod, At
      <4>2. call[r].name \in Names
        BY <4>1, CallOf, CallFields DEF UpdatePaymentMethodCalls
      <4>3. paymentMethods[p] \in PaymentMethodRow
        BY <1>1
      <4>4. [paymentMethods[p] EXCEPT !.name = call[r].name] \in PaymentMethodRow
        BY <4>2, <4>3 DEF PaymentMethodRow
      <4> QED
        BY <1>1, <3>1, <4>4 DEF SetPaymentMethodName
    <3> QED
      BY <1>4, <2>2, <3>1 DEF RenamePaymentMethod, Answers
  <2> QED
    BY <1>2, <1>4, <1>7, <2>1, <2>2 DEF PaymentMethodStep, FindPaymentMethod, RecountUsage,
       FindPaymentMethods, CountUsage, DeletePaymentMethods, Answers, tables
<1>8. ASSUME NEW r \in Requests, UserStep(r)
      PROVE  DeleteCurrentUser(r) /\ RemoveUser(call[r].user)
  BY <1>2, <1>4, <1>8 DEF UserStep, FindUser, DeleteCurrentUser, Answers, tables
<1>9. ASSUME NEW r \in Requests, Commit(r) PROVE p \in locks[r]
  BY <1>1, <1>9 DEF Commit, RemoveRows, Without
<1>10. ASSUME NEW r \in Requests, Respond(r) \/ Fail(r) PROVE FALSE
  BY <1>4, <1>10 DEF Respond, Fail, Answers
<1> QED
  BY <1>2, <1>3, <1>5, <1>6, <1>7, <1>8, <1>9, <1>10 DEF Next, RequestStep, vars, tables

\* A payment method in use goes only with its account.
THEOREM UsedMethodsNeverDeleted == Spec => UsedMethodsStay
<1>1. IInv /\ [Next]_vars =>
        \A p \in PaymentMethodIds : Used({p}) /\ paymentMethods'[p] = NULL => users' # users
  <2> SUFFICES ASSUME IInv, [Next]_vars,
                      NEW p \in PaymentMethodIds, Used({p}), paymentMethods'[p] = NULL
               PROVE  users' # users
    OBVIOUS
  <2>1. PICK s \in SubscriptionIds : subscriptions[s] # NULL /\ subscriptions[s].paymentMethod = p
    BY DEF Used, Usage
  <2>2. OwnPaymentMethod(p, subscriptions[s].user)
    BY <2>1, NullAssumption DEF IInv, PaymentMethodIntegrity, RowIds
  <2>3. PICK r \in Requests :
        (Commit(r) /\ p \in locks[r]) \/ (DeleteCurrentUser(r) /\ RemoveUser(call[r].user))
    BY <2>2, WhenMethodsGo DEF OwnPaymentMethod
  <2>4. ~(p \in locks[r])
    BY <2>1 DEF IInv, LocksProtect, Used, Usage
  <2>5. RemoveUser(call[r].user)
    BY <2>3, <2>4
  <2>6. p \in RowsOf(call[r].user)
    BY <2>2, <2>5 DEF RemoveUser, Without, OwnPaymentMethod, IInv, TypeOK, TablesTypeOK
  <2>7. call[r].user \in users
    BY <2>6, IdsAssumption DEF RowsOf, OwnPaymentMethods, OwnSubscriptions, OwnPaymentMethod, IInv, NoOrphans
  <2> QED
    BY <2>5, <2>7 DEF RemoveUser
<1> QED
  BY <1>1, Invariance, PTL DEF Spec, UsedMethodsStay
=============================================================================
