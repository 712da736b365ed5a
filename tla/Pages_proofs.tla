---------------------------- MODULE Pages_proofs ----------------------------
(***************************************************************************)
(* Proofs about Pages, for any data of any size, any number of mutations and   *)
(* answers on their way, and any number of changes by other devices.            *)
(***************************************************************************)
EXTENDS PagesTypes_proofs

-----------------------------------------------------------------------------
(***************************************************************************)
(* Partial functions by key.                                                *)
(***************************************************************************)

LEMMA OverType ==
    ASSUME NEW f, NEW g
    PROVE  /\ DOMAIN Over(f, g) = DOMAIN f \cup DOMAIN g
           /\ \A j \in DOMAIN f : Over(f, g)[j] = f[j]
           /\ \A j \in DOMAIN g \ DOMAIN f : Over(f, g)[j] = g[j]
BY DEF Over

LEMMA ForgetType ==
    ASSUME NEW f, NEW k
    PROVE  /\ DOMAIN Forget(f, k) = DOMAIN f \ {k}
           /\ \A j \in DOMAIN f \ {k} : Forget(f, k)[j] = f[j]
BY DEF Forget

-----------------------------------------------------------------------------
(***************************************************************************)
(* What the server has.                                                     *)
(***************************************************************************)

\* It depends on the tables and the versions alone.
LEMMA CurrentStays ==
    ASSUME UNCHANGED <<tables, version>>, NEW k
    PROVE  Current(k)' = Current(k)
BY DEF tables, Current, CurrentSubscriptions, CurrentSubscription, CurrentPaymentMethods,
       CurrentPaymentMethod, OwnSubscriptions, OwnSubscription, OwnPaymentMethods,
       OwnPaymentMethod, SubscriptionResponse, PaymentMethodResponse, Usage

-----------------------------------------------------------------------------
(***************************************************************************)
(* What has been fetched again: the fetch is still out, or its answer is      *)
(* current, or the cache is, and then no older data is on its way with a page. *)
(***************************************************************************)

NextShape ==
    next # NULL => next = [to |-> next.to, rendered |-> next.rendered, data |-> next.data]

ComesCurrent(k) ==
    /\ HasData(k)
    /\ Answered(k) => answers[k] = Current(k)
    /\ ~Fetching(k) =>
        /\ cache[k] = Current(k)
        /\ next # NULL /\ k \in DOMAIN next.data => next.data[k] = Current(k)

CacheInv ==
    /\ NextShape
    /\ asked \cap DOMAIN answers = {}
    /\ \A k \in current : ComesCurrent(k)

LEMMA InitCacheInv == Init => CacheInv
BY NoDomain DEF Init, NothingCached, CacheInv, NextShape, Asking

\* The server and the cache do nothing, and a page is asked for at most.
LEMMA QuietStep ==
    ASSUME CacheInv, UNCHANGED <<tables, version, cache, asked, answers>>,
           current' \subseteq current,
           next' = next \/ \E p : Push(p) \/ Rendered(p, NotRendered)
    PROVE  CacheInv'
<1>1. \A k : Current(k)' = Current(k)
    BY CurrentStays DEF tables
<1>2. NextShape' /\ (next' = next \/ DOMAIN next'.data = {})
    BY NoDomain DEF CacheInv, NextShape, Push, Asking, NotRendered, Rendered
<1> QED BY <1>1, <1>2 DEF CacheInv, ComesCurrent, HasData, Answered, Fetching

\* The data changes: nothing is known to be current.
LEMMA ChangeStep ==
    ASSUME CacheInv, UNCHANGED <<cache, asked, answers, next>>, current' = {}
    PROVE  CacheInv'
BY DEF CacheInv, NextShape

LEMMA RenderStep ==
    ASSUME CacheInv, Render, UNCHANGED current
    PROVE  CacheInv'
<1>1. UNCHANGED <<tables, version, cache, asked, answers>>
    BY DEF Render, server, client
<1>2. \A k : Current(k)' = Current(k)
    BY <1>1, CurrentStays DEF tables
<1>3. ASSUME NEW p, NEW data, Rendered(p, data), \A k \in DOMAIN data : data[k] = Current(k)
      PROVE  CacheInv'
    <2>1. next' = [to |-> p, rendered |-> TRUE, data |-> data]
        BY <1>3 DEF Rendered
    <2>2. NextShape' /\ next'.data = data
        BY <2>1 DEF NextShape
    <2> QED BY <1>1, <1>2, <1>3, <2>2 DEF CacheInv, ComesCurrent, HasData, Answered, Fetching
<1>4. \A p : Rendered(p, NotRendered) => CacheInv'
    BY <1>3, NoDomain DEF NotRendered
<1>5. \A p, k : Rendered(p, Only(k, Current(k))) => CacheInv'
    BY <1>3 DEF Only
<1>6. CASE Redirect
    BY <1>1, <1>4, <1>6, QuietStep DEF Redirect
<1>7. CASE RenderUnchecked
    BY <1>4, <1>7 DEF RenderUnchecked
<1>8. CASE RenderRow
    <2>1. PICK k \in Rows(next.to) : \E row \in Answers(k) :
            IF row = NULL THEN Rendered(NotFound, NotRendered)
            ELSE Rendered(next.to, Only(k, row))
        BY <1>8 DEF RenderRow
    <2>2. PICK row \in Answers(k) :
            IF row = NULL THEN Rendered(NotFound, NotRendered)
            ELSE Rendered(next.to, Only(k, row))
        BY <2>1
    <2>3. row # NULL => row = Current(k)
        BY <2>2 DEF Answers
    <2> QED BY <1>4, <1>5, <2>2, <2>3
<1>9. CASE RenderList
    BY <1>4, <1>5, <1>9 DEF RenderList
<1> QED BY <1>4, <1>6, <1>7, <1>8, <1>9 DEF Render, RenderPage

LEMMA ArriveStep ==
    ASSUME CacheInv, Arrive, current' = current \cup Delivered
    PROVE  CacheInv'
<1>1. /\ UNCHANGED <<tables, version, answers>> /\ next # NULL /\ next' = NULL
      /\ cache' = Over(next.data, cache)
      /\ asked' = asked \cup Resting(Uses(next.to))
    BY DEF Arrive, Mount, server
<1>2. \A k : Current(k)' = Current(k)
    BY <1>1, CurrentStays
<1>3. asked' \cap DOMAIN answers' = {}
    BY <1>1 DEF CacheInv, Resting, Fetching, Answered
<1>4. ASSUME NEW k \in current
      PROVE  ComesCurrent(k)'
    <2>1. ComesCurrent(k)
        BY <1>4 DEF CacheInv
    <2>2. k \in DOMAIN cache'
        BY <1>1, <2>1, OverType DEF ComesCurrent, HasData
    <2>3. CASE k \in asked' \/ k \in DOMAIN answers'
        BY <1>1, <1>2, <2>1, <2>2, <2>3 DEF ComesCurrent, HasData, Answered, Fetching
    <2>4. CASE k \notin asked' /\ k \notin DOMAIN answers'
        <3>1. ~Fetching(k)
            BY <1>1, <2>4 DEF Fetching, Answered
        <3>2. cache[k] = Current(k) /\ (k \in DOMAIN next.data => next.data[k] = Current(k))
            BY <1>1, <2>1, <3>1 DEF ComesCurrent
        <3>3. cache'[k] = IF k \in DOMAIN next.data THEN next.data[k] ELSE cache[k]
            BY <1>1, <2>1 DEF Over, ComesCurrent, HasData
        <3>4. cache'[k] = Current(k)
            BY <3>2, <3>3
        <3> QED BY <1>1, <1>2, <2>2, <2>4, <3>4 DEF ComesCurrent, HasData, Answered
    <2> QED BY <2>3, <2>4
<1>5. ASSUME NEW k \in Delivered
      PROVE  ComesCurrent(k)'
    <2>1. /\ k \in DOMAIN next.data /\ next.data[k] = Current(k)
          /\ Answered(k) => answers[k] = Current(k)
        BY <1>5 DEF Delivered
    <2>2. k \in DOMAIN cache' /\ cache'[k] = Current(k)
        BY <1>1, <2>1 DEF Over
    <2> QED BY <1>1, <1>2, <2>1, <2>2 DEF ComesCurrent, HasData, Answered
<1> QED BY <1>1, <1>3, <1>4, <1>5 DEF CacheInv, NextShape

-----------------------------------------------------------------------------
LEMMA AnswerStep ==
    ASSUME CacheInv, NEW k, Answer(k) \/ AnswerNothing(k)
    PROVE  CacheInv'
<1>1. PICK v : /\ k \in asked
               /\ asked' = asked \ {k}
               /\ answers' = Over(Only(k, v), answers)
               /\ UNCHANGED <<tables, version, cache, next>>
               /\ current' \subseteq current
               /\ k \in current' => v = Current(k)
    BY DEF Answer, AnswerNothing, Read, server, screen
<1>2. \A j : Current(j)' = Current(j)
    BY <1>1, CurrentStays
<1>3. /\ DOMAIN answers' = DOMAIN answers \cup {k} /\ answers'[k] = v
      /\ \A j \in DOMAIN answers \ {k} : answers'[j] = answers[j]
    BY <1>1 DEF Over, Only
<1> QED BY <1>1, <1>2, <1>3 DEF CacheInv, NextShape, ComesCurrent, HasData, Answered, Fetching

LEMMA ReceiveStep ==
    ASSUME CacheInv, NEW k, Receive(k)
    PROVE  CacheInv'
<1>1. /\ k \in DOMAIN answers
      /\ cache' = Over(Only(k, answers[k]), cache)
      /\ answers' = Forget(answers, k)
      /\ UNCHANGED <<tables, version, asked, current>>
    BY DEF Receive, Store, Answered, server
<1>2. \A j : Current(j)' = Current(j)
    BY <1>1, CurrentStays
<1>3. /\ DOMAIN cache' = DOMAIN cache \cup {k} /\ cache'[k] = answers[k]
      /\ \A j \in DOMAIN cache \ {k} : cache'[j] = cache[j]
    BY <1>1 DEF Over, Only
<1>4. /\ DOMAIN answers' = DOMAIN answers \ {k}
      /\ \A j \in DOMAIN answers \ {k} : answers'[j] = answers[j]
    BY <1>1, ForgetType
<1>5. /\ next' # NULL => next # NULL
      /\ next' # NULL => next' = [to |-> next.to, rendered |-> next.rendered,
                                  data |-> Forget(next.data, k)]
    BY DEF Receive, Outdated, CacheInv, NextShape
<1>6. next' # NULL =>
        /\ DOMAIN next'.data = DOMAIN next.data \ {k}
        /\ \A j \in DOMAIN next.data \ {k} : next'.data[j] = next.data[j]
    <2>1. next' # NULL => next'.data = Forget(next.data, k)
        BY <1>5
    <2> QED BY <2>1 DEF Forget
<1>7. NextShape'
    BY <1>5 DEF NextShape
<1>8. ASSUME NEW j \in current, j # k
      PROVE  ComesCurrent(j)'
    BY <1>1, <1>2, <1>3, <1>4, <1>5, <1>6, <1>8
       DEF CacheInv, ComesCurrent, HasData, Answered, Fetching
<1>9. k \in current => ComesCurrent(k)'
    BY <1>1, <1>2, <1>3, <1>4, <1>6 DEF CacheInv, ComesCurrent, HasData, Answered, Fetching
<1> QED BY <1>1, <1>4, <1>7, <1>8, <1>9 DEF CacheInv

\* A fetch that fails, or data that is collected: the key is no longer among them.
LEMMA LossStep ==
    ASSUME CacheInv, NEW k, FetchFails(k) \/ TurnQueryAway(k) \/ CollectUnused(k)
    PROVE  CacheInv'
<1>1. /\ UNCHANGED <<tables, version, answers>>
      /\ asked' \in {asked, asked \ {k}}
      /\ cache' = cache \/ cache' = Forget(cache, k)
      /\ current' = current \ {k}
      /\ next' = next \/ Push(Login)
    BY DEF FetchFails, TurnQueryAway, CollectUnused, Fail, Collect, server, screen
<1>2. \A j : Current(j)' = Current(j)
    BY <1>1, CurrentStays
<1>3. NextShape' /\ (next' = next \/ DOMAIN next'.data = {})
    BY <1>1, NoDomain DEF CacheInv, NextShape, Push, Asking, NotRendered
<1>4. \A j \in DOMAIN cache \ {k} : j \in DOMAIN cache' /\ cache'[j] = cache[j]
    <2>1. CASE cache' = cache
        BY <2>1
    <2>2. CASE cache' = Forget(cache, k)
        <3>1. /\ DOMAIN Forget(cache, k) = DOMAIN cache \ {k}
              /\ \A j \in DOMAIN cache \ {k} : Forget(cache, k)[j] = cache[j]
            BY ForgetType
        <3> QED BY <2>2, <3>1
    <2> QED BY <1>1, <2>1, <2>2
<1> QED BY <1>1, <1>2, <1>3, <1>4 DEF CacheInv, ComesCurrent, HasData, Answered, Fetching

\* What is invalidated is fetched anew where there is data, whatever was on its way.
LEMMA InvalidateStep ==
    ASSUME CacheInv, UNCHANGED <<tables, version>>, NEW keys, Invalidate(keys),
           current' = current \cup WithData(keys),
           next' = next \/ \E p : Push(p)
    PROVE  CacheInv'
<1> DEFINE started == Resting(keys) \cup {k \in keys : HasData(k)}
<1>1. /\ asked' = asked \cup started
      /\ answers' = [k \in DOMAIN answers \ started |-> answers[k]]
      /\ UNCHANGED cache
    BY DEF Invalidate, Start
<1>2. WithData(keys) \subseteq started /\ WithData(keys) \subseteq DOMAIN cache
    BY DEF WithData, HasData
<1> HIDE DEF started
<1>3. \A j : Current(j)' = Current(j)
    BY CurrentStays
<1>4. NextShape' /\ (next' = next \/ DOMAIN next'.data = {})
    BY NoDomain DEF CacheInv, NextShape, Push, Asking, NotRendered
<1>5. asked' \cap DOMAIN answers' = {}
    BY <1>1 DEF CacheInv
<1>6. ASSUME NEW k \in current'
      PROVE  ComesCurrent(k)'
    <2>1. CASE k \in started
        BY <1>1, <1>2, <1>5, <1>6, <2>1 DEF CacheInv, ComesCurrent, HasData, Answered, Fetching
    <2>2. CASE k \notin started
        BY <1>1, <1>2, <1>3, <1>4, <1>6, <2>2
           DEF CacheInv, ComesCurrent, HasData, Answered, Fetching
    <2> QED BY <2>1, <2>2
<1> QED BY <1>4, <1>5, <1>6 DEF CacheInv

\* The success of a mutation invalidates what it concerns.
LEMMA SucceedStep ==
    ASSUME CacheInv, NEW m, Succeed(m)
    PROVE  CacheInv'
<1> DEFINE keys == Concerned(m.call)
<1>1. CASE SubscriptionMutationSucceeds(m)
    <2>1. SubscriptionInvalidates(m.call) = keys
        BY <1>1 DEF SubscriptionMutationSucceeds, SubscriptionInvalidates, Concerned
    <2>2. Invalidate(keys)
        BY <1>1, <2>1 DEF SubscriptionMutationSucceeds
    <2>3. next' = next \/ \E p : Push(p)
        BY <1>1 DEF SubscriptionMutationSucceeds, AfterSubscriptionMutation
    <2>4. UNCHANGED <<tables, version>> /\ current' = current \cup WithData(keys)
        BY DEF Succeed, server
    <2> HIDE DEF keys
    <2> QED BY <2>2, <2>3, <2>4, InvalidateStep
<1>2. CASE PaymentMethodMutationSucceeds(m)
    <2>1. ~SubscriptionCall(m.call)
        BY <1>2 DEF PaymentMethodMutationSucceeds, PaymentMethodCall, SubscriptionCall
    <2>2. PaymentMethodInvalidates(m.call) = keys
        BY <2>1 DEF PaymentMethodInvalidates, Concerned
    <2>3. Invalidate(keys)
        BY <1>2, <2>2 DEF PaymentMethodMutationSucceeds
    <2>4. next' = next \/ \E p : Push(p)
        BY <1>2 DEF PaymentMethodMutationSucceeds, AfterPaymentMethodMutation
    <2>5. UNCHANGED <<tables, version>> /\ current' = current \cup WithData(keys)
        BY DEF Succeed, server
    <2> HIDE DEF keys
    <2> QED BY <2>3, <2>4, <2>5, InvalidateStep
<1> QED BY <1>1, <1>2 DEF Succeed

LEMMA SignInStep ==
    ASSUME CacheInv, SignIn
    PROVE  CacheInv'
<1>1. asked' = {} /\ current' = {} /\ next' = Asking(Subscriptions)
    BY DEF SignIn, ClearAll, Push
<1> QED BY <1>1 DEF CacheInv, NextShape, Asking

\* The steps that the server and the cache have no part in.
Quiet ==
    \/ Navigate \/ Expire \/ RefreshDone \/ Use
    \/ SessionCheckFails /\ UNCHANGED <<refresh, current>>
    \/ \E m \in mutations : MutationFails(m) \/ TurnMutationAway(m)

LEMMA QuietLeavesCache ==
    ASSUME Quiet
    PROVE  /\ UNCHANGED <<tables, version, cache, asked, answers, current>>
           /\ next' = next \/ \E p : Push(p) \/ Rendered(p, NotRendered)
<1>1. CASE Navigate \/ (SessionCheckFails /\ UNCHANGED <<refresh, current>>)
    BY <1>1 DEF Navigate, Go, SessionCheckFails, server, client
<1>2. CASE Expire \/ RefreshDone \/ \E m \in mutations : MutationFails(m) \/ TurnMutationAway(m)
    BY <1>2 DEF Expire, RefreshDone, MutationFails, TurnMutationAway, server, client, screen
<1>3. CASE Use
    BY <1>3 DEF Use, RequestDeletion, CancelDeletion, UseForm, ChangeSubscriptionForm,
                SubmitSubscriptionForm, ChangePaymentMethodForm, SubmitPaymentMethodForm,
                ConfirmSubscriptionDeletion, ConfirmPaymentMethodDeletion,
                server, client, screen
<1> QED BY <1>1, <1>2, <1>3 DEF Quiet

LEMMA NextCacheInv == CacheInv /\ [Next]_vars => CacheInv'
<1> SUFFICES ASSUME CacheInv, [Next]_vars
             PROVE  CacheInv'
    OBVIOUS
<1>1. CASE Quiet
    BY <1>1, QuietLeavesCache, QuietStep
<1>2. CASE ShowPage
    BY <1>2, RenderStep, ArriveStep DEF ShowPage
<1>3. CASE Pull
    BY <1>3, InvalidateStep DEF Pull, server, screen
<1>4. CASE SignIn
    BY <1>4, SignInStep
<1>5. CASE OtherDevice
    BY <1>5, ChangeStep DEF OtherDevice, client, screen
<1>6. ASSUME NEW k \in Keys,
             \/ Answer(k) \/ AnswerNothing(k) \/ Receive(k)
             \/ FetchFails(k) \/ CollectUnused(k) \/ TurnQueryAway(k)
      PROVE  CacheInv'
    BY <1>6, AnswerStep, ReceiveStep, LossStep
<1>7. ASSUME NEW m \in mutations, AcceptMutation(m) \/ Succeed(m)
      PROVE  CacheInv'
    BY <1>7, ChangeStep, SucceedStep DEF AcceptMutation, client, screen
<1>8. CASE UNCHANGED vars
    BY <1>8, QuietStep DEF vars
<1> QED BY <1>1, <1>2, <1>3, <1>4, <1>5, <1>6, <1>7, <1>8
        DEF Next, Turns, SessionUnknown, Proceed, ServeQueries, ServeMutations, Quiet

\* What an own mutation or a pull has had fetched again, and what a page has come with,
\* is what the server has, once it is at rest: a fetch that was on its way is cancelled, and a page that was rendered
\* before does not bring older data back.
THEOREM RefetchIsNotOvertaken == Spec => []RefetchedIsCurrent
<1>1. CacheInv => RefetchedIsCurrent
    BY DEF CacheInv, ComesCurrent, RefetchedIsCurrent
<1> QED BY InitCacheInv, NextCacheInv, <1>1, PTL DEF Spec

-----------------------------------------------------------------------------
(***************************************************************************)
(* What the page of payment methods offers to delete.                       *)
(***************************************************************************)

\* Who uses a payment method of Me is Me, so the list of subscriptions shows it.
LEMMA UsersAreListed ==
    ASSUME TablesInv, NEW p \in OwnPaymentMethods(PaymentMethodIds, Me)
    PROVE  Usage({p}) = {s \in DOMAIN CurrentSubscriptions :
                            CurrentSubscriptions[s].paymentMethod = p}
<1>1. ASSUME NEW s \in SubscriptionIds, subscriptions[s] # NULL,
             subscriptions[s].paymentMethod = p
      PROVE  subscriptions[s].user = Me
    <2>1. p \in PaymentMethodIds /\ p # NULL /\ OwnPaymentMethod(p, Me)
        BY NullAssumption DEF OwnPaymentMethods, RowIds
    <2> QED BY <1>1, <2>1 DEF TablesInv, PaymentMethodIntegrity, OwnPaymentMethod
<1>2. Usage({p}) = {s \in OwnSubscriptions(SubscriptionIds, Me) :
                        subscriptions[s].paymentMethod = p}
    BY <1>1 DEF Usage, OwnSubscriptions, OwnSubscription
<1>3. /\ DOMAIN CurrentSubscriptions = OwnSubscriptions(SubscriptionIds, Me)
      /\ \A s \in DOMAIN CurrentSubscriptions :
            CurrentSubscriptions[s].paymentMethod = subscriptions[s].paymentMethod
    BY DEF CurrentSubscriptions, SubscriptionResponse
<1> QED BY <1>2, <1>3

LEMMA CurrentOffersAreHonest == TablesInv /\ RefetchedIsCurrent => OffersAreHonest
<1> SUFFICES ASSUME TablesInv, RefetchedIsCurrent, page = PaymentMethods,
                    ListKeys \subseteq current, \A k \in ListKeys : ~Fetching(k)
             PROVE  Deletes = {p \in OwnPaymentMethods(PaymentMethodIds, Me) :
                                Usage({p}) = {}}
    BY DEF OffersAreHonest
<1>1. \A k \in ListKeys : HasData(k) /\ Data(k) = Current(k) /\ ~Loading(k)
    BY DEF RefetchedIsCurrent, Data, Loading
<1>2. /\ HasData(SubscriptionList)
      /\ Data(SubscriptionList) = CurrentSubscriptions
      /\ Data(PaymentMethodList) = CurrentPaymentMethods
      /\ ~Loading(PaymentMethodList)
    BY <1>1, KeyFacts DEF ListKeys, Current
<1>3. ListedPaymentMethods = OwnPaymentMethods(PaymentMethodIds, Me)
    BY <1>2 DEF ListedPaymentMethods, CurrentPaymentMethods
<1>4. \A p \in OwnPaymentMethods(PaymentMethodIds, Me) : ShownInUse(p) <=> Usage({p}) # {}
    BY <1>2, UsersAreListed DEF ShownInUse
<1>5. Deletes = PaymentMethodListDeletes
    BY DEF Deletes, PaymentMethods, Subscriptions, SubscriptionDetails, Subscription
<1> QED BY <1>2, <1>3, <1>4, <1>5 DEF PaymentMethodListDeletes

\* After a pull at rest the page of payment methods offers to delete exactly those that
\* no subscription uses: the count of usage in the cached list agrees with the database,
\* where only subscriptions of the same user can refer to a payment method.
THEOREM OffersHonest == Spec => []OffersAreHonest
<1>1. Spec => []TypeInv
    BY InitTypeInv, NextTypeInv, PTL DEF Spec
<1>2. TypeInv => TablesInv
    BY DEF TypeInv, StoreInv
<1> QED BY <1>1, <1>2, RefetchIsNotOvertaken, CurrentOffersAreHonest, PTL

-----------------------------------------------------------------------------
(***************************************************************************)
(* What a page waits for.                                                   *)
(***************************************************************************)

LEMMA BlankUsesNothing == Uses(Blank) = {}
BY DEF Uses,
    SubscriptionListOf, PaymentMethodListOf, Rows, SubscriptionOf, PaymentMethodOf, Blank

\* A mutation that succeeds, and a pull, start what they invalidate.
LEMMA InvalidateForgetsNothing ==
    ASSUME NothingForgotten, UNCHANGED page, NEW keys, Invalidate(keys)
    PROVE  NothingForgotten'
<1> DEFINE started == Resting(keys) \cup {k \in keys : HasData(k)}
<1>1. /\ asked' = asked \cup started
      /\ answers' = [k \in DOMAIN answers \ started |-> answers[k]]
      /\ failed' = {k \in failed : k \in started => HasData(k)}
      /\ UNCHANGED cache
    BY DEF Invalidate, Start
<1> HIDE DEF started
<1>2. InUse' = InUse
    BY DEF InUse, Uses,
        SubscriptionListOf, PaymentMethodListOf, Rows, SubscriptionOf, PaymentMethodOf
<1> QED BY <1>1, <1>2 DEF NothingForgotten, HasData, Fetching, Answered

LEMMA FetchForgetsNothing ==
    ASSUME NothingForgotten, NEW k,
           \/ Answer(k) \/ AnswerNothing(k) \/ Receive(k)
           \/ FetchFails(k) \/ CollectUnused(k) \/ TurnQueryAway(k)
    PROVE  NothingForgotten'
<1>1. InUse' = InUse
    BY DEF Answer, AnswerNothing, Receive, FetchFails, CollectUnused, TurnQueryAway, screen,
           InUse, Uses,
           SubscriptionListOf, PaymentMethodListOf, Rows, SubscriptionOf, PaymentMethodOf
<1>2. CASE Answer(k) \/ AnswerNothing(k)
    BY <1>1, <1>2
    DEF Answer, AnswerNothing, Read, Over, Only, NothingForgotten, HasData, Fetching, Answered
<1>3. CASE Receive(k)
    BY <1>1, <1>3
    DEF Receive, Store, Over, Only, Forget, NothingForgotten, HasData, Fetching, Answered
<1>4. CASE FetchFails(k) \/ TurnQueryAway(k)
    BY <1>1, <1>4
    DEF FetchFails, TurnQueryAway, Fail, NothingForgotten, HasData, Fetching, Answered
<1>5. CASE CollectUnused(k)
    BY <1>1, <1>5
    DEF CollectUnused, Collect, Forget, NothingForgotten, HasData, Fetching, Answered
<1> QED BY <1>2, <1>3, <1>4, <1>5

LEMMA ArriveForgetsNothing ==
    ASSUME Arrive
    PROVE  NothingForgotten'
<1> DEFINE started == Resting(Uses(next.to))
<1>1. /\ page' = next.to
      /\ cache' = Over(next.data, cache)
      /\ asked' = asked \cup started
      /\ UNCHANGED answers
    BY DEF Arrive, Mount
<1>2. InUse' = Uses(next.to)
    BY <1>1 DEF InUse, Uses,
        SubscriptionListOf, PaymentMethodListOf, Rows, SubscriptionOf, PaymentMethodOf
<1>3. \A k \in Uses(next.to) : k \in started \/ Fetching(k)
    BY DEF Resting
<1> HIDE DEF started
<1> QED BY <1>1, <1>2, <1>3 DEF NothingForgotten, Fetching, Answered

LEMMA QuietForgetsNothing ==
    ASSUME NothingForgotten, UNCHANGED <<cache, asked, answers, failed, page>>
    PROVE  NothingForgotten'
BY DEF NothingForgotten, HasData, Fetching, Answered, InUse, Uses,
    SubscriptionListOf, PaymentMethodListOf, Rows, SubscriptionOf,
       PaymentMethodOf

LEMMA QuietLeavesPage ==
    ASSUME Quiet \/ OtherDevice \/ Render \/ \E m \in mutations : AcceptMutation(m)
    PROVE  UNCHANGED <<cache, asked, answers, failed, page>>
<1>1. CASE Navigate \/ Render \/ SessionCheckFails
    BY <1>1 DEF Navigate, Go, Render, SessionCheckFails, client
<1>2. CASE \/ Expire \/ RefreshDone \/ OtherDevice
           \/ \E m \in mutations : MutationFails(m) \/ TurnMutationAway(m) \/ AcceptMutation(m)
    BY <1>2 DEF Expire, RefreshDone, OtherDevice, MutationFails, TurnMutationAway,
                AcceptMutation, client, screen
<1>3. CASE Use
    BY <1>3 DEF Use, RequestDeletion, CancelDeletion, UseForm, ChangeSubscriptionForm,
                SubmitSubscriptionForm, ChangePaymentMethodForm, SubmitPaymentMethodForm,
                ConfirmSubscriptionDeletion, ConfirmPaymentMethodDeletion, client, screen
<1> QED BY <1>1, <1>2, <1>3 DEF Quiet

LEMMA NextForgetsNothing == NothingForgotten /\ [Next]_vars => NothingForgotten'
<1> SUFFICES ASSUME NothingForgotten, [Next]_vars
             PROVE  NothingForgotten'
    OBVIOUS
<1>1. CASE Quiet \/ OtherDevice \/ Render \/ \E m \in mutations : AcceptMutation(m)
    BY <1>1, QuietLeavesPage, QuietForgetsNothing
<1>2. CASE Arrive
    BY <1>2, ArriveForgetsNothing
<1>3. CASE Pull
    BY <1>3, InvalidateForgetsNothing DEF Pull, screen
<1>4. ASSUME NEW m \in mutations, Succeed(m)
      PROVE  NothingForgotten'
    BY <1>4, InvalidateForgetsNothing
       DEF Succeed, SubscriptionMutationSucceeds, PaymentMethodMutationSucceeds
<1>5. CASE SignIn
    <2>1. InUse' = {}
        BY <1>5, BlankUsesNothing DEF SignIn, InUse, Uses,
            SubscriptionListOf, PaymentMethodListOf, Rows, SubscriptionOf, PaymentMethodOf
    <2> QED BY <2>1 DEF NothingForgotten
<1>6. ASSUME NEW k \in Keys,
             \/ Answer(k) \/ AnswerNothing(k) \/ Receive(k)
             \/ FetchFails(k) \/ CollectUnused(k) \/ TurnQueryAway(k)
      PROVE  NothingForgotten'
    BY <1>6, FetchForgetsNothing
<1>7. CASE UNCHANGED vars
    BY <1>7, QuietForgetsNothing DEF vars
<1> QED BY <1>1, <1>2, <1>3, <1>4, <1>5, <1>6, <1>7
        DEF Next, Turns, SessionUnknown, Proceed, ShowPage, ServeQueries, ServeMutations, Quiet

\* No page waits for data that nobody fetches: what it uses is there, on its way, or
\* known to have failed, across navigation, invalidation and cancelled fetches.
THEOREM NoPageWaitsForNothing == Spec => []NothingForgotten
<1>1. Init => NothingForgotten
    BY BlankUsesNothing DEF Init, NothingForgotten, InUse
<1> QED BY <1>1, NextForgetsNothing, PTL DEF Spec

-----------------------------------------------------------------------------
(***************************************************************************)
(* What the user has typed.                                                 *)
(***************************************************************************)

FormPaths == {"subscriptions/new", "subscriptions/id/edit",
              "payment-methods/new", "payment-methods/id/edit"}

\* A page without a form has none, and a page with a form is not on its way to itself.
FormInv ==
    /\ NextShape
    /\ page.path \notin FormPaths => form = NULL
    /\ next # NULL => next.to # page \/ next.to.path \notin FormPaths

\* The page that is on its way is the one that was, or one without a form.
NextKeeps ==
    next' # NULL =>
        /\ next' = [to |-> next'.to, rendered |-> next'.rendered, data |-> next'.data]
        /\ \/ next # NULL /\ next'.to = next.to
           \/ next'.to.path \notin FormPaths

LEMMA NoFormWithoutPath ==
    ASSUME NEW p, p.path \notin FormPaths, NEW contents
    PROVE  InitialForm(p, contents) = NULL /\ \A row : Loaded(p, row) = NULL
<1>1. EmptyForm(p) = NULL /\ \A row : Loaded(p, row) = NULL
    BY DEF EmptyForm, Loaded, FormPaths
<1>2. {Loaded(p, contents[k]) : k \in Rows(p) \cap DOMAIN contents} \ {NULL} = {}
    BY <1>1
<1> QED BY <1>1, <1>2 DEF InitialForm

LEMMA PagesWithoutForm ==
    /\ Subscriptions.path \notin FormPaths /\ PaymentMethods.path \notin FormPaths
    /\ Login.path \notin FormPaths /\ NotFound.path \notin FormPaths
    /\ \A s : Subscription(s).path \notin FormPaths
BY DEF Subscriptions, Subscription, PaymentMethods, Login, NotFound, FormPaths

LEMMA FormsHavePath ==
    \A p \in SubscriptionForms \cup PaymentMethodForms : p.path \in FormPaths
BY DEF SubscriptionForms, PaymentMethodForms, NewSubscription, EditSubscription,
       NewPaymentMethod, EditPaymentMethod, FormPaths

LEMMA FormInvKept ==
    ASSUME FormInv, UNCHANGED page, NextKeeps,
           form' = form \/ page.path \in FormPaths
    PROVE  FormInv'
BY DEF FormInv, NextShape, NextKeeps

LEMMA PushKeeps ==
    ASSUME NEW p, Push(p), p.path \notin FormPaths
    PROVE  NextKeeps
BY DEF Push, Asking, NextKeeps

LEMMA StayingKeeps == FormInv /\ UNCHANGED next => NextKeeps
BY DEF FormInv, NextShape, NextKeeps

LEMMA RenderKeeps ==
    ASSUME Render
    PROVE  NextKeeps /\ UNCHANGED <<page, form>>
<1> SUFFICES NextKeeps
    BY DEF Render
<1>1. ASSUME NEW p, NEW data, Rendered(p, data), p = next.to \/ p.path \notin FormPaths
      PROVE  NextKeeps
    BY <1>1 DEF Rendered, NextKeeps, Render
<1>2. CASE Redirect
    BY <1>1, <1>2, PushKeeps, PagesWithoutForm DEF Redirect
<1>3. CASE RenderUnchecked
    BY <1>1, <1>3 DEF RenderUnchecked
<1>4. CASE RenderRow
    BY <1>1, <1>4, PagesWithoutForm DEF RenderRow
<1>5. CASE RenderList
    BY <1>1, <1>5 DEF RenderList
<1>6. CASE Rendered(Login, NotRendered)
    BY <1>1, <1>6, PagesWithoutForm
<1> QED BY <1>2, <1>3, <1>4, <1>5, <1>6 DEF Render, RenderPage

LEMMA ArriveKeepsForm ==
    ASSUME FormInv, Arrive
    PROVE  FormInv' /\ (page' = page => form' = form)
<1>1. next # NULL /\ page' = next.to /\ next' = NULL /\ form' = InitialForm(next.to, cache')
    BY DEF Arrive
<1>2. page'.path \notin FormPaths => form' = NULL
    BY <1>1, NoFormWithoutPath
<1>3. page' = page => page.path \notin FormPaths
    BY <1>1 DEF FormInv
<1> QED BY <1>1, <1>2, <1>3 DEF FormInv, NextShape

\* Of a row that is current the answer on its way is current too: it brings no news.
LEMMA ReceiveKeepsForm ==
    ASSUME FormInv, CacheInv, NEW k, Receive(k)
    PROVE  /\ FormInv'
           /\ form' # form =>
                k \in Rows(page) /\ ~(k \in current /\ HasData(k) /\ cache[k] = Current(k))
<1>1. /\ UNCHANGED page
      /\ form' = IF /\ k \in Rows(page)
                    /\ HasData(k) => cache[k] # answers[k]
                    /\ Loaded(page, answers[k]) # NULL
                 THEN Loaded(page, answers[k]) ELSE form
    BY DEF Receive
<1>2. k \in current => answers[k] = Current(k)
    BY DEF Receive, Store, CacheInv, ComesCurrent
<1>3. page.path \notin FormPaths => form' = form
    BY <1>1, NoFormWithoutPath
<1>4. next' # NULL => /\ next # NULL
                      /\ next' = [to |-> next.to, rendered |-> next.rendered,
                                  data |-> Forget(next.data, k)]
    BY DEF Receive, Outdated, FormInv, NextShape
<1>5. NextKeeps
    BY <1>4 DEF NextKeeps
<1> QED BY <1>1, <1>2, <1>3, <1>5, FormInvKept

\* What the user does on a page.
LEMMA UseKeepsForm ==
    ASSUME FormInv, Use
    PROVE  FormInv' /\ UNCHANGED client
<1>1. UNCHANGED <<client, page, next>>
    BY DEF Use, RequestDeletion, CancelDeletion, UseForm, ChangeSubscriptionForm,
           SubmitSubscriptionForm, ChangePaymentMethodForm, SubmitPaymentMethodForm,
           ConfirmSubscriptionDeletion, ConfirmPaymentMethodDeletion, screen
<1>2. form' = form \/ page \in SubscriptionForms \cup PaymentMethodForms
    BY DEF Use, RequestDeletion, CancelDeletion, UseForm, ChangeSubscriptionForm,
           SubmitSubscriptionForm, ChangePaymentMethodForm, SubmitPaymentMethodForm,
           ConfirmSubscriptionDeletion, ConfirmPaymentMethodDeletion, screen
<1> QED BY <1>1, <1>2, FormsHavePath, StayingKeeps, FormInvKept

\* A mutation that succeeds leads to a page without a form.
LEMMA SucceedKeeps ==
    ASSUME FormInv, NEW m, Succeed(m)
    PROVE  NextKeeps
<1>1. \/ UNCHANGED next \/ Push(Subscription(m.call.id)) \/ Push(Subscriptions)
      \/ Push(PaymentMethods)
    BY DEF Succeed, SubscriptionMutationSucceeds, PaymentMethodMutationSucceeds,
           AfterSubscriptionMutation, AfterPaymentMethodMutation
<1> QED BY <1>1, StayingKeeps, PushKeeps, PagesWithoutForm

LEMMA NavigateKeepsForm ==
    ASSUME FormInv, Navigate
    PROVE  FormInv' /\ UNCHANGED form
<1>1. PICK p : p # page /\ Push(p) /\ UNCHANGED <<page, form>>
    BY DEF Navigate, Go
<1> QED BY <1>1 DEF FormInv, NextShape, Push, Asking

LEMMA SignInKeepsForm ==
    ASSUME FormInv, SignIn
    PROVE  FormInv' /\ page' # page
<1>1. page = Login /\ page' = Blank /\ form' = NULL /\ next' = Asking(Subscriptions)
    BY DEF SignIn, Push
<1>2. Login.path # Blank.path
    BY DEF Login, Blank
<1> QED BY <1>1, <1>2, PagesWithoutForm DEF FormInv, NextShape, Asking

\* The steps in which the form and the page stay, whatever page is asked for.
FormStays ==
    \/ Render \/ SessionCheckFails \/ RefreshDone \/ Pull \/ OtherDevice \/ Expire
    \/ \E k \in Keys : Answer(k) \/ AnswerNothing(k) \/ FetchFails(k) \/ CollectUnused(k)
                        \/ TurnQueryAway(k)
    \/ \E m \in mutations : MutationFails(m) \/ TurnMutationAway(m) \/ AcceptMutation(m)
                            \/ Succeed(m)

LEMMA FormStaysKeeps ==
    ASSUME FormInv, FormStays
    PROVE  FormInv' /\ UNCHANGED form
<1>1. CASE Render \/ SessionCheckFails
    <2>1. CASE SessionCheckFails
        <3>1. UNCHANGED <<page, form>> /\ (Push(Login) \/ Rendered(Login, NotRendered))
            BY <2>1 DEF SessionCheckFails
        <3>2. NextKeeps
            BY <3>1, PagesWithoutForm, PushKeeps DEF Rendered, NextKeeps
        <3> QED BY <3>1, <3>2, FormInvKept
    <2> QED BY <1>1, <2>1, RenderKeeps, FormInvKept
<1>2. CASE \/ RefreshDone \/ Pull \/ OtherDevice \/ Expire
           \/ \E k \in Keys : Answer(k) \/ AnswerNothing(k) \/ FetchFails(k) \/ CollectUnused(k)
           \/ \E m \in mutations : MutationFails(m) \/ AcceptMutation(m)
    <2>1. UNCHANGED <<page, next, form>>
        BY <1>2 DEF RefreshDone, Pull, OtherDevice, Expire, Answer, AnswerNothing, FetchFails,
                    CollectUnused, MutationFails, AcceptMutation, screen
    <2> QED BY <2>1, StayingKeeps, FormInvKept
<1>3. CASE \/ \E k \in Keys : TurnQueryAway(k)
           \/ \E m \in mutations : TurnMutationAway(m)
    <2>1. Push(Login) /\ UNCHANGED <<page, form>>
        BY <1>3 DEF TurnQueryAway, TurnMutationAway
    <2> QED BY <2>1, PagesWithoutForm, PushKeeps, FormInvKept
<1>4. ASSUME NEW m \in mutations, Succeed(m)
      PROVE  FormInv' /\ UNCHANGED form
    <2>1. UNCHANGED <<page, form>>
        BY <1>4 DEF Succeed
    <2> QED BY <1>4, <2>1, SucceedKeeps, FormInvKept
<1> QED BY <1>1, <1>2, <1>3, <1>4 DEF FormStays

InputStep ==
    page' = page /\ form' # form /\ client' # client =>
        \E k \in Rows(page) : ~(k \in current /\ HasData(k) /\ cache[k] = Current(k))

LEMMA NextFormInv == FormInv /\ CacheInv /\ [Next]_vars => FormInv' /\ InputStep
<1> SUFFICES ASSUME FormInv, CacheInv, [Next]_vars
             PROVE  FormInv' /\ InputStep
    OBVIOUS
<1>1. CASE FormStays
    BY <1>1, FormStaysKeeps DEF InputStep
<1>2. CASE Navigate
    BY <1>2, NavigateKeepsForm DEF InputStep
<1>3. CASE SignIn
    BY <1>3, SignInKeepsForm DEF InputStep
<1>4. CASE Arrive
    BY <1>4, ArriveKeepsForm DEF InputStep
<1>5. CASE Use
    BY <1>5, UseKeepsForm DEF InputStep
<1>6. ASSUME NEW k \in Keys, Receive(k)
      PROVE  FormInv' /\ InputStep
    BY <1>6, ReceiveKeepsForm DEF InputStep
<1>7. CASE UNCHANGED vars
    BY <1>7, StayingKeeps, FormInvKept DEF vars, client, InputStep
<1> QED BY <1>1, <1>2, <1>3, <1>4, <1>5, <1>6, <1>7
        DEF Next, Turns, SessionUnknown, Proceed, ShowPage, ServeQueries, ServeMutations,
            FormStays

\* While the cache has the row that a form edits as the server does, and has had it from
\* a fetch or a page since which nothing has changed, no answer replaces what the user has
\* typed: every one that can still come is the same row.
THEOREM InputIsKept == Spec => InputSurvives
<1>1. Init => FormInv
    <2>1. Blank.path \notin FormPaths
        BY DEF Blank, FormPaths
    <2>2. Init => \E p : next = Asking(p) /\ page = Blank /\ form = NULL
        BY DEF Init
    <2> QED BY <2>1, <2>2 DEF FormInv, NextShape, Asking
<1>2. FormInv /\ CacheInv /\ [Next]_vars => [InputStep]_vars
    BY NextFormInv
<1> QED BY <1>1, <1>2, InitCacheInv, NextCacheInv, NextFormInv, PTL
        DEF Spec, InputSurvives, InputStep

-----------------------------------------------------------------------------
(***************************************************************************)
(* Where a mutation leads.                                                  *)
(***************************************************************************)

\* A mutation whose component is mounted was sent from the page that is shown.
MutationInv ==
    \A m \in mutations : m.mine => SentFrom(m.call, page)

LEMMA SendKeeps ==
    ASSUME MutationInv, UNCHANGED page, NEW c, Send(c), SentFrom(c, page)
    PROVE  MutationInv'
<1>1. mutations' = mutations \cup {[call |-> c, mine |-> TRUE, done |-> FALSE]}
    BY DEF Send
<1>2. \A d : SentFrom(d, page)' <=> SentFrom(d, page)
    BY DEF SentFrom
<1> QED BY <1>1, <1>2 DEF MutationInv

LEMMA FewerMutations ==
    ASSUME MutationInv, UNCHANGED page, mutations' \subseteq mutations
    PROVE  MutationInv'
<1>1. \A d : SentFrom(d, page)' <=> SentFrom(d, page)
    BY DEF SentFrom
<1> QED BY <1>1 DEF MutationInv

LEMMA UseSends ==
    ASSUME MutationInv, Use
    PROVE  MutationInv'
<1>1. CASE \/ RequestDeletion \/ CancelDeletion
           \/ UseForm /\ (ChangeSubscriptionForm \/ ChangePaymentMethodForm)
    <2>1. UNCHANGED <<page, mutations>>
        BY <1>1 DEF RequestDeletion, CancelDeletion, ChangeSubscriptionForm,
                    ChangePaymentMethodForm
    <2> QED BY <2>1, FewerMutations
<1>2. CASE SubmitSubscriptionForm
    <2>1. Send(SubscriptionRequest) /\ UNCHANGED page
        BY <1>2 DEF SubmitSubscriptionForm, screen
    <2>2. SentFrom(SubscriptionRequest, page)
        BY <1>2 DEF SubmitSubscriptionForm, SubscriptionRequest, SubscriptionForms,
                    NewSubscription, EditSubscription, SentFrom
    <2> QED BY <2>1, <2>2, SendKeeps
<1>3. CASE SubmitPaymentMethodForm
    <2>1. Send(PaymentMethodRequest) /\ UNCHANGED page
        BY <1>3 DEF SubmitPaymentMethodForm, screen
    <2>2. SentFrom(PaymentMethodRequest, page)
        BY <1>3 DEF SubmitPaymentMethodForm, PaymentMethodRequest, PaymentMethodForms,
                    NewPaymentMethod, EditPaymentMethod, SentFrom
    <2> QED BY <2>1, <2>2, SendKeeps
<1>4. CASE ConfirmSubscriptionDeletion
    BY <1>4, SendKeeps DEF ConfirmSubscriptionDeletion, SentFrom, screen
<1>5. CASE ConfirmPaymentMethodDeletion
    BY <1>5, SendKeeps DEF ConfirmPaymentMethodDeletion, SentFrom, screen
<1> QED BY <1>1, <1>2, <1>3, <1>4, <1>5 DEF Use, UseForm

LEMMA AcceptKeeps ==
    ASSUME MutationInv, NEW m \in mutations, AcceptMutation(m)
    PROVE  MutationInv'
<1>1. /\ mutations' = (mutations \ {m})
                        \cup {[call |-> m.call, mine |-> m.mine, done |-> TRUE]}
      /\ UNCHANGED page
    BY DEF AcceptMutation, Accept, screen
<1>2. \A d : SentFrom(d, page)' <=> SentFrom(d, page)
    BY <1>1 DEF SentFrom
<1> QED BY <1>1, <1>2 DEF MutationInv

\* What is still under way when the page changes is nobody's on the new one.
LEMMA ArriveOrphans ==
    ASSUME MutationInv, Arrive
    PROVE  MutationInv'
<1>1. mutations' = {[call |-> m.call, mine |-> FALSE, done |-> m.done] : m \in mutations}
    BY DEF Arrive, Orphaned
<1> QED BY <1>1 DEF MutationInv

LEMMA NextMutationInv == MutationInv /\ [Next]_vars => MutationInv'
<1> SUFFICES ASSUME MutationInv, [Next]_vars
             PROVE  MutationInv'
    OBVIOUS
<1>1. CASE \/ Navigate \/ Pull \/ OtherDevice \/ Expire \/ Render \/ RefreshDone
           \/ SessionCheckFails
           \/ \E k \in Keys : AnswerNothing(k) \/ FetchFails(k) \/ CollectUnused(k)
                               \/ Answer(k) \/ Receive(k) \/ TurnQueryAway(k)
    <2>1. UNCHANGED <<page, mutations>>
        BY <1>1 DEF Navigate, Go, Pull, OtherDevice, Expire, Render, RefreshDone,
                    SessionCheckFails, AnswerNothing, FetchFails, CollectUnused, Answer, Receive, TurnQueryAway, screen
    <2> QED BY <2>1, FewerMutations
<1>2. ASSUME NEW m \in mutations, MutationFails(m) \/ Succeed(m) \/ TurnMutationAway(m)
      PROVE  MutationInv'
    <2>1. UNCHANGED page /\ mutations' \subseteq mutations
        BY <1>2 DEF MutationFails, Succeed, TurnMutationAway, screen
    <2> QED BY <2>1, FewerMutations
<1>3. CASE SignIn
    BY <1>3 DEF SignIn, MutationInv
<1>4. CASE Arrive
    BY <1>4, ArriveOrphans
<1>5. CASE Use
    BY <1>5, UseSends
<1>6. ASSUME NEW m \in mutations, AcceptMutation(m)
      PROVE  MutationInv'
    BY <1>6, AcceptKeeps
<1>7. CASE UNCHANGED vars
    BY <1>7, FewerMutations DEF vars
<1> QED BY <1>1, <1>2, <1>3, <1>4, <1>5, <1>6, <1>7
        DEF Next, Turns, SessionUnknown, Proceed, ShowPage, ServeQueries, ServeMutations

LeadsStep ==
    \A m \in mutations : Succeed(m) => UNCHANGED <<next, dialog>> \/ SentFrom(m.call, page)

\* The success of a mutation moves the tab, or closes its dialog, only while the page it
\* was sent from is on the screen.
THEOREM SuccessLeadsFromItsForm == Spec => LeadsAwayFromItsFormOnly
<1>1. Init => MutationInv
    BY DEF Init, MutationInv
<1>2. MutationInv => LeadsStep
    BY DEF MutationInv, LeadsStep, Succeed, SubscriptionMutationSucceeds,
           PaymentMethodMutationSucceeds
<1>3. MutationInv /\ [Next]_vars => [LeadsStep]_vars
    BY <1>2
<1> QED BY <1>1, <1>3, NextMutationInv, PTL DEF Spec, LeadsAwayFromItsFormOnly, LeadsStep
=============================================================================
