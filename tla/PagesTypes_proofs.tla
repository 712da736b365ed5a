------------------------- MODULE PagesTypes_proofs -------------------------
(***************************************************************************)
(* Proofs about Pages: the tables, as the calls of the API leave them, and     *)
(* the types of what the tab keeps.                                          *)
(***************************************************************************)
EXTENDS Pages, FiniteSetTheorems, TLAPS

\* What the calls of the API keep of the tables.
TablesInv == TablesTypeOK /\ PaymentMethodIntegrity /\ FreshIdsUnused

LEMMA CallFields ==
    ASSUME NEW c \in Calls
    PROVE  /\ c.user = Me /\ c.user \in UserIds
           /\ c.op \in {"CreateSubscription", "UpdateSubscription", "DeleteSubscription",
                        "CreatePaymentMethod", "UpdatePaymentMethod", "DeletePaymentMethods"}
           /\ c.op = "CreateSubscription" =>
                c.plan \in Plans /\ c.paymentMethod \in PaymentMethodIds \cup {NULL}
           /\ c.op \in {"UpdateSubscription", "DeleteSubscription"} => c.id \in SubscriptionIds
           /\ c.op = "CreatePaymentMethod" => c.name \in Names
           /\ c.op = "UpdatePaymentMethod" => c.id \in PaymentMethodIds /\ c.name \in Names
BY MeAssumption
DEF Calls, API!CreateSubscriptionCalls, API!UpdateSubscriptionCalls,
    API!DeleteSubscriptionCalls, API!CreatePaymentMethodCalls, API!UpdatePaymentMethodCalls,
    API!DeletePaymentMethodsCalls

\* The kinds of effect, by the statement that has it.
Effects(c) ==
    \/ /\ c.op = "CreateSubscription" /\ API!Referable(c.paymentMethod, Me)
       /\ InsertSubscriptionRow([user |-> Me, plan |-> c.plan, paymentMethod |-> c.paymentMethod])
    \/ /\ c.op = "UpdateSubscription" /\ OwnSubscription(c.id, Me)
       /\ \E new \in SubscriptionRow :
            /\ API!Referable(new.paymentMethod, new.user)
            /\ SetSubscriptionRow(c.id, new)
    \/ /\ c.op = "CreatePaymentMethod"
       /\ InsertPaymentMethodRow([user |-> Me, name |-> c.name])
    \/ /\ c.op = "UpdatePaymentMethod" /\ OwnPaymentMethod(c.id, Me)
       /\ SetPaymentMethodName(c.id, c.name)
    \/ \E ids : /\ c.op \in {"DeleteSubscription", "DeletePaymentMethods"}
                /\ ids \cap PaymentMethodIds = {} \/ ~Used(ids)
                /\ RemoveRows(ids)

LEMMA EffectsOfCalls ==
    ASSUME NEW c \in Calls, API!Effect(c)
    PROVE  Effects(c)
<1>1. c.user = Me
    BY CallFields
<1>2. CASE c.op = "CreateSubscription"
    BY <1>1, <1>2 DEF API!Effect, API!InsertSubscriptionRow, API!NewRow, InsertSubscriptionRow,
                      Effects
<1>3. CASE c.op = "UpdateSubscription"
    BY <1>1, <1>3 DEF API!Effect, API!OwnSubscription, OwnSubscription, API!Patched, API!SetSubscriptionRow, SetSubscriptionRow,
                API!SubscriptionRow, SubscriptionRow, Effects
<1>4. CASE c.op = "CreatePaymentMethod"
    BY <1>1, <1>4 DEF API!Effect, API!InsertPaymentMethodRow, InsertPaymentMethodRow, Effects
<1>5. CASE c.op = "UpdatePaymentMethod"
    BY <1>1, <1>5 DEF API!Effect, API!OwnPaymentMethod, API!SetPaymentMethodName,
                      OwnPaymentMethod, SetPaymentMethodName, Effects
<1>6. CASE c.op = "DeleteSubscription"
    <2>1. API!RemoveRows(API!Targets(c))
        BY <1>6 DEF API!Effect
    <2>2. API!Targets(c) \subseteq SubscriptionIds
        BY <1>6 DEF API!Targets, API!OwnSubscriptions
    <2>3. API!Targets(c) \cap PaymentMethodIds = {}
        BY <2>2, IdsAssumption
    <2> QED BY <1>6, <2>1, <2>3 DEF API!RemoveRows, API!Without, RemoveRows, Without, Effects
<1>7. CASE c.op = "DeletePaymentMethods"
    <2>1. ~API!Used(API!Targets(c)) /\ API!RemoveRows(API!Targets(c))
        BY <1>7 DEF API!Effect
    <2>2. ~Used(API!Targets(c))
        BY <2>1 DEF API!Used, API!Usage, Used, Usage
    <2>3. RemoveRows(API!Targets(c))
        BY <2>1 DEF API!RemoveRows, API!Without, RemoveRows, Without
    <2> QED BY <1>7, <2>2, <2>3 DEF Effects
<1> QED BY <1>2, <1>3, <1>4, <1>5, <1>6, <1>7, CallFields

LEMMA EffectsKeepTables ==
    ASSUME TablesInv, NEW c \in Calls, Effects(c)
    PROVE  TablesInv'
<1> USE DEF TablesInv, TablesTypeOK
<1>1. ASSUME c.op = "CreateSubscription", API!Referable(c.paymentMethod, Me),
             InsertSubscriptionRow([user |-> Me, plan |-> c.plan,
                                    paymentMethod |-> c.paymentMethod])
      PROVE  TablesInv'
    <2> DEFINE row == [user |-> Me, plan |-> c.plan, paymentMethod |-> c.paymentMethod]
    <2>1. row \in SubscriptionRow /\ row.user = Me /\ row.paymentMethod = c.paymentMethod
        BY <1>1, CallFields, MeAssumption DEF SubscriptionRow
    <2>2. PICK s \in SubscriptionIds \cap fresh :
            /\ subscriptions' = [subscriptions EXCEPT ![s] = row]
            /\ fresh' = fresh \ {s}
            /\ UNCHANGED <<users, paymentMethods>>
        BY <1>1 DEF InsertSubscriptionRow
    <2>3. row.paymentMethod # NULL =>
            /\ paymentMethods[row.paymentMethod] # NULL
            /\ paymentMethods[row.paymentMethod].user = row.user
        BY <1>1, <2>1 DEF API!Referable, API!OwnPaymentMethod
    <2> HIDE DEF row
    <2>4. TablesTypeOK'
        BY <2>1, <2>2
    <2>5. PaymentMethodIntegrity'
        BY <2>2, <2>3 DEF PaymentMethodIntegrity, OwnPaymentMethod
    <2>6. FreshIdsUnused'
        BY <2>2 DEF FreshIdsUnused
    <2> QED BY <2>4, <2>5, <2>6
<1>2. ASSUME c.op = "UpdateSubscription", NEW new \in SubscriptionRow,
             API!Referable(new.paymentMethod, new.user), SetSubscriptionRow(c.id, new),
             OwnSubscription(c.id, Me)
      PROVE  TablesInv'
    <2>1. c.id \in SubscriptionIds /\ subscriptions[c.id] # NULL
        BY <1>2, CallFields DEF OwnSubscription
    <2>2. TablesTypeOK'
        BY <1>2, <2>1 DEF SetSubscriptionRow
    <2>3. PaymentMethodIntegrity'
        BY <1>2, <2>1
           DEF SetSubscriptionRow, PaymentMethodIntegrity, OwnPaymentMethod, API!Referable,
               API!OwnPaymentMethod
    <2>4. FreshIdsUnused'
        BY <1>2, <2>1 DEF SetSubscriptionRow, FreshIdsUnused
    <2> QED BY <2>2, <2>3, <2>4
<1>3. ASSUME c.op = "CreatePaymentMethod",
             InsertPaymentMethodRow([user |-> Me, name |-> c.name])
      PROVE  TablesInv'
    <2> DEFINE row == [user |-> Me, name |-> c.name]
    <2>1. row \in PaymentMethodRow
        BY <1>3, CallFields, MeAssumption DEF PaymentMethodRow
    <2>2. PICK p \in PaymentMethodIds \cap fresh :
            /\ paymentMethods' = [paymentMethods EXCEPT ![p] = row]
            /\ fresh' = fresh \ {p}
            /\ UNCHANGED <<users, subscriptions>>
        BY <1>3 DEF InsertPaymentMethodRow
    <2> HIDE DEF row
    <2>3. TablesTypeOK'
        BY <2>1, <2>2
    <2>4. paymentMethods[p] = NULL
        BY <2>2 DEF FreshIdsUnused
    <2>5. PaymentMethodIntegrity'
        BY <2>2, <2>4 DEF PaymentMethodIntegrity, OwnPaymentMethod
    <2>6. FreshIdsUnused'
        BY <2>2 DEF FreshIdsUnused
    <2> QED BY <2>3, <2>5, <2>6
<1>4. ASSUME c.op = "UpdatePaymentMethod", OwnPaymentMethod(c.id, Me),
             SetPaymentMethodName(c.id, c.name)
      PROVE  TablesInv'
    <2>1. c.id \in PaymentMethodIds /\ c.name \in Names /\ paymentMethods[c.id] \in PaymentMethodRow
        BY <1>4, CallFields DEF OwnPaymentMethod
    <2>2. /\ paymentMethods' = [paymentMethods EXCEPT ![c.id].name = c.name]
          /\ UNCHANGED <<users, subscriptions, fresh>>
        BY <1>4 DEF SetPaymentMethodName
    <2>3. /\ paymentMethods'[c.id] \in PaymentMethodRow
          /\ paymentMethods'[c.id].user = paymentMethods[c.id].user
          /\ \A p \in PaymentMethodIds \ {c.id} : paymentMethods'[p] = paymentMethods[p]
          /\ paymentMethods' \in [PaymentMethodIds -> PaymentMethodRow \cup {NULL}]
        BY <2>1, <2>2 DEF PaymentMethodRow
    <2>4. \A p \in PaymentMethodIds :
            /\ paymentMethods'[p] = NULL <=> paymentMethods[p] = NULL
            /\ paymentMethods[p] # NULL => paymentMethods'[p].user = paymentMethods[p].user
        BY <1>4, <2>1, <2>3, NullAssumption DEF OwnPaymentMethod
    <2>5. TablesTypeOK'
        BY <2>2, <2>3
    <2>6. PaymentMethodIntegrity' /\ FreshIdsUnused'
        BY <2>2, <2>4 DEF PaymentMethodIntegrity, OwnPaymentMethod, FreshIdsUnused,
                          SubscriptionRow
    <2> QED BY <2>5, <2>6
<1>5. ASSUME NEW ids, ids \cap PaymentMethodIds = {} \/ ~Used(ids), RemoveRows(ids)
      PROVE  TablesInv'
    <2>1. TablesTypeOK'
        BY <1>5 DEF RemoveRows, Without
    <2>2. PaymentMethodIntegrity'
        BY <1>5 DEF RemoveRows, Without, PaymentMethodIntegrity, OwnPaymentMethod, Used, Usage,
                    SubscriptionRow
    <2>3. FreshIdsUnused'
        BY <1>5 DEF RemoveRows, Without, FreshIdsUnused
    <2> QED BY <2>1, <2>2, <2>3
<1> QED BY <1>1, <1>2, <1>3, <1>4, <1>5 DEF Effects

-----------------------------------------------------------------------------
(***************************************************************************)
(* Keys, and what can be cached under one.                                  *)
(***************************************************************************)

IsContents(k, data) ==
    IF k = SubscriptionList THEN DOMAIN data \subseteq SubscriptionIds
    ELSE IF k = PaymentMethodList THEN DOMAIN data \subseteq PaymentMethodIds
    ELSE IF k[1] = "subscriptions"
    THEN data # NULL =>
            data.plan \in Plans /\ data.paymentMethod \in PaymentMethodIds \cup {NULL}
    ELSE data # NULL => data.name \in Names

Contents(f) == \A k \in DOMAIN f : k \in Keys /\ IsContents(k, f[k])

LEMMA KeyFacts ==
    /\ SubscriptionList # PaymentMethodList
    /\ \A s :
           /\ SubscriptionDetail(s) \notin ListKeys
           /\ PaymentMethodDetail(s) \notin ListKeys
           /\ SubscriptionDetail(s)[1] = "subscriptions"
           /\ PaymentMethodDetail(s)[1] # "subscriptions"
           /\ SubscriptionDetail(s)[3] = s
           /\ PaymentMethodDetail(s)[3] = s
BY DEF ListKeys, SubscriptionDetail, PaymentMethodDetail, SubscriptionList, PaymentMethodList

LEMMA CurrentIsContents ==
    ASSUME TablesInv, NEW k \in Keys
    PROVE  IsContents(k, Current(k))
<1> USE DEF TablesInv, TablesTypeOK
<1>1. CASE k = SubscriptionList
    BY <1>1 DEF IsContents, Current, CurrentSubscriptions, OwnSubscriptions
<1>2. CASE k = PaymentMethodList
    BY <1>2, KeyFacts DEF IsContents, Current, CurrentPaymentMethods, OwnPaymentMethods
<1>3. ASSUME NEW s \in SubscriptionIds, k = SubscriptionDetail(s)
      PROVE  IsContents(k, Current(k))
    <2>1. k \notin ListKeys /\ k[1] = "subscriptions" /\ k[3] = s
        BY <1>3, KeyFacts
    <2>2. Current(k) = IF OwnSubscription(s, Me) THEN SubscriptionResponse(s) ELSE NULL
        BY <2>1 DEF Current, CurrentSubscription, ListKeys
    <2>3. OwnSubscription(s, Me) =>
            /\ SubscriptionResponse(s).plan \in Plans
            /\ SubscriptionResponse(s).paymentMethod \in PaymentMethodIds \cup {NULL}
        BY DEF OwnSubscription, SubscriptionResponse, SubscriptionRow
    <2> QED BY <2>1, <2>2, <2>3 DEF IsContents, ListKeys
<1>4. ASSUME NEW p \in PaymentMethodIds, k = PaymentMethodDetail(p)
      PROVE  IsContents(k, Current(k))
    <2>1. k \notin ListKeys /\ k[1] # "subscriptions" /\ k[3] = p
        BY <1>4, KeyFacts
    <2>2. Current(k) = IF OwnPaymentMethod(p, Me) THEN PaymentMethodResponse(p) ELSE NULL
        BY <2>1 DEF Current, CurrentPaymentMethod, ListKeys
    <2>3. OwnPaymentMethod(p, Me) => PaymentMethodResponse(p).name \in Names
        BY DEF OwnPaymentMethod, PaymentMethodResponse, PaymentMethodRow
    <2> QED BY <2>1, <2>2, <2>3 DEF IsContents, ListKeys
<1> QED BY <1>1, <1>2, <1>3, <1>4 DEF Keys, ListKeys, DetailKeys

LEMMA AnswersAreContents ==
    ASSUME TablesInv, NEW k \in Keys, NEW answer \in Answers(k)
    PROVE  IsContents(k, answer)
<1>1. k \in DetailKeys => IsContents(k, NULL)
    BY KeyFacts DEF IsContents, DetailKeys, ListKeys
<1> QED BY <1>1, CurrentIsContents DEF Answers

LEMMA ContentsOver ==
    ASSUME NEW f, NEW g, Contents(f), Contents(g)
    PROVE  Contents(Over(f, g))
BY DEF Contents, Over

LEMMA ContentsOnly ==
    ASSUME NEW k \in Keys, NEW data, IsContents(k, data)
    PROVE  Contents(Only(k, data))
BY DEF Contents, Only

LEMMA ContentsPart ==
    ASSUME NEW f, Contents(f), NEW keys \in SUBSET DOMAIN f
    PROVE  Contents([k \in keys |-> f[k]])
BY DEF Contents

LEMMA NoDomain == DOMAIN <<>> = {}
OBVIOUS

LEMMA NoContents == Contents(<<>>)
BY DEF Contents

LEMMA ListedRows ==
    ASSUME Contents(cache)
    PROVE  /\ DOMAIN Data(SubscriptionList) \subseteq SubscriptionIds
           /\ DOMAIN Data(PaymentMethodList) \subseteq PaymentMethodIds
BY KeyFacts, NoDomain DEF Contents, IsContents, Data, HasData

-----------------------------------------------------------------------------
(***************************************************************************)
(* Pages, and what their forms contain.                                     *)
(***************************************************************************)

LEMMA UsesAreKeys ==
    ASSUME NEW p \in Pages
    PROVE  Uses(p) \subseteq Keys /\ Rows(p) \subseteq DetailKeys /\ Prefetches(p) \subseteq Keys
<1>1. p.path \in {"subscriptions/id", "subscriptions/id/edit"} => p.id \in SubscriptionIds
    BY DEF Pages, AppPages, Subscriptions, NewSubscription, Subscription, EditSubscription,
           PaymentMethods, NewPaymentMethod, EditPaymentMethod, Settings, Login, NotFound, Blank
<1>2. p.path = "payment-methods/id/edit" => p.id \in PaymentMethodIds
    BY DEF Pages, AppPages, Subscriptions, NewSubscription, Subscription, EditSubscription,
           PaymentMethods, NewPaymentMethod, EditPaymentMethod, Settings, Login, NotFound, Blank
<1>3. Rows(p) \subseteq DetailKeys
    BY <1>1, <1>2 DEF Rows, SubscriptionOf, PaymentMethodOf, DetailKeys
<1> QED BY <1>3 DEF Uses, SubscriptionListOf, PaymentMethodListOf, Prefetches, Keys, ListKeys

SubscriptionFormType == [plan : Plans \cup {NULL}, paymentMethod : PaymentMethodIds \cup {NULL}]
PaymentMethodFormType == [name : Names \cup {NULL}]

FormOf(p, contents) ==
    /\ contents \in {NULL} \cup SubscriptionFormType \cup PaymentMethodFormType
    /\ p.path \in {"subscriptions/new", "subscriptions/id/edit"} =>
            contents \in SubscriptionFormType
    /\ p.path \in {"payment-methods/new", "payment-methods/id/edit"} =>
            contents \in PaymentMethodFormType

LEMMA FormsOfPages ==
    /\ \A p \in SubscriptionForms : p.path \in {"subscriptions/new", "subscriptions/id/edit"}
    /\ \A p \in PaymentMethodForms :
            p.path \in {"payment-methods/new", "payment-methods/id/edit"}
BY DEF SubscriptionForms, PaymentMethodForms, NewSubscription, EditSubscription,
       NewPaymentMethod, EditPaymentMethod

\* The form of a row.
LEMMA LoadedForm ==
    ASSUME NEW p, NEW k \in Rows(p), NEW data, IsContents(k, data), Loaded(p, data) # NULL
    PROVE  FormOf(p, Loaded(p, data))
<1>1. CASE p.path = "subscriptions/id/edit"
    <2>1. k = SubscriptionDetail(p.id)
        BY <1>1 DEF Rows, SubscriptionOf, PaymentMethodOf
    <2>2. k[1] = "subscriptions" /\ k # SubscriptionList /\ k # PaymentMethodList
        BY <2>1, KeyFacts DEF ListKeys
    <2>3. data # NULL
        BY DEF Loaded
    <2>4. data.plan \in Plans /\ data.paymentMethod \in PaymentMethodIds \cup {NULL}
        BY <2>2, <2>3 DEF IsContents
    <2> QED BY <1>1, <2>3, <2>4 DEF Loaded, FormOf, SubscriptionFormType
<1>2. CASE p.path = "payment-methods/id/edit"
    <2>1. k = PaymentMethodDetail(p.id)
        BY <1>2 DEF Rows, SubscriptionOf, PaymentMethodOf
    <2>2. k[1] # "subscriptions" /\ k # SubscriptionList /\ k # PaymentMethodList
        BY <2>1, KeyFacts DEF ListKeys
    <2>3. data # NULL
        BY DEF Loaded
    <2>4. data.name \in Names
        BY <2>2, <2>3 DEF IsContents
    <2> QED BY <1>2, <2>3, <2>4 DEF Loaded, FormOf, PaymentMethodFormType
<1> QED BY <1>1, <1>2 DEF Loaded

LEMMA InitialFormType ==
    ASSUME NEW p, NEW contents, Contents(contents)
    PROVE  FormOf(p, InitialForm(p, contents))
<1> DEFINE rows == {Loaded(p, contents[k]) : k \in Rows(p) \cap DOMAIN contents} \ {NULL}
<1>1. FormOf(p, EmptyForm(p))
    BY DEF EmptyForm, FormOf, SubscriptionFormType, PaymentMethodFormType
<1>2. \A f \in rows : FormOf(p, f)
    <2>1. ASSUME NEW k \in Rows(p) \cap DOMAIN contents, Loaded(p, contents[k]) # NULL
          PROVE  FormOf(p, Loaded(p, contents[k]))
        BY <2>1, LoadedForm DEF Contents
    <2> QED BY <2>1
<1>3. InitialForm(p, contents) = IF rows = {} THEN EmptyForm(p) ELSE CHOOSE f \in rows : TRUE
    BY DEF InitialForm
<1> HIDE DEF rows
<1>4. rows # {} => (CHOOSE f \in rows : TRUE) \in rows
    OBVIOUS
<1> QED BY <1>1, <1>2, <1>3, <1>4

-----------------------------------------------------------------------------
(***************************************************************************)
(* The invariant.                                                           *)
(***************************************************************************)

\* What is kept outside the screen.
StoreInv ==
    /\ TablesInv
    /\ signedIn \in BOOLEAN /\ changes \in 0..MaxChanges /\ turns \in 0..MaxTurns
    /\ version \in [RowIds -> 0..MaxChanges]
    /\ Contents(cache) /\ Contents(answers)
    /\ asked \cup failed \cup current \subseteq Keys
    /\ refresh # NULL => refresh \subseteq Keys

NextOK ==
    next # NULL =>
        /\ next = [to |-> next.to, rendered |-> next.rendered, data |-> next.data]
        /\ next.to \in Pages \ {Blank}
        /\ Contents(next.data)

DialogOK ==
    dialog # NULL =>
        /\ page \in {Subscriptions} \cup SubscriptionDetails => dialog \in SubscriptionIds
        /\ page \notin {Subscriptions} \cup SubscriptionDetails => dialog \in PaymentMethodIds

ScreenInv == page \in Pages /\ NextOK /\ DialogOK /\ FormOf(page, form)

TypeInv == StoreInv /\ ScreenInv /\ mutations \subseteq Mutations

LEMMA TypeInvIsTyped == TypeInv => TypeOK
<1> SUFFICES ASSUME TypeInv
             PROVE  TypeOK
    OBVIOUS
<1>1. form \in Forms
    BY DEF TypeInv, ScreenInv, FormOf, Forms, SubscriptionFormType, PaymentMethodFormType
<1>2. dialog \in {NULL} \cup SubscriptionIds \cup PaymentMethodIds
    BY DEF TypeInv, ScreenInv, DialogOK
<1>3. next # NULL => next.to \in Pages \ {Blank} /\ DOMAIN next.data \subseteq Keys
    BY DEF TypeInv, ScreenInv, NextOK, Contents
<1> QED BY <1>1, <1>2, <1>3
        DEF TypeInv, StoreInv, ScreenInv, TablesInv, Contents, TypeOK

LEMMA AppPagesArePages ==
    AppPages \subseteq Pages \ {Blank} /\ {Login, NotFound} \subseteq Pages \ {Blank}
BY DEF Pages, AppPages, Subscriptions, NewSubscription, Subscription, EditSubscription,
       PaymentMethods, NewPaymentMethod, EditPaymentMethod, Settings, Login, NotFound, Blank

LEMMA InitTypeInv == Init => TypeInv
<1> SUFFICES ASSUME Init
             PROVE  TypeInv
    OBVIOUS
<1>1. TablesTypeOK
    <2>1. [user : {Me}, name : ValidNames] \subseteq PaymentMethodRow
        BY MeAssumption, ValidityAssumption DEF PaymentMethodRow
    <2>2. [user : {Me}, plan : ValidPlans, paymentMethod : PaymentMethodIds \cup {NULL}]
            \subseteq SubscriptionRow
        BY MeAssumption, ValidityAssumption DEF SubscriptionRow
    <2> QED BY <2>1, <2>2, MeAssumption DEF Init, TablesTypeOK, RowIds
<1>2. TablesInv
    <2>1. FreshIdsUnused
        BY IdsAssumption, MeAssumption DEF Init, FreshIdsUnused, RowIds
    <2> QED BY <1>1, <2>1 DEF Init, TablesInv
<1>3. StoreInv
    BY <1>2, NoContents, BoundsAssumption, TurnsAssumption DEF Init, NothingCached, StoreInv
<1>4. page \in Pages /\ FormOf(page, form)
    BY DEF Init, Pages, FormOf, Blank
<1>5. NextOK
    <2>1. PICK p \in AppPages : next = [to |-> p, rendered |-> FALSE, data |-> <<>>]
        BY DEF Init, Asking, NotRendered
    <2> QED BY <2>1, AppPagesArePages, NoContents DEF NextOK
<1> QED BY <1>3, <1>4, <1>5 DEF Init, TypeInv, ScreenInv, DialogOK

-----------------------------------------------------------------------------
LEMMA TablesKept ==
    ASSUME TablesInv, UNCHANGED tables
    PROVE  TablesInv'
BY DEF tables, TablesInv, TablesTypeOK, PaymentMethodIntegrity, FreshIdsUnused,
       OwnPaymentMethod

LEMMA StoreKept ==
    ASSUME StoreInv, UNCHANGED <<tables, version, changes, cache, answers>>,
           turns' \in 0..MaxTurns, signedIn' \in BOOLEAN,
           asked' \cup failed' \cup current' \subseteq Keys,
           refresh' # NULL => refresh' \subseteq Keys
    PROVE  StoreInv'
BY TablesKept DEF StoreInv

LEMMA ScreenKept ==
    ASSUME ScreenInv, UNCHANGED <<page, form>>, dialog' = dialog \/ dialog' = NULL,
           next' = next \/ \E p \in Pages \ {Blank} : Push(p)
    PROVE  ScreenInv'
<1>1. NextOK'
    BY NoContents DEF ScreenInv, NextOK, Push, Asking, NotRendered
<1>2. DialogOK'
    BY DEF ScreenInv, DialogOK
<1> QED BY <1>1, <1>2 DEF ScreenInv

\* What the links of a page lead to, and what its buttons delete.
LEMMA LinksArePages ==
    ASSUME TypeInv
    PROVE  Links \subseteq Pages \ {Blank}
<1>1. /\ \A s \in SubscriptionIds : {Subscription(s), EditSubscription(s)} \subseteq AppPages
      /\ \A p \in PaymentMethodIds : EditPaymentMethod(p) \in AppPages
      /\ {Subscriptions, NewSubscription, PaymentMethods, NewPaymentMethod, Settings}
            \subseteq AppPages
    BY DEF AppPages
<1>2. /\ ListedSubscriptions \subseteq SubscriptionIds
      /\ ListedPaymentMethods \subseteq PaymentMethodIds
    BY ListedRows DEF TypeInv, StoreInv, ListedSubscriptions, ListedPaymentMethods
<1>3. page \in SubscriptionDetails \cup SubscriptionForms /\ page # NewSubscription
        => page.id \in SubscriptionIds
    BY DEF SubscriptionDetails, SubscriptionForms, Subscription, EditSubscription
<1>4. SubscriptionListLinks \subseteq AppPages
    BY <1>1, <1>2 DEF SubscriptionListLinks
<1>5. page \in SubscriptionDetails => SubscriptionDetailLinks \subseteq AppPages
    <2>1. Subscription(page.id) # NewSubscription
        BY DEF Subscription, NewSubscription
    <2>2. page \in SubscriptionDetails => page.id \in SubscriptionIds
        BY DEF SubscriptionDetails, Subscription
    <2> QED BY <1>1, <2>2 DEF SubscriptionDetailLinks
<1>6. page \in SubscriptionForms => SubscriptionFormLinks \subseteq AppPages
    BY <1>1, <1>3 DEF SubscriptionFormLinks
<1>7. PaymentMethodListLinks \cup PaymentMethodFormLinks \subseteq AppPages
    BY <1>1, <1>2 DEF PaymentMethodListLinks, PaymentMethodFormLinks
<1> QED BY <1>1, <1>4, <1>5, <1>6, <1>7, AppPagesArePages DEF Links, Header

LEMMA DeletesAreRows ==
    ASSUME TypeInv
    PROVE  Deletes \subseteq IF page \in {Subscriptions} \cup SubscriptionDetails
                             THEN SubscriptionIds ELSE PaymentMethodIds
<1>1. SubscriptionListDeletes \subseteq SubscriptionIds
    BY ListedRows DEF TypeInv, StoreInv, SubscriptionListDeletes, ListedSubscriptions
<1>2. page \in SubscriptionDetails => SubscriptionDetailDeletes \subseteq SubscriptionIds
    BY DEF SubscriptionDetails, Subscription, SubscriptionDetailDeletes
<1>3. PaymentMethodListDeletes \subseteq PaymentMethodIds
    BY ListedRows DEF TypeInv, StoreInv, PaymentMethodListDeletes, ListedPaymentMethods
<1>4. page \in PaymentMethodForms => PaymentMethodFormDeletes \subseteq PaymentMethodIds
    BY DEF PaymentMethodForms, EditPaymentMethod, PaymentMethodFormDeletes
<1> QED BY <1>1, <1>2, <1>3, <1>4 DEF Deletes

-----------------------------------------------------------------------------
(***************************************************************************)
(* The user.                                                                *)
(***************************************************************************)

\* The user, and what goes with it, leaves the rest as it is.
Untouched == UNCHANGED <<server, client, refresh, current>> /\ turns' \in 0..MaxTurns

LEMMA UntouchedStore ==
    ASSUME StoreInv, Untouched
    PROVE  StoreInv'
BY StoreKept DEF Untouched, server, client, StoreInv

LEMMA NavigateType ==
    ASSUME TypeInv, Navigate, turns' \in 0..MaxTurns
    PROVE  TypeInv'
<1>1. PICK p \in Links : Push(p) /\ UNCHANGED <<server, mutations, client, page, dialog, form>>
    BY DEF Navigate, Go
<1>2. p \in Pages \ {Blank}
    BY LinksArePages
<1>3. ScreenInv'
    BY <1>1, <1>2, ScreenKept DEF TypeInv
<1>4. StoreInv'
    BY <1>1, UntouchedStore DEF TypeInv, Navigate, Untouched
<1> QED BY <1>1, <1>3, <1>4 DEF TypeInv

LEMMA DialogType ==
    ASSUME TypeInv, RequestDeletion \/ CancelDeletion, turns' \in 0..MaxTurns
    PROVE  TypeInv'
<1>1. Untouched /\ UNCHANGED <<mutations, page, next, form>>
    BY DEF RequestDeletion, CancelDeletion, Untouched
<1>2. DialogOK'
    BY <1>1, DeletesAreRows DEF RequestDeletion, CancelDeletion, DialogOK
<1>3. ScreenInv'
    BY <1>1, <1>2 DEF TypeInv, ScreenInv, NextOK
<1> QED BY <1>1, <1>3, UntouchedStore DEF TypeInv

LEMMA ChangeFormType ==
    ASSUME TypeInv, ChangeSubscriptionForm \/ ChangePaymentMethodForm,
           UNCHANGED <<refresh, current>>, turns' \in 0..MaxTurns
    PROVE  TypeInv'
<1>1. Untouched /\ UNCHANGED <<mutations, page, next, dialog>>
    BY DEF ChangeSubscriptionForm, ChangePaymentMethodForm, Untouched
<1>2. CASE ChangeSubscriptionForm
    <2>1. page.path \in {"subscriptions/new", "subscriptions/id/edit"}
        BY <1>2, FormsOfPages DEF ChangeSubscriptionForm
    <2>2. form.paymentMethod \in PaymentMethodIds \cup {NULL}
        BY <2>1 DEF TypeInv, ScreenInv, FormOf, SubscriptionFormType
    <2>3. SelectablePaymentMethods \subseteq PaymentMethodIds \cup {NULL}
        BY <2>2, ListedRows DEF TypeInv, StoreInv, SelectablePaymentMethods
    <2>4. form' \in SubscriptionFormType
        BY <1>2, <2>3 DEF ChangeSubscriptionForm, SubscriptionFormType
    <2> QED BY <1>1, <2>1, <2>4, UntouchedStore
            DEF TypeInv, ScreenInv, NextOK, DialogOK, FormOf
<1>3. CASE ChangePaymentMethodForm
    <2>1. page.path \in {"payment-methods/new", "payment-methods/id/edit"}
        BY <1>3, FormsOfPages DEF ChangePaymentMethodForm
    <2>2. form' \in PaymentMethodFormType
        BY <1>3 DEF ChangePaymentMethodForm, PaymentMethodFormType
    <2> QED BY <1>1, <2>1, <2>2, UntouchedStore
            DEF TypeInv, ScreenInv, NextOK, DialogOK, FormOf
<1> QED BY <1>2, <1>3

\* Every call that a page sends is a call of the API.
LEMMA SendType ==
    ASSUME TypeInv, NEW c \in Calls, Send(c), UNCHANGED screen, Untouched
    PROVE  TypeInv'
<1> DEFINE m == [call |-> c, mine |-> TRUE, done |-> FALSE]
<1>1. m \in Mutations
    BY DEF Mutations
<1>2. mutations' = mutations \cup {m}
    BY DEF Send
<1> HIDE DEF m
<1>3. mutations' \subseteq Mutations
    BY <1>1, <1>2 DEF TypeInv
<1>4. ScreenInv'
    BY ScreenKept DEF TypeInv, screen
<1> QED BY <1>3, <1>4, UntouchedStore DEF TypeInv

LEMMA SubscriptionRequestType ==
    ASSUME TypeInv, SubmitSubscriptionForm
    PROVE  SubscriptionRequest \in Calls
<1>1. page.path \in {"subscriptions/new", "subscriptions/id/edit"}
    BY FormsOfPages DEF SubmitSubscriptionForm
<1>2. form.plan \in ValidPlans /\ form.paymentMethod \in PaymentMethodIds \cup {NULL}
    BY <1>1 DEF SubmitSubscriptionForm, TypeInv, ScreenInv, FormOf, SubscriptionFormType
<1>3. CASE page = NewSubscription
    <2>1. SubscriptionRequest \in API!CreateSubscriptionCalls
        BY <1>2, <1>3, MeAssumption, ValidityAssumption
           DEF SubscriptionRequest, API!CreateSubscriptionCalls
    <2> QED BY <1>2, <1>3, <2>1 DEF Calls, API!WellFormed, SubscriptionRequest
<1>4. CASE page # NewSubscription
    <2>1. page.id \in SubscriptionIds
        BY <1>4 DEF SubmitSubscriptionForm, SubscriptionForms, EditSubscription
    <2>2. SubscriptionRequest \in API!UpdateSubscriptionCalls
        BY <1>2, <1>4, <2>1, MeAssumption, ValidityAssumption
           DEF SubscriptionRequest, API!UpdateSubscriptionCalls, API!KeepPlan,
               API!KeepPaymentMethod
    <2> QED BY <1>2, <1>4, <2>2 DEF Calls, API!WellFormed, SubscriptionRequest
<1> QED BY <1>3, <1>4

LEMMA PaymentMethodRequestType ==
    ASSUME TypeInv, SubmitPaymentMethodForm
    PROVE  PaymentMethodRequest \in Calls
<1>1. form.name \in ValidNames /\ form.name \in Names
    BY ValidityAssumption DEF SubmitPaymentMethodForm
<1>2. CASE page = NewPaymentMethod
    <2>1. PaymentMethodRequest \in API!CreatePaymentMethodCalls
        BY <1>1, <1>2, MeAssumption DEF PaymentMethodRequest, API!CreatePaymentMethodCalls
    <2> QED BY <1>1, <1>2, <2>1 DEF Calls, API!WellFormed, PaymentMethodRequest
<1>3. CASE page # NewPaymentMethod
    <2>1. page.id \in PaymentMethodIds
        BY <1>3 DEF SubmitPaymentMethodForm, PaymentMethodForms, EditPaymentMethod
    <2>2. PaymentMethodRequest \in API!UpdatePaymentMethodCalls
        BY <1>1, <1>3, <2>1, MeAssumption DEF PaymentMethodRequest, API!UpdatePaymentMethodCalls
    <2> QED BY <1>1, <1>3, <2>2 DEF Calls, API!WellFormed, PaymentMethodRequest
<1> QED BY <1>2, <1>3

LEMMA DeletionType ==
    ASSUME TypeInv
    PROVE  /\ ConfirmSubscriptionDeletion =>
                [op |-> "DeleteSubscription", user |-> Me, id |-> dialog] \in Calls
           /\ ConfirmPaymentMethodDeletion =>
                [op |-> "DeletePaymentMethods", user |-> Me, ids |-> {dialog},
                 repeated |-> FALSE] \in Calls
<1>1. ASSUME ConfirmSubscriptionDeletion
      PROVE  [op |-> "DeleteSubscription", user |-> Me, id |-> dialog] \in Calls
    <2>1. dialog \in SubscriptionIds
        BY <1>1 DEF ConfirmSubscriptionDeletion, TypeInv, ScreenInv, DialogOK
    <2> QED BY <2>1, MeAssumption DEF Calls, API!DeleteSubscriptionCalls, API!WellFormed
<1>2. ASSUME ConfirmPaymentMethodDeletion
      PROVE  [op |-> "DeletePaymentMethods", user |-> Me, ids |-> {dialog},
              repeated |-> FALSE] \in Calls
    <2> DEFINE c == [op |-> "DeletePaymentMethods", user |-> Me, ids |-> {dialog},
                     repeated |-> FALSE]
    <2>1. page \notin {Subscriptions} \cup SubscriptionDetails
        BY <1>2 DEF ConfirmPaymentMethodDeletion, PaymentMethodForms, NewPaymentMethod,
                    EditPaymentMethod, PaymentMethods, Subscriptions, SubscriptionDetails,
                    Subscription
    <2>2. dialog \in PaymentMethodIds
        BY <1>2, <2>1 DEF ConfirmPaymentMethodDeletion, TypeInv, ScreenInv, DialogOK
    <2>3. Cardinality({dialog}) = 1
        BY FS_Singleton
    <2>4. c \in API!DeletePaymentMethodsCalls /\ ~c.repeated /\ Cardinality(c.ids) = 1
        BY <2>2, <2>3, MeAssumption DEF API!DeletePaymentMethodsCalls
    <2>5. c.user = Me /\ API!WellFormed(c)
        BY DEF API!WellFormed
    <2> HIDE DEF c
    <2>6. c \in Calls
        BY <2>4, <2>5 DEF Calls
    <2> QED BY <2>6 DEF c
<1> QED BY <1>1, <1>2

LEMMA UseType ==
    ASSUME TypeInv, Use, UNCHANGED turns
    PROVE  TypeInv'
<1>1. turns' \in 0..MaxTurns
    BY DEF TypeInv, StoreInv
<1>2. CASE RequestDeletion \/ CancelDeletion
    BY <1>1, <1>2, DialogType
<1>3. CASE UseForm /\ (ChangeSubscriptionForm \/ ChangePaymentMethodForm)
    BY <1>1, <1>3, ChangeFormType DEF UseForm
<1>4. CASE UseForm /\ SubmitSubscriptionForm
    BY <1>1, <1>4, SubscriptionRequestType, SendType
       DEF UseForm, SubmitSubscriptionForm, Untouched
<1>5. CASE UseForm /\ SubmitPaymentMethodForm
    BY <1>1, <1>5, PaymentMethodRequestType, SendType
       DEF UseForm, SubmitPaymentMethodForm, Untouched
<1>6. CASE UseForm /\ (ConfirmSubscriptionDeletion \/ ConfirmPaymentMethodDeletion)
    BY <1>1, <1>6, DeletionType, SendType
       DEF UseForm, ConfirmSubscriptionDeletion, ConfirmPaymentMethodDeletion, Untouched
<1> QED BY <1>2, <1>3, <1>4, <1>5, <1>6 DEF Use, UseForm

-----------------------------------------------------------------------------
(***************************************************************************)
(* The router.                                                              *)
(***************************************************************************)

LEMMA RenderedOK ==
    ASSUME NEW p \in Pages \ {Blank}, NEW data, Contents(data), Rendered(p, data)
    PROVE  NextOK'
BY DEF Rendered, NextOK

LEMMA PushedOK ==
    ASSUME NEW p \in Pages \ {Blank}, Push(p)
    PROVE  NextOK'
BY NoContents DEF Push, Asking, NotRendered, NextOK

LEMMA NotRenderedOK ==
    ASSUME NEW p \in Pages \ {Blank}, Rendered(p, NotRendered)
    PROVE  NextOK'
BY NoContents DEF Rendered, NotRendered, NextOK

LEMMA RenderType ==
    ASSUME TypeInv, Render, UNCHANGED <<refresh, current>>, turns' \in 0..MaxTurns
    PROVE  TypeInv'
<1>1. next # NULL /\ next.to \in Pages \ {Blank}
    BY DEF TypeInv, ScreenInv, NextOK, Render
<1>2. ASSUME Redirect
      PROVE  NextOK'
    BY <1>2, AppPagesArePages, NotRenderedOK, PushedOK DEF Redirect, AppPages
<1>3. ASSUME RenderUnchecked
      PROVE  NextOK'
    BY <1>1, <1>3, NotRenderedOK DEF RenderUnchecked
<1>4. ASSUME RenderPage
      PROVE  NextOK'
    <2>1. Rows(next.to) \subseteq Keys /\ Prefetches(next.to) \subseteq Keys
        BY <1>1, UsesAreKeys DEF Keys
    <2>2. CASE RenderRow
        <3>0. PICK k \in Rows(next.to) : \E row \in Answers(k) :
                IF row = NULL THEN Rendered(NotFound, NotRendered)
                ELSE Rendered(next.to, Only(k, row))
            BY <2>2 DEF RenderRow
        <3>1. PICK row \in Answers(k) :
                IF row = NULL THEN Rendered(NotFound, NotRendered)
                ELSE Rendered(next.to, Only(k, row))
            BY <3>0
        <3>2. Contents(Only(k, row))
            BY <2>1, AnswersAreContents, ContentsOnly DEF TypeInv, StoreInv
        <3> QED BY <1>1, <3>1, <3>2, RenderedOK, NotRenderedOK, AppPagesArePages
    <2>3. CASE RenderList
        <3>1. ASSUME NEW k \in Prefetches(next.to)
              PROVE  Contents(Only(k, Current(k)))
            BY <2>1, CurrentIsContents, ContentsOnly DEF TypeInv, StoreInv
        <3> QED BY <1>1, <2>3, <3>1, RenderedOK, NotRenderedOK DEF RenderList
    <2> QED BY <1>4, <2>2, <2>3 DEF RenderPage
<1>5. NextOK'
    BY <1>1, <1>2, <1>3, <1>4, NotRenderedOK DEF Render
<1>6. UNCHANGED <<server, mutations, client, page, dialog, form>>
    BY DEF Render
<1>7. ScreenInv'
    BY <1>5, <1>6 DEF TypeInv, ScreenInv, DialogOK
<1>8. StoreInv'
    BY <1>6, UntouchedStore DEF TypeInv, Untouched
<1> QED BY <1>6, <1>7, <1>8 DEF TypeInv

LEMMA OrphanedType ==
    ASSUME mutations \subseteq Mutations
    PROVE  Orphaned \subseteq Mutations
<1>1. ASSUME NEW m \in mutations
      PROVE  [call |-> m.call, mine |-> FALSE, done |-> m.done] \in Mutations
    <2>1. m.call \in Calls /\ m.done \in BOOLEAN
        BY DEF Mutations
    <2> QED BY <2>1 DEF Mutations
<1> QED BY <1>1 DEF Orphaned

LEMMA ArriveType ==
    ASSUME TypeInv, Arrive, refresh' # NULL => refresh' = refresh,
           current' = current \cup Delivered, turns' \in 0..MaxTurns
    PROVE  TypeInv'
<1>1. next.to \in Pages \ {Blank} /\ Contents(next.data)
    BY DEF TypeInv, ScreenInv, NextOK, Arrive
<1>2. Mount(next.data, Uses(next.to)) /\ UNCHANGED server
    BY DEF Arrive
<1>3. Contents(cache') /\ UNCHANGED answers
    BY <1>1, <1>2, ContentsOver DEF TypeInv, StoreInv, Mount
<1>4. asked' \subseteq Keys /\ failed' \subseteq Keys
    BY <1>1, <1>2, UsesAreKeys DEF TypeInv, StoreInv, Mount, Resting
<1>5. StoreInv'
    <2>1. current' \subseteq Keys
        BY <1>1 DEF TypeInv, StoreInv, Delivered, Contents
    <2> QED BY <1>2, <1>3, <1>4, <2>1, TablesKept DEF TypeInv, StoreInv, server
<1>6. FormOf(page', form')
    BY <1>3, InitialFormType DEF Arrive
<1>7. ScreenInv'
    BY <1>1, <1>6 DEF Arrive, ScreenInv, NextOK, DialogOK
<1>8. mutations' \subseteq Mutations
    BY OrphanedType DEF Arrive, TypeInv
<1> QED BY <1>5, <1>7, <1>8 DEF TypeInv

LEMMA ShowPageType ==
    ASSUME TypeInv, ShowPage, UNCHANGED turns
    PROVE  TypeInv'
<1>1. turns' \in 0..MaxTurns
    BY DEF TypeInv, StoreInv
<1>2. CASE Render /\ UNCHANGED <<refresh, current>>
    BY <1>1, <1>2, RenderType
<1>3. CASE /\ Arrive
           /\ refresh' = IF page' \in AppPages THEN refresh ELSE NULL
           /\ current' = current \cup Delivered
    BY <1>1, <1>3, ArriveType
<1> QED BY <1>2, <1>3 DEF ShowPage

-----------------------------------------------------------------------------
(***************************************************************************)
(* The query cache.                                                         *)
(***************************************************************************)

\* What a fetch, or its end, leaves alone.
Elsewhere == UNCHANGED <<server, mutations, page, dialog>>
                /\ current' \subseteq current /\ turns' \in 0..MaxTurns

LEMMA ElsewhereStore ==
    ASSUME StoreInv, Elsewhere, Contents(cache'), Contents(answers'),
           asked' \cup failed' \subseteq Keys, refresh' # NULL => refresh' \subseteq Keys
    PROVE  StoreInv'
BY TablesKept DEF Elsewhere, StoreInv, server

LEMMA AwaitedType ==
    ASSUME StoreInv, NEW k, Awaited(k)
    PROVE  refresh' # NULL => refresh' \subseteq Keys
BY DEF StoreInv, Awaited

LEMMA ForgetContents ==
    ASSUME NEW f, NEW k, Contents(f)
    PROVE  Contents(Forget(f, k))
BY DEF Contents, Forget

LEMMA AnswerType ==
    ASSUME TypeInv, NEW k \in Keys, NEW answer \in Answers(k), Read(k, answer),
           Elsewhere, UNCHANGED <<next, form, refresh>>
    PROVE  TypeInv'
<1>1. Contents(Only(k, answer))
    BY AnswersAreContents, ContentsOnly DEF TypeInv, StoreInv
<1>2. Contents(answers') /\ UNCHANGED <<cache, failed>> /\ asked' \subseteq asked
    BY <1>1, ContentsOver DEF TypeInv, StoreInv, Read
<1>3. StoreInv'
    BY <1>2, ElsewhereStore DEF TypeInv, StoreInv
<1> QED BY <1>3, ScreenKept DEF TypeInv, Elsewhere

LEMMA ReceiveType ==
    ASSUME TypeInv, NEW k \in Keys, Receive(k), UNCHANGED turns
    PROVE  TypeInv'
<1>1. Store(k) /\ Outdated(k) /\ Awaited(k) /\ UNCHANGED <<server, mutations, page, dialog, current>>
    BY DEF Receive
<1>2. IsContents(k, answers[k])
    BY <1>1 DEF TypeInv, StoreInv, Contents, Store, Answered
<1>3. Contents(cache')
    BY <1>1, <1>2, ContentsOnly, ContentsOver DEF TypeInv, StoreInv, Store
<1>4. Contents(answers')
    BY <1>1, ForgetContents DEF TypeInv, StoreInv, Store
<1>5. asked' \cup failed' \subseteq Keys
    BY <1>1 DEF TypeInv, StoreInv, Store
<1>6. StoreInv'
    BY <1>1, <1>3, <1>4, <1>5, AwaitedType, ElsewhereStore DEF TypeInv, StoreInv, Elsewhere
<1>7. NextOK'
    <2>1. CASE next = NULL
        BY <1>1, <2>1 DEF Outdated, NextOK
    <2>2. CASE next # NULL
        <3> DEFINE to == next.to
                   rendered == next.rendered
                   data == Forget(next.data, k)
        <3>1. next = [to |-> to, rendered |-> rendered, data |-> next.data]
              /\ to \in Pages \ {Blank} /\ Contents(data)
            BY <2>2, ForgetContents DEF TypeInv, ScreenInv, NextOK
        <3>2. next' = [next EXCEPT !.data = data]
            BY <1>1, <2>2 DEF Outdated
        <3> HIDE DEF to, rendered, data
        <3>3. next' = [to |-> to, rendered |-> rendered, data |-> data]
            BY <3>1, <3>2
        <3> QED BY <3>1, <3>3 DEF NextOK
    <2> QED BY <2>1, <2>2
<1>8. FormOf(page', form')
    BY <1>1, <1>2, LoadedForm DEF TypeInv, ScreenInv, Receive
<1>9. ScreenInv'
    BY <1>1, <1>7, <1>8 DEF TypeInv, ScreenInv, DialogOK
<1> QED BY <1>1, <1>6, <1>9 DEF TypeInv

LEMMA FailType ==
    ASSUME TypeInv, NEW k \in Keys, Fail(k), Awaited(k), Elsewhere, UNCHANGED form,
           UNCHANGED next \/ Push(Login)
    PROVE  TypeInv'
<1>1. StoreInv'
    BY AwaitedType, ElsewhereStore DEF TypeInv, StoreInv, Fail
<1> QED BY <1>1, AppPagesArePages, ScreenKept DEF TypeInv, Elsewhere

LEMMA CollectType ==
    ASSUME TypeInv, NEW k \in Keys, Collect(k), Elsewhere, UNCHANGED <<next, form, refresh>>
    PROVE  TypeInv'
<1>1. Contents(cache')
    BY ForgetContents DEF TypeInv, StoreInv, Collect
<1>2. StoreInv'
    BY <1>1, ElsewhereStore DEF TypeInv, StoreInv, Collect
<1> QED BY <1>2, ScreenKept DEF TypeInv, Elsewhere

LEMMA ServeQueriesType ==
    ASSUME TypeInv, ServeQueries, UNCHANGED turns
    PROVE  TypeInv'
<1>1. PICK k \in Keys : Answer(k) \/ Receive(k) \/ TurnQueryAway(k)
    BY DEF ServeQueries
<1>2. turns' \in 0..MaxTurns
    BY DEF TypeInv, StoreInv
<1>3. CASE Answer(k)
    BY <1>2, <1>3, AnswerType DEF Answer, Answers, Elsewhere, screen
<1>4. CASE Receive(k)
    BY <1>4, ReceiveType
<1>5. CASE TurnQueryAway(k)
    BY <1>2, <1>5, FailType DEF TurnQueryAway, Elsewhere
<1> QED BY <1>1, <1>3, <1>4, <1>5

-----------------------------------------------------------------------------
(***************************************************************************)
(* Mutations.                                                               *)
(***************************************************************************)

LEMMA ChangeType ==
    ASSUME StoreInv, NEW c \in Calls, Change(c)
    PROVE  TablesInv' /\ changes' \in 0..MaxChanges /\ version' \in [RowIds -> 0..MaxChanges]
<1>1. TablesInv'
    BY EffectsOfCalls, EffectsKeepTables DEF Change, StoreInv
<1>2. changes' = changes + 1 /\ changes' \in 0..MaxChanges
    BY BoundsAssumption DEF Change, StoreInv
<1>3. version' \in [RowIds -> 0..MaxChanges]
    BY <1>2 DEF Change, NewVersion, StoreInv
<1> QED BY <1>1, <1>2, <1>3

LEMMA DayType ==
    ASSUME StoreInv, DayPasses
    PROVE  TablesInv' /\ changes' \in 0..MaxChanges /\ version' \in [RowIds -> 0..MaxChanges]
<1>1. TablesInv'
    BY TablesKept DEF DayPasses, StoreInv
<1>2. changes' = changes + 1 /\ changes' \in 0..MaxChanges
    BY BoundsAssumption DEF DayPasses, StoreInv
<1>3. version' \in [RowIds -> 0..MaxChanges]
    BY <1>2 DEF DayPasses, StoreInv
<1> QED BY <1>1, <1>2, <1>3

LEMMA AcceptType ==
    ASSUME TypeInv, NEW m \in mutations, AcceptMutation(m), UNCHANGED turns
    PROVE  TypeInv'
<1>1. m.call \in Calls /\ m.mine \in BOOLEAN
    BY DEF TypeInv, Mutations
<1>2. Change(m.call) /\ UNCHANGED <<signedIn, client, screen, refresh>> /\ current' = {}
    BY DEF AcceptMutation, Accept
<1>3. StoreInv'
    BY <1>1, <1>2, ChangeType DEF TypeInv, StoreInv, client, Contents
<1>4. [call |-> m.call, mine |-> m.mine, done |-> TRUE] \in Mutations
    BY <1>1 DEF Mutations
<1>5. mutations' \subseteq Mutations
    BY <1>4 DEF TypeInv, AcceptMutation, Accept
<1>6. ScreenInv'
    BY <1>2, ScreenKept DEF TypeInv, screen
<1> QED BY <1>3, <1>5, <1>6 DEF TypeInv

LEMMA InvalidateType ==
    ASSUME Contents(cache), Contents(answers), asked \cup failed \subseteq Keys,
           NEW keys \in SUBSET Keys, Invalidate(keys)
    PROVE  /\ Contents(cache') /\ Contents(answers') /\ asked' \cup failed' \subseteq Keys
<1> DEFINE started == Resting(keys) \cup {k \in keys : HasData(k)}
<1>1. started \subseteq Keys /\ Start(started) /\ UNCHANGED cache
    BY DEF Invalidate, Resting
<1> HIDE DEF started
<1>2. answers' = [k \in DOMAIN answers \ started |-> answers[k]]
    BY <1>1 DEF Start
<1>3. Contents(answers')
    BY <1>2, ContentsPart
<1> QED BY <1>1, <1>3 DEF Start

LEMMA SucceedType ==
    ASSUME TypeInv, NEW m \in mutations, Succeed(m), UNCHANGED turns
    PROVE  TypeInv'
<1>1. /\ m.call \in Calls
      /\ m.call.op = "UpdateSubscription" => m.call.id \in SubscriptionIds
    BY CallFields DEF TypeInv, Mutations
<1>2. InUse \subseteq Keys
    BY UsesAreKeys DEF TypeInv, ScreenInv, InUse
<1>3. PICK keys \in SUBSET InUse : Invalidate(keys)
    BY DEF Succeed, SubscriptionMutationSucceeds, PaymentMethodMutationSucceeds,
           SubscriptionInvalidates, PaymentMethodInvalidates
<1>4. Contents(cache') /\ Contents(answers') /\ asked' \cup failed' \subseteq Keys
    BY <1>2, <1>3, InvalidateType DEF TypeInv, StoreInv
<1>5. current' \subseteq Keys
    BY <1>2 DEF TypeInv, StoreInv, Succeed, WithData, Concerned
<1>6. UNCHANGED <<server, page, form, refresh>>
    BY DEF Succeed
<1>7. StoreInv'
    BY <1>4, <1>5, <1>6, TablesKept DEF TypeInv, StoreInv, server
<1>8. /\ dialog' = dialog \/ dialog' = NULL
      /\ next' = next \/ \E p \in Pages \ {Blank} : Push(p)
    <2>1. /\ Subscriptions \in Pages \ {Blank} /\ PaymentMethods \in Pages \ {Blank}
          /\ m.call.op = "UpdateSubscription" => Subscription(m.call.id) \in Pages \ {Blank}
        BY <1>1, AppPagesArePages DEF AppPages
    <2>2. CASE SubscriptionMutationSucceeds(m)
        BY <2>1, <2>2 DEF SubscriptionMutationSucceeds, AfterSubscriptionMutation
    <2>3. CASE PaymentMethodMutationSucceeds(m)
        BY <2>1, <2>3 DEF PaymentMethodMutationSucceeds, AfterPaymentMethodMutation
    <2> QED BY <2>2, <2>3 DEF Succeed
<1>9. ScreenInv'
    BY <1>6, <1>8, ScreenKept DEF TypeInv
<1> QED BY <1>7, <1>9 DEF TypeInv, Succeed

LEMMA DroppedType ==
    ASSUME TypeInv, NEW m \in mutations, mutations' = mutations \ {m},
           UNCHANGED <<server, client, page, dialog, form, refresh, current>>,
           turns' \in 0..MaxTurns, UNCHANGED next \/ Push(Login)
    PROVE  TypeInv'
<1>1. StoreInv'
    BY UntouchedStore DEF TypeInv, Untouched
<1> QED BY <1>1, AppPagesArePages, ScreenKept DEF TypeInv

LEMMA ServeMutationsType ==
    ASSUME TypeInv, ServeMutations, UNCHANGED turns
    PROVE  TypeInv'
<1>1. PICK m \in mutations : AcceptMutation(m) \/ Succeed(m) \/ TurnMutationAway(m)
    BY DEF ServeMutations
<1>2. turns' \in 0..MaxTurns
    BY DEF TypeInv, StoreInv
<1>3. CASE TurnMutationAway(m)
    BY <1>2, <1>3, DroppedType DEF TurnMutationAway
<1> QED BY <1>1, <1>3, AcceptType, SucceedType

-----------------------------------------------------------------------------
(***************************************************************************)
(* Pull to refresh, other devices, and the session.                         *)
(***************************************************************************)

LEMMA PullType ==
    ASSUME TypeInv, Pull, turns' \in 0..MaxTurns
    PROVE  TypeInv'
<1>1. InUse \subseteq Keys
    BY UsesAreKeys DEF TypeInv, ScreenInv, InUse
<1>2. Contents(cache') /\ Contents(answers') /\ asked' \cup failed' \subseteq Keys
    BY <1>1, InvalidateType DEF TypeInv, StoreInv, Pull
<1>3. current' \subseteq Keys /\ refresh' \subseteq Keys
    BY <1>1 DEF TypeInv, StoreInv, Pull, WithData
<1>4. StoreInv'
    BY <1>2, <1>3, TablesKept DEF TypeInv, StoreInv, server, Pull
<1> QED BY <1>4, ScreenKept DEF TypeInv, Pull, screen

LEMMA RefreshDoneType ==
    ASSUME TypeInv, RefreshDone, UNCHANGED turns
    PROVE  TypeInv'
<1>1. StoreInv'
    BY StoreKept DEF TypeInv, StoreInv, RefreshDone, server, client
<1> QED BY <1>1, ScreenKept DEF TypeInv, RefreshDone, screen

LEMMA OtherDeviceType ==
    ASSUME TypeInv, OtherDevice, turns' \in 0..MaxTurns
    PROVE  TypeInv'
<1>1. UNCHANGED <<signedIn, mutations, client, screen, refresh>> /\ current' = {}
    BY DEF OtherDevice
<1>2. TablesInv' /\ changes' \in 0..MaxChanges /\ version' \in [RowIds -> 0..MaxChanges]
    BY ChangeType, DayType DEF OtherDevice, TypeInv
<1>3. StoreInv'
    BY <1>1, <1>2 DEF TypeInv, StoreInv, client, Contents
<1> QED BY <1>1, <1>3, ScreenKept DEF TypeInv, screen

LEMMA ExpireType ==
    ASSUME TypeInv, Expire, turns' \in 0..MaxTurns
    PROVE  TypeInv'
<1>1. StoreInv'
    BY StoreKept DEF TypeInv, StoreInv, Expire, client
<1> QED BY <1>1, ScreenKept DEF TypeInv, Expire, screen

LEMMA SignInType ==
    ASSUME TypeInv, SignIn, turns' \in 0..MaxTurns
    PROVE  TypeInv'
<1>1. Contents(cache') /\ Contents(answers')
    BY NoContents DEF SignIn, ClearAll
<1>2. StoreInv'
    BY <1>1, TablesKept DEF TypeInv, StoreInv, SignIn, ClearAll, tables
<1>3. NextOK'
    BY AppPagesArePages, PushedOK DEF AppPages, SignIn
<1>4. ScreenInv'
    BY <1>3 DEF SignIn, ScreenInv, DialogOK, Pages, Blank, FormOf
<1> QED BY <1>2, <1>4 DEF SignIn, TypeInv

LEMMA SessionUnknownType ==
    ASSUME TypeInv, SessionUnknown, turns' \in 0..MaxTurns
    PROVE  TypeInv'
<1>1. CASE SessionCheckFails /\ UNCHANGED <<refresh, current>>
    <2>1. NextOK' /\ UNCHANGED <<server, mutations, client, page, dialog, form>>
        BY <1>1, AppPagesArePages, PushedOK, NotRenderedOK DEF SessionCheckFails
    <2>2. ScreenInv'
        BY <2>1 DEF TypeInv, ScreenInv, DialogOK
    <2> QED BY <1>1, <2>1, <2>2, UntouchedStore DEF TypeInv, Untouched
<1>2. ASSUME NEW k \in Keys, TurnQueryAway(k)
      PROVE  TypeInv'
    BY <1>2, FailType DEF TurnQueryAway, Elsewhere
<1>3. ASSUME NEW m \in mutations, TurnMutationAway(m)
      PROVE  TypeInv'
    BY <1>3, DroppedType DEF TurnMutationAway
<1> QED BY <1>1, <1>2, <1>3 DEF SessionUnknown

LEMMA TurnsType ==
    ASSUME TypeInv, turns < MaxTurns, turns' = turns + 1, Turns
    PROVE  TypeInv'
<1>1. turns' \in 0..MaxTurns
    BY TurnsAssumption DEF TypeInv, StoreInv
<1>2. CASE Navigate \/ Pull \/ SignIn \/ OtherDevice \/ Expire \/ SessionUnknown
    BY <1>1, <1>2, NavigateType, PullType, SignInType, OtherDeviceType, ExpireType,
       SessionUnknownType
<1>3. ASSUME NEW k \in Keys, AnswerNothing(k)
      PROVE  TypeInv'
    <2>1. NULL \in Answers(k)
        BY <1>3 DEF AnswerNothing, Read
    <2> QED BY <1>1, <1>3, <2>1, AnswerType DEF AnswerNothing, Elsewhere, screen
<1>4. ASSUME NEW k \in Keys, FetchFails(k)
      PROVE  TypeInv'
    BY <1>1, <1>4, FailType DEF FetchFails, Elsewhere, screen
<1>5. ASSUME NEW k \in Keys, CollectUnused(k)
      PROVE  TypeInv'
    BY <1>1, <1>5, CollectType DEF CollectUnused, Elsewhere, screen
<1>6. ASSUME NEW m \in mutations, MutationFails(m)
      PROVE  TypeInv'
    BY <1>1, <1>6, DroppedType DEF MutationFails, screen
<1> QED BY <1>2, <1>3, <1>4, <1>5, <1>6 DEF Turns

LEMMA NextTypeInv == TypeInv /\ [Next]_vars => TypeInv'
<1> SUFFICES ASSUME TypeInv, [Next]_vars
             PROVE  TypeInv'
    OBVIOUS
<1>1. CASE turns < MaxTurns /\ turns' = turns + 1 /\ Turns
    BY <1>1, TurnsType
<1>2. CASE Proceed /\ UNCHANGED turns
    BY <1>2, ShowPageType, ServeQueriesType, ServeMutationsType, RefreshDoneType DEF Proceed
<1>3. CASE Use /\ UNCHANGED turns
    BY <1>3, UseType
<1>4. CASE UNCHANGED vars
    <2>1. StoreInv'
        BY <1>4, StoreKept DEF TypeInv, StoreInv, vars, tables
    <2> QED BY <1>4, <2>1, ScreenKept DEF TypeInv, vars
<1> QED BY <1>1, <1>2, <1>3, <1>4 DEF Next

\* What the tab keeps, and what the calls of its pages leave in the tables, has its types:
\* a form that is loaded from a row, a row that is rendered on the server, and the payment
\* method of a deletion to be confirmed are what the page that uses them takes them for.
THEOREM TypeCorrect == Spec => []TypeOK
<1>1. Spec => []TypeInv
    BY InitTypeInv, NextTypeInv, PTL DEF Spec
<1> QED BY <1>1, TypeInvIsTyped, PTL
=============================================================================
