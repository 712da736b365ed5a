--------------------------- MODULE Session_proofs ---------------------------
(***************************************************************************)
(* Proofs about Session, for any number of tabs, people, addresses, accounts  *)
(* and sign-ins.                                                             *)
(***************************************************************************)
EXTENDS Session, TLAPS

\* The cookie of a sign-in belongs to the last one that was begun.
LastState == oauthState \in {NULL, flows}

IInv == TypeOK /\ LastState /\ OneAccountEach

-----------------------------------------------------------------------------
(***************************************************************************)
(* Accounts.                                                                *)
(***************************************************************************)

LEMMA UpsertType ==
    ASSUME TypeOK, NEW p \in People, NEW a \in AccountIds, UpsertUser(p, a)
    PROVE  accounts' \in [AccountIds -> {NULL, Deleted} \cup [address : Addresses, google : People]]
<1>1. address[p] \in Addresses
    BY DEF TypeOK
<1> QED BY <1>1 DEF TypeOK, UpsertUser

LEMMA UpsertKeepsAccountsApart ==
    ASSUME TypeOK, OneAccountEach, NEW p \in People, NEW a \in AccountIds, UpsertUser(p, a)
    PROVE  OneAccountEach'
<1> DEFINE row == [address |-> address[p], google |-> p]
<1>1. /\ accounts' = [accounts EXCEPT ![a] = row]
      /\ ~Conflicts(p)
      /\ AccountsWith(address[p]) = {} \/ a \in AccountsWith(address[p])
    BY DEF UpsertUser
<1>2. accounts'[a] = row /\ \A b \in AccountIds \ {a} : accounts'[b] = accounts[b]
    BY <1>1 DEF TypeOK
<1>3. ASSUME NEW b \in AccountIds \ {a}, Exists(b)
      PROVE  accounts[b].address # address[p] /\ accounts[b].google # p
    <2>1. accounts[b].address # address[p]
        <3>1. CASE AccountsWith(address[p]) = {}
            BY <1>3, <3>1 DEF AccountsWith
        <3>2. CASE a \in AccountsWith(address[p])
            BY <1>3, <3>2 DEF AccountsWith, OneAccountEach
        <3> QED BY <1>1, <3>1, <3>2
    <2>2. b \notin AccountsWith(address[p])
        BY <2>1 DEF AccountsWith
    <2>3. accounts[b].google # p
        BY <1>1, <1>3, <2>2 DEF Conflicts, AccountsOf
    <2> QED BY <2>1, <2>3
<1>4. row.address = address[p] /\ row.google = p
    OBVIOUS
<1> HIDE DEF row
<1> SUFFICES ASSUME NEW b \in AccountIds, NEW c \in AccountIds,
                    Exists(b)', Exists(c)', b # c
             PROVE  /\ accounts'[b].address # accounts'[c].address
                    /\ accounts'[b].google # accounts'[c].google
    BY DEF OneAccountEach
<1>5. CASE b = a
    BY <1>2, <1>3, <1>4, <1>5 DEF Exists
<1>6. CASE c = a
    BY <1>2, <1>3, <1>4, <1>6 DEF Exists
<1>7. CASE b # a /\ c # a
    BY <1>2, <1>7 DEF Exists, OneAccountEach
<1> QED BY <1>5, <1>6, <1>7

\* A deletion takes one row away.
LEMMA DeletionKeepsAccountsApart ==
    ASSUME TypeOK, OneAccountEach, NEW a \in AccountIds,
           accounts' = [accounts EXCEPT ![a] = Deleted]
    PROVE  OneAccountEach'
BY DEF OneAccountEach, Exists, TypeOK

-----------------------------------------------------------------------------
(***************************************************************************)
(* The invariant.                                                           *)
(***************************************************************************)

LEMMA InitIInv == Init => IInv
BY BoundsAssumption
DEF Init, IInv, TypeOK, LastState, OneAccountEach, Exists, Places, Asking, Leaving

\* What a tab does by itself, and Google's refusals, touch no account and no cookie.
LEMMA TabStep ==
    ASSUME IInv, NEW t \in Tabs, events' \in 0..MaxEvents,
           \/ Open(t) \/ Resolve(t) \/ CheckFails(t) \/ TurnAway(t) \/ ExchangeFails(t)
           \/ Leave(t) \/ LogoutFails(t) \/ Throws(t) \/ Cleared(t)
           \/ \E p \in People : CallbackRefused(t, p)
    PROVE  IInv'
<1>1. /\ UNCHANGED <<address, accounts, token, oauthState, flows, flow>>
      /\ at' \in [Tabs -> Places]
      /\ leaving' \in [Tabs -> Leaving]
    BY DEF IInv, TypeOK, people, cookies, Places, Asking, Leaving, Show, Stage, Open,
           Resolve, ToApp, ToLogin, CheckFails, TurnAway, ExchangeFails, Leave, AfterLogout,
           LogoutFails, Throws, Cleared, CallbackRefused
<1> QED BY <1>1 DEF IInv, TypeOK, LastState, OneAccountEach, Exists

LEMMA GoogleOAuthStep ==
    ASSUME IInv, NEW t \in Tabs, GoogleOAuth(t), UNCHANGED events
    PROVE  IInv'
<1>1. /\ flows' = flows + 1 /\ oauthState' = flows + 1 /\ flows < MaxFlows
      /\ at' = [at EXCEPT ![t] = "google"]
      /\ flow' = [flow EXCEPT ![t] = flows + 1]
      /\ leaving' = [leaving EXCEPT ![t] = "no"]
      /\ UNCHANGED <<address, accounts, token>>
    BY DEF GoogleOAuth, Show, Stage, people
<1>2. flows \in Nat /\ flows' \in 0..MaxFlows /\ oauthState' \in 1..flows'
    BY <1>1, BoundsAssumption DEF IInv, TypeOK
<1>3. flow' \in [Tabs -> 0..flows']
    BY <1>1, <1>2 DEF IInv, TypeOK
<1> QED BY <1>1, <1>2, <1>3
        DEF IInv, TypeOK, LastState, OneAccountEach, Exists, Places, Leaving

LEMMA CallbackSucceedsStep ==
    ASSUME IInv, NEW t \in Tabs, NEW p \in People, CallbackSucceeds(t, p), UNCHANGED events
    PROVE  IInv'
<1>1. PICK a \in AccountIds : UpsertUser(p, a) /\ token' = a
    BY DEF CallbackSucceeds
<1>2. /\ accounts' \in [AccountIds -> {NULL, Deleted} \cup [address : Addresses, google : People]]
      /\ OneAccountEach'
    BY <1>1, UpsertType, UpsertKeepsAccountsApart DEF IInv
<1>3. /\ oauthState' = NULL /\ at' = [at EXCEPT ![t] = "to app"]
      /\ UNCHANGED <<address, flows, flow, leaving>>
    BY DEF CallbackSucceeds, Show
<1> QED BY <1>1, <1>2, <1>3 DEF IInv, TypeOK, LastState, Places, Asking

\* A deletion, with its answer or without.
LEMMA DeleteStep ==
    ASSUME IInv, NEW t \in Tabs, Delete(t) \/ DeletionLost(t), events' \in 0..MaxEvents
    PROVE  IInv'
<1>1. /\ UNCHANGED <<address, token, oauthState, flows, flow>>
      /\ at' \in [Tabs -> Places] /\ leaving' \in [Tabs -> Leaving]
    BY DEF Delete, DeletionLost, IInv, TypeOK, cookies, Show, Stage, Places, Asking, Leaving
<1>2. \/ UNCHANGED accounts
      \/ token \in AccountIds /\ accounts' = [accounts EXCEPT ![token] = Deleted]
    BY DEF Delete, DeletionLost, SessionValid
<1>3. OneAccountEach'
    BY <1>2, DeletionKeepsAccountsApart DEF IInv, OneAccountEach, Exists
<1>4. accounts' \in [AccountIds -> {NULL, Deleted} \cup [address : Addresses, google : People]]
    BY <1>2 DEF IInv, TypeOK
<1> QED BY <1>1, <1>3, <1>4 DEF IInv, TypeOK, LastState

LEMMA LogoutStep ==
    ASSUME IInv, NEW t \in Tabs, Logout(t), UNCHANGED events
    PROVE  IInv'
<1>1. /\ token' = NULL /\ UNCHANGED <<address, accounts, oauthState, flows, at, flow>>
      /\ leaving' \in [Tabs -> Leaving]
    BY DEF Logout, AfterLogout, IInv, TypeOK, people, Stage, Leaving
<1> QED BY <1>1 DEF IInv, TypeOK, LastState, OneAccountEach, Exists

\* What happens elsewhere.
LEMMA EventStep ==
    ASSUME IInv, Event, events < MaxEvents, events' = events + 1
    PROVE  IInv'
<1>1. events' \in 0..MaxEvents
    BY BoundsAssumption DEF IInv, TypeOK
<1>2. CASE Expire
    BY <1>1, <1>2
    DEF Expire, IInv, TypeOK, LastState, OneAccountEach, Exists, people, tabs
<1>3. ASSUME NEW p \in People, ChangeAddress(p)
      PROVE  IInv'
    <2>1. address' \in [People -> Addresses]
        BY <1>3 DEF ChangeAddress, IInv, TypeOK
    <2> QED BY <1>1, <1>3, <2>1
            DEF ChangeAddress, IInv, TypeOK, LastState, OneAccountEach, Exists, cookies, tabs
<1>4. ASSUME NEW p \in People, SignInElsewhere(p)
      PROVE  IInv'
    <2>1. /\ accounts' \in [AccountIds -> {NULL, Deleted} \cup [address : Addresses, google : People]]
          /\ OneAccountEach'
        BY <1>4, UpsertType, UpsertKeepsAccountsApart DEF SignInElsewhere, IInv
    <2> QED BY <1>1, <1>4, <2>1 DEF SignInElsewhere, IInv, TypeOK, LastState, cookies, tabs
<1>5. ASSUME NEW a \in AccountIds, DeleteElsewhere(a)
      PROVE  IInv'
    <2>1. accounts' = [accounts EXCEPT ![a] = Deleted]
        BY <1>5 DEF DeleteElsewhere
    <2>2. /\ accounts' \in [AccountIds -> {NULL, Deleted} \cup [address : Addresses, google : People]]
          /\ OneAccountEach'
        BY <2>1, DeletionKeepsAccountsApart DEF IInv, TypeOK
    <2> QED BY <1>1, <1>5, <2>2 DEF DeleteElsewhere, IInv, TypeOK, LastState, cookies, tabs
<1>6. ASSUME NEW t \in Tabs, CheckFails(t) \/ ExchangeFails(t) \/ LogoutFails(t) \/ Throws(t)
      PROVE  IInv'
    BY <1>1, <1>6, TabStep
<1>7. ASSUME NEW t \in Tabs, DeletionLost(t)
      PROVE  IInv'
    BY <1>1, <1>7, DeleteStep
<1> QED BY <1>2, <1>3, <1>4, <1>5, <1>6, <1>7 DEF Event

LEMMA NextIInv == IInv /\ [Next]_vars => IInv'
<1> SUFFICES ASSUME IInv, [Next]_vars
             PROVE  IInv'
    OBVIOUS
<1>1. CASE events < MaxEvents /\ events' = events + 1 /\ Event
    BY <1>1, EventStep
<1>2. ASSUME NEW t \in Tabs, Step(t), UNCHANGED events
      PROVE  IInv'
    <2>1. events' \in 0..MaxEvents
        BY <1>2 DEF IInv, TypeOK
    <2>2. CASE GoogleOAuth(t)
        BY <1>2, <2>2, GoogleOAuthStep
    <2>3. ASSUME NEW p \in People, CallbackSucceeds(t, p)
          PROVE  IInv'
        BY <1>2, <2>3, CallbackSucceedsStep
    <2>4. CASE Delete(t)
        BY <2>1, <2>4, DeleteStep
    <2>5. CASE Logout(t)
        BY <1>2, <2>5, LogoutStep
    <2>6. CASE \/ Open(t) \/ Resolve(t) \/ TurnAway(t) \/ Leave(t) \/ Cleared(t)
               \/ \E p \in People : CallbackRefused(t, p)
        BY <2>1, <2>6, TabStep
    <2> QED BY <1>2, <2>2, <2>3, <2>4, <2>5, <2>6 DEF Step
<1>3. CASE UNCHANGED vars
    BY <1>3 DEF vars, IInv, TypeOK, LastState, OneAccountEach, Exists
<1> QED BY <1>1, <1>2, <1>3 DEF Next

\* Every reachable state has its types.
THEOREM TypeCorrect == Spec => []TypeOK
<1>1. IInv => TypeOK
    BY DEF IInv
<1> QED BY InitIInv, NextIInv, <1>1, PTL DEF Spec

\* The statement of UpsertUser, with the unique keys of users, never leaves two accounts
\* with one address or with one Google account.
THEOREM AccountsStayApart == Spec => []OneAccountEach
<1>1. IInv => OneAccountEach
    BY DEF IInv
<1> QED BY InitIInv, NextIInv, <1>1, PTL DEF Spec

-----------------------------------------------------------------------------
(***************************************************************************)
(* Signing in.                                                              *)
(***************************************************************************)

OnlyLastFlowStep ==
    token' # token /\ token' \in AccountIds =>
        /\ oauthState = flows /\ oauthState' = NULL
        /\ \E t \in Tabs : at[t] = "google" /\ flow[t] = flows /\ at'[t] = "to app"

\* Nothing but a sign-in gives the browser a token of an account.
LEMMA TokenComesFromCallback ==
    ASSUME IInv, [Next]_vars, token' # token, token' \in AccountIds
    PROVE  \E t \in Tabs, p \in People : CallbackSucceeds(t, p)
<1>1. NULL \notin AccountIds /\ Stale \notin AccountIds
    BY DistinctAssumption
<1>2. ~Event
    BY <1>1 DEF Event, Expire, ChangeAddress, SignInElsewhere, DeleteElsewhere, CheckFails,
                ExchangeFails, DeletionLost, LogoutFails, Throws, cookies
<1>3. PICK t \in Tabs : Step(t)
    BY <1>2 DEF Next, vars
<1> QED BY <1>1, <1>3 DEF Step, Open, Resolve, TurnAway, GoogleOAuth, CallbackRefused,
                          Leave, Delete, Logout, Cleared, cookies

LEMMA NextOnlyLastFlow == IInv /\ [Next]_vars => OnlyLastFlowStep
<1> SUFFICES ASSUME IInv, [Next]_vars, token' # token, token' \in AccountIds
             PROVE  /\ oauthState = flows /\ oauthState' = NULL
                    /\ \E t \in Tabs : at[t] = "google" /\ flow[t] = flows /\ at'[t] = "to app"
    BY DEF OnlyLastFlowStep
<1>1. PICK t \in Tabs, p \in People : CallbackSucceeds(t, p)
    BY TokenComesFromCallback
<1>2. at[t] = "google" /\ flow[t] = oauthState /\ oauthState = flows /\ oauthState' = NULL
    BY <1>1 DEF CallbackSucceeds, StateMatches, IInv, LastState
<1>3. at'[t] = "to app"
    BY <1>1 DEF CallbackSucceeds, Show, IInv, TypeOK
<1> QED BY <1>2, <1>3

\* A sign-in can be completed by the last flow that the browser has begun only, and once:
\* the callback compares the state with the cookie and removes it.
THEOREM LastFlowOnly == Spec => OnlyLastFlow
<1>1. IInv /\ [Next]_vars => [OnlyLastFlowStep]_vars
    BY NextOnlyLastFlow
<1> QED BY InitIInv, NextIInv, <1>1, PTL DEF Spec, OnlyLastFlow, OnlyLastFlowStep
=============================================================================
