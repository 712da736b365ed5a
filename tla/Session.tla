------------------------------ MODULE Session ------------------------------
(***************************************************************************)
(* The session of a browser: signing in with Google, the redirections that     *)
(* keep guests and users apart, signing out, and deleting the account.          *)
(*                                                                          *)
(* The tabs of the browser share two cookies: subsq_token, a signed token that   *)
(* the server does not remember and cannot take back, and oauth_state, which      *)
(* ties the answer of Google to the browser that asked.  The same people use       *)
(* other devices too.                                                        *)
(***************************************************************************)
EXTENDS Naturals, FiniteSets

CONSTANTS
    Tabs, People, Addresses, AccountIds,
    NULL, Deleted,
    Stale,          \* a token that the API refuses
    MaxFlows,       \* bound on the sign-ins begun
    MaxEvents       \* bound on failures and on what happens elsewhere

ASSUME DistinctAssumption ==
    /\ {NULL, Stale} \cap AccountIds = {} /\ NULL # Stale
    /\ {NULL, Deleted} \cap [address : Addresses, google : People] = {}

ASSUME BoundsAssumption == MaxFlows \in Nat /\ MaxEvents \in Nat

VARIABLES
    address,    \* that Google has for each person
    accounts,   \* the table users: a row, NULL for no account yet, or Deleted
    token,      \* subsq_token
    oauthState, \* oauth_state: the sign-in it belongs to, or NULL
    flows,      \* sign-ins begun so far
    at,         \* what each tab shows or asks for
    flow,       \* the sign-in that each tab has begun last
    leaving,    \* how far a sign-out or a deletion is in each tab
    events      \* so far

people == <<address, accounts>>
cookies == <<token, oauthState, flows>>
tabs == <<at, flow, leaving>>
vars == <<address, accounts, token, oauthState, flows, at, flow, leaving, events>>

Asking == {"to app", "to login"}
Places == Asking \cup {"blank", "login", "google", "refused", "app"}
Leaving == {"no", "signing out", "clearing", "deleting", "deleted", "clearing after deletion"}

-----------------------------------------------------------------------------
(***************************************************************************)
(* Accounts.                                                                *)
(***************************************************************************)

Exists(a) == accounts[a] \notin {NULL, Deleted}

AccountsWith(e) == {a \in AccountIds : Exists(a) /\ accounts[a].address = e}

AccountsOf(p) == {a \in AccountIds : Exists(a) /\ accounts[a].google = p}

\* No account is unique but for its address.
NeverConflicts(p) == FALSE

\* UNIQUE (provider, provider_account_id), which the statement does not expect.
Conflicts(p) == AccountsOf(p) \ AccountsWith(address[p]) # {}

\* INSERT ... ON CONFLICT (email) DO UPDATE
UpsertUser(p, a) ==
    /\ IF AccountsWith(address[p]) = {} THEN accounts[a] = NULL
       ELSE a \in AccountsWith(address[p])
    /\ ~Conflicts(p)
    /\ accounts' = [accounts EXCEPT ![a] = [address |-> address[p], google |-> p]]

SessionValid == token \in AccountIds /\ Exists(token)

-----------------------------------------------------------------------------
Init ==
    /\ address \in [People -> Addresses]
    /\ \A p, q \in People : address[p] = address[q] => p = q
    /\ accounts = [a \in AccountIds |-> NULL]
    /\ token = NULL /\ oauthState = NULL /\ flows = 0
    /\ at = [t \in Tabs |-> "blank"]
    /\ flow = [t \in Tabs |-> 0]
    /\ leaving = [t \in Tabs |-> "no"]
    /\ events = 0

Show(t, place) == at' = [at EXCEPT ![t] = place]

Stage(t, stage) == leaving' = [leaving EXCEPT ![t] = stage]

\* An address typed, or a reload: what the tab was running ends.
Open(t) ==
    /\ at[t] \notin Asking
    /\ \E place \in Asking : Show(t, place)
    /\ Stage(t, "no")
    /\ UNCHANGED <<people, cookies, flow>>

\* The proxy looks for a cookie only, the layout of the pages asks for the session.
ToApp(t) ==
    /\ at[t] = "to app"
    /\ Show(t, IF token # NULL /\ SessionValid THEN "app" ELSE "to login")

\* Sends everybody with a cookie to the app.
ToLoginWithoutCookie(t) ==
    /\ at[t] = "to login"
    /\ Show(t, IF token # NULL THEN "to app" ELSE "login")

\* redirectIfAuthenticatedServer
ToLogin(t) ==
    /\ at[t] = "to login"
    /\ Show(t, IF SessionValid THEN "to app" ELSE "login")

Resolve(t) ==
    /\ ToApp(t) \/ ToLogin(t)
    /\ UNCHANGED <<people, cookies, flow, leaving>>

\* getSessionServer: who cannot be asked for has no session, in the layouts and in
\* withAuth.
CheckFails(t) ==
    /\ at[t] \in Asking \cup {"app"}
    /\ Show(t, IF at[t] = "to login" THEN "login" ELSE "to login")
    /\ UNCHANGED <<people, cookies, flow, leaving>>

\* withAuth, when the page asks for something without a session.
TurnAway(t) ==
    /\ at[t] = "app" /\ ~SessionValid
    /\ Show(t, "to login")
    /\ UNCHANGED <<people, cookies, flow, leaving>>

-----------------------------------------------------------------------------
(***************************************************************************)
(* Signing in.                                                              *)
(***************************************************************************)

\* A state that no sign-in has.
SendsUncounted(t) ==
    /\ at[t] = "login"
    /\ oauthState' = flows + 1
    /\ Show(t, "google") /\ flow' = [flow EXCEPT ![t] = flows + 1]
    /\ Stage(t, "no")
    /\ UNCHANGED <<people, token, flows>>

\* A new state for every sign-in, also for one that another tab has begun again.
GoogleOAuth(t) ==
    /\ at[t] = "login" /\ flows < MaxFlows
    /\ flows' = flows + 1
    /\ oauthState' = flows + 1
    /\ Show(t, "google") /\ flow' = [flow EXCEPT ![t] = flows + 1]
    /\ Stage(t, "no")
    /\ UNCHANGED <<people, token>>

\* Does not compare.
StateIsThere(t) == oauthState # NULL

StateMatches(t) == oauthState # NULL /\ oauthState = flow[t]

CallbackSucceeds(t, p) ==
    /\ at[t] = "google" /\ StateMatches(t)
    /\ \E a \in AccountIds : UpsertUser(p, a) /\ token' = a
    /\ oauthState' = NULL
    /\ Show(t, "to app")
    /\ UNCHANGED <<address, flows, flow, leaving>>

\* No cookie, another state, or an account that cannot be had.
CallbackRefused(t, p) ==
    /\ at[t] = "google"
    /\ StateMatches(t) => Conflicts(p)
    /\ Show(t, "refused")
    /\ UNCHANGED <<people, cookies, flow, leaving>>

\* Google, or the way to it, fails.
ExchangeFails(t) ==
    /\ at[t] = "google"
    /\ Show(t, "refused")
    /\ UNCHANGED <<people, cookies, flow, leaving>>

-----------------------------------------------------------------------------
(***************************************************************************)
(* Signing out, and deleting the account.                                   *)
(***************************************************************************)

\* handleSignOut, or the deletion confirmed.
Leave(t) ==
    /\ at[t] = "app" /\ leaving[t] = "no"
    /\ Stage(t, "signing out") \/ Stage(t, "deleting")
    /\ UNCHANGED <<people, cookies, at, flow>>

\* The action that deletes the account of the cookie.
Delete(t) ==
    /\ leaving[t] = "deleting"
    /\ IF SessionValid
       THEN /\ accounts' = [accounts EXCEPT ![token] = Deleted]
            /\ Stage(t, "deleted") /\ UNCHANGED at
       ELSE Show(t, "to login") /\ Stage(t, "no") /\ UNCHANGED accounts
    /\ UNCHANGED <<address, cookies, flow>>

\* Failed, or done and the answer lost: onError.  Or withAuth could not ask for the
\* session, and the action redirects.
DeletionLost(t) ==
    /\ leaving[t] = "deleting"
    /\ \/ SessionValid /\ accounts' = [accounts EXCEPT ![token] = Deleted] /\ UNCHANGED at
       \/ UNCHANGED <<accounts, at>>
       \/ Show(t, "to login") /\ UNCHANGED accounts
    /\ Stage(t, "no")
    /\ UNCHANGED <<address, cookies, flow>>

AfterLogout(t) ==
    \/ leaving[t] = "signing out" /\ Stage(t, "clearing")
    \/ leaving[t] = "deleted" /\ Stage(t, "clearing after deletion")

Logout(t) ==
    /\ AfterLogout(t)
    /\ token' = NULL
    /\ UNCHANGED <<people, oauthState, flows, at, flow>>

\* An answer that is an error is an answer too.
LogoutFails(t) ==
    /\ AfterLogout(t)
    /\ UNCHANGED <<people, cookies, at, flow>>

\* Leaves the tab where it is.
ThrowsUncaught(t) ==
    /\ leaving[t] \in {"signing out", "clearing", "deleted", "clearing after deletion"}
    /\ Stage(t, "no")
    /\ UNCHANGED <<people, cookies, at, flow>>

\* signOut, or the clearing of the caches, throws: after a deletion the tab goes to the
\* login page even so.
Throws(t) ==
    /\ \/ leaving[t] \in {"signing out", "clearing"} /\ UNCHANGED at
       \/ leaving[t] \in {"deleted", "clearing after deletion"} /\ Show(t, "to login")
    /\ Stage(t, "no")
    /\ UNCHANGED <<people, cookies, flow>>

\* The caches are cleared: router.push('/login')
Cleared(t) ==
    /\ leaving[t] \in {"clearing", "clearing after deletion"}
    /\ Show(t, "to login") /\ Stage(t, "no")
    /\ UNCHANGED <<people, cookies, flow>>

-----------------------------------------------------------------------------
(***************************************************************************)
(* Elsewhere.                                                               *)
(***************************************************************************)

\* The token is no longer accepted, or a cookie is gone.
Expire ==
    /\ \/ token # NULL /\ token' \in {NULL, Stale} \ {token} /\ UNCHANGED oauthState
       \/ oauthState # NULL /\ oauthState' = NULL /\ UNCHANGED token
    /\ UNCHANGED <<people, flows, tabs>>

ChangeAddress(p) ==
    /\ \E e \in Addresses \ {address[q] : q \in People} :
        address' = [address EXCEPT ![p] = e]
    /\ UNCHANGED <<accounts, cookies, tabs>>

SignInElsewhere(p) ==
    /\ \E a \in AccountIds : UpsertUser(p, a)
    /\ UNCHANGED <<address, cookies, tabs>>

DeleteElsewhere(a) ==
    /\ Exists(a)
    /\ accounts' = [accounts EXCEPT ![a] = Deleted]
    /\ UNCHANGED <<address, cookies, tabs>>

Event ==
    \/ Expire
    \/ \E p \in People : ChangeAddress(p) \/ SignInElsewhere(p)
    \/ \E a \in AccountIds : DeleteElsewhere(a)
    \/ \E t \in Tabs : CheckFails(t) \/ ExchangeFails(t) \/ DeletionLost(t)
                        \/ LogoutFails(t) \/ Throws(t)

Step(t) ==
    \/ Open(t) \/ Resolve(t) \/ TurnAway(t)
    \/ GoogleOAuth(t) \/ \E p \in People : CallbackSucceeds(t, p) \/ CallbackRefused(t, p)
    \/ Leave(t) \/ Delete(t) \/ Logout(t) \/ Cleared(t)

Next ==
    \/ events < MaxEvents /\ events' = events + 1 /\ Event
    \/ (\E t \in Tabs : Step(t)) /\ UNCHANGED events

\* The server answers, and a tab goes on with what it has begun.
Fairness ==
    \A t \in Tabs :
        /\ WF_vars(Resolve(t) /\ UNCHANGED events)
        /\ WF_vars((Delete(t) \/ Logout(t) \/ Cleared(t)) /\ UNCHANGED events)

Spec == Init /\ [][Next]_vars /\ Fairness

-----------------------------------------------------------------------------
\* The state has its types.
TypeOK ==
    /\ address \in [People -> Addresses]
    /\ accounts \in [AccountIds -> {NULL, Deleted} \cup [address : Addresses, google : People]]
    /\ token \in AccountIds \cup {NULL, Stale}
    /\ flows \in 0..MaxFlows
    /\ oauthState \in {NULL} \cup 1..flows
    /\ at \in [Tabs -> Places]
    /\ flow \in [Tabs -> 0..flows]
    /\ leaving \in [Tabs -> Leaving]
    /\ events \in 0..MaxEvents

\* No two accounts have the same address or the same Google account, whichever of them
\* signs in, moves to another address, or leaves and comes back.
OneAccountEach ==
    \A a, b \in AccountIds :
        (Exists(a) /\ Exists(b) /\ a # b) =>
            /\ accounts[a].address # accounts[b].address
            /\ accounts[a].google # accounts[b].google

\* Of the sign-ins that the tabs have begun only the last can be completed, once.
OnlyLastFlow ==
    [][token' # token /\ token' \in AccountIds =>
        /\ oauthState = flows /\ oauthState' = NULL
        /\ \E t \in Tabs : at[t] = "google" /\ flow[t] = flows /\ at'[t] = "to app"]_vars

\* frontend/docs/08_authentication.md:279: the upsert is on the Google account and sets the
\* address, so who comes back with another address is let in, if no account has it.
ReturningUserLetIn ==
    [][\A t \in Tabs, p \in People :
        CallbackRefused(t, p) /\ StateMatches(t) /\ events' = events
            => AccountsWith(address[p]) # {}]_vars

\* The redirections of the proxy, the layouts and the login page come to an end.
RedirectsSettle == \A t \in Tabs : at[t] \in Asking ~> at[t] \notin Asking

\* After the deletion of the account the tab gets to the login page, whatever becomes of
\* the sign-out, unless somebody is signed in by then.
DeletionEndsAtLogin ==
    \A t \in Tabs : leaving[t] = "deleted" ~> at[t] = "login" \/ SessionValid
=============================================================================
