# SubsQ in TLA+

SubsQ keeps track of a person's paid subscriptions: a Next.js frontend, a Go
API server and a PostgreSQL database.  This directory holds TLA+ modules of the
parts whose correctness depends on the order in which things happen or on
arithmetic at the edges, TLC configurations that check them on small instances,
and proofs for TLAPS.  Paths below are relative to the repository; `backend/...`
is `src/backend/...` and so on.

## 1. Inventory

| Component | State it keeps | Operations | What makes it correct |
|---|---|---|---|
| PostgreSQL schema (`backend/migrations`) | rows of `users`, `payment_methods`, `subscriptions`; locks of open transactions | the sqlc statements (`gateway/db/sqlc/queries`) | references between tables never dangle; cascades and RESTRICT |
| Subscription use cases (`usecase/subscription_interactor.go`) | the row read by an earlier statement | Create, Update, Delete, DeleteMany, List, Get | a subscription refers to a payment method of its own user; a deletion is complete; an update keeps what it does not mention |
| Payment method use cases (`usecase/payment_method_interactor.go`) | the usage count read by an earlier statement | Create, Update, Delete, DeleteMany, List, GetByID | a payment method in use is never deleted |
| User use cases (`usecase/user_interactor.go`) | | Get, Update, Delete of the current user | nothing of a deleted account is left, or comes later |
| Transactions (`driver/db/tx.go`) | the open transaction in the context | WithinTransaction | all or nothing; locks are given up on every path |
| Connection pool (`driver/db/pool.go`), start and shutdown (`cmd/api/main.go`) | ten connections; requests in progress | acquire, release; SIGTERM, ten seconds, close | no request waits for ever for a connection; shutdown lets answers out |
| Authentication (`usecase/auth_interactor.go`, `controller/auth_controller.go`, `middleware/auth.go`) | cookies `oauth_state` and `subsq_token` in the browser, users | GoogleOAuth, GoogleCallback, Logout, JWTAuth | a login ends in the account of the person who logged in; a logout ends the session |
| Billing arithmetic (`domain/subscription`) | | CalculateNextBillingDate, ToMonthly/ToYearlyAmount, CalculateSummary | the next date is a real day, the right one, and later than now |
| Base date on the wire (`frontend/src/shared/utils/date.ts`, `subscription_controller.go`) | | day -> ISO string -> Unix seconds -> day | the day the user chose is the day that is stored |
| BFF handlers (`frontend/src/external`) | | forward a call with the cookie, `withAuth` in front | a field the user cleared is cleared; an error is not taken for data |
| Query cache (`frontend/src/features/*/hooks`, `shared/lib/query-client.ts`) | cached lists and details, fetches in flight | queries, mutations with invalidation | after a mutation or a pull the cache is what the server has, whatever was on its way; nothing waits for a fetch nobody makes |
| Pages and forms (`features/*/components`, `app/`) | the page, the page on its way, form values, the row in a dialog | navigate, change, submit, cancel, delete, confirm | a form does not lose input; a late success does not drag the user away; a list offers what the server will do |
| Pull to refresh (`PullToRefresh/usePullToRefresh.ts`) | the gesture, the queries it waits for | touch handlers, invalidate, wait | the indicator goes |
| Session in the browser (`proxy.ts`, `features/auth`, `Header/useHeader.ts`, `features/settings`) | two cookies, where each tab is | redirections, sign-in, sign-out, account deletion | redirections end; only the last sign-in begun completes; a deletion ends at the login page |
| Presenters, views, configuration, generated clients, CI | | | no behaviour that depends on order |

How they interact.  A tab renders pages that the Next.js server prepares, with
the queries it prefetched; from then on the tab's query cache fetches through
server actions, which Next.js sends one at a time, and each mutation says which
keys are fetched again.  The tabs of a browser share its cookies and nothing
else.  A browser calls the BFF, which calls the Go API with the
user's cookie; every request runs in a goroutine of its own and talks to
PostgreSQL statement by statement.  Only `DeleteMany` of subscriptions and
`Delete`/`DeleteMany` of payment methods run in a transaction; everything else
is a sequence of statements that commit by themselves.  So two requests of one
user (two tabs, two devices, a retry) or of two users meet at any statement,
and what a request has read may be out of date when it writes.

The hard behaviours, and the lines where they bite, are the `hazards` of
`PROJECT.json`.

## 2. Modules

| Module | Models | Code |
|---|---|---|
| `SubsqStore` | tables, queries and statements; what the data must satisfy | migration, `queries/*.sql`, repositories |
| `SubsqCalls` | calls and answers of the HTTP API, the checks that need no database | `port/subscription_port.go`, controllers, `ValidateFields`, `handleError` |
| `SubsqRequests` | how a request moves from statement to statement, transactions and row locks, failures | controllers, `driver/db/tx.go` |
| `PaymentMethodUseCases`, `SubscriptionUseCases`, `UserUseCases` | one action per SQL statement of each operation | `usecase/*_interactor.go` |
| `SubsqAPI` | the abstract specification: each call takes effect at one moment, and each status is the truth about one moment | `docs/global_design/07_api_design.md`, `handleError` |
| `SubsqBackend` | the composition: any number of requests interleaved; invariants, action properties, refinement of `SubsqAPI`, liveness | `middleware/auth.go`, the use cases it composes |
| `MCSubsqBackend` | symmetry for TLC | |
| `SubsqBackend_proofs` | its inductive invariant and the theorems that follow from it | |
| `SubsqRefinement_proofs` | that it implements `SubsqAPI`, and what that rests on | |
| `Billing` | what the list of subscriptions computes each time somebody looks: next billing dates and totals | `domain/subscription/logic.go`, `entity.go`, `subscription_presenter.go` |
| `MCBilling` | the days of the instance, symmetry | |
| `Billing_proofs` | the theorems about it | |
| `SubscriptionForm` | how the fields of a subscription travel from the form to the row and back | `useSubscriptionForm.ts`, `date.ts`, `subscription.command.server.ts`, `subscription_controller.go`, `subscription_presenter.go` |
| `MCSubscriptionForm` | the dates and the zone of the instances | |
| `SubscriptionForm_proofs` | the theorems about it | |
| `ServerActions` | the server as a tab sees it: query keys, what the API has for each, mutations in flight; a mutation has the effect that `SubsqAPI` promises | `external/handler`, `external/service`, `external/dto`, `fetcher.ts`, key factories |
| `QueryCache` | the cache of a tab: data, fetch, answer on its way and failure of each key | `query-client.ts`, TanStack Query as the hooks use it |
| `Router` | pages, prefetching templates, hydration, redirections | `app/`, `components/server`, `proxy.ts`, the layouts |
| `SubscriptionPages`, `PaymentMethodPages` | what each page offers in which state, and what its hooks do | `features/*/components/client`, `features/*/hooks` |
| `Pages` | the composition: a tab, its server, other devices, failures; the properties | the same, `usePullToRefresh.ts`, `HeaderPresenter.tsx`, `auth.guard.ts` |
| `MCPages` | the instances | |
| `PagesTypes_proofs`, `Pages_proofs` | the theorems about it | |
| `Session` | accounts, the two cookies, the tabs of a browser: sign-in, redirections, sign-out, deletion | `auth_controller.go`, `auth_interactor.go`, `user.sql`, `proxy.ts`, `features/auth`, `features/settings`, `useHeader.ts` |
| `MCSession`, `Session_proofs` | the instance; the theorems about it | |

### State and actions

`users`, `paymentMethods`, `subscriptions` are the tables (a function from ids to
rows or `NULL`).  `fresh` are the UUIDs that `gen_random_uuid()` has not handed
out, so that an id is never used twice.  For each request `call` is the bound
request, `pc` the statement it makes next, `row` the subscription the Go code
holds in memory between its reads and its write, `locks` the rows its open
transaction has deleted, `answer` what the client was told.

A step of a request is one SQL statement with the Go code up to the next one:

| Operation | Statements (values of `pc`) |
|---|---|
| create subscription | `verify` (FindByID of the payment method, if one is named), `write` (INSERT) |
| update subscription | `find`, `verify`, `write` (UPDATE of all columns) |
| delete subscription | `find`, `delete` |
| delete subscriptions | `find`, `delete`, `commit`, in a transaction |
| create payment method | `write` |
| update payment method | `find`, `write`, `recount` |
| delete payment methods (one or many) | `find`, `count`, `delete`, `commit`, in a transaction |
| delete account | `find`, `delete` (with the cascades) |

then `respond`, and the answer.  `Fail(r)` may happen at every step: a statement
fails, the client goes away and cancels the context, the process stops, or the
acknowledgement of a write or a commit is lost (`Fail` at `respond`).  The
transaction is rolled back and the client sees a 500 or nothing.  A crash of the
server is `Fail` of every request in progress, one after the other.

### Abstractions

* PostgreSQL runs at its default, READ COMMITTED.  A statement is atomic; the
  rows a transaction deleted stay visible and locked until it commits, and a
  statement that needs one of them waits: an UPDATE or DELETE of the row, the
  foreign key check of an INSERT or UPDATE that refers to it, the RESTRICT check
  of a DELETE whose referring row is being deleted.  An UPDATE that leaves
  `payment_method_id` as it was does not check the foreign key.
* A statement takes its locks at once.  In PostgreSQL two statements can each
  hold a part and wait for the other; the deadlock detector then ends one of
  them with an error, which is `Fail`.
* The cascades of `DELETE FROM users` run before the RESTRICT checks they cause,
  so payment methods and the subscriptions that use them go together.
* A failed transaction gives up its locks when the client is answered.
  (`Rollback` with a cancelled context closes the connection, and the server
  rolls back a little later; that only makes others wait longer.)
* `service_name`, `amount`, `billing_cycle`, `base_date` and `memo` are one value,
  the plan, with the legal ones among them (`ValidPlans`); the same for names of
  payment methods.  Time stamps and the profile of a user are left out.
* The user of a request is one whose id was handed out at some time, with an
  account or without: the middleware does not ask the database, and a token
  lives for thirty days.
* Reads (List, Get) change nothing and are not requests of the model.
* Bodies that do not parse are answered like illegal ones (`Reject`).
* DELETE of one payment method runs the same statements as the list of one.

### Billing

`Billing` has two variables: `today`, the UTC day of the presenter's clock, and
the rows of a user, which keep the month of `created_at` because a yearly
subscription is billed in that month.  A date is a record of year, month and day.
Billing dates are midnights UTC, so `next.After(now)` compares days; it is the code's
reading that a bill due today is not next (see the observations in section 5: documents
read it otherwise).  `time.Date` normalises month 13 to the January of the year
after; `BillingDateIn` does the same.  `created_at` is read with `time.Unix`, in
the zone of the server; its images set none, so that is UTC, as `today` is.  It is
stored as an int32, hence `YearsAssumption`.

### SubscriptionForm

`SubscriptionForm` follows one subscription between its row, the form in a
browser and other clients of the API.  `row` is the row, `detail` the response in
the query cache, `fetch` the answer of a detail query on its way, `form` the form
fields, `request` and `answer` what the form and another client have sent and been
told.  Instants are seconds and dates days since 1970, so that the conversions are
arithmetic: the form sends midnight UTC of a date, the controller takes the seconds
for the day of the month, the presenter gives the day of the month back as so many
seconds, and the form shows an instant in local time (`Offset`).  The payment
method stands for all optional fields; `None` is null, `Absent` no field.  An
update sets `updated_at`, and so makes a response that differs from the cached one,
unless it falls in the same second; the values are capped by `MaxUpdates`.  A refetch that
fails caches null in place of the row, and the row after it loads the form again.  The
statements of the use cases are atomic here (`SubsqBackend` has their
interleavings), and the payment methods always exist.  A form has one request in
flight, as its disabled fields and buttons ensure while it is open.

### Pages

The modules extend one another in the order `ServerActions`, `QueryCache`, `Router`,
`SubscriptionPages`, `PaymentMethodPages`, `Pages`.  `ServerActions` uses the tables of
`SubsqStore` and, through an instance, the calls and effects of `SubsqAPI`: what the
backend was checked to implement is what the tab relies on.

* `version` is what a response holds besides the fields of the row and changes without
  them: `updatedAt`, and for a subscription its next billing date, which a new day moves
  (`DayPasses`).  The usage count of a payment method is computed from the tables.  A
  response that differs in any of these is a new object after structural sharing, and
  runs the effect of a form again.  Two updates within one second that change nothing
  else share an `updatedAt`; no page can tell the second from a step that does nothing,
  so it needs no action.
* `cache`, `asked`, `answers` and `failed` are partial functions and sets of keys: the
  data, the fetches the server has yet to answer, the answers on their way back, the keys
  whose last fetch failed.  An answer is what the API had when the action ran, so it may
  be old when it arrives.
* Mounting a component fetches what it uses, because `staleTime` is 0; a fetch in flight
  is joined.  `invalidateQueries` cancels the fetch of a key with data and starts another;
  a key without data joins.  Both are what TanStack Query does with the defaults the
  code leaves alone, and are marked external in the map.  The one retry of a failed fetch
  belongs to the fetch.
* `next` is a page on its way: `router.push`, then rendered on the server with the data
  it prefetched, then shown.  A page whose row the service cannot get is rendered as not
  found.  A second push drops the first.
* A mutation in flight is `mine` while the component that sent it is mounted: the callbacks
  of `mutate` run only then, the ones of `useMutation` always.
* A presenter is a set of links, a set of rows whose deletion it offers, and a condition
  for its fields; a hook's handler is an action.  Two pages of one kind are two mounts.
* `refresh` are the keys a pull waits for.  The gesture is one action, `Pull`.
* `current` is for the properties: keys that an own mutation or a pull has made fetch
  again over data that was there, and those that a page came with as the server still has
  them (`Delivered`), since which nothing has changed.
* `signedIn` is whether the API accepts the session.  The session check returns null on
  every failure, so a session that the API accepts may still count for none: a page is
  redirected (`SessionCheckFails`), a query or a mutation turned away (`SessionUnknown`).
* The plan of a subscription stands for its fields other than the payment method, as in
  `SubsqStore`; the base date has `SubscriptionForm`, which shows that the server refuses
  every date of the form today.  The pages are modelled for a server that accepts some,
  so that what they promise does not rest on that.

### Session

`token` is `subsq_token`: an account, `Stale` when the API refuses it, or `NULL`.
`oauthState` is the number of the sign-in the cookie belongs to; a state is random in the
code and fresh here.  `flow` is the sign-in that each tab has begun last, whose state is in
the address Google sends it back to.  `at` is what a tab shows or asks for, `leaving` the
`await` that its sign-out or its deletion has reached; a tab runs one of them at a time.
`CallbackSucceeds` is the upsert on the email, which takes over the row of the address and
meets the key on `(provider, provider_account_id)` as an error.  The same people sign in,
delete accounts and change their addresses on other devices.  Signing and reading the
token, and the exchange of the code, succeed or fail.  A session check fails when the API
cannot be asked: the layouts and `withAuth` then send a tab with a valid session to the
login page (`CheckFails`, `DeletionLost`), which shows itself when its own check fails too.

## 3. What is checked

| Run | Instance | Question |
|---|---|---|
| `backend` | 2 users, 2 payment methods, 1 subscription, names and plans legal and illegal, 2 requests | does the backend implement `SubsqAPI`, and do interleaved requests keep the data of each user whole and apart? |
| `backend_three` | 1 user, 1 payment method, 2 subscriptions, 3 requests | do transactions that wait for each other still tell the truth? |
| `backend_liveness` | 1 user, 1 payment method, 1 subscription, 2 requests | is every request answered? |
| `billing` | 2 subscriptions, base dates 1, 29 and 31, 14 days from February 2023 to February 2025, amounts 11 and 12 | are the dates and totals that the list shows right? |
| `subscription_form` | the dates 2000-01-01 and 2025-03-15, New York, clients that send 1, 31 and 86400 seconds, 1 payment method | what becomes of what the form and other clients send? |
| `form_creates` | the same | does the form of the end-to-end tests create a subscription? (It does not.) |
| `null_clears` | the same | does a PATCH with null take the payment method away? (It does not.) |
| `pages` | 1 payment method, 1 subscription, a legal and an illegal name, 1 mutation in flight, 1 change of the data, 1 answer at a time, 2 turns | does what arrives late or out of order spoil the cache, the form or the place of the user? |
| `pages_settles` | no payment method, 1 subscription, the same bounds | do a pull and a page's loading end? |
| `session` | 2 tabs, 1 person, 2 addresses, 2 accounts, 2 sign-ins, 2 events | who is signed in to what, and where do the tabs end? |
| `lost_update` | 1 user, 2 plans, 2 requests | does a PATCH keep what it does not mention? (It does not: see Findings.) |
| `changed_address` | 1 tab, 1 person, 2 addresses, 2 accounts, 2 sign-ins | is a Google account that comes back with another address let in? (It is not.) |

Properties:

* `PaymentMethodIntegrity`: a subscription's payment method exists and is its own
  user's.  The schema guarantees the first half only.
* `NoOrphans`: no row without its user.
* `LocksProtect`: what an open transaction deleted stays its own and unused.
* `VerifiedRows`: the check of the payment method stays good until the write.
* `DeletedMeansGone`: a 2xx to a DELETE is the truth.
* `OnlyOwnRowsChange`: a request touches rows of its own user only.
* `UsedMethodsStay`: a payment method in use goes only with the account, never on
  the strength of an old count.
* `KeepsPromises`: every behaviour is one of `SubsqAPI`, under the mapping of
  `pc` to the phases idle, pending and applied.  A 404 or 409 or 400 is right at
  the moment the backend decides on it, and a 2xx means that the effect took
  place at one moment of the call.
* `ReadsLast`: what a request has read, built or deleted is still right at its next
  statement.  A row found among the user's is the user's or gone for good (`Seen`), a
  transaction has deleted what its call names and is still there (`Staged`), the row in
  memory is what the call says, with a legal plan (`RowFollows`), and so are the rows of
  the table (`PlansAreValid`).
* `EveryRequestAnswered`: nobody waits for ever.
* `NothingSkipped`: the next billing date is a day of the schedule (the base date, or the
  last day of a month that has no such day, whatever the months before it were), has not
  passed, and no bill lies between today and it.  It holds whether a bill of today is
  shown or has given way to the next.
* `DatesAdvance`: the date shown for a row that nobody edits stays until it has
  come and then moves forward.
* `TotalsAgree`: rows are rounded one by one, and still twelve monthly totals are
  at most the yearly total and less than twelve yen per row short of it.
* `EchoKeepsRow`: a client that sends back what it was shown changes nothing.
* `NoFormIsStored`: the server accepts nothing that the form sends; the other side
  of the finding `form_creates`.
* `RefetchedIsCurrent`: what an own mutation or a pull has had fetched again, over data
  that was there, is what the server has once the key is at rest.  (Over no data the
  invalidation joins the fetch in flight, which may be older than the mutation; the
  property leaves that case out because it is false there.)
* `OffersAreHonest`: after a pull, the list of payment methods offers to delete exactly
  the unused ones.
* `NothingForgotten`: no page uses a key that is not cached, not being fetched, and not
  known to have failed.
* `LeadsAwayFromItsFormOnly`: a success that comes after the user has gone leaves the tab
  where it is.
* `InputSurvives`: once a page has come with the row that its form edits, or an own mutation
  or a pull has had the row fetched again, and the cache has it as the server does, no
  fetch loads the form anew until something changes: not the one of the mount, nor one
  that a mutation started, early or late.  News (another update, another usage count,
  another billing date) does, and so does the same row after a failed fetch.
* `RefreshEnds`, `LoadingEnds`: a pull and an indicator of loading end.
* `OneAccountEach`: no two accounts share an address or a Google account, although an
  upsert may move a row to another person or a person to another address.
* `OnlyLastFlow`: a sign-in that another tab has begun again cannot be completed, nor one
  twice.
* `RedirectsSettle`: the proxy, the layouts and the login page do not send a tab around for
  ever; the login page asks for a session, where the proxy asks for a cookie.
* `DeletionEndsAtLogin`: the tab ends at the login page whatever becomes of the sign-out.

Bounds.  Every violation these properties describe needs two requests, one of
which acts between two statements of the other, or three where a transaction
waits for a second while a third arrives; one row to delete, one to refer to it,
and a second payment method or a second user to mistake it for.  Ids are used
once, so a behaviour of an instance is bounded by its ids; requests can be made
again and again.  The runs use symmetry (ids and requests are interchangeable, and so are
the legal contents) except the one that checks liveness.  No counter is capped.  That run
stays at two requests because `SubsqStore` takes the locks of a statement at once: with
three, two could keep a third that needs both their rows waiting by turns for ever, where
PostgreSQL lets it queue for one row and then for the other.

In `billing` the days
stand on both sides of the ends of a month with 31 days, of a February with and
without the 29th, and of two years; days pass forward, from any to any later one.

In `subscription_form` 2000-01-01 is a date that the form refuses west of Greenwich, 1
and 31 are the ends of what ValidateFields lets through and 86400 is an instant that
a form could send; one update with a new `updated_at` (`MaxUpdates`) is enough for an
answer that is older than the row.

In `pages` the user uses dialogs and forms as often as she likes; `MaxTurns` counts what
starts something new from outside: navigations, pulls, sign-ins, other devices, expiry,
failures, collected keys.  Any page can be the first, over any data, so two turns are a
page left and come back to, or a pull and a failure, or a failure and another device.
`MaxMutations` and `MaxChanges` bound mutations in flight and changes of the data: an
older answer needs one change to be older than.  `MaxAnswers` is 1 because Next.js runs
the server actions of a tab one after another; the theorems hold for any number.  One
of the names is legal, so that forms are refused too.  Neither run uses symmetry.  The one
with liveness leaves payment methods out, so that it has both lists but a single row.
Both say CHECK_DEADLOCK FALSE: a tab whose turns are used up may
have nothing left to do, as a real one may.

In `session` two sign-ins are enough for one to overtake the other; two events for a
failure of the deletion's sign-out after a change elsewhere; two addresses and two
accounts for an account left behind under an old address.  One person has both sides of
the conflict of keys; two persons who swap addresses are covered by the proofs.

Fairness.  `FairSpec` asks for strong fairness of the steps of each request that
the backend makes by itself.  A request runs in a goroutine that the scheduler
does not starve, and PostgreSQL wakes the waiters of a row in the order they
came; a statement that can go on again and again is therefore not passed over
for ever.  Nothing is assumed of clients (`Accept`) or of failures (`Fail`).
`OutOfIds` excuses a create in an instance whose ids are used up.
`Pages` asks for weak fairness of `ServeQueries`, `ServeMutations` and `RefreshDone`: the
queue of server actions goes on, every call of the API ends in an answer or an error, and
the tab runs what has arrived.  A server that keeps a connection open for ever would break
it, and the code has no timeout against that (`fetcher.ts:19`).  `Session` asks for weak
fairness of redirections and of the steps of a deletion or sign-out that has begun, which
are promises of one tab.  Nothing is assumed of the user, of Google, or of failures.

Every property is checked against a mutant of the code it is about (`mutants` of
`PROJECT.json`): the mutated definitions stand just before the ones they replace
and say what they forget.

## 4. What is proved

`SubsqBackend_proofs` proves, for any sets of ids, contents and requests, from
the assumptions of `SubsqStore` (ids of different kinds differ, `NULL` is none of
them nor a row, legal contents are contents):

* `TypeCorrect`, `References`, `NothingLeftBehind`, `LocksHold`, `VerificationLasts`: the
  parts of the inductive invariant `IInv` that the runs check;
* `UsedMethodsNeverDeleted`: `Spec => UsedMethodsStay`.

The argument.  `PaymentMethodIntegrity` is not inductive: a write could refer to
somebody else's payment method if the row in memory did.  `VerifiedRows` says it
does not: after the check the payment method is the user's or is gone, and gone
for ever, because ids are not reused (`FreshIdsUnused`); a row that is gone is
refused by the foreign key at the write.  A commit could remove a payment method
that has come to be used since the DELETE looked; `LocksProtect` says that no
subscription can have come to refer to a locked row, because the foreign key
check waits for it.  `NoOrphans` needs `VerifiedRows` for the user of the row and
the foreign key for the user's existence.  `IInv` is the conjunction of these
and `FreshIdsUnused`.  The proof has one
lemma per kind of step: the answer (`FinishIInv`), a read (`ProceedIInv`), the
deleting statement of a transaction (`StageIInv`), rows that go
(`RemoveRowsIInv`), and one for each statement that writes; `NextIInv` puts them
together.  `UsedMethodsStay` follows from `WhenMethodsGo`: rows of payment
methods disappear in two actions only, a commit, whose rows are unused by
`LocksProtect`, and the deletion of the account.

`SubsqRefinement_proofs` proves, from the same assumptions:

* `PromisesAreKept`: `Spec => KeepsPromises`, that is `Spec => API!Spec` under the
  mapping of `pc` to phases;
* `ReadsStayGood` (`Spec => []ReadsLast`), `DeletedRowsAreGone`
  (`Spec => []DeletedMeansGone`) and `OwnRowsOnly` (`Spec => OnlyOwnRowsChange`).

The argument.  `IInv` is about references and locks; it does not say that the answer
of a request is true.  For that, what it has read must last.  Each statement changes
rows of the user of its own request only, gives no row to an id that had one, and
writes legal plans (`ChangesOwnRows`, one lemma per statement that writes;
`RequestStepChanges` puts them together).  Hence a row that another request has seen
is as it was found or gone (`OthersReadsLast`), a request's own step establishes what
its next step needs (`SubscriptionReadsLast`, `PaymentMethodReadsLast`,
`CommitReadsLast`), and `ReadsLast` is inductive with `IInv`
(`NextReadsLast`).  A commit removes what the transaction has staged
and not what its call names at that moment; `Staged` says that the two are the
same, because nobody else can delete locked rows nor bring others back.

A step then is one of four kinds, each with a lemma: it decides on an error, which is
right of the tables at that moment (`NotFoundPromised`, `InvalidPromised`,
`InUsePromised`); it has the effect of the call (`EffectPromised`), which is a write,
a commit or a DELETE by itself; it only reads, which the API does not see
(`ReadPromised`, a stutter); or it answers with what was decided (`NextPromised`).  A
DELETE that finds nothing left to delete is the effect too: by `Seen` the row was
there and somebody else's deletion came first.  That `SubsqAPI` means by `Effect`
and its other words what the backend means is `SameWords`.

`Billing_proofs` proves for every base date, amount, day and year, and any number of rows:

* `TypeCorrect`, `NothingIsSkipped` (`Spec => []NothingSkipped`) and
  `DatesOnlyAdvance` (`Spec => DatesAdvance`);
* `FirstBillingDayAfter`: the code's reading, that the date shown is the first billing day
  later than today;
* `RoundingOfARow` for one row, and `TotalsAlwaysAgree` (`Spec => []TotalsAgree`), from
  the assumption that the ids are finitely many.

The argument.  A billing day of a month is what `ClampDay` makes of the base date
and nothing else (`OneBillingDay`); both branches of `CalculateNextBillingDate`
give such a day, later than now (`NextIsBillingDay`), and a billing day before it
would lie in the month or year that the first branch has rejected, or between two
neighbouring ones (`NoneBetween`); the bill a month or a year earlier has come
(`BillBeforeHasCome`).  If the date shown is still to come when days
have passed, it and the one shown then are each the first, so they are the same;
otherwise the new one is later than today and so later than the old one.

`SumFunctionOnSet` picks one index after another, in an order of its own.  Both totals
take the same order, so the bounds of a row add up.  An induction over the number of
rows would need a predicate for a parameter; instead the proof takes the least
size of a set for which the claim fails (`Least`, from the well-foundedness of `<`)
and finds a smaller one.  It does so twice: for the existence of the
recursive function behind the sum (`SumsExist`), without which nothing is known of
its values, and for the bounds (`SumsAgree`).

`SubscriptionForm_proofs` proves for every zone, date, instant and payment method,
from the assumption that null and no field are neither numbers nor payment methods:
`TypeCorrect`, `EchoesKeepTheRow` (`Spec => EchoKeepsRow`) and `FormsAreRefused`
(`Spec => []NoFormIsStored`).  A midnight is a multiple of 86400 seconds, never between
1 and 31 (`MidnightIsNoDay`); the form always sends one, so no merge with the row can
make the base date legal again.  `TypeOK` and `NoFormIsStored` are inductive together.

`PagesTypes_proofs` proves `Spec => []TypeOK` for `Pages`, from the assumptions of
`SubsqStore` and the bounds being numbers.  Every action has a lemma; `TypeInv` adds the
shapes of what is cached, on its way and in the form, without which a request built from
the form would not be a call.  `Pages_proofs` proves, for any ids, names, data, number of
mutations, answers and turns:

* `RefetchIsNotOvertaken` (`Spec => []RefetchedIsCurrent`).  At rest is not enough for an
  induction: `ComesCurrent` says of each key in `current` that what is cached or what its
  answer carries is what the server has, or that the server has yet to be asked.  It
  holds at an invalidation because keys with data are fetched anew and their old answers
  dropped, also those that a page on its way carries (`Outdated`); it stays because a change
  of the data empties `current`.
* `OffersHonest` (`Spec => []OffersAreHonest`), from currency of both lists and the
  references of the tables, which `SubsqAPI!Effect` keeps.
* `NoPageWaitsForNothing` (`Spec => []NothingForgotten`), which is inductive.
* `InputIsKept` (`Spec => InputSurvives`), from currency again: a form is loaded anew by an
  answer that differs from what is cached, and by `ComesCurrent` no answer of a key in
  `current` does while the cache has what the server has.  `FormInv` covers the rest: a
  page without a form has none, and a page with a form is not on its way to itself.
* `SuccessLeadsFromItsForm` (`Spec => LeadsAwayFromItsFormOnly`), from `MutationInv`: a
  mutation that is `mine` was sent from the page on the screen.

`Session_proofs` proves, for any tabs, people, addresses and accounts, `TypeCorrect`,
`AccountsStayApart` (`Spec => []OneAccountEach`) and `LastFlowOnly` (`Spec => OnlyLastFlow`).
The invariant adds that the cookie belongs to the last sign-in begun or is gone
(`LastState`).

Every invariant and every action property of the passing runs is a theorem.  Only
model-checked: `EveryRequestAnswered`, `RefreshEnds`, `LoadingEnds`, `RedirectsSettle` and
`DeletionEndsAtLogin`.  They are liveness under fairness, whose proofs need ENABLED, which
is out of the prover's reach.

## 5. Findings

* `lost_update`: `port/subscription_port.go:22` promises that a field that an
  update does not provide keeps its existing value.  The use case merges with the
  row it read and the UPDATE writes every column, so a concurrent change of
  another field is undone.  The abstract specification promises only what holds:
  the fields that the call mentions are as it says, and the row is legal
  (`SubsqAPI!Patched`).
* `form_creates`: `frontend/e2e/subscription-create.spec.ts:10` creates a
  subscription in the form.  The form sends midnight UTC, the controller
  (`subscription_controller.go:95` and `:136`) takes its Unix seconds for the day of
  the month, and ValidateFields refuses everything above 31.  No create or edit in
  the form succeeds (`FormsAreRefused`).
* `null_clears`: `docs/global_design/07_api_design.md:268` says that null takes the
  payment method away; null and a missing field are one nil pointer, and
  `WithUpdate` keeps the old value.
* `changed_address`: `frontend/docs/08_authentication.md:281` to `:297` show, for a user who
  logs in again, an upsert on the provider and the id of the account there that takes the
  address over; `docs/global_design/05_domain_design.md:62` names the same key.  `user.sql:5`
  conflicts on the email only.  When the address of a Google account has changed, the
  statement inserts, meets the key on `(provider, provider_account_id)` and fails: who
  comes back is refused every time.

Observations, which no run states:

* A bill due today.  `logic.go:44` to `:62` show the first date later than now, and a yearly
  bill in the month of `created_at`; `logic_test.go:174` and `:206` test that a base date of
  today gives the next month or year.  The documents say the nearest date from today on,
  today included (`02_use_cases.md:78`, `05_domain_design.md:42` and `:151` to `:169`,
  `01_requirements.md:61` and `:69`, `03_ubiquitous_language.md:22`), and take the month of
  a yearly bill from the base date, which in the schema is a day without a month.  The
  `setMonth` of the pseudocode also runs over the end of a short month (a month after
  31 January it is 3 March, and the 3rd from then on), where the code goes back to the last
  day.  `FirstBillingDayAfter` proves what the code does;
  `NothingSkipped` says what holds under both readings of today, for the schedule of the
  code.
* After a refetch that fails, null is cached, and the row that comes next loads the form
  over what was typed, even if it is the same row.
* An answer that was on its way when a page came with its data is joined and not cancelled;
  when it is the older one, it replaces the newer row and what was typed.  `Delivered` leaves
  these keys out.
* When the API cannot be asked for the session, the tab of a valid session is sent to the
  login page; it stays there if the check of that page fails too, and goes to the list of
  subscriptions otherwise.
* Renaming a payment method that is deleted between its statements is answered 500 where 404
  would be the truth: the repository gives the use case no error it knows
  (`SubsqAPI` allows a 500 at any time, so the runs do not tell the two apart).
* West of Greenwich the form shows a base date a day early, and an edit that the
  server accepted would store that day.
* The form that edits a payment method takes a missing list of subscriptions for no use
  (`usePaymentMethodForm.ts:43`) and offers the deletion meanwhile; the server refuses it.
  The list of payment methods waits for both lists.
* A failure of the API is shown as a row that does not exist (`subscription.service.ts:22`).
* Between the success of a create and the next page the form is open again.
* `useSessionWithRetry` looks for an HttpOnly cookie in `document.cookie`; no page
  renders the component that uses it.

## 6. Plan

Done: the backend and its abstract specification, billing, the form's base date, the tab
with its cache and pages, the session, and proofs of all their safety properties.  What is
left, in this order:

1. The gesture of pull to refresh: positions, animation frames, and the touch that is
   cancelled (`usePullToRefresh.ts:59` keeps the height of a pull that is taken back).
2. The caches of the service worker against a page on its way during a sign-out.
3. `ConnectionPool`: ten connections shared by transactions and statements.

## 7. Not modelled

* Presenters of the backend (they copy fields), configuration (read once), generated code,
  the API schema, CI and deployment scripts, logging and the wording of errors.
* Connection pool and shutdown: what goes wrong there depends on settings and real time.
* In the frontend: the back button and the router's cache of pages, prefetching of links,
  the query of the current user in the header, texts and validation messages, the gesture
  of pull to refresh, what a service worker caches, the pages about privacy and terms, the
  ui components, and the sign-in of end-to-end tests.  Two tabs with different people in
  them are in `Session` as far as cookies go; `Pages` has one tab and one person.
* Of the profile of a user, everything but its keys.
