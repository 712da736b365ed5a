-------------------------- MODULE SubscriptionForm --------------------------
(***************************************************************************)
(* One subscription, the form that creates or edits it in a browser          *)
(* (useSubscriptionForm, with the detail query that it shows), and other       *)
(* clients of the API.  What counts is how fields travel: the base date as      *)
(* date, ISO string, Unix seconds and day of the month, the payment method as    *)
(* value, null or nothing.                                                   *)
(*                                                                          *)
(* A date is a number of days since 1970-01-01, an instant a number of         *)
(* seconds; ISO strings and time.Time are instants.                           *)
(***************************************************************************)
EXTENDS Integers

CONSTANTS
    Dates,          \* that people pick in the form
    Instants,       \* that other clients send
    Offset,         \* of the browser's local time, in seconds east of UTC
    Methods,        \* payment methods of the user
    None,           \* no payment method: NULL in the table, '' in the form, null in JSON
    Absent,         \* a field that is not in the JSON
    NULL,           \* no row, response or request
    MaxUpdates      \* bound on the values of updated_at

ASSUME NumbersAssumption ==
    /\ Dates \subseteq Int
    /\ Instants \subseteq Int
    /\ Offset \in Int
    /\ MaxUpdates \in Nat

ASSUME ValuesAssumption ==
    /\ None \notin Methods \cup Int
    /\ Absent \notin Methods \cup {None} \cup Int

Senders == {"form", "client"}

Row == [baseDate : 1..31, method : Methods \cup {None}, updated : 0..MaxUpdates]

ASSUME NullAssumption == NULL \notin Int \cup Row

VARIABLES
    row,        \* of subscriptions, or NULL
    detail,     \* the response in the query cache, or NULL
    fetch,      \* answers of detail queries in flight: a set of at most one
    mode,       \* of the form: "create", "edit", or "closed"
    form,       \* formData
    request,    \* of each sender, in flight, or NULL
    answer      \* the status that each sender got last, or NULL

vars == <<row, detail, fetch, mode, form, request, answer>>

-----------------------------------------------------------------------------
(***************************************************************************)
(* Conversions.                                                             *)
(***************************************************************************)

DaySeconds == 24 * 3600

\* Date.UTC(year, month - 1, day)
dateStringToISO(date) == date * DaySeconds

\* parseISO, then format: in local time.
isoToDateString(instant) == (instant + Offset) \div DaySeconds

\* The form lets through dates from 2000 to 2100, by the local year of their
\* midnight UTC.
FirstDate == 10957
LastDate == 47846
FormDateValid(date) == isoToDateString(dateStringToISO(date)) \in FirstDate..LastDate

\* Presents the day of the month as so many days since 1970.
PresentDays(r) == [r EXCEPT !.baseDate = r.baseDate * DaySeconds]

\* time.Unix(int64(sub.BaseDate), 0): the day of the month as so many seconds.
toSubscriptionResponse(r) == r

\* The form fields of a response.
Loaded(response) ==
    [date |-> isoToDateString(response.baseDate), method |-> response.method]

Blank == [date |-> NULL, method |-> None]

\* What the browser sends: the payment method '' becomes null in the form, and
\* undefined, hence nothing, in the handler.
Payload(f) ==
    [baseDate |-> dateStringToISO(f.date),
     method   |-> IF f.method = None THEN Absent ELSE f.method]

\* JSON null and no field are both a nil pointer.
Given(field, old) == IF field \in {None, Absent} THEN old ELSE field

ValidateFields(baseDate) == baseDate \in 1..31

-----------------------------------------------------------------------------
(***************************************************************************)
(* The browser.                                                             *)
(***************************************************************************)

Init ==
    /\ row = NULL
    /\ detail = NULL
    /\ fetch = {}
    /\ mode = "closed"
    /\ form = Blank
    /\ request = [s \in Senders |-> NULL]
    /\ answer = [s \in Senders |-> NULL]

OpenNew ==
    /\ mode = "closed"
    /\ mode' = "create"
    /\ form' = Blank
    /\ UNCHANGED <<row, detail, fetch, request, answer>>

\* The page fetches the subscription, or is a 404, and hydrates the cache.
OpenEdit ==
    /\ mode = "closed" /\ row # NULL
    /\ mode' = "edit"
    /\ detail' = toSubscriptionResponse(row)
    /\ form' = Loaded(detail')
    /\ UNCHANGED <<row, fetch, request, answer>>

\* handleChange; the fields are disabled while a request is in flight.
Change(f) ==
    /\ mode # "closed" /\ request["form"] = NULL
    /\ form' = f
    /\ UNCHANGED <<row, detail, fetch, mode, request, answer>>

\* handleSubmit
Submit ==
    /\ mode # "closed" /\ request["form"] = NULL
    /\ form.date # NULL /\ FormDateValid(form.date)
    /\ request' = [request EXCEPT !["form"] =
            [op |-> IF mode = "create" THEN "POST" ELSE "PATCH", body |-> Payload(form)]]
    /\ answer' = [answer EXCEPT !["form"] = NULL]
    /\ UNCHANGED <<row, detail, fetch, mode, form>>

\* handleCancel
Cancel ==
    /\ mode # "closed" /\ request["form"] = NULL
    /\ mode' = "closed"
    /\ UNCHANGED <<row, detail, fetch, form, request, answer>>

\* A refetch (the network is back, say) reads the row, or fails; either way the
\* service answers, with null for a row that is gone or could not be had.
Refetch ==
    /\ mode = "edit" /\ fetch = {}
    /\ \/ row # NULL /\ fetch' = {toSubscriptionResponse(row)}
       \/ fetch' = {NULL}
    /\ UNCHANGED <<row, detail, mode, form, request, answer>>

\* An answer equal to the cached one is the same object (structural sharing), and
\* the effect that loads the form does not run.  It runs for a row that comes again
\* after an answer of null.
Receive ==
    \E response \in fetch :
        /\ fetch' = {}
        /\ detail' = response
        /\ form' = IF mode = "edit" /\ response \notin {NULL, detail}
                   THEN Loaded(response) ELSE form
        /\ UNCHANGED <<row, mode, request, answer>>

-----------------------------------------------------------------------------
(***************************************************************************)
(* Other clients, and the server.                                           *)
(***************************************************************************)

Send(op, body) ==
    /\ request["client"] = NULL
    /\ op = "POST" => body.baseDate # Absent
    /\ request' = [request EXCEPT !["client"] = [op |-> op, body |-> body]]
    /\ answer' = [answer EXCEPT !["client"] = NULL]
    /\ UNCHANGED <<row, detail, fetch, mode, form>>

\* A form that succeeds is left for another page.
Answer(s, status) ==
    /\ request' = [request EXCEPT ![s] = NULL]
    /\ answer' = [answer EXCEPT ![s] = status]
    /\ mode' = IF s = "form" /\ status \in {200, 201} THEN "closed" ELSE mode
    /\ UNCHANGED <<detail, fetch, form>>

\* A POST while the row exists makes another row, which is not looked at.
Create(s) ==
    /\ request[s] # NULL /\ request[s].op = "POST"
    /\ LET body == request[s].body
       IN  \/ /\ ~ValidateFields(body.baseDate)
              /\ Answer(s, 400)
              /\ UNCHANGED row
           \/ /\ ValidateFields(body.baseDate)
              /\ Answer(s, 201)
              /\ row' = IF row # NULL THEN row
                        ELSE [baseDate |-> body.baseDate, method |-> Given(body.method, None),
                              updated |-> 0]

\* WithUpdate
Patched(body) ==
    [baseDate |-> Given(body.baseDate, row.baseDate),
     method   |-> Given(body.method, row.method),
     updated  |-> row.updated]

\* Stores before it validates.
UpdateUnchecked(s) ==
    /\ request[s] # NULL /\ request[s].op = "PATCH" /\ row # NULL
    /\ Answer(s, 200)
    /\ row' = Patched(request[s].body)

\* updated_at has seconds: two updates of one second leave it alone.
Update(s) ==
    /\ request[s] # NULL /\ request[s].op = "PATCH"
    /\ \/ row = NULL /\ Answer(s, 404) /\ UNCHANGED row
       \/ /\ row # NULL
          /\ LET new == Patched(request[s].body)
             IN  \/ /\ ~ValidateFields(new.baseDate)
                    /\ Answer(s, 400)
                    /\ UNCHANGED row
                 \/ /\ ValidateFields(new.baseDate)
                    /\ Answer(s, 200)
                    /\ \E now \in {row.updated, row.updated + 1} :
                        /\ now <= MaxUpdates
                        /\ row' = [new EXCEPT !.updated = now]

\* DELETE, by another client.
Delete ==
    /\ row # NULL
    /\ row' = NULL
    /\ UNCHANGED <<detail, fetch, mode, form, request, answer>>

Next ==
    \/ OpenNew \/ OpenEdit \/ Submit \/ Cancel \/ Refetch \/ Receive \/ Delete
    \/ \E date \in Dates, method \in Methods \cup {None} :
        Change([date |-> date, method |-> method])
    \/ \E op \in {"POST", "PATCH"}, baseDate \in Instants \cup {Absent},
            method \in Methods \cup {None, Absent} :
        Send(op, [baseDate |-> baseDate, method |-> method])
    \/ \E s \in Senders : Create(s) \/ Update(s)

Spec == Init /\ [][Next]_vars

-----------------------------------------------------------------------------
(***************************************************************************)
(* Properties.                                                              *)
(***************************************************************************)

\* The table's CHECK (base_date BETWEEN 1 AND 31), which ValidateFields must
\* enforce first, and what is shown is a row there was.
TypeOK ==
    /\ row \in Row \cup {NULL}
    /\ detail \in Row \cup {NULL}
    /\ fetch \subseteq Row \cup {NULL}
    /\ mode \in {"create", "edit", "closed"}
    /\ form \in [date : Int \cup {NULL}, method : Methods \cup {None}]
    /\ request \in [Senders -> {NULL} \cup
            [op : {"POST", "PATCH"},
             body : [baseDate : Int \cup {Absent}, method : Methods \cup {None, Absent}]]]
    /\ answer \in [Senders -> {NULL, 200, 201, 400, 404}]

\* The body that says what the API has just said of the row.
Echo == [baseDate |-> toSubscriptionResponse(row).baseDate,
         method |-> toSubscriptionResponse(row).method]

\* A client that sends back what it was shown is not refused and changes nothing:
\* the presenter and the controller convert the base date in opposite directions.
EchoStep ==
    \A s \in Senders :
        /\ request[s] # NULL /\ request'[s] = NULL /\ row # NULL
        /\ request[s].op = "PATCH" /\ request[s].body = Echo
        => /\ answer'[s] = 200
           /\ row' = [row EXCEPT !.updated = row'.updated]

EchoKeepsRow == [][EchoStep]_vars

\* The date of a form is midnight, so its Unix seconds are never a day of the
\* month: whatever date is picked, and in whatever time zone, the server refuses.
NoFormIsStored ==
    /\ answer["form"] \in {NULL, 400, 404}
    /\ request["form"] # NULL => request["form"].body.baseDate \in Int \ 1..31

\* frontend/e2e/subscription-create.spec.ts:10: a subscription can be created with
\* the required fields only, 2025-03-15 for one.
FormCreates == answer["form"] # 400

\* docs/global_design/07_api_design.md:268: null takes the payment method away.
NullStep ==
    request["client"] # NULL /\ request'["client"] = NULL /\ row # NULL /\ row' # NULL
        /\ request["client"].op = "PATCH" /\ request["client"].body.method = None
        /\ answer'["client"] = 200
        => row'.method = None

NullClears == [][NullStep]_vars
=============================================================================
