---------------------- MODULE SubscriptionForm_proofs ----------------------
(***************************************************************************)
(* Proofs about SubscriptionForm, for every time zone, every date that can    *)
(* be picked and everything that other clients send.                         *)
(***************************************************************************)
EXTENDS SubscriptionForm, TLAPS

\* A midnight is no day of the month.
LEMMA MidnightIsNoDay ==
    ASSUME NEW date \in Int
    PROVE  dateStringToISO(date) \in Int /\ dateStringToISO(date) \notin 1..31
<1>1. DaySeconds \in Int /\ DaySeconds > 31
    BY DEF DaySeconds
<1>2. date <= 0 => date * DaySeconds <= 0
    BY DEF DaySeconds
<1>3. date >= 1 => date * DaySeconds > 31
    BY DEF DaySeconds
<1>4. date * DaySeconds \in Int
    BY <1>1
<1> QED BY <1>2, <1>3, <1>4 DEF dateStringToISO

LEMMA LoadedType ==
    ASSUME NEW response \in Row
    PROVE  Loaded(response) \in [date : Int \cup {NULL}, method : Methods \cup {None}]
<1>1. response.baseDate \in Int /\ response.method \in Methods \cup {None}
    BY DEF Row
<1>2. isoToDateString(response.baseDate) \in Int
    BY <1>1, NumbersAssumption DEF isoToDateString, DaySeconds
<1> QED BY <1>1, <1>2 DEF Loaded

Body == [baseDate : Int \cup {Absent}, method : Methods \cup {None, Absent}]

LEMMA PatchedType ==
    ASSUME NEW body \in Body, row \in Row, ValidateFields(Patched(body).baseDate),
           NEW now \in {row.updated, row.updated + 1}, now <= MaxUpdates
    PROVE  [Patched(body) EXCEPT !.updated = now] \in Row
<1>1. row.updated \in Nat /\ row.method \in Methods \cup {None}
    BY DEF Row
<1>2. now \in 0..MaxUpdates
    BY <1>1
<1>3. Patched(body) = [baseDate |-> Given(body.baseDate, row.baseDate),
                       method |-> Given(body.method, row.method), updated |-> row.updated]
    BY DEF Patched
<1>4. Given(body.method, row.method) \in Methods \cup {None}
    BY <1>1 DEF Given, Body
<1>5. Patched(body).baseDate \in 1..31
    BY DEF ValidateFields
<1> QED BY <1>2, <1>3, <1>4, <1>5 DEF Row

-----------------------------------------------------------------------------
LEMMA InitType == Init => TypeOK /\ NoFormIsStored
BY DEF Init, TypeOK, NoFormIsStored, Blank, Senders

\* What the browser does by itself leaves the row and the answers alone.
LEMMA BrowserStep ==
    ASSUME TypeOK, NoFormIsStored,
           \/ OpenNew \/ OpenEdit \/ Submit \/ Cancel \/ Refetch \/ Receive \/ Delete
           \/ \E date \in Dates, method \in Methods \cup {None} :
                Change([date |-> date, method |-> method])
    PROVE  TypeOK' /\ NoFormIsStored'
<1> USE DEF TypeOK, NoFormIsStored
<1>1. CASE OpenNew
    BY <1>1 DEF OpenNew, Blank
<1>2. CASE OpenEdit
    <2>1. row \in Row
        BY <1>2 DEF OpenEdit
    <2>2. detail' = row
        BY <1>2 DEF OpenEdit, toSubscriptionResponse
    <2>3. form' = Loaded(row)
        BY <1>2, <2>2 DEF OpenEdit
    <2> QED BY <1>2, <2>1, <2>2, <2>3, LoadedType DEF OpenEdit
<1>3. CASE Submit
    <2> DEFINE r == [op |-> IF mode = "create" THEN "POST" ELSE "PATCH", body |-> Payload(form)]
    <2>1. form.date \in Int /\ form.method \in Methods \cup {None}
        BY <1>3 DEF Submit
    <2>2. /\ Payload(form) \in Body
          /\ Payload(form).baseDate \in Int \ 1..31
        BY <2>1, MidnightIsNoDay DEF Payload, Body
    <2>3. r \in [op : {"POST", "PATCH"}, body : Body] /\ r.body.baseDate \in Int \ 1..31
        BY <2>2
    <2>4. /\ request' = [request EXCEPT !["form"] = r]
          /\ answer' = [answer EXCEPT !["form"] = NULL]
          /\ UNCHANGED <<row, detail, fetch, mode, form>>
        BY <1>3 DEF Submit
    <2> HIDE DEF r
    <2> QED BY <2>3, <2>4 DEF Senders, Body
<1>4. CASE Cancel
    BY <1>4 DEF Cancel
<1>5. CASE Refetch
    BY <1>5 DEF Refetch, toSubscriptionResponse
<1>6. CASE Receive
    <2>1. PICK response \in fetch :
            /\ fetch' = {}
            /\ detail' = response
            /\ form' = IF mode = "edit" /\ response \notin {NULL, detail}
                       THEN Loaded(response) ELSE form
            /\ UNCHANGED <<row, mode, request, answer>>
        BY <1>6 DEF Receive
    <2>2. response \in Row \cup {NULL}
        OBVIOUS
    <2>3. form' \in [date : Int \cup {NULL}, method : Methods \cup {None}]
        BY <2>1, <2>2, LoadedType
    <2> QED BY <2>1, <2>2, <2>3
<1>7. CASE Delete
    BY <1>7 DEF Delete
<1>8. ASSUME NEW date \in Dates, NEW method \in Methods \cup {None},
             Change([date |-> date, method |-> method])
      PROVE  TypeOK' /\ NoFormIsStored'
    BY <1>8, NumbersAssumption DEF Change
<1> HIDE DEF TypeOK, NoFormIsStored
<1> QED BY <1>1, <1>2, <1>3, <1>4, <1>5, <1>6, <1>7, <1>8

LEMMA SendStep ==
    ASSUME TypeOK, NoFormIsStored, NEW op \in {"POST", "PATCH"}, NEW body \in Body,
           Send(op, body)
    PROVE  TypeOK' /\ NoFormIsStored'
BY DEF TypeOK, NoFormIsStored, Send, Senders, Body

\* Answers keep the types, and keep the form refused when it is refused.
LEMMA AnswerStep ==
    ASSUME TypeOK, NoFormIsStored, NEW s \in Senders, NEW status \in {200, 201, 400, 404},
           Answer(s, status), row' \in Row \cup {NULL},
           s = "form" => status \in {400, 404}
    PROVE  TypeOK' /\ NoFormIsStored'
BY DEF TypeOK, NoFormIsStored, Answer, Senders

LEMMA CreateStep ==
    ASSUME TypeOK, NoFormIsStored, NEW s \in Senders, Create(s)
    PROVE  TypeOK' /\ NoFormIsStored'
<1> DEFINE body == request[s].body
<1>1. body \in Body
    BY DEF Create, TypeOK, Body
<1>2. CASE ~ValidateFields(body.baseDate)
    <2>1. Answer(s, 400) /\ row' = row
        BY <1>2 DEF Create
    <2> QED BY <2>1, AnswerStep DEF TypeOK
<1>3. CASE ValidateFields(body.baseDate)
    <2>1. Answer(s, 201)
        BY <1>3 DEF Create
    <2>2. row' \in Row \cup {NULL}
        <3>1. Given(body.method, None) \in Methods \cup {None}
            BY <1>1 DEF Given, Body
        <3>2. row' = row \/ row' = [baseDate |-> body.baseDate,
                                    method |-> Given(body.method, None), updated |-> 0]
            BY <1>3 DEF Create
        <3>3. body.baseDate \in 1..31 /\ 0 \in 0..MaxUpdates
            BY <1>3, NumbersAssumption DEF ValidateFields
        <3> QED BY <3>1, <3>2, <3>3 DEF Row, TypeOK
    <2>3. s # "form"
        BY <1>3 DEF NoFormIsStored, Create, ValidateFields
    <2> QED BY <2>1, <2>2, <2>3, AnswerStep
<1> QED BY <1>2, <1>3

LEMMA UpdateStep ==
    ASSUME TypeOK, NoFormIsStored, NEW s \in Senders, Update(s)
    PROVE  TypeOK' /\ NoFormIsStored'
<1> DEFINE body == request[s].body
           new == Patched(body)
<1>1. body \in Body
    BY DEF Update, TypeOK, Body
<1>2. CASE row = NULL
    <2>1. Answer(s, 404) /\ row' = row
        BY <1>2 DEF Update
    <2> QED BY <2>1, AnswerStep DEF TypeOK
<1>3. CASE row # NULL /\ ~ValidateFields(new.baseDate)
    <2>1. Answer(s, 400) /\ row' = row
        BY <1>3 DEF Update
    <2> QED BY <2>1, AnswerStep DEF TypeOK
<1>4. CASE row # NULL /\ ValidateFields(new.baseDate)
    <2>0. row \in Row
        BY <1>4 DEF TypeOK
    <2>1. Answer(s, 200)
        BY <1>4 DEF Update
    <2>2. PICK now \in {row.updated, row.updated + 1} :
            now <= MaxUpdates /\ row' = [new EXCEPT !.updated = now]
        BY <1>4 DEF Update
    <2>3. row' \in Row
        BY <1>1, <1>4, <2>0, <2>2, PatchedType
    <2>4. s # "form"
        <3> SUFFICES ASSUME s = "form" PROVE FALSE
            OBVIOUS
        <3>1. body.baseDate \in Int \ 1..31
            BY DEF NoFormIsStored, Update
        <3>2. new.baseDate = Given(body.baseDate, row.baseDate)
            BY DEF Patched
        <3>3. body.baseDate \notin {None, Absent}
            BY <3>1, ValuesAssumption
        <3> QED BY <1>4, <3>1, <3>2, <3>3 DEF Given, ValidateFields
    <2> QED BY <2>1, <2>3, <2>4, AnswerStep
<1> QED BY <1>2, <1>3, <1>4

-----------------------------------------------------------------------------
LEMMA NextKeeps == TypeOK /\ NoFormIsStored /\ [Next]_vars => TypeOK' /\ NoFormIsStored'
<1> SUFFICES ASSUME TypeOK, NoFormIsStored, [Next]_vars PROVE TypeOK' /\ NoFormIsStored'
    OBVIOUS
<1>1. ASSUME NEW op \in {"POST", "PATCH"}, NEW baseDate \in Instants \cup {Absent},
             NEW method \in Methods \cup {None, Absent},
             Send(op, [baseDate |-> baseDate, method |-> method])
      PROVE  TypeOK' /\ NoFormIsStored'
    <2>1. [baseDate |-> baseDate, method |-> method] \in Body
        BY NumbersAssumption DEF Body
    <2> QED BY <1>1, <2>1, SendStep
<1>2. CASE UNCHANGED vars
    BY <1>2 DEF vars, TypeOK, NoFormIsStored
<1> QED BY <1>1, <1>2, BrowserStep, CreateStep, UpdateStep DEF Next

\* The row satisfies the CHECK of the table whoever writes it, and the form shows
\* nothing but rows that there were.
THEOREM TypeCorrect == Spec => []TypeOK
<1> QED BY InitType, NextKeeps, PTL DEF Spec

\* In no time zone, for no date and whatever other clients do meanwhile does the
\* server take a subscription from the form.
THEOREM FormsAreRefused == Spec => []NoFormIsStored
<1> QED BY InitType, NextKeeps, PTL DEF Spec

\* A client that PATCHes what it has been shown succeeds and changes nothing.
THEOREM EchoesKeepTheRow == Spec => EchoKeepsRow
<1>1. TypeOK /\ [Next]_vars => [EchoStep]_vars
    <2> SUFFICES ASSUME TypeOK, Next, NEW s \in Senders,
                        request[s] # NULL, request'[s] = NULL, row # NULL,
                        request[s].op = "PATCH", request[s].body = Echo
                 PROVE  /\ answer'[s] = 200
                        /\ row' = [row EXCEPT !.updated = row'.updated]
        BY DEF EchoStep
    <2> DEFINE body == request[s].body
    <2>1. row \in Row /\ request \in [Senders -> {NULL} \cup
            [op : {"POST", "PATCH"},
             body : [baseDate : Int \cup {Absent}, method : Methods \cup {None, Absent}]]]
        BY DEF TypeOK
    <2>2. Update(s)
        <3>1. ASSUME NEW t \in Senders, Create(t) PROVE Update(s)
            BY <3>1, <2>1 DEF Create, Answer
        <3>2. ASSUME NEW t \in Senders, Update(t) PROVE Update(s)
            BY <3>2, <2>1 DEF Update, Answer
        <3>3. ASSUME NEW op, NEW b, Send(op, b) PROVE Update(s)
            BY <3>3, <2>1 DEF Send
        <3>4. CASE Submit
            BY <3>4, <2>1 DEF Submit
        <3>5. CASE UNCHANGED request
            BY <3>5
        <3>6. \/ UNCHANGED request \/ Submit
              \/ \E op, b : Send(op, b)
              \/ \E t \in Senders : Create(t) \/ Update(t)
            BY DEF Next, OpenNew, OpenEdit, Cancel, Refetch, Receive, Delete, Change
        <3> QED BY <3>1, <3>2, <3>3, <3>4, <3>5, <3>6
    <2>3. Patched(body) = row
        <3>1. /\ row.baseDate \in 1..31 /\ row.method \in Methods \cup {None}
              /\ row = [baseDate |-> row.baseDate, method |-> row.method,
                        updated |-> row.updated]
            BY <2>1 DEF Row
        <3>2. body.baseDate = row.baseDate /\ body.method = row.method
            BY DEF Echo, toSubscriptionResponse
        <3>3. Given(row.baseDate, row.baseDate) = row.baseDate
            BY DEF Given
        <3>4. Given(row.method, row.method) = row.method
            BY DEF Given
        <3> QED BY <3>1, <3>2, <3>3, <3>4 DEF Patched
    <2>4. ValidateFields(row.baseDate)
        BY <2>1 DEF Row, ValidateFields
    <2>5. Answer(s, 200) /\ \E now \in {row.updated, row.updated + 1} :
                                row' = [row EXCEPT !.updated = now]
        BY <2>2, <2>3, <2>4 DEF Update
    <2>6. answer'[s] = 200
        BY <2>5 DEF Answer, TypeOK
    <2>7. row' = [row EXCEPT !.updated = row'.updated]
        BY <2>1, <2>5 DEF Row
    <2> QED BY <2>6, <2>7
<1> QED BY <1>1, TypeCorrect, PTL DEF Spec, EchoKeepsRow
=============================================================================
