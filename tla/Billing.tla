------------------------------ MODULE Billing ------------------------------
(***************************************************************************)
(* What the list of subscriptions computes whenever somebody looks at it:   *)
(* the next billing date of each, and the monthly and yearly totals          *)
(* (domain/subscription, and the presenter that calls it with the time of    *)
(* the day in UTC).  Nothing of it is stored.                                *)
(*                                                                          *)
(* A billing date is midnight UTC of a day, so next.After(now) compares days: *)
(* midnight of today is never after now.                                     *)
(***************************************************************************)
EXTENDS Integers, FiniteSets, Functions

CONSTANTS
    Ids,            \* of subscriptions
    Years,          \* in which somebody looks
    Days,           \* on which somebody looks
    BaseDates,      \* base_date of subscriptions
    Amounts,        \* amount of subscriptions
    NULL            \* no subscription

Cycles == {"monthly", "yearly"}

Date == [year : Nat, month : 1..12, day : 1..31]

Subscription == [baseDate : BaseDates, cycle : Cycles, amount : Amounts, created : 1..12]

\* The rows of a table.
ASSUME IdsAssumption == IsFiniteSet(Ids)

\* created_at is an int32 of Unix seconds: good until January 2038.
ASSUME YearsAssumption == Years \subseteq 1970..2037

ASSUME DaysAssumption == Days \subseteq {d \in Date : d.year \in Years}

\* What ValidateFields and the CHECKs of the table let through.
ASSUME BaseDatesAssumption == BaseDates \subseteq 1..31

MaxAmount == 1000000

ASSUME AmountsAssumption == Amounts \subseteq Nat /\ \A a \in Amounts : a <= MaxAmount

ASSUME NullAssumption == NULL \notin Subscription

VARIABLES
    today,          \* the day of now, in UTC
    subscriptions   \* the rows of a user, by id

vars == <<today, subscriptions>>

-----------------------------------------------------------------------------
(***************************************************************************)
(* Dates.                                                                   *)
(***************************************************************************)

Leap(y) == y % 4 = 0 /\ (y % 100 # 0 \/ y % 400 = 0)

DaysIn(y, m) ==
    IF m = 2 THEN (IF Leap(y) THEN 29 ELSE 28)
    ELSE IF m \in {4, 6, 9, 11} THEN 30 ELSE 31

Later(d, e) ==
    \/ d.year > e.year
    \/ d.year = e.year /\ d.month > e.month
    \/ d.year = e.year /\ d.month = e.month /\ d.day > e.day

ClampDay(baseDate, y, m) == IF baseDate > DaysIn(y, m) THEN DaysIn(y, m) ELSE baseDate

\* time.Date(y, m, ClampDay(baseDate, y, m), ...); it takes month 13 for the
\* January of the year after.
BillingDateIn(baseDate, y, m) ==
    IF m = 13
    THEN [year |-> y + 1, month |-> 1, day |-> ClampDay(baseDate, y + 1, 1)]
    ELSE [year |-> y, month |-> m, day |-> ClampDay(baseDate, y, m)]

\* The billing date of this year or month, and of the one that follows.
ThisOne(s, now) ==
    BillingDateIn(s.baseDate, now.year, IF s.cycle = "yearly" THEN s.created ELSE now.month)

NextOne(s, now) ==
    IF s.cycle = "yearly"
    THEN BillingDateIn(s.baseDate, now.year + 1, s.created)
    ELSE BillingDateIn(s.baseDate, now.year, now.month + 1)

\* Keeps the day that was clamped for this year or month.
NextKeepingDay(s, now) ==
    IF Later(ThisOne(s, now), now) THEN ThisOne(s, now)
    ELSE NextOne([s EXCEPT !.baseDate = ThisOne(s, now).day], now)

CalculateNextBillingDate(s, now) ==
    IF Later(ThisOne(s, now), now) THEN ThisOne(s, now) ELSE NextOne(s, now)

-----------------------------------------------------------------------------
(***************************************************************************)
(* Amounts.                                                                 *)
(***************************************************************************)

\* Rounds up.
ToMonthlyRoundedUp(s) == IF s.cycle = "yearly" THEN (s.amount + 11) \div 12 ELSE s.amount

ToMonthlyAmount(s) == IF s.cycle = "yearly" THEN s.amount \div 12 ELSE s.amount

ToYearlyAmount(s) == IF s.cycle = "monthly" THEN s.amount * 12 ELSE s.amount

Rows == {i \in Ids : subscriptions[i] # NULL}

MonthlyTotal == SumFunctionOnSet([i \in Rows |-> ToMonthlyAmount(subscriptions[i])], Rows)

YearlyTotal == SumFunctionOnSet([i \in Rows |-> ToYearlyAmount(subscriptions[i])], Rows)

-----------------------------------------------------------------------------
(***************************************************************************)
(* Rows come, change and go, and days pass, while somebody looks.            *)
(***************************************************************************)

\* Rows are what ValidateFields lets through, with the month of their creation.
TypeOK ==
    /\ today \in Days
    /\ subscriptions \in [Ids -> Subscription \cup {NULL}]

Init ==
    /\ today \in Days
    /\ subscriptions = [i \in Ids |-> NULL]

\* Counts months from zero, as the browser does.
CreateFromZero(i, baseDate, cycle, amount) ==
    /\ subscriptions[i] = NULL
    /\ subscriptions' = [subscriptions EXCEPT ![i] =
            [baseDate |-> baseDate, cycle |-> cycle, amount |-> amount,
             created |-> today.month - 1]]
    /\ UNCHANGED today

\* The month of created_at is the month of a yearly subscription's bill.
Create(i, baseDate, cycle, amount) ==
    /\ subscriptions[i] = NULL
    /\ subscriptions' = [subscriptions EXCEPT ![i] =
            [baseDate |-> baseDate, cycle |-> cycle, amount |-> amount,
             created |-> today.month]]
    /\ UNCHANGED today

Update(i, baseDate, cycle, amount) ==
    /\ subscriptions[i] # NULL
    /\ subscriptions' = [subscriptions EXCEPT ![i] =
            [baseDate |-> baseDate, cycle |-> cycle, amount |-> amount,
             created |-> subscriptions[i].created]]
    /\ UNCHANGED today

Delete(i) ==
    /\ subscriptions[i] # NULL
    /\ subscriptions' = [subscriptions EXCEPT ![i] = NULL]
    /\ UNCHANGED today

Pass(day) ==
    /\ Later(day, today)
    /\ today' = day
    /\ UNCHANGED subscriptions

Next ==
    \/ \E i \in Ids, baseDate \in BaseDates, cycle \in Cycles, amount \in Amounts :
        Create(i, baseDate, cycle, amount) \/ Update(i, baseDate, cycle, amount)
    \/ \E i \in Ids : Delete(i)
    \/ \E day \in Days : Pass(day)

Spec == Init /\ [][Next]_vars

-----------------------------------------------------------------------------
(***************************************************************************)
(* Properties.                                                              *)
(***************************************************************************)

\* The bill before the one of date: a month or a year earlier, and clamped by itself.
BillBefore(s, date) ==
    IF s.cycle = "yearly" THEN BillingDateIn(s.baseDate, date.year - 1, date.month)
    ELSE IF date.month = 1 THEN BillingDateIn(s.baseDate, date.year - 1, 12)
    ELSE BillingDateIn(s.baseDate, date.year, date.month - 1)

\* The date shown is a day of the billing schedule, on the base date or on the last
\* day of a month too short for it, whatever the months before it were; it has not
\* passed, and no bill of the schedule lies between today and it.  (A bill of today
\* may be shown or have given way to the next: documents and code differ there.)
NothingSkipped ==
    \A i \in Rows :
        LET s == subscriptions[i]
            next == CalculateNextBillingDate(s, today)
        IN  /\ next.day = ClampDay(s.baseDate, next.year, next.month)
            /\ ~Later(today, next)
            /\ ~Later(BillBefore(s, next), today)

\* As time passes, the date shown stays the same until that day has come, and
\* then it moves forward: no bill is announced and then put off.
DateStep ==
    \A i \in Rows :
        LET s == subscriptions[i]
            next == CalculateNextBillingDate(s, today)
            then == CalculateNextBillingDate(s, today')
        IN  subscriptions'[i] = s =>
                \/ then = next
                \/ Later(then, next) /\ ~Later(next, today')

DatesAdvance == [][DateStep]_vars

\* The monthly total is never more than a twelfth of the yearly total, and less
\* than one yen per subscription short of it, although each row is rounded by
\* itself.
TotalsAgree ==
    /\ 12 * MonthlyTotal <= YearlyTotal
    /\ Rows # {} => YearlyTotal < 12 * (MonthlyTotal + Cardinality(Rows))
=============================================================================
