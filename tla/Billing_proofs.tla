-------------------------- MODULE Billing_proofs --------------------------
(***************************************************************************)
(* Proofs about Billing: rows and dates stay what ValidateFields and the     *)
(* calendar allow, the next billing date follows the schedule, whatever the   *)
(* base date, the month and the year, it only moves once it has come, and the  *)
(* totals of rounded rows agree.                                             *)
(***************************************************************************)
EXTENDS Billing, FiniteSetTheorems, WellFoundedInduction, TLAPS

\* The days on which s is billed: the base date of a month, or its last day when
\* the month is too short; of the month of creation only, when it is yearly.
BillingDay(s, d) ==
    /\ \/ d.day = s.baseDate /\ d.day <= DaysIn(d.year, d.month)
       \/ d.day = DaysIn(d.year, d.month) /\ d.day < s.baseDate
    /\ s.cycle = "yearly" => d.month = s.created

LEMMA DaysInRange ==
    ASSUME NEW y, NEW m \in 1..12
    PROVE  DaysIn(y, m) \in 28..31
BY DEF DaysIn

\* A clamped day is in its month, and is the day only of the base date.
LEMMA Clamped ==
    ASSUME NEW b \in 1..31, NEW y, NEW m \in 1..12
    PROVE  /\ ClampDay(b, y, m) \in 1..31
           /\ ClampDay(b, y, m) <= DaysIn(y, m)
           /\ \/ ClampDay(b, y, m) = b
              \/ ClampDay(b, y, m) = DaysIn(y, m) /\ DaysIn(y, m) < b
BY DaysInRange DEF ClampDay

\* No two dates of a month are billing days.
LEMMA OneBillingDay ==
    ASSUME NEW s \in Subscription, NEW d \in Date, BillingDay(s, d)
    PROVE  d.day = ClampDay(s.baseDate, d.year, d.month)
<1>1. s.baseDate \in 1..31
    BY BaseDatesAssumption DEF Subscription
<1>2. DaysIn(d.year, d.month) \in 28..31
    BY DaysInRange DEF Date
<1> QED BY <1>1, <1>2 DEF BillingDay, ClampDay, Date

LEMMA LaterTransitive ==
    ASSUME NEW a \in Date, NEW b \in Date, NEW c \in Date
    PROVE  /\ Later(a, b) /\ Later(b, c) => Later(a, c)
           /\ ~Later(b, a) /\ Later(b, c) => Later(a, c)
           /\ Later(a, b) /\ ~Later(c, b) => Later(a, c)
           /\ ~(Later(a, b) /\ Later(b, a))
BY DEF Later, Date

LEMMA LaterTotal ==
    ASSUME NEW a \in Date, NEW b \in Date, ~Later(a, b), ~Later(b, a)
    PROVE  a = b
<1>1. a.year = b.year /\ a.month = b.month /\ a.day = b.day
    BY DEF Later, Date
<1> QED BY <1>1 DEF Date

-----------------------------------------------------------------------------
\* A date made from a base date and a month is a billing day of that month.
LEMMA BillingDateInIsBillingDay ==
    ASSUME NEW s \in Subscription, NEW y \in Nat, NEW m \in 1..13,
           s.cycle = "yearly" => m = s.created
    PROVE  /\ BillingDateIn(s.baseDate, y, m) \in Date
           /\ BillingDay(s, BillingDateIn(s.baseDate, y, m))
<1> DEFINE yy == IF m = 13 THEN y + 1 ELSE y
           mm == IF m = 13 THEN 1 ELSE m
           date == BillingDateIn(s.baseDate, y, m)
<1>1. s.baseDate \in 1..31 /\ s.created \in 1..12
    BY BaseDatesAssumption DEF Subscription
<1>2. yy \in Nat /\ mm \in 1..12
    OBVIOUS
<1>3. date = [year |-> yy, month |-> mm, day |-> ClampDay(s.baseDate, yy, mm)]
    BY DEF BillingDateIn
<1>4. /\ ClampDay(s.baseDate, yy, mm) \in 1..31
      /\ ClampDay(s.baseDate, yy, mm) <= DaysIn(yy, mm)
      /\ \/ ClampDay(s.baseDate, yy, mm) = s.baseDate
         \/ /\ ClampDay(s.baseDate, yy, mm) = DaysIn(yy, mm)
            /\ DaysIn(yy, mm) < s.baseDate
    BY <1>1, <1>2, Clamped
<1>5. s.cycle = "yearly" => mm = s.created
    BY <1>1
<1> HIDE DEF yy, mm
<1> QED BY <1>2, <1>3, <1>4, <1>5 DEF BillingDay, Date

\* Both branches of CalculateNextBillingDate give a billing day after now.
LEMMA NextIsBillingDay ==
    ASSUME NEW s \in Subscription, NEW now \in Date
    PROVE  /\ CalculateNextBillingDate(s, now) \in Date
           /\ BillingDay(s, CalculateNextBillingDate(s, now))
           /\ Later(CalculateNextBillingDate(s, now), now)
<1>1. /\ now.year \in Nat /\ now.year + 1 \in Nat
      /\ now.month \in 1..12 /\ now.month \in 1..13 /\ now.month + 1 \in 1..13
      /\ s.created \in 1..12 /\ s.created \in 1..13
      /\ s.cycle \in {"monthly", "yearly"}
    BY DEF Date, Subscription, Cycles
<1>2. ThisOne(s, now) \in Date /\ BillingDay(s, ThisOne(s, now))
    BY <1>1, BillingDateInIsBillingDay DEF ThisOne
<1>3. NextOne(s, now) \in Date /\ BillingDay(s, NextOne(s, now))
    BY <1>1, BillingDateInIsBillingDay DEF NextOne
<1>4. Later(NextOne(s, now), now)
    BY <1>1 DEF NextOne, BillingDateIn, Later
<1> QED BY <1>2, <1>3, <1>4 DEF CalculateNextBillingDate

\* No billing day lies between now and the next one.
LEMMA NoneBetween ==
    ASSUME NEW s \in Subscription, NEW now \in Date, NEW d \in Date,
           BillingDay(s, d), Later(d, now)
    PROVE  ~Later(CalculateNextBillingDate(s, now), d)
<1> DEFINE b == s.baseDate
<1>1. /\ now.year \in Nat /\ now.month \in 1..12 /\ now.day \in 1..31
      /\ d.year \in Nat /\ d.month \in 1..12 /\ d.day \in 1..31
      /\ s.created \in 1..12
    BY DEF Date, Subscription
<1>2. d.day = ClampDay(b, d.year, d.month)
    BY OneBillingDay
<1>3. s.cycle = "yearly" => d.month = s.created
    BY DEF BillingDay
<1>4. ASSUME NEW y, NEW m \in 1..12 PROVE ClampDay(b, y, m) \in Int
    <2>1. b \in 1..31
        BY BaseDatesAssumption DEF Subscription
    <2> HIDE DEF b
    <2>2. ClampDay(b, y, m) \in 1..31
        BY <2>1, Clamped
    <2> QED BY <2>2
<1> HIDE DEF b
<1>5. CASE s.cycle = "yearly"
    <2>1. CASE d.year = now.year
        <3>1. ThisOne(s, now) = [year |-> d.year, month |-> d.month, day |-> d.day]
            BY <1>1, <1>2, <1>3, <1>5, <2>1 DEF ThisOne, BillingDateIn, b
        <3>2. Later(ThisOne(s, now), now)
            BY <3>1 DEF Later
        <3> QED BY <1>1, <3>1, <3>2 DEF CalculateNextBillingDate, Later
    <2>2. CASE d.year = now.year + 1
        <3>1. NextOne(s, now) = [year |-> d.year, month |-> d.month, day |-> d.day]
            BY <1>1, <1>2, <1>3, <1>5, <2>2 DEF NextOne, BillingDateIn, b
        <3>2. ThisOne(s, now).year = now.year
            BY <1>1, <1>5 DEF ThisOne, BillingDateIn
        <3> QED BY <1>1, <2>2, <3>1, <3>2 DEF CalculateNextBillingDate, Later
    <2>3. CASE d.year > now.year + 1
        <3>1. ThisOne(s, now).year = now.year /\ NextOne(s, now).year = now.year + 1
            BY <1>1, <1>5 DEF ThisOne, NextOne, BillingDateIn
        <3> QED BY <1>1, <2>3, <3>1 DEF CalculateNextBillingDate, Later
    <2> QED BY <1>1, <2>1, <2>2, <2>3 DEF Later
<1>6. CASE s.cycle # "yearly"
    <2>1. ThisOne(s, now) = [year |-> now.year, month |-> now.month,
                             day |-> ClampDay(b, now.year, now.month)]
        BY <1>1, <1>6 DEF ThisOne, BillingDateIn, b
    <2>2. NextOne(s, now) =
            IF now.month = 12
            THEN [year |-> now.year + 1, month |-> 1, day |-> ClampDay(b, now.year + 1, 1)]
            ELSE [year |-> now.year, month |-> now.month + 1,
                  day |-> ClampDay(b, now.year, now.month + 1)]
        BY <1>1, <1>6 DEF NextOne, BillingDateIn, b
    <2>3. CASE d.year = now.year /\ d.month = now.month
        <3>1. ThisOne(s, now) = [year |-> d.year, month |-> d.month, day |-> d.day]
            BY <1>2, <2>1, <2>3
        <3>2. Later(ThisOne(s, now), now)
            BY <3>1 DEF Later
        <3> QED BY <1>1, <3>1, <3>2 DEF CalculateNextBillingDate, Later
    <2>4. CASE ~(d.year = now.year /\ d.month = now.month)
        <3>1. ~Later(ThisOne(s, now), d)
            BY <1>1, <2>1, <2>4 DEF Later
        <3>2. ~Later(NextOne(s, now), d)
            BY <1>1, <1>2, <1>4, <2>2, <2>4 DEF Later
        <3> QED BY <3>1, <3>2 DEF CalculateNextBillingDate
    <2> QED BY <2>3, <2>4
<1> QED BY <1>5, <1>6

-----------------------------------------------------------------------------
\* Rows keep the fields that ValidateFields lets through and the month of their
\* creation, and now is a day of the calendar.
THEOREM TypeCorrect == Spec => []TypeOK
<1>1. Init => TypeOK
    BY DEF Init, TypeOK
<1>2. TypeOK /\ [Next]_vars => TypeOK'
    <2> SUFFICES ASSUME TypeOK, [Next]_vars PROVE TypeOK'
        OBVIOUS
    <2> USE DEF TypeOK
    <2>0. today.month \in 1..12
        BY DaysAssumption DEF Date
    <2>1. ASSUME NEW i \in Ids, NEW b \in BaseDates, NEW c \in Cycles, NEW a \in Amounts,
                 Create(i, b, c, a)
          PROVE  TypeOK'
        BY <2>0, <2>1 DEF Create, Subscription
    <2>2. ASSUME NEW i \in Ids, NEW b \in BaseDates, NEW c \in Cycles, NEW a \in Amounts,
                 Update(i, b, c, a)
          PROVE  TypeOK'
        <3>1. subscriptions[i].created \in 1..12
            BY <2>2 DEF Update, Subscription
        <3> QED BY <2>2, <3>1 DEF Update, Subscription
    <2>3. ASSUME NEW i \in Ids, Delete(i) PROVE TypeOK'
        BY <2>3 DEF Delete
    <2>4. ASSUME NEW day \in Days, Pass(day) PROVE TypeOK'
        BY <2>4 DEF Pass
    <2>5. CASE UNCHANGED vars
        BY <2>5 DEF vars
    <2> QED BY <2>1, <2>2, <2>3, <2>4, <2>5 DEF Next
<1> QED BY <1>1, <1>2, PTL DEF Spec

\* The bill before the one that CalculateNextBillingDate answers has come.
LEMMA BillBeforeHasCome ==
    ASSUME NEW s \in Subscription, NEW now \in Date
    PROVE  LET next == CalculateNextBillingDate(s, now)
           IN  /\ next.day = ClampDay(s.baseDate, next.year, next.month)
               /\ ~Later(BillBefore(s, next), now)
<1> DEFINE this == ThisOne(s, now)
           next == CalculateNextBillingDate(s, now)
<1>1. /\ now.year \in Nat /\ now.month \in 1..12 /\ now.day \in 1..31
      /\ s.created \in 1..12 /\ s.cycle \in {"monthly", "yearly"}
    BY DEF Date, Subscription, Cycles
<1>2. next \in Date /\ BillingDay(s, next)
    BY NextIsBillingDay
<1>3. next.day = ClampDay(s.baseDate, next.year, next.month)
    BY <1>2, OneBillingDay
<1>4. CASE Later(this, now)
    <2>1. next = this
        BY <1>4 DEF CalculateNextBillingDate
    <2>2. CASE s.cycle = "yearly"
        <3>1. this.year = now.year /\ this.month = s.created
            BY <1>1, <2>2 DEF ThisOne, BillingDateIn
        <3>2. BillBefore(s, this).year = now.year - 1
            BY <1>1, <2>2, <3>1 DEF BillBefore, BillingDateIn
        <3> QED BY <1>1, <3>2, <2>1, <1>3 DEF Later
    <2>3. CASE s.cycle = "monthly"
        <3>1. this.year = now.year /\ this.month = now.month
            BY <1>1, <2>3 DEF ThisOne, BillingDateIn
        <3>2. \/ BillBefore(s, this).year = now.year - 1
              \/ BillBefore(s, this).year = now.year /\ BillBefore(s, this).month = now.month - 1
            BY <1>1, <2>3, <3>1 DEF BillBefore, BillingDateIn
        <3> QED BY <1>1, <3>2, <2>1, <1>3 DEF Later
    <2> QED BY <1>1, <2>2, <2>3
<1>5. CASE ~Later(this, now)
    <2>1. next = NextOne(s, now)
        BY <1>5 DEF CalculateNextBillingDate
    <2>2. BillBefore(s, NextOne(s, now)) = this
        BY <1>1 DEF NextOne, ThisOne, BillBefore, BillingDateIn
    <2> QED BY <1>3, <1>5, <2>1, <2>2
<1> QED BY <1>4, <1>5

\* For every base date, month, year and cycle, clamped or not: what
\* CalculateNextBillingDate answers is on the schedule of the row and has not passed,
\* and the bill before it has come.
THEOREM NothingIsSkipped == Spec => []NothingSkipped
<1>1. TypeOK => NothingSkipped
    <2> SUFFICES ASSUME TypeOK, NEW i \in Rows
                 PROVE  LET s == subscriptions[i]
                            next == CalculateNextBillingDate(s, today)
                        IN  /\ next.day = ClampDay(s.baseDate, next.year, next.month)
                            /\ ~Later(today, next)
                            /\ ~Later(BillBefore(s, next), today)
        BY DEF NothingSkipped
    <2>1. subscriptions[i] \in Subscription /\ today \in Date
        BY DaysAssumption DEF TypeOK, Rows
    <2>2. /\ CalculateNextBillingDate(subscriptions[i], today) \in Date
          /\ Later(CalculateNextBillingDate(subscriptions[i], today), today)
        BY <2>1, NextIsBillingDay
    <2>3. ~Later(today, CalculateNextBillingDate(subscriptions[i], today))
        BY <2>1, <2>2, LaterTransitive
    <2> QED BY <2>1, <2>3, BillBeforeHasCome
<1> QED BY <1>1, TypeCorrect, PTL

\* The code's reading of "next": the first billing day strictly after now, with the
\* month of creation for a yearly subscription.
THEOREM FirstBillingDayAfter ==
    ASSUME NEW s \in Subscription, NEW now \in Date
    PROVE  LET next == CalculateNextBillingDate(s, now)
           IN  /\ BillingDay(s, next) /\ Later(next, now)
               /\ \A d \in Date : BillingDay(s, d) /\ Later(d, now) => ~Later(next, d)
BY NextIsBillingDay, NoneBetween

\* The date that the list shows for a row stays until it has come, and then moves
\* forward: whoever recomputes it later never announces a bill that was skipped.
THEOREM DatesOnlyAdvance == Spec => DatesAdvance
<1>1. TypeOK /\ TypeOK' /\ [Next]_vars => [DateStep]_vars
    <2> SUFFICES ASSUME TypeOK, TypeOK', [Next]_vars,
                        NEW i \in Rows, subscriptions'[i] = subscriptions[i]
                 PROVE  LET s == subscriptions[i]
                            next == CalculateNextBillingDate(s, today)
                            then == CalculateNextBillingDate(s, today')
                        IN  \/ then = next
                            \/ Later(then, next) /\ ~Later(next, today')
        BY DEF DateStep
    <2> DEFINE s == subscriptions[i]
               next == CalculateNextBillingDate(s, today)
               then == CalculateNextBillingDate(s, today')
    <2>1. s \in Subscription /\ today \in Date /\ today' \in Date
        BY DaysAssumption DEF TypeOK, Rows
    <2>2. /\ next \in Date /\ BillingDay(s, next) /\ Later(next, today)
          /\ then \in Date /\ BillingDay(s, then) /\ Later(then, today')
        BY <2>1, NextIsBillingDay
    <2>3. today' = today \/ Later(today', today)
        BY DEF Next, vars, Create, Update, Delete, Pass
    <2> HIDE DEF s, next, then
    <2>4. CASE today' = today
        BY <2>4 DEF s, next, then
    <2>5. CASE Later(today', today) /\ Later(next, today')
        <3>1. ~Later(then, next)
            BY <2>1, <2>2, <2>5, NoneBetween DEF then
        <3>2. Later(then, today)
            BY <2>1, <2>2, <2>5, LaterTransitive
        <3>3. ~Later(next, then)
            BY <2>1, <2>2, <3>2, NoneBetween DEF next
        <3> QED BY <2>2, <3>1, <3>3, LaterTotal DEF next, then, s
    <2>6. CASE ~Later(next, today')
        <3>1. Later(then, next)
            BY <2>1, <2>2, <2>6, LaterTransitive
        <3> QED BY <2>6, <3>1 DEF next, then, s
    <2> QED BY <2>3, <2>4, <2>5, <2>6 DEF next, then, s
<1> QED BY <1>1, TypeCorrect, PTL DEF Spec, DatesAdvance

\* A row's monthly amount is its yearly amount divided by twelve and rounded down:
\* less than a yen per month is lost, and nothing for a monthly subscription.
THEOREM RoundingOfARow ==
    ASSUME NEW s \in Subscription
    PROVE  /\ 12 * ToMonthlyAmount(s) <= ToYearlyAmount(s)
           /\ ToYearlyAmount(s) < 12 * ToMonthlyAmount(s) + 12
           /\ s.cycle = "monthly" => ToYearlyAmount(s) = 12 * ToMonthlyAmount(s)
<1>1. s.amount \in Nat /\ s.cycle \in {"monthly", "yearly"}
    BY AmountsAssumption DEF Subscription, Cycles
<1> QED BY <1>1 DEF ToMonthlyAmount, ToYearlyAmount

-----------------------------------------------------------------------------
(***************************************************************************)
(* The totals.  A sum over a finite set is a recursion over its subsets.      *)
(* What it computes is shown by the least counterexample: the number of        *)
(* elements of a set that fails, least among those, leads to a smaller one.   *)
(***************************************************************************)
\* SumFunctionOnSet takes one index of a set after another; this is its recursion.
Pick(s) == CHOOSE i \in s : TRUE

Sums(fun, T) == CHOOSE sums : sums = [s \in SUBSET T |->
    IF s = {} THEN 0 ELSE fun[Pick(s)] + sums[s \ {Pick(s)}]]

LEMMA SumIsSums ==
    ASSUME NEW fun, NEW T
    PROVE  SumFunctionOnSet(fun, T) = Sums(fun, T)[T]
BY DEF SumFunctionOnSet, FoldFunctionOnSet, MapThenFoldSet, Sums, Pick

\* Every set of numbers that is not empty has a least one.
LEMMA Least ==
    ASSUME NEW B, B \subseteq Nat, B # {}
    PROVE  \E n \in B : \A m \in B : n <= m
<1>1. PICK n \in B : \A m \in B : <<m, n>> \notin OpToRel(<, Nat)
    BY NatLessThanWellFounded, WFMin, Zenon
<1>2. \A m \in B : ~(m < n)
    BY <1>1 DEF OpToRel
<1> QED BY <1>2

LEMMA PickOne ==
    ASSUME NEW T, IsFiniteSet(T), NEW s \in SUBSET T, s # {}
    PROVE  /\ Pick(s) \in s
           /\ s \ {Pick(s)} \in SUBSET T
           /\ IsFiniteSet(s) /\ Cardinality(s) \in Nat
           /\ Cardinality(s \ {Pick(s)}) \in Nat
           /\ Cardinality(s) = Cardinality(s \ {Pick(s)}) + 1
<1>1. Pick(s) \in s
    BY DEF Pick
<1>2. IsFiniteSet(s)
    BY FS_Subset
<1>3. /\ IsFiniteSet(s \ {Pick(s)})
      /\ Cardinality(s \ {Pick(s)}) = Cardinality(s) - 1
    BY <1>1, <1>2, FS_RemoveElement
<1>4. Cardinality(s) \in Nat /\ Cardinality(s \ {Pick(s)}) \in Nat
    BY <1>2, <1>3, FS_CardinalityType
<1> QED BY <1>1, <1>2, <1>3, <1>4

Upto(T, n) == {s \in SUBSET T : Cardinality(s) <= n}

SumsUpto(g, fun, T, n) ==
    g = [s \in Upto(T, n) |-> IF s = {} THEN 0 ELSE fun[Pick(s)] + g[s \ {Pick(s)}]]

\* The recursion defines a function: on the subsets of n elements at most, for each n.
LEMMA SumsExist ==
    ASSUME NEW fun, NEW T, IsFiniteSet(T), NEW k \in Nat
    PROVE  \E g : SumsUpto(g, fun, T, k)
<1> DEFINE B == {n \in Nat : ~ \E g : SumsUpto(g, fun, T, n)}
<1> SUFFICES ASSUME B # {} PROVE FALSE
    OBVIOUS
<1>1. PICK n \in B : \A m \in B : n <= m
    <2>1. B \subseteq Nat
        OBVIOUS
    <2> HIDE DEF B
    <2> QED BY <2>1, Least
<1>2. CASE n = 0
    <2> DEFINE g == [s \in Upto(T, 0) |-> 0]
    <2>1. ASSUME NEW s \in Upto(T, 0) PROVE s = {}
        <3>1. IsFiniteSet(s) /\ s \in SUBSET T /\ Cardinality(s) <= 0
            BY FS_Subset DEF Upto
        <3>2. Cardinality(s) \in Nat
            BY <3>1, FS_CardinalityType
        <3> QED BY <3>1, <3>2, FS_EmptySet
    <2>2. SumsUpto(g, fun, T, 0)
        BY <2>1 DEF SumsUpto
    <2> QED BY <1>2, <2>2
<1>3. CASE n # 0
    <2>1. n - 1 \in Nat /\ n - 1 \notin B
        BY <1>1, <1>3
    <2>2. PICK h : SumsUpto(h, fun, T, n - 1)
        BY <2>1
    <2> DEFINE g == [s \in Upto(T, n) |->
                        IF s = {} THEN 0 ELSE fun[Pick(s)] + h[s \ {Pick(s)}]]
    <2>3. ASSUME NEW s \in Upto(T, n - 1) PROVE s \in Upto(T, n) /\ g[s] = h[s]
        <3>1. s \in Upto(T, n)
            <4>1. Cardinality(s) \in Nat
                BY FS_Subset, FS_CardinalityType DEF Upto
            <4> QED BY <2>1, <4>1 DEF Upto
        <3> QED BY <3>1, <2>2 DEF SumsUpto
    <2>4. ASSUME NEW s \in Upto(T, n), s # {} PROVE s \ {Pick(s)} \in Upto(T, n - 1)
        <3>1. s \in SUBSET T /\ Cardinality(s) <= n
            BY <2>4 DEF Upto
        <3> QED BY <3>1, <2>1, <2>4, PickOne DEF Upto
    <2>5. g = [s \in Upto(T, n) |->
                        IF s = {} THEN 0 ELSE fun[Pick(s)] + g[s \ {Pick(s)}]]
        <3>1. ASSUME NEW s \in Upto(T, n), s # {}
              PROVE  g[s \ {Pick(s)}] = h[s \ {Pick(s)}]
            BY <3>1, <2>3, <2>4
        <3> QED BY <3>1
    <2> QED BY <2>5 DEF SumsUpto
<1> QED BY <1>2, <1>3

LEMMA SumsRecursion ==
    ASSUME NEW fun, NEW T, IsFiniteSet(T)
    PROVE  /\ Sums(fun, T)[{}] = 0
           /\ \A s \in SUBSET T : s # {} =>
                Sums(fun, T)[s] = fun[Pick(s)] + Sums(fun, T)[s \ {Pick(s)}]
<1>1. Cardinality(T) \in Nat
    BY FS_CardinalityType
<1>2. Upto(T, Cardinality(T)) = SUBSET T
    BY FS_Subset DEF Upto
<1>3. \E g : g = [s \in SUBSET T |-> IF s = {} THEN 0 ELSE fun[Pick(s)] + g[s \ {Pick(s)}]]
    <2>1. PICK g : SumsUpto(g, fun, T, Cardinality(T))
        BY <1>1, SumsExist
    <2> QED BY <1>2, <2>1 DEF SumsUpto
<1>4. Sums(fun, T) = [s \in SUBSET T |->
            IF s = {} THEN 0 ELSE fun[Pick(s)] + Sums(fun, T)[s \ {Pick(s)}]]
    BY <1>3 DEF Sums
<1> QED BY <1>4

\* Bounds of the terms are bounds of the sums.
LEMMA SumsAgree ==
    ASSUME NEW T, IsFiniteSet(T), NEW f \in [T -> Int], NEW g \in [T -> Int],
           \A i \in T : 12 * f[i] <= g[i] /\ g[i] < 12 * f[i] + 12
    PROVE  LET sf == SumFunctionOnSet(f, T)
               sg == SumFunctionOnSet(g, T)
           IN  /\ sf \in Int /\ sg \in Int
               /\ 12 * sf <= sg
               /\ T # {} => sg < 12 * (sf + Cardinality(T))
<1> DEFINE F == Sums(f, T)
           G == Sums(g, T)
           Agree(s) == /\ F[s] \in Int /\ G[s] \in Int
                       /\ 12 * F[s] <= G[s]
                       /\ G[s] <= 12 * (F[s] + Cardinality(s))
                       /\ s # {} => G[s] < 12 * (F[s] + Cardinality(s))
           B == {Cardinality(s) : s \in {t \in SUBSET T : ~Agree(t)}}
<1>1. ASSUME NEW s \in SUBSET T, s # {}, Agree(s \ {Pick(s)}) PROVE Agree(s)
    <2> DEFINE x == Pick(s)
               r == s \ {Pick(s)}
    <2>1. F[s] = f[x] + F[r] /\ G[s] = g[x] + G[r]
        BY <1>1, SumsRecursion
    <2>2. /\ x \in T /\ Cardinality(r) \in Nat
          /\ Cardinality(s) = Cardinality(r) + 1
        BY <1>1, PickOne
    <2>3. /\ f[x] \in Int /\ g[x] \in Int
          /\ 12 * f[x] <= g[x] /\ g[x] < 12 * f[x] + 12
        BY <2>2
    <2>4. /\ F[r] \in Int /\ G[r] \in Int /\ 12 * F[r] <= G[r]
          /\ G[r] <= 12 * (F[r] + Cardinality(r))
        BY <1>1
    <2> HIDE DEF F, G, x, r
    <2>5. /\ F[s] \in Int /\ G[s] \in Int /\ Cardinality(s) \in Int /\ 12 * F[s] <= G[s]
          /\ G[s] < 12 * (F[s] + Cardinality(s))
        BY <2>1, <2>2, <2>3, <2>4
    <2> QED BY <2>5
<1>2. Agree({})
    <2>1. F[{}] = 0 /\ G[{}] = 0
        BY SumsRecursion
    <2>2. Cardinality({}) = 0
        BY FS_EmptySet
    <2> HIDE DEF F, G
    <2> QED BY <2>1, <2>2
<1>3. B = {}
    <2> SUFFICES ASSUME B # {} PROVE FALSE
        OBVIOUS
    <2>1. B \subseteq Nat
        BY FS_Subset, FS_CardinalityType
    <2>2. PICK n \in B : \A m \in B : n <= m
        <3> HIDE DEF B
        <3> QED BY <2>1, Least
    <2>3. PICK s \in SUBSET T : n = Cardinality(s) /\ ~Agree(s)
        OBVIOUS
    <2> HIDE DEF Agree
    <2>4. s # {}
        BY <1>2, <2>3
    <2>5. ~Agree(s \ {Pick(s)})
        BY <1>1, <2>3, <2>4
    <2>6. /\ s \ {Pick(s)} \in SUBSET T
          /\ Cardinality(s \ {Pick(s)}) \in Nat
          /\ n = Cardinality(s \ {Pick(s)}) + 1
        BY <2>3, <2>4, PickOne
    <2>7. Cardinality(s \ {Pick(s)}) \in B
        BY <2>5, <2>6
    <2>8. n <= Cardinality(s \ {Pick(s)})
        BY <2>2, <2>7
    <2> QED BY <2>6, <2>8
<1>4. Agree(T)
    <2> HIDE DEF Agree
    <2> QED BY <1>3
<1> QED BY <1>4, SumIsSums

\* However many subscriptions there are and whatever their amounts and cycles, the
\* presenter's monthly total is at most a twelfth of the yearly one, and less than
\* one yen per row below it.
THEOREM TotalsAlwaysAgree == Spec => []TotalsAgree
<1>1. TypeOK => TotalsAgree
    <2> SUFFICES ASSUME TypeOK PROVE TotalsAgree
        OBVIOUS
    <2> DEFINE f == [i \in Rows |-> ToMonthlyAmount(subscriptions[i])]
               g == [i \in Rows |-> ToYearlyAmount(subscriptions[i])]
    <2>1. IsFiniteSet(Rows)
        BY IdsAssumption, FS_Subset DEF Rows
    <2>2. ASSUME NEW i \in Rows
          PROVE  /\ ToMonthlyAmount(subscriptions[i]) \in Int
                 /\ ToYearlyAmount(subscriptions[i]) \in Int
                 /\ 12 * ToMonthlyAmount(subscriptions[i]) <= ToYearlyAmount(subscriptions[i])
                 /\ ToYearlyAmount(subscriptions[i]) < 12 * ToMonthlyAmount(subscriptions[i]) + 12
        <3>1. subscriptions[i] \in Subscription
            BY DEF TypeOK, Rows
        <3>2. subscriptions[i].amount \in Nat
            BY <3>1, AmountsAssumption DEF Subscription
        <3>3. ToMonthlyAmount(subscriptions[i]) \in Int /\ ToYearlyAmount(subscriptions[i]) \in Int
            BY <3>2 DEF ToMonthlyAmount, ToYearlyAmount
        <3> QED BY <3>1, <3>3, RoundingOfARow
    <2>3. /\ f \in [Rows -> Int] /\ g \in [Rows -> Int]
          /\ \A i \in Rows : 12 * f[i] <= g[i] /\ g[i] < 12 * f[i] + 12
        BY <2>2
    <2> HIDE DEF f, g
    <2>4. /\ 12 * SumFunctionOnSet(f, Rows) <= SumFunctionOnSet(g, Rows)
          /\ Rows # {} => SumFunctionOnSet(g, Rows)
                            < 12 * (SumFunctionOnSet(f, Rows) + Cardinality(Rows))
        BY <2>1, <2>3, SumsAgree
    <2> QED BY <2>4 DEF TotalsAgree, MonthlyTotal, YearlyTotal, f, g
<1> QED BY <1>1, TypeCorrect, PTL
=============================================================================
