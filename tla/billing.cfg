\* Two subscriptions of a user, looked at around the ends of months and years.
SPECIFICATION Spec
CONSTANTS
    Ids = {s1, s2}
    Years <- MCYears
    Days <- MCDays
    BaseDates = {1, 29, 31}
    Amounts = {11, 12}
    NULL = NULL
SYMMETRY Symmetric
INVARIANT TypeOK
INVARIANT NothingSkipped
INVARIANT TotalsAgree
PROPERTY DatesAdvance
