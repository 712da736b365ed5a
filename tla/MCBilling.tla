----------------------------- MODULE MCBilling -----------------------------
(***************************************************************************)
(* An instance of Billing for TLC: the days around the ends of months, of a  *)
(* leap year and of years.                                                   *)
(***************************************************************************)
EXTENDS Billing, TLC

MCYears == 2023..2025

MCDays ==
    {[year |-> ymd[1], month |-> ymd[2], day |-> ymd[3]] : ymd \in
        {<<2023, 2, 28>>, <<2023, 12, 31>>, <<2024, 1, 1>>, <<2024, 1, 30>>, <<2024, 1, 31>>,
         <<2024, 2, 1>>, <<2024, 2, 28>>, <<2024, 2, 29>>, <<2024, 3, 1>>, <<2024, 4, 30>>,
         <<2024, 12, 1>>, <<2024, 12, 31>>, <<2025, 1, 1>>, <<2025, 2, 28>>}}

Symmetric == Permutations(Ids)
=============================================================================
