------------------------ MODULE MCSubscriptionForm ------------------------
(***************************************************************************)
(* Instances of SubscriptionForm for TLC.                                   *)
(***************************************************************************)
EXTENDS SubscriptionForm

\* 2000-01-01, the first date of the form, and 2025-03-15
MCDates == {10957, 20162}

NewYork == -5 * 3600
=============================================================================
