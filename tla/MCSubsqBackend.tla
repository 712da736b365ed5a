--------------------------- MODULE MCSubsqBackend ---------------------------
(***************************************************************************)
(* Instances of SubsqBackend for TLC.                                       *)
(***************************************************************************)
EXTENDS SubsqBackend, TLC

\* The ids of a kind are interchangeable, and so are the requests and the legal
\* values of a field, which nothing compares with another.
Symmetric ==
    UNION {Permutations(UserIds), Permutations(PaymentMethodIds),
           Permutations(SubscriptionIds), Permutations(Requests),
           Permutations(ValidNames), Permutations(ValidPlans)}
=============================================================================
