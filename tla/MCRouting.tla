------------------------------ MODULE MCRouting ------------------------------
(* A small instance of Routing: an onboarding of one page that lets its      *)
(* failures pass and of the review, which does not.                          *)
EXTENDS Routing

MCSteps == <<"team", "review">>

=============================================================================
