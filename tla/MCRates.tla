------------------------------ MODULE MCRates ------------------------------
(* One foreign currency and two days; two runs overlap, or one has the days  *)
(* to itself.  One retry: a task is limited, sleeps and is limited again.    *)
EXTENDS Rates

OneCode == <<"USD">>
TwoDays == 0..1

=============================================================================
