---------------------------- MODULE MCSubscription ----------------------------
(* The instances of Subscription that TLC checks.                          *)
EXTENDS Subscription

\* a list of two securities and one of another
PairAndSingle == {<<"IBM", "MSFT">>, <<"SPY">>}
===============================================================================
