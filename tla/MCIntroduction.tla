---------------------------- MODULE MCIntroduction ----------------------------
(* Introduction with two clients and up to three circuits.                    *)
EXTENDS Introduction

Budget(cuts, stops, expiries) == [cuts |-> cuts, stops |-> stops, expiries |-> expiries]

(* A circuit cut and the service restarted, twice restarted with slow          *)
(* handlers left behind, and registrations that expire.                       *)
MixedBudgets == {Budget(1, 1, 0), Budget(0, 2, 0), Budget(0, 1, 1)}
===============================================================================
