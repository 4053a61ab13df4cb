------------------------------ MODULE MCDirectory ------------------------------
(* Directory with two introduction points and three replicas: the service's   *)
(* own node, the client's node and a third.                                   *)
EXTENDS Directory

Budget(changes, restarts, failures, churn, expiries, lookups, sent, revisions) ==
    [changes |-> changes, restarts |-> restarts, failures |-> failures,
     churn |-> churn, expiries |-> expiries, lookups |-> lookups, puts |-> sent,
     revisions |-> revisions]

(* Sessions that come and go, with a restart and a revision file that cannot  *)
(* be saved; a lookup while descriptors are published; one while they expire. *)
MixedBudgets == {Budget(3, 1, 2, 1, 0, 0, 0, 3), Budget(1, 0, 0, 0, 0, 1, 2, 2),
                 Budget(1, 0, 0, 0, 1, 1, 1, 2)}
================================================================================
