------------------------------- MODULE MCCircuit -------------------------------
(* Circuit with a path of three relays.                                       *)
EXTENDS Circuit

Budget(writes, answers, ends, cuts, stops) ==
    [writes |-> writes, answers |-> answers, ends |-> ends, cuts |-> cuts, stops |-> stops]

(* Data both ways and the service's end; with a lost connection; with a       *)
(* client that is stopped.                                                    *)
StreamBudgets ==
    {Budget(2, 2, 1, 0, 0), Budget(1, 1, 1, 1, 0), Budget(1, 1, 0, 0, 1)}
================================================================================
