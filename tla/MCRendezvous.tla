------------------------------ MODULE MCRendezvous ------------------------------
(***************************************************************************)
(* Two introduction points, so that the service may come twice, and two    *)
(* connections, so that circuits do and do not share one.                  *)
(***************************************************************************)
EXTENDS Rendezvous

(* Connections are only compared: the client's is named first.             *)
MCPaths == {f \in [Parties -> Conns] : f[Client] = "k1"}

Budget(w, a, f, e, s, c) ==
    [writes |-> w, answers |-> a, fails |-> f, expiries |-> e, passers |-> s, cuts |-> c]

MCBudgets == {Budget(1, 1, 1, 0, 0, 0), Budget(0, 2, 1, 0, 0, 0), Budget(0, 1, 2, 0, 0, 0),
              Budget(0, 1, 1, 1, 1, 0), Budget(0, 1, 1, 1, 0, 1)}
=============================================================================
