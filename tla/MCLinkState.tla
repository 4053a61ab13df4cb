----------------------------- MODULE MCLinkState -----------------------------
(* LinkState on small instances.                                            *)
EXTENDS LinkState, TLC

CONSTANTS n1, n2, n3

Budget(connects, failures, ticks, restarts, ageings) ==
    [connects |-> connects, failures |-> failures, ticks |-> ticks,
     restarts |-> restarts, ageings |-> ageings]

(* Two nodes, two goroutines each: a connection that fails and is made      *)
(* again; periodic emissions that overlap a registration; a node that       *)
(* restarts and connects again; expiry of what an earlier process signed.   *)
PairDials == {<<n1, n2>>, <<n2, n1>>}
PairBudgets == {Budget(2, 1, 0, 0, 0), Budget(1, 0, 1, 0, 1), Budget(2, 0, 0, 1, 1)}

(* Three nodes in a chain, one goroutine each: flooding across a relay      *)
(* while its two connections are registered.                                *)
ChainDials == {<<n1, n2>>, <<n2, n3>>}
ChainBudgets == {Budget(2, 1, 0, 0, 0), Budget(2, 0, 1, 0, 0)}

(* Identities and goroutines of the pair are interchangeable: LinkState     *)
(* compares them for equality only.                                         *)
PairSymmetry == Permutations(Nodes) \cup Permutations(Workers)
=============================================================================
