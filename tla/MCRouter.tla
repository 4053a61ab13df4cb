------------------------------- MODULE MCRouter -------------------------------
(* Router on every table of three nodes (own identity advertised or not),    *)
(* every table of four nodes and every symmetric one of five.                *)
EXTENDS Router

Partial(S, Links(_)) ==
    UNION {{f \in [T -> SUBSET S] : \A n \in T : f[n] \in Links(n)} : T \in SUBSET S}

ThreeNodes == LET any(n) == SUBSET (1..3) IN Partial(1..3, any)

FourNodes == LET others(n) == SUBSET ((1..4) \ {n}) IN Partial(1..4, others)

FiveNodes ==
    LET pairs == {e \in SUBSET (1..5) : Cardinality(e) = 2}
    IN {[n \in 1..5 |-> {m \in 1..5 : {n, m} \in g}] : g \in SUBSET pairs}

AllTables == ThreeNodes \cup FourNodes \cup FiveNodes
===============================================================================
