------------------------------ MODULE MCStream ------------------------------
(* Stream between two neighbours that first use a relay between them.        *)
EXTENDS Stream

CONSTANT R

Triangle == {{A, R}, {R, B}, {A, B}}

ThroughRelay ==
  [n \in Nodes |-> [d \in Ends |-> IF n = d THEN NoHop ELSE IF n = R THEN d ELSE R]]

TwoAndOne == [e \in Ends |-> IF e = A THEN 2 ELSE 1]
=============================================================================
