----------------------------- MODULE MCPeerLinks -----------------------------
(* PeerLinks with a dialLoop and a discovery dialer at either end.           *)
EXTENDS PeerLinks

Loops == {<<"lo", 1>>, <<"hi", 1>>}
Candidates == {<<"lo", 2>>, <<"hi", 2>>}

(* One dialer alone, the ends crossing in every combination, and two dialers *)
(* at one end against one at the other.                                      *)
MixedSets ==
    {{<<"lo", 1>>}, {<<"hi", 1>>}, {<<"lo", 1>>, <<"hi", 1>>},
     {<<"lo", 2>>, <<"hi", 1>>}, {<<"lo", 1>>, <<"hi", 2>>},
     {<<"lo", 1>>, <<"lo", 2>>, <<"hi", 1>>},
     {<<"lo", 1>>, <<"hi", 1>>, <<"hi", 2>>}}
==============================================================================
