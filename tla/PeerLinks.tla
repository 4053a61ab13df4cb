------------------------------ MODULE PeerLinks ------------------------------
(***************************************************************************)
(* Connections between one pair of nodes: dialling, the HELLO exchange,    *)
(* and the choice between duplicate connections in registerPeer            *)
(* (internal/overlay/node.go, peer.go, discovery.go).                      *)
(*                                                                         *)
(* "lo" is the node with the smaller identity.  Both ends prefer the       *)
(* connection that lo dialled.  dialLoop dials again and again, without    *)
(* looking whether the peer is connected; considerCandidate looks at the   *)
(* peer map before it starts to dial, and dialCandidate tries one endpoint *)
(* after the other without looking again.                                  *)
(*                                                                         *)
(* Abstractions.  TLS and HELLO are one stage: an end in it either calls   *)
(* registerPeer (it has read the other HELLO, which may sit in the buffer  *)
(* of a connection already closed) or fails once the connection is closed. *)
(* What the connection carries is left out.  A connection's name is used   *)
(* again when neither end has it any more.                                 *)
(***************************************************************************)
EXTENDS Naturals, FiniteSets

CONSTANTS
    Conns,         \* names of connections
    None,          \* no connection, no dialer
    Configured,    \* <<end, k>>: a dialLoop at that end for the other node
    Discovered,    \* <<end, k>>: the dialing slot of considerCandidate at that end
    DialerSets,    \* which of them run in a behaviour
    MaxFailures    \* bound: transport failures in a behaviour

Ends == {"lo", "hi"}
Dialers == Configured \cup Discovered

ASSUME NoneAssumption == None \notin Conns /\ None \notin Dialers
ASSUME DialersAssumption == \A d \in Dialers : d[1] \in Ends
ASSUME DialerSetsAssumption == DialerSets \subseteq SUBSET Dialers
ASSUME MaxFailuresAssumption == MaxFailures \in Nat

VARIABLES
    dialers,       \* the dialers that run
    dialer,        \* dialer[c]: who dialled c
    stage,         \* stage[e][c]: "none", "hello" or "up" at end e
    open,          \* connections neither end nor the network has closed
    peers,         \* peers[e]: the connection in the peer map of e
    replaced,      \* replaced[e]: displaced from the map, old.close not called yet
    considered,    \* discovery dialers between the look at the map and the return
    failures       \* transport failures left

vars == <<dialers, dialer, stage, open, peers, replaced, considered, failures>>

-----------------------------------------------------------------------------
Other(e) == IF e = "lo" THEN "hi" ELSE "lo"

Owner(d) == d[1]

Busy(d) == \E c \in Conns : dialer[c] = d /\ stage[Owner(d)][c] # "none"

Outbound(e, c) == Owner(dialer[c]) = e

(* Faulty variant: each end prefers what it dialled itself.                *)
PreferredOwn(e, c) == Outbound(e, c)

(* The direction registerPeer prefers: outbound at the smaller identity.   *)
Preferred(e, c) == Outbound(e, c) = (e = "lo")

Init ==
    /\ dialers \in DialerSets
    /\ dialer = [c \in Conns |-> None]
    /\ stage = [e \in Ends |-> [c \in Conns |-> "none"]]
    /\ open = {}
    /\ peers = [e \in Ends |-> None]
    /\ replaced = [e \in Ends |-> {}]
    /\ considered = {}
    /\ failures = MaxFailures

(* The peer is not connected and not being dialled.                        *)
considerCandidate(d) ==
    /\ d \in dialers \cap Discovered
    /\ d \notin considered
    /\ ~Busy(d)
    /\ peers[Owner(d)] = None
    /\ considered' = considered \cup {d}
    /\ UNCHANGED <<dialers, dialer, stage, open, peers, replaced, failures>>

(* dialCandidate has no endpoint left to try.                              *)
exhausted(d) ==
    /\ d \in considered
    /\ ~Busy(d)
    /\ considered' = considered \ {d}
    /\ UNCHANGED <<dialers, dialer, stage, open, peers, replaced, failures>>

(* The transport connects: accepted at the other end.                      *)
dial(d, c) ==
    /\ d \in dialers
    /\ d \in Configured \cup considered
    /\ ~Busy(d)
    /\ \A e \in Ends : stage[e][c] = "none"
    /\ dialer' = [dialer EXCEPT ![c] = d]
    /\ stage' = [e \in Ends |-> [stage[e] EXCEPT ![c] = "hello"]]
    /\ open' = open \cup {c}
    /\ UNCHANGED <<dialers, peers, replaced, considered, failures>>

TransportFails(c) ==
    /\ c \in open
    /\ failures > 0
    /\ failures' = failures - 1
    /\ open' = open \ {c}
    /\ UNCHANGED <<dialers, dialer, stage, peers, replaced, considered>>

(* establishPeer returns an error: the connection closed before HELLO.     *)
establishFails(e, c) ==
    /\ stage[e][c] = "hello"
    /\ c \notin open
    /\ stage' = [stage EXCEPT ![e][c] = "none"]
    /\ UNCHANGED <<dialers, dialer, open, peers, replaced, considered, failures>>

(* Faulty variant: the direction of the connection held is not looked at.  *)
DuplicateIgnoringOld(e, c) ==
    /\ peers[e] # None
    /\ ~Preferred(e, c)

(* registerPeer's test under peersMu.                                      *)
Duplicate(e, c) ==
    /\ peers[e] # None
    /\ ~Preferred(e, c) \/ Preferred(e, peers[e])

(* Faulty variant: the rejected connection is not closed.                  *)
rejectedUnclosed(e, c) ==
    /\ stage[e][c] = "hello"
    /\ Duplicate(e, c)
    /\ stage' = [stage EXCEPT ![e][c] = "none"]
    /\ UNCHANGED <<dialers, dialer, open, peers, replaced, considered, failures>>

(* registerPeer returns false, establishPeer closes the connection.        *)
rejected(e, c) ==
    /\ stage[e][c] = "hello"
    /\ Duplicate(e, c)
    /\ stage' = [stage EXCEPT ![e][c] = "none"]
    /\ open' = open \ {c}
    /\ UNCHANGED <<dialers, dialer, peers, replaced, considered, failures>>

(* registerPeer puts the connection into the map; one that was there is    *)
(* closed after peersMu has been released.                                 *)
registerPeer(e, c) ==
    /\ stage[e][c] = "hello"
    /\ ~Duplicate(e, c)
    /\ stage' = [stage EXCEPT ![e][c] = "up"]
    /\ peers' = [peers EXCEPT ![e] = c]
    /\ replaced' = [replaced EXCEPT ![e] = @ \cup ({peers[e]} \ {None})]
    /\ UNCHANGED <<dialers, dialer, open, considered, failures>>

(* Faulty variant: the entry is deleted without comparing it.              *)
AfterUnregisterAlways(e, c) == [peers EXCEPT ![e] = None]

(* Faulty variant: the entry stays.                                        *)
AfterUnregisterNever(e, c) == peers

(* unregisterPeer deletes the map entry only if it is still this one.      *)
AfterUnregister(e, c) ==
    IF peers[e] = c THEN [peers EXCEPT ![e] = None] ELSE peers

(* p.close: closeOnce closes the connection and unregisters it.  It is     *)
(* called when the read of p.run fails and on the connection replaced.     *)
close(e, c) ==
    /\ stage[e][c] = "up"
    /\ c \notin open \/ c \in replaced[e]
    /\ stage' = [stage EXCEPT ![e][c] = "none"]
    /\ open' = open \ {c}
    /\ peers' = AfterUnregister(e, c)
    /\ replaced' = [replaced EXCEPT ![e] = @ \ {c}]
    /\ considered' = IF Outbound(e, c) THEN considered \ {dialer[c]} ELSE considered
    /\ UNCHANGED <<dialers, dialer, failures>>

Next ==
    \/ \E d \in Dialers :
         \/ considerCandidate(d)
         \/ exhausted(d)
         \/ \E c \in Conns : dial(d, c)
    \/ \E c \in Conns : TransportFails(c)
    \/ \E e \in Ends, c \in Conns :
         \/ establishFails(e, c)
         \/ rejected(e, c)
         \/ registerPeer(e, c)
         \/ close(e, c)

Spec == Init /\ [][Next]_vars

(* dialLoop dials for ever, a handshake ends (12 s deadline), and a read   *)
(* on a closed connection returns.  Nothing is asked of discovery or of    *)
(* the network.                                                            *)
Fairness ==
    /\ \A d \in Configured : WF_vars(\E c \in Conns : dial(d, c))
    /\ \A e \in Ends, c \in Conns :
         /\ WF_vars(establishFails(e, c) \/ rejected(e, c) \/ registerPeer(e, c))
         /\ WF_vars(close(e, c))

FairSpec == Spec /\ Fairness

-----------------------------------------------------------------------------
TypeOK ==
    /\ dialers \in DialerSets
    /\ dialer \in [Conns -> Dialers \cup {None}]
    /\ stage \in [Ends -> [Conns -> {"none", "hello", "up"}]]
    /\ open \subseteq Conns
    /\ peers \in [Ends -> Conns \cup {None}]
    /\ replaced \in [Ends -> SUBSET Conns]
    /\ considered \subseteq Discovered
    /\ failures \in 0..MaxFailures

-----------------------------------------------------------------------------
(* Nothing is on its way: no handshake, no close that is due.              *)
Settled ==
    \A e \in Ends, c \in Conns :
        /\ stage[e][c] # "hello"
        /\ stage[e][c] = "up" => c \in open /\ c \notin replaced[e]

Connected(c) == c \in open /\ \A e \in Ends : peers[e] = c

(* At most one dialer per end: the two nodes only know each other from     *)
(* their configurations, or only by discovery.                             *)
OneDialerEach == \A d1, d2 \in dialers : Owner(d1) = Owner(d2) => d1 = d2

(* The peer map names exactly the connection that is in use                *)
(* (node.go:395-431, peer.go:177-184): one that has been closed is not     *)
(* left in it, and one that runs and has not been replaced is never lost   *)
(* from it by the late unregistration of another.                          *)
MapMatchesConnections ==
    \A e \in Ends :
        /\ peers[e] # None => stage[e][peers[e]] = "up"
        /\ \A c \in Conns :
             stage[e][c] = "up" /\ c \notin replaced[e] => peers[e] = c

(* Once nothing is on its way, both nodes use the same connection          *)
(* (node.go:399-403), whichever order the two ends handled the duplicates. *)
EndsAgree == Settled => peers["lo"] = peers["hi"]

(* Two nodes that dial each other at the same time do not close both       *)
(* connections (node.go:399-403): as long as the transport has not failed  *)
(* and each end has one dialer, a pair that has dialled is connected once  *)
(* nothing is on its way.                                                  *)
CrossingDialsSurvive ==
    /\ TypeOK
    /\ (/\ Settled
        /\ OneDialerEach
        /\ failures = MaxFailures
        /\ \E c \in Conns : dialer[c] # None)
       => \E c \in Conns : Connected(c)

(* A connection in the preferred direction is displaced by no other        *)
(* (node.go:400-402): it leaves the map only when it is closed.            *)
PreferredStays ==
    [][\A e \in Ends : \A c \in Conns :
         peers[e] = c /\ Preferred(e, c) /\ peers'[e] # c => c \notin open]_vars

(* Two nodes of which one has the other in its configuration end up        *)
(* connected for good once the transport stops failing, on the preferred   *)
(* direction if that is a configured one (node.go:353-421).                *)
StaysConnected ==
    (OneDialerEach /\ dialers \cap Configured # {})
    => <>[](\E c \in Conns :
              /\ Connected(c)
              /\ (\E d \in dialers \cap Configured : Owner(d) = "lo") => Preferred("lo", c))

-----------------------------------------------------------------------------
(* The inductive invariant behind the safety properties: what is displaced *)
(* still runs and is not in the map, and what is open is known at both     *)
(* ends.                                                                   *)
ReplacedRun ==
    \A e \in Ends, c \in Conns :
        c \in replaced[e] => stage[e][c] = "up" /\ peers[e] # c

OpenAtBothEnds ==
    \A e \in Ends, c \in Conns : c \in open => stage[e][c] # "none"

IInv == TypeOK /\ MapMatchesConnections /\ ReplacedRun /\ OpenAtBothEnds
==============================================================================
