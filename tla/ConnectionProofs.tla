-------------------------- MODULE ConnectionProofs --------------------------
(***************************************************************************)
(* Proofs about the two kinds of connection a node keeps: the transport    *)
(* connections of the peer map (PeerLinks), and the circuits over them     *)
(* (Circuit), of which this module has the invariant and what it says      *)
(* about each action; CircuitProofs has the rest.  The two specifications  *)
(* share no variable; each theorem is about one of them.                   *)
(***************************************************************************)
EXTENDS PeerLinks, Circuit, Integers, TLAPS

-----------------------------------------------------------------------------
(* Before anything is dialled the invariant holds.                         *)
LEMMA InitIInv == Init => IInv
    BY MaxFailuresAssumption
       DEF Init, IInv, TypeOK, MapMatchesConnections, ReplacedRun, OpenAtBothEnds

(* Each action keeps the types.                                            *)
LEMMA TypeStep == TypeOK /\ [Next]_vars => TypeOK'
<1> SUFFICES ASSUME TypeOK, [Next]_vars PROVE TypeOK'
    OBVIOUS
<1>1. ASSUME NEW d \in Dialers, considerCandidate(d) \/ exhausted(d) PROVE TypeOK'
    BY <1>1 DEF considerCandidate, exhausted, TypeOK
<1>2. ASSUME NEW d \in Dialers, NEW c \in Conns, dial(d, c) PROVE TypeOK'
    BY <1>2 DEF dial, TypeOK
<1>3. ASSUME NEW c \in Conns, TransportFails(c) PROVE TypeOK'
    BY <1>3, MaxFailuresAssumption DEF TransportFails, TypeOK
<1>4. ASSUME NEW e \in Ends, NEW c \in Conns, establishFails(e, c) \/ rejected(e, c)
      PROVE TypeOK'
    BY <1>4 DEF establishFails, rejected, TypeOK
<1>5. ASSUME NEW e \in Ends, NEW c \in Conns, registerPeer(e, c) PROVE TypeOK'
    BY <1>5 DEF registerPeer, TypeOK
<1>6. ASSUME NEW e \in Ends, NEW c \in Conns, close(e, c) PROVE TypeOK'
    BY <1>6 DEF close, AfterUnregister, TypeOK
<1>7. CASE UNCHANGED vars
    BY <1>7 DEF vars, TypeOK
<1> QED BY <1>1, <1>2, <1>3, <1>4, <1>5, <1>6, <1>7 DEF Next

(* Each action keeps the invariant.                                        *)
LEMMA IInvStep == IInv /\ [Next]_vars => IInv'
<1> SUFFICES ASSUME IInv, [Next]_vars
             PROVE MapMatchesConnections' /\ ReplacedRun' /\ OpenAtBothEnds'
    BY TypeStep DEF IInv
<1> USE DEF MapMatchesConnections, ReplacedRun, OpenAtBothEnds
<1>0. TypeOK /\ MapMatchesConnections /\ ReplacedRun /\ OpenAtBothEnds
    BY DEF IInv
<1>t. /\ stage \in [Ends -> [Conns -> {"none", "hello", "up"}]]
      /\ peers \in [Ends -> Conns \cup {None}]
      /\ replaced \in [Ends -> SUBSET Conns]
    BY <1>0 DEF TypeOK
<1> DEFINE Goal == MapMatchesConnections' /\ ReplacedRun' /\ OpenAtBothEnds'
<1>1. ASSUME UNCHANGED <<stage, peers, replaced>>, open' \subseteq open PROVE Goal
    BY <1>0, <1>1
<1>2. ASSUME NEW d \in Dialers, NEW c \in Conns, dial(d, c) PROVE Goal
    <2>1. /\ \A e \in Ends : stage[e][c] = "none"
          /\ \A e \in Ends, x \in Conns :
               stage'[e][x] = IF x = c THEN "hello" ELSE stage[e][x]
          /\ open' = open \cup {c} /\ UNCHANGED <<peers, replaced>>
        BY <1>2, <1>t DEF dial
    <2>2. MapMatchesConnections'
        BY <2>1, <1>0, <1>t, SMTT(30)
    <2>3. ReplacedRun'
        BY <2>1, <1>0, <1>t
    <2>4. OpenAtBothEnds'
        BY <2>1, <1>0, <1>t
    <2> QED BY <2>2, <2>3, <2>4
<1>3. ASSUME NEW e \in Ends, NEW c \in Conns, establishFails(e, c) \/ rejected(e, c)
      PROVE Goal
    <2>1. /\ stage[e][c] = "hello" /\ UNCHANGED <<peers, replaced>>
          /\ \A f \in Ends, x \in Conns :
               stage'[f][x] = IF f = e /\ x = c THEN "none" ELSE stage[f][x]
          /\ open' \subseteq open \ {c}
        BY <1>3, <1>t DEF establishFails, rejected
    <2>2. MapMatchesConnections'
        BY <2>1, <1>0, <1>t
    <2>3. ReplacedRun'
        BY <2>1, <1>0, <1>t
    <2>4. OpenAtBothEnds'
        BY <2>1, <1>0, <1>t
    <2> QED BY <2>2, <2>3, <2>4
<1>4. ASSUME NEW e \in Ends, NEW c \in Conns, registerPeer(e, c) PROVE Goal
    <2>1. /\ stage[e][c] = "hello" /\ open' = open
          /\ \A f \in Ends, x \in Conns :
               stage'[f][x] = IF f = e /\ x = c THEN "up" ELSE stage[f][x]
          /\ \A f \in Ends : peers'[f] = IF f = e THEN c ELSE peers[f]
          /\ \A f \in Ends : replaced'[f] =
               IF f = e THEN replaced[e] \cup ({peers[e]} \ {None}) ELSE replaced[f]
        BY <1>4, <1>t DEF registerPeer
    <2>2. MapMatchesConnections'
        BY <2>1, <1>0, <1>t, NoneAssumption
    <2>3. ReplacedRun'
        BY <2>1, <1>0, <1>t, NoneAssumption
    <2>4. OpenAtBothEnds'
        BY <2>1, <1>0, <1>t
    <2> QED BY <2>2, <2>3, <2>4
<1>5. ASSUME NEW e \in Ends, NEW c \in Conns, close(e, c) PROVE Goal
    <2>1. /\ stage[e][c] = "up" /\ open' = open \ {c}
          /\ \A f \in Ends, x \in Conns :
               stage'[f][x] = IF f = e /\ x = c THEN "none" ELSE stage[f][x]
          /\ \A f \in Ends : peers'[f] = IF f = e /\ peers[e] = c THEN None ELSE peers[f]
          /\ \A f \in Ends : replaced'[f] =
               IF f = e THEN replaced[e] \ {c} ELSE replaced[f]
        BY <1>5, <1>t DEF close, AfterUnregister
    <2>2. MapMatchesConnections'
        BY <2>1, <1>0, <1>t, NoneAssumption
    <2>3. ReplacedRun'
        BY <2>1, <1>0, <1>t, NoneAssumption
    <2>4. OpenAtBothEnds'
        BY <2>1, <1>0, <1>t
    <2> QED BY <2>2, <2>3, <2>4
<1>6. ASSUME NEW d \in Dialers, considerCandidate(d) \/ exhausted(d)
      PROVE UNCHANGED <<stage, peers, replaced, open>>
    BY <1>6 DEF considerCandidate, exhausted
<1>7. ASSUME NEW c \in Conns, TransportFails(c)
      PROVE UNCHANGED <<stage, peers, replaced>> /\ open' \subseteq open
    BY <1>7 DEF TransportFails
<1>8. CASE UNCHANGED vars
    BY <1>8, <1>1 DEF vars
<1> QED BY <1>1, <1>2, <1>3, <1>4, <1>5, <1>6, <1>7, <1>8 DEF Next

(* What is displaced from the peer map still runs, what is open is known   *)
(* at both ends, and the map names the connection in use (node.go:395-431, *)
(* peer.go:113-118, 177-184), however many connections are dialled.        *)
THEOREM Invariant == Spec => []IInv
    BY InitIInv, IInvStep, PTL DEF Spec

(* However handshakes, rejections, replacements and late unregistrations   *)
(* interleave, the peer map names exactly the connection in use            *)
(* (node.go:395-431, peer.go:177-184).                                     *)
THEOREM MapMatches == Spec => []MapMatchesConnections
<1>1. IInv => MapMatchesConnections
    BY DEF IInv
<1> QED BY Invariant, <1>1, PTL

(* Once nothing is on its way both nodes use the same connection, with any *)
(* number of duplicates dialled from either end (node.go:399-403).         *)
THEOREM Agreement == Spec => []EndsAgree
<1>1. IInv => EndsAgree
    <2> SUFFICES ASSUME IInv, Settled PROVE peers["lo"] = peers["hi"]
        BY DEF EndsAgree
    <2>1. ASSUME NEW e \in Ends, NEW f \in Ends, peers[e] # None PROVE peers[f] = peers[e]
        <3>1. peers[e] \in Conns /\ stage[e][peers[e]] = "up"
            BY <2>1 DEF IInv, TypeOK, MapMatchesConnections
        <3>2. peers[e] \in open
            BY <3>1 DEF Settled
        <3>3. stage[f][peers[e]] = "up"
            BY <3>1, <3>2 DEF IInv, TypeOK, OpenAtBothEnds, Settled
        <3> QED BY <3>1, <3>3 DEF IInv, MapMatchesConnections, Settled
    <2>2. "lo" \in Ends /\ "hi" \in Ends
        BY DEF Ends
    <2>3. CASE peers["lo"] # None
        BY <2>1, <2>2, <2>3
    <2>4. CASE peers["hi"] # None
        BY <2>1, <2>2, <2>4
    <2> QED BY <2>3, <2>4
<1> QED BY Invariant, <1>1, PTL

(* A connection in the preferred direction leaves the map only when it is  *)
(* closed (node.go:400-402).                                               *)
THEOREM PreferredKept == Spec => PreferredStays
<1> DEFINE Stays == \A e \in Ends : \A c \in Conns :
             peers[e] = c /\ Preferred(e, c) /\ peers'[e] # c => c \notin open
<1>1. IInv /\ [Next]_vars => [Stays]_vars
    <2> SUFFICES ASSUME IInv, Next, NEW e \in Ends, NEW c \in Conns,
                        peers[e] = c, Preferred(e, c), peers'[e] # c
                 PROVE c \notin open
        OBVIOUS
    <2>0. peers \in [Ends -> Conns \cup {None}] /\ c # None /\ c \notin replaced[e]
        BY NoneAssumption DEF IInv, TypeOK, ReplacedRun
    <2>1. ASSUME NEW f \in Ends, NEW x \in Conns, registerPeer(f, x) PROVE c \notin open
        <3>1. f = e
            BY <2>0, <2>1 DEF registerPeer
        <3> QED BY <3>1, <2>0, <2>1 DEF registerPeer, Duplicate
    <2>2. ASSUME NEW f \in Ends, NEW x \in Conns, close(f, x) PROVE c \notin open
        <3>1. f = e /\ x = c
            BY <2>0, <2>2 DEF close, AfterUnregister
        <3> QED BY <3>1, <2>0, <2>2 DEF close
    <2>3. ASSUME NEW d \in Dialers, NEW x \in Conns,
                 considerCandidate(d) \/ exhausted(d) \/ dial(d, x) PROVE FALSE
        BY <2>3 DEF considerCandidate, exhausted, dial
    <2>4. ASSUME NEW f \in Ends, NEW x \in Conns,
                 TransportFails(x) \/ establishFails(f, x) \/ rejected(f, x) PROVE FALSE
        BY <2>4 DEF TransportFails, establishFails, rejected
    <2> QED BY <2>1, <2>2, <2>3, <2>4 DEF Next
<1> QED BY Invariant, <1>1, PTL DEF Spec, PreferredStays
-----------------------------------------------------------------------------
(* CrossingDialsSurvive needs more: why the connection that is to survive  *)
(* is never closed.                                                        *)

(* A connection that an end knows was dialled by a dialer that runs, which *)
(* dials no other while its own end still has it (dialLoop and             *)
(* dialCandidate call establishPeer and run, and dial again when they      *)
(* return).                                                                *)
Dialled ==
    \A c \in Conns :
        /\ dialer[c] # None => dialer[c] \in dialers
        /\ \A e \in Ends : stage[e][c] # "none" => dialer[c] # None

BusyOnce ==
    \A c1, c2 \in Conns :
        (/\ dialer[c1] # None /\ dialer[c1] = dialer[c2]
         /\ stage[Owner(dialer[c1])][c1] # "none"
         /\ stage[Owner(dialer[c1])][c2] # "none")
        => c1 = c2

ByLo(c) == dialer[c] # None /\ Owner(dialer[c]) = "lo"

(* Short of transport failures, with one dialer per end, a connection that *)
(* lo dialled is never closed or displaced; nor is one that hi dialled     *)
(* before lo has dialled any.                                              *)
Survives(c) == c \in open /\ \A e \in Ends : c \notin replaced[e]

SurvivorKept ==
    (OneDialerEach /\ failures = MaxFailures)
    => \A c \in Conns :
         (dialer[c] # None /\ (ByLo(c) \/ \A x \in Conns : ~ByLo(x))) => Survives(c)

DialInv == IInv /\ Dialled /\ BusyOnce /\ SurvivorKept

(* What the parts say about a state without failures: two connections that *)
(* both are to survive, dialled from the same end, are one.                *)
LEMMA OnlySurvivor ==
    ASSUME DialInv, OneDialerEach, failures = MaxFailures,
           NEW c1 \in Conns, NEW c2 \in Conns, dialer[c1] # None, dialer[c2] # None,
           Owner(dialer[c1]) = Owner(dialer[c2]), Survives(c1), Survives(c2)
    PROVE c1 = c2
<1>1. dialer[c1] \in dialers /\ dialer[c2] \in dialers
    BY DEF DialInv, Dialled
<1>2. dialer[c1] = dialer[c2]
    BY <1>1 DEF OneDialerEach
<1>3. Owner(dialer[c1]) \in Ends
    BY DialersAssumption DEF DialInv, IInv, TypeOK, Owner
<1>4. /\ stage[Owner(dialer[c1])][c1] # "none"
      /\ stage[Owner(dialer[c1])][c2] # "none"
    BY <1>3 DEF DialInv, IInv, OpenAtBothEnds, Survives
<1> QED BY <1>2, <1>4 DEF DialInv, BusyOnce

(* What registerPeer prefers is what lo dialled, at both ends.             *)
LEMMA PreferredIsByLo ==
    ASSUME DialInv, NEW e \in Ends, NEW c \in Conns, dialer[c] # None
    PROVE Preferred(e, c) <=> ByLo(c)
<1>1. Owner(dialer[c]) \in {"lo", "hi"}
    BY DialersAssumption DEF DialInv, IInv, TypeOK, Owner, Ends
<1> QED BY <1>1 DEF Preferred, Outbound, ByLo, Ends

(* Each action keeps the parts.                                            *)
LEMMA DialStep == DialInv /\ [Next]_vars => DialInv'
<1> SUFFICES ASSUME DialInv, [Next]_vars
             PROVE Dialled' /\ BusyOnce' /\ SurvivorKept'
    BY IInvStep DEF DialInv
<1>0. IInv /\ Dialled /\ BusyOnce /\ SurvivorKept
    BY DEF DialInv
<1>t. /\ stage \in [Ends -> [Conns -> {"none", "hello", "up"}]]
      /\ dialer \in [Conns -> Dialers \cup {None}]
      /\ peers \in [Ends -> Conns \cup {None}]
      /\ replaced \in [Ends -> SUBSET Conns]
      /\ failures \in 0..MaxFailures
    BY <1>0 DEF IInv, TypeOK
<1> DEFINE Goal == Dialled' /\ BusyOnce' /\ SurvivorKept'
<1>d. UNCHANGED dialers
    BY DEF Next, vars, considerCandidate, exhausted, dial, TransportFails, establishFails,
           rejected, registerPeer, close
<1>o. OneDialerEach' <=> OneDialerEach
    BY <1>d DEF OneDialerEach
(* A step that ends a connection at an end, and the one it closes is none  *)
(* that is to survive.                                                     *)
<1>1. ASSUME UNCHANGED dialer,
             \A e \in Ends, x \in Conns : stage'[e][x] # "none" => stage[e][x] # "none",
             (OneDialerEach /\ failures' = MaxFailures) =>
               /\ failures = MaxFailures
               /\ \A c \in Conns :
                    (dialer[c] # None /\ (ByLo(c) \/ \A x \in Conns : ~ByLo(x))
                     /\ Survives(c)) => Survives(c)'
      PROVE Goal
  <2>1. Dialled'
      BY <1>0, <1>1, <1>d DEF Dialled
  <2>2. BusyOnce'
    <3>1. \A c \in Conns : dialer[c] # None => Owner(dialer[c]) \in Ends
        BY <1>t, DialersAssumption DEF Owner
    <3> QED BY <1>0, <1>1, <3>1 DEF BusyOnce
  <2>3. \A c \in Conns : ByLo(c)' <=> ByLo(c)
      BY <1>1 DEF ByLo
  <2>4. SurvivorKept'
      BY <1>0, <1>1, <1>o, <2>3 DEF SurvivorKept
  <2> QED BY <2>1, <2>2, <2>4
<1>2. ASSUME NEW d \in Dialers, NEW c \in Conns, dial(d, c) PROVE Goal
  <2>1. /\ d \in dialers /\ d # None
        /\ \A e \in Ends : stage[e][c] = "none"
        /\ \A e \in Ends, x \in Conns :
             stage'[e][x] = IF x = c THEN "hello" ELSE stage[e][x]
        /\ \A x \in Conns : dialer'[x] = IF x = c THEN d ELSE dialer[x]
        /\ open' = open \cup {c} /\ UNCHANGED <<replaced, failures>>
        /\ Owner(d) \in Ends
      BY <1>2, <1>t, NoneAssumption, DialersAssumption DEF dial, Owner
  <2>2. \A x \in Conns : dialer[x] = d => stage[Owner(d)][x] = "none"
      BY <1>2 DEF dial, Busy
  <2>3. Dialled'
      BY <1>0, <1>d, <2>1 DEF Dialled
  <2>4. BusyOnce'
    <3>1. \A x \in Conns : dialer[x] # None => Owner(dialer[x]) \in Ends
        BY <1>t, DialersAssumption DEF Owner
    <3> QED BY <1>0, <2>1, <2>2, <3>1 DEF BusyOnce
  <2>5. SurvivorKept'
    <3> SUFFICES ASSUME OneDialerEach, failures = MaxFailures, NEW x \in Conns,
                        dialer'[x] # None, ByLo(x)' \/ \A y \in Conns : ~ByLo(y)'
                 PROVE Survives(x)'
        BY <1>o, <2>1 DEF SurvivorKept
    <3>1. c \notin open /\ ~Survives(c)
        BY <1>0, <2>1 DEF IInv, OpenAtBothEnds, Survives, Ends
    <3>2. ~ByLo(c)
        BY <1>0, <3>1 DEF SurvivorKept, ByLo
    <3>3. \A y \in Conns : y # c => (ByLo(y)' <=> ByLo(y))
        BY <2>1 DEF ByLo
    <3>4. Survives(c)'
        BY <1>0, <2>1 DEF Survives, IInv, ReplacedRun
    <3>5. CASE x # c
      <4>1. dialer[x] # None /\ (ByLo(x) \/ \A y \in Conns : ~ByLo(y))
          BY <2>1, <3>2, <3>3, <3>5
      <4>2. Survives(x)
          BY <1>0, <4>1 DEF SurvivorKept
      <4> QED BY <2>1, <4>2 DEF Survives
    <3> QED BY <3>4, <3>5
  <2> QED BY <2>3, <2>4, <2>5
<1>3. ASSUME NEW e \in Ends, NEW c \in Conns, establishFails(e, c) PROVE Goal
  <2>1. /\ \A f \in Ends, x \in Conns :
             stage'[f][x] = IF f = e /\ x = c THEN "none" ELSE stage[f][x]
        /\ UNCHANGED <<dialer, open, replaced, failures>>
      BY <1>3, <1>t DEF establishFails
  <2> QED BY <2>1, <1>1 DEF Survives
<1>4. ASSUME NEW e \in Ends, NEW c \in Conns, rejected(e, c) PROVE Goal
  <2>1. /\ stage[e][c] = "hello" /\ Duplicate(e, c)
        /\ \A f \in Ends, x \in Conns :
             stage'[f][x] = IF f = e /\ x = c THEN "none" ELSE stage[f][x]
        /\ open' = open \ {c} /\ UNCHANGED <<dialer, replaced, failures>>
      BY <1>4, <1>t DEF rejected
  <2>2. ASSUME OneDialerEach, failures = MaxFailures, dialer[c] # None,
               ByLo(c) \/ \A x \in Conns : ~ByLo(x), Survives(c)
        PROVE FALSE
    <3> DEFINE p == peers[e]
    <3>1. p \in Conns /\ stage[e][p] = "up" /\ p # c
        BY <1>0, <1>t, <2>1 DEF Duplicate, IInv, MapMatchesConnections
    <3>2. dialer[p] # None
        BY <1>0, <3>1 DEF Dialled
    <3>3. ~ByLo(c) \/ ByLo(p)
        BY <2>1, <2>2, <3>1, <3>2, PreferredIsByLo DEF Duplicate
    <3>4. Survives(p)
        BY <1>0, <2>2, <3>1, <3>2, <3>3 DEF SurvivorKept
    <3>5. Owner(dialer[c]) = Owner(dialer[p])
      <4>1. Owner(dialer[c]) \in {"lo", "hi"} /\ Owner(dialer[p]) \in {"lo", "hi"}
          BY <1>t, <2>2, <3>1, <3>2, DialersAssumption DEF Owner, Ends
      <4> QED BY <2>2, <3>1, <3>2, <3>3, <4>1 DEF ByLo
    <3> QED BY <2>2, <3>1, <3>2, <3>4, <3>5, OnlySurvivor
  <2>3. \A x \in Conns : x # c /\ Survives(x) => Survives(x)'
      BY <2>1 DEF Survives
  <2> QED BY <1>1, <2>1, <2>2, <2>3
<1>5. ASSUME NEW e \in Ends, NEW c \in Conns, registerPeer(e, c) PROVE Goal
  <2>1. /\ stage[e][c] = "hello" /\ ~Duplicate(e, c)
        /\ \A f \in Ends, x \in Conns :
             stage'[f][x] = IF f = e /\ x = c THEN "up" ELSE stage[f][x]
        /\ \A f \in Ends : replaced'[f] =
             IF f = e THEN replaced[e] \cup ({peers[e]} \ {None}) ELSE replaced[f]
        /\ UNCHANGED <<dialer, open, failures>>
      BY <1>5, <1>t DEF registerPeer
  <2>2. dialer[c] # None
      BY <1>0, <2>1 DEF Dialled
  <2>3. ASSUME NEW x \in Conns, dialer[x] # None, ByLo(x) \/ \A y \in Conns : ~ByLo(y)
        PROVE peers[e] # x
    <3>1. CASE peers[e] = x
      <4>1. Preferred(e, c) /\ ~Preferred(e, x)
          BY <2>1, <3>1, NoneAssumption DEF Duplicate
      <4> QED BY <2>2, <2>3, <4>1, PreferredIsByLo
    <3> QED BY <3>1
  <2>4. \A x \in Conns : Survives(x) /\ peers[e] # x => Survives(x)'
      BY <2>1 DEF Survives
  <2> QED BY <1>1, <2>1, <2>3, <2>4
<1>6. ASSUME NEW e \in Ends, NEW c \in Conns, close(e, c) PROVE Goal
  <2>1. /\ c \notin open \/ c \in replaced[e]
        /\ \A f \in Ends, x \in Conns :
             stage'[f][x] = IF f = e /\ x = c THEN "none" ELSE stage[f][x]
        /\ open' = open \ {c} /\ UNCHANGED <<dialer, failures>>
        /\ \A f \in Ends : replaced'[f] \subseteq replaced[f]
      BY <1>6, <1>t DEF close
  <2>2. \A x \in Conns : Survives(x) => Survives(x)'
      BY <2>1 DEF Survives
  <2> QED BY <1>1, <2>1, <2>2
<1>7. ASSUME NEW c \in Conns, TransportFails(c) PROVE Goal
  <2>1. failures' # MaxFailures /\ UNCHANGED <<dialer, stage>>
      BY <1>7, <1>t, MaxFailuresAssumption DEF TransportFails
  <2> QED BY <1>1, <2>1
<1>8. ASSUME NEW d \in Dialers, considerCandidate(d) \/ exhausted(d) PROVE Goal
  <2>1. UNCHANGED <<dialer, stage, open, replaced, failures>>
      BY <1>8 DEF considerCandidate, exhausted
  <2> QED BY <1>1, <2>1 DEF Survives
<1>9. ASSUME UNCHANGED vars PROVE Goal
  <2>1. UNCHANGED <<dialer, stage, open, replaced, failures>>
      BY <1>9 DEF vars
  <2> QED BY <1>1, <2>1 DEF Survives
<1> QED BY <1>2, <1>3, <1>4, <1>5, <1>6, <1>7, <1>8, <1>9 DEF Next

(* Two nodes that dial each other at the same time do not close both       *)
(* connections (registerPeer, node.go:395-421): however handshakes,        *)
(* rejections and replacements interleave, with one dialer per end and no  *)
(* transport failure a pair that has dialled is connected once nothing is  *)
(* on its way.                                                             *)
THEOREM CrossingSurvives == Spec => []CrossingDialsSurvive
<1>1. Init => DialInv
    BY InitIInv DEF Init, DialInv, Dialled, BusyOnce, SurvivorKept
<1>2. DialInv => CrossingDialsSurvive
  <2> SUFFICES ASSUME DialInv, Settled, OneDialerEach, failures = MaxFailures,
                      NEW c \in Conns, dialer[c] # None
               PROVE \E x \in Conns : Connected(x)
      BY DEF CrossingDialsSurvive, DialInv, IInv
  <2>1. PICK x \in Conns : Survives(x)
      BY DEF DialInv, SurvivorKept, ByLo
  <2>2. \A e \in Ends : stage[e][x] = "up"
      BY <2>1 DEF DialInv, IInv, TypeOK, OpenAtBothEnds, Survives, Settled
  <2>3. \A e \in Ends : peers[e] = x
      BY <2>1, <2>2 DEF DialInv, IInv, MapMatchesConnections, Survives
  <2> QED BY <2>1, <2>3 DEF Connected, Survives
<1> QED BY <1>1, <1>2, DialStep, PTL DEF Spec

-----------------------------------------------------------------------------
(***************************************************************************)
(* Circuits, for a path of any length, queues of any length and any        *)
(* number of writes, answers, lost links and stops.                        *)
(*                                                                         *)
(* Every cell is known by the number of its innermost layer: the client    *)
(* numbers what it sends, the relay that answers numbers what it sends.    *)
(* The cells on each link have the numbers between two counters, which is  *)
(* what the invariant CircuitInv says.                                     *)
(***************************************************************************)

-----------------------------------------------------------------------------
(* Links.                                                                  *)

(* The cells of a link that are met before anything but relay cells.       *)
Front(s) == {m \in 1..Len(s) : \A l \in 1..m : s[l].kind = "relay"}

(* A cell of the kind is on the link.                                      *)
Holds(s, kind) == \E m \in 1..Len(s) : s[m].kind = kind

(* The cells in front have the numbers from p on, all below top; f tells   *)
(* which cells may have a number.                                          *)
Run(s, p, top, f) == \A m \in Front(s) : s[m] \in f[p + m - 1] /\ p + m <= top

(* The first DESTROY comes after the cells with the numbers up to w.       *)
Drained(s, p, w) ==
  \A m \in 1..Len(s) :
    s[m].kind = "destroy" /\ (\A l \in 1..(m - 1) : s[l].kind = "relay") => p + m > w + 1

(* A read.                                                                 *)
LEMMA LinkTail ==
  ASSUME NEW S, NEW s \in Seq(S), s # << >>
  PROVE  /\ Tail(s) \in Seq(S) /\ Head(s) \in S /\ Head(s) = s[1] /\ 1 \in 1..Len(s)
         /\ Len(s) \in Nat /\ Len(Tail(s)) = Len(s) - 1 /\ Len(s) >= 1
         /\ \A m \in 1..Len(Tail(s)) : Tail(s)[m] = s[m + 1] /\ m + 1 \in 1..Len(s)
<1>1. Tail(s) \in Seq(S) /\ Head(s) \in S /\ Head(s) = s[1] /\ Len(s) \in Nat
      /\ Len(Tail(s)) = Len(s) - 1 /\ Len(s) >= 1
      /\ \A m \in 1..Len(Tail(s)) : Tail(s)[m] = s[m + 1]
    OBVIOUS
<1> QED BY <1>1

(* The last cell is read.                                                  *)
LEMMA LinkLast ==
  ASSUME NEW S, NEW s \in Seq(S), Len(s) = 1
  PROVE  s # << >> /\ Tail(s) = << >> /\ Head(s) = s[1]
<1>1. s # << >>
    OBVIOUS
<1> DEFINE t == Tail(s)
<1>2. t \in Seq(S) /\ Len(t) = 0 /\ Head(s) = s[1]
    BY <1>1, LinkTail
<1> HIDE DEF t
<1>3. t = << >>
    BY <1>2
<1> QED BY <1>1, <1>2, <1>3 DEF t

(* A write.                                                                *)
LEMMA LinkAppend ==
  ASSUME NEW S, NEW s \in Seq(S), NEW c \in S
  PROVE  /\ Append(s, c) \in Seq(S) /\ Len(s) \in Nat /\ Len(Append(s, c)) = Len(s) + 1
         /\ Append(s, c)[Len(s) + 1] = c
         /\ \A m \in 1..Len(s) : Append(s, c)[m] = s[m] /\ m \in 1..Len(Append(s, c))
         /\ \A m \in 1..Len(Append(s, c)) : m \in 1..Len(s) \/ m = Len(s) + 1
OBVIOUS

(* A loss.                                                                 *)
LEMMA LinkPrefix ==
  ASSUME NEW S, NEW s \in Seq(S), NEW k \in 0..Len(s)
  PROVE  /\ SubSeq(s, 1, k) \in Seq(S) /\ Len(SubSeq(s, 1, k)) = k /\ k <= Len(s) /\ Len(s) \in Nat
         /\ \A m \in 1..k : SubSeq(s, 1, k)[m] = s[m] /\ m \in 1..Len(s)
OBVIOUS

(* Kinds of cells, in what a read leaves.                                  *)
LEMMA HoldsTail ==
  ASSUME NEW s \in Seq(Cells), s # << >>, NEW kind
  PROVE  /\ Holds(Tail(s), kind) => Holds(s, kind)
         /\ Holds(s, kind) /\ Head(s).kind # kind => Holds(Tail(s), kind)
         /\ Head(s).kind = kind => Holds(s, kind)
<1>1. /\ Head(s) = s[1] /\ 1 \in 1..Len(s) /\ Len(s) \in Nat /\ Len(Tail(s)) = Len(s) - 1
      /\ \A m \in 1..Len(Tail(s)) : Tail(s)[m] = s[m + 1] /\ m + 1 \in 1..Len(s)
    BY LinkTail
<1>2. Holds(Tail(s), kind) => Holds(s, kind)
    BY <1>1 DEF Holds
<1>3. ASSUME NEW m \in 1..Len(s), s[m].kind = kind, Head(s).kind # kind
      PROVE  Holds(Tail(s), kind)
    <2>1. m # 1
        BY <1>1, <1>3
    <2>2. m - 1 \in 1..Len(Tail(s)) /\ (m - 1) + 1 = m
        BY <1>1, <2>1
    <2>3. Tail(s)[m - 1].kind = kind
        BY <1>1, <1>3, <2>2
    <2> QED BY <2>2, <2>3 DEF Holds
<1> QED BY <1>1, <1>2, <1>3 DEF Holds

(* Kinds of cells, after a write.                                          *)
LEMMA HoldsAppend ==
  ASSUME NEW s \in Seq(Cells), NEW c \in Cells, NEW kind
  PROVE  Holds(Append(s, c), kind) <=> Holds(s, kind) \/ c.kind = kind
<1>1. /\ Len(s) \in Nat /\ Len(Append(s, c)) = Len(s) + 1 /\ Append(s, c)[Len(s) + 1] = c
      /\ \A m \in 1..Len(s) : Append(s, c)[m] = s[m] /\ m \in 1..Len(Append(s, c))
      /\ \A m \in 1..Len(Append(s, c)) : m \in 1..Len(s) \/ m = Len(s) + 1
      /\ Len(s) + 1 \in 1..Len(Append(s, c))
    BY LinkAppend
<1> QED BY <1>1 DEF Holds

(* An empty link, or one without relay cells.                              *)
LEMMA RunEmpty ==
  ASSUME NEW s \in Seq(Cells), NEW p, NEW top, NEW f, ~Holds(s, "relay")
  PROVE  Run(s, p, top, f) /\ Front(s) = {}
<1>1. ASSUME NEW m \in Front(s) PROVE FALSE
    <2>1. m \in 1..Len(s) /\ m \in 1..m /\ \A l \in 1..m : s[l].kind = "relay"
        BY DEF Front
    <2> QED BY <2>1 DEF Holds
<1> QED BY <1>1 DEF Run

(* The first cell has the number that is due; the others go on after it.   *)
LEMMA RunTail ==
  ASSUME NEW s \in Seq(Cells), s # << >>, Head(s).kind = "relay",
         NEW p \in Int, NEW top \in Int, NEW f, Run(s, p, top, f)
  PROVE  Run(Tail(s), p + 1, top, f) /\ Head(s) \in f[p] /\ p + 1 <= top
<1>1. /\ Tail(s) \in Seq(Cells) /\ Head(s) = s[1] /\ 1 \in 1..Len(s) /\ Len(s) \in Nat
      /\ Len(Tail(s)) = Len(s) - 1
      /\ \A m \in 1..Len(Tail(s)) : Tail(s)[m] = s[m + 1] /\ m + 1 \in 1..Len(s)
    BY LinkTail
<1>2. 1 \in Front(s)
    BY <1>1 DEF Front
<1>3. ASSUME NEW m \in Front(Tail(s))
      PROVE  Tail(s)[m] \in f[(p + 1) + m - 1] /\ (p + 1) + m <= top
    <2>1. m \in 1..Len(Tail(s)) /\ m \in Nat /\ \A l \in 1..m : Tail(s)[l].kind = "relay"
        BY <1>1 DEF Front
    <2>2. ASSUME NEW l \in 1..(m + 1) PROVE s[l].kind = "relay"
        <3>1. CASE l = 1
            BY <1>1, <3>1
        <3>2. CASE l # 1
            <4>1. l - 1 \in 1..m /\ l - 1 \in 1..Len(Tail(s)) /\ (l - 1) + 1 = l
                BY <1>1, <2>1, <3>2
            <4> QED BY <1>1, <2>1, <4>1
        <3> QED BY <3>1, <3>2
    <2>3. m + 1 \in Front(s) /\ Tail(s)[m] = s[m + 1]
        BY <1>1, <2>1, <2>2 DEF Front
    <2>4. s[m + 1] \in f[p + (m + 1) - 1] /\ p + (m + 1) <= top
        BY <2>3 DEF Run
    <2>5. p + (m + 1) - 1 = (p + 1) + m - 1 /\ p + (m + 1) = (p + 1) + m
        BY <2>1
    <2> QED BY <2>3, <2>4, <2>5
<1>4. s[1] \in f[p + 1 - 1] /\ p + 1 <= top /\ p + 1 - 1 = p
    BY <1>2 DEF Run
<1>5. Run(Tail(s), p + 1, top, f)
    BY <1>3 DEF Run
<1> QED BY <1>1, <1>4, <1>5

(* A cell is written: it has the next number, or stands behind another     *)
(* kind.                                                                   *)
LEMMA RunAppend ==
  ASSUME NEW s \in Seq(Cells), NEW c \in Cells, NEW p \in Int, NEW top \in Int, NEW f,
         Run(s, p, top, f),
         c.kind = "relay" /\ (\A m \in 1..Len(s) : s[m].kind = "relay")
           => c \in f[p + Len(s)] /\ p + Len(s) + 1 <= top
  PROVE  Run(Append(s, c), p, top, f)
<1> DEFINE t == Append(s, c)
<1>1. /\ t \in Seq(Cells) /\ Len(s) \in Nat /\ Len(t) = Len(s) + 1 /\ t[Len(s) + 1] = c
      /\ \A m \in 1..Len(s) : t[m] = s[m] /\ m \in 1..Len(t)
      /\ \A m \in 1..Len(t) : m \in 1..Len(s) \/ m = Len(s) + 1
    BY LinkAppend
<1> HIDE DEF t
<1> SUFFICES ASSUME NEW m \in Front(t)
             PROVE  t[m] \in f[p + m - 1] /\ p + m <= top
    BY DEF Run, t
<1>2. m \in 1..Len(t) /\ m \in Nat /\ \A l \in 1..m : t[l].kind = "relay"
    BY <1>1 DEF Front
<1>3. CASE m \in 1..Len(s)
    <2>1. \A l \in 1..m : l \in 1..Len(s)
        BY <1>1, <1>2, <1>3
    <2>2. m \in Front(s) /\ t[m] = s[m]
        BY <1>1, <1>2, <1>3, <2>1 DEF Front
    <2> QED BY <2>2 DEF Run
<1>4. CASE m = Len(s) + 1
    <2>1. \A l \in 1..Len(s) : l \in 1..m /\ t[l] = s[l]
        BY <1>1, <1>4
    <2>2. t[m] = c /\ c.kind = "relay" /\ \A l \in 1..Len(s) : s[l].kind = "relay"
        BY <1>1, <1>2, <1>4, <2>1
    <2>3. c \in f[p + Len(s)] /\ p + Len(s) + 1 <= top
        BY <2>2
    <2>4. p + Len(s) = p + m - 1 /\ p + Len(s) + 1 = p + m
        BY <1>1, <1>4
    <2> QED BY <2>2, <2>3, <2>4
<1> QED BY <1>1, <1>2, <1>3, <1>4

(* The link loses its end.                                                 *)
LEMMA RunPrefix ==
  ASSUME NEW s \in Seq(Cells), NEW k \in 0..Len(s), NEW p, NEW top, NEW f, Run(s, p, top, f)
  PROVE  Run(SubSeq(s, 1, k), p, top, f)
<1> DEFINE t == SubSeq(s, 1, k)
<1>1. /\ Len(t) = k /\ k <= Len(s) /\ Len(s) \in Nat /\ k \in Nat
      /\ \A m \in 1..k : t[m] = s[m] /\ m \in 1..Len(s)
    BY LinkPrefix
<1> HIDE DEF t
<1>2. ASSUME NEW m \in Front(t) PROVE m \in Front(s) /\ t[m] = s[m]
    <2>1. m \in 1..k /\ \A l \in 1..m : t[l].kind = "relay" /\ l \in 1..k
        BY <1>1 DEF Front
    <2> QED BY <1>1, <2>1 DEF Front
<1>3. Run(t, p, top, f)
    BY <1>2 DEF Run
<1> QED BY <1>3 DEF t

(* More numbers have been given, and none has lost its cells.              *)
LEMMA RunGrows ==
  ASSUME NEW s \in Seq(Cells), NEW p \in Int, NEW top \in Int, NEW end \in Int, NEW f, NEW g,
         Run(s, p, top, f), top <= end,
         \A q \in Int : q >= p /\ q < top => f[q] \subseteq g[q]
  PROVE  Run(s, p, end, g)
<1> SUFFICES ASSUME NEW m \in Front(s)
             PROVE  s[m] \in g[p + m - 1] /\ p + m <= end
    BY DEF Run
<1>1. m \in 1..Len(s) /\ Len(s) \in Nat /\ m \in Nat /\ m >= 1
    BY DEF Front
<1>2. s[m] \in f[p + m - 1] /\ p + m <= top
    BY DEF Run
<1>3. p + m - 1 \in Int /\ p + m - 1 >= p /\ p + m - 1 < top /\ p + m <= end
    BY <1>1, <1>2
<1> QED BY <1>2, <1>3

(* The DESTROY stays behind what was written before it.                    *)
LEMMA DrainedTail ==
  ASSUME NEW s \in Seq(Cells), s # << >>, Head(s).kind = "relay",
         NEW p \in Int, NEW w \in Int, Drained(s, p, w)
  PROVE  Drained(Tail(s), p + 1, w)
<1>1. /\ Head(s) = s[1] /\ 1 \in 1..Len(s) /\ Len(s) \in Nat /\ Len(Tail(s)) = Len(s) - 1
      /\ \A m \in 1..Len(Tail(s)) : Tail(s)[m] = s[m + 1] /\ m + 1 \in 1..Len(s)
    BY LinkTail
<1> SUFFICES ASSUME NEW m \in 1..Len(Tail(s)), Tail(s)[m].kind = "destroy",
                    \A l \in 1..(m - 1) : Tail(s)[l].kind = "relay"
             PROVE  (p + 1) + m > w + 1
    BY DEF Drained
<1>2. m \in Nat /\ m + 1 \in 1..Len(s) /\ s[m + 1].kind = "destroy"
    BY <1>1
<1>3. ASSUME NEW l \in 1..((m + 1) - 1) PROVE s[l].kind = "relay"
    <2>1. CASE l = 1
        BY <1>1, <2>1
    <2>2. CASE l # 1
        <3>1. l - 1 \in 1..(m - 1) /\ l - 1 \in 1..Len(Tail(s)) /\ (l - 1) + 1 = l
            BY <1>1, <1>2, <2>2
        <3> QED BY <1>1, <3>1
    <2> QED BY <2>1, <2>2
<1>4. p + (m + 1) > w + 1
    BY <1>2, <1>3 DEF Drained
<1> QED BY <1>2, <1>4

(* A write: a DESTROY comes after the numbers up to w.                     *)
LEMMA DrainedAppend ==
  ASSUME NEW s \in Seq(Cells), NEW c \in Cells, NEW p \in Int, NEW w \in Int, Drained(s, p, w),
         c.kind = "destroy" /\ (\A m \in 1..Len(s) : s[m].kind = "relay") => p + Len(s) > w
  PROVE  Drained(Append(s, c), p, w)
<1> DEFINE t == Append(s, c)
<1>1. /\ Len(s) \in Nat /\ Len(t) = Len(s) + 1 /\ t[Len(s) + 1] = c
      /\ \A m \in 1..Len(s) : t[m] = s[m] /\ m \in 1..Len(t)
      /\ \A m \in 1..Len(t) : m \in 1..Len(s) \/ m = Len(s) + 1
    BY LinkAppend
<1> HIDE DEF t
<1> SUFFICES ASSUME NEW m \in 1..Len(t), t[m].kind = "destroy",
                    \A l \in 1..(m - 1) : t[l].kind = "relay"
             PROVE  p + m > w + 1
    BY DEF Drained, t
<1>2. CASE m \in 1..Len(s)
    <2>1. ASSUME NEW l \in 1..(m - 1) PROVE s[l].kind = "relay"
        <3>1. l \in 1..Len(s)
            BY <1>1, <1>2
        <3> QED BY <1>1, <3>1
    <2> QED BY <1>1, <1>2, <2>1 DEF Drained
<1>3. CASE m = Len(s) + 1
    <2>1. ASSUME NEW l \in 1..Len(s) PROVE s[l].kind = "relay"
        <3>1. l \in 1..(m - 1)
            BY <1>1, <1>3
        <3> QED BY <1>1, <3>1
    <2>2. p + Len(s) > w
        BY <1>1, <1>3, <2>1
    <2> QED BY <1>1, <1>3, <2>2
<1> QED BY <1>1, <1>2, <1>3

(* A loss.                                                                 *)
LEMMA DrainedPrefix ==
  ASSUME NEW s \in Seq(Cells), NEW k \in 0..Len(s), NEW p \in Int, NEW w \in Int, Drained(s, p, w)
  PROVE  Drained(SubSeq(s, 1, k), p, w)
<1> DEFINE t == SubSeq(s, 1, k)
<1>1. /\ Len(t) = k /\ k <= Len(s) /\ Len(s) \in Nat /\ k \in Nat
      /\ \A m \in 1..k : t[m] = s[m] /\ m \in 1..Len(s)
    BY LinkPrefix
<1> HIDE DEF t
<1> SUFFICES ASSUME NEW m \in 1..Len(t), t[m].kind = "destroy",
                    \A l \in 1..(m - 1) : t[l].kind = "relay"
             PROVE  p + m > w + 1
    BY DEF Drained, t
<1>2. ASSUME NEW l \in 1..(m - 1) PROVE s[l].kind = "relay"
    <2>1. l \in 1..k
        BY <1>1
    <2> QED BY <1>1, <2>1
<1> QED BY <1>1, <1>2 DEF Drained

-----------------------------------------------------------------------------
(* Layers.                                                                 *)

(* The numbers on the layers of a cell whose innermost layer has q: every  *)
(* hop has seen one cell more than the next one.                           *)
Onion(q, len) == [l \in 1..len |-> q + len - l]

(* Layers are a sequence of numbers.                                       *)
LEMMA OnionSeq ==
  ASSUME NEW q \in Nat, NEW len \in Nat
  PROVE  /\ Onion(q, len) \in Seq(Nat) /\ Len(Onion(q, len)) = len
         /\ \A l \in 1..len : Onion(q, len)[l] = q + len - l
<1>1. \A l \in 1..len : q + len - l \in Nat
    OBVIOUS
<1> QED BY <1>1 DEF Onion

(* Taking a layer off.                                                     *)
LEMMA OnionTail ==
  ASSUME NEW q \in Nat, NEW len \in Nat, len >= 1
  PROVE  Head(Onion(q, len)) = q + len - 1 /\ Tail(Onion(q, len)) = Onion(q, len - 1)
<1> DEFINE s == Onion(q, len)
           t == Onion(q, len - 1)
<1>1. s \in Seq(Nat) /\ Len(s) = len /\ \A l \in 1..len : s[l] = q + len - l
    BY OnionSeq
<1>2. t \in Seq(Nat) /\ Len(t) = len - 1 /\ \A l \in 1..(len - 1) : t[l] = q + (len - 1) - l
    BY OnionSeq
<1> HIDE DEF s, t
<1>3. /\ Tail(s) \in Seq(Nat) /\ Len(Tail(s)) = len - 1 /\ Head(s) = s[1]
      /\ \A l \in 1..(len - 1) : Tail(s)[l] = s[l + 1] /\ l + 1 \in 1..len
    BY <1>1
<1>4. \A l \in 1..(len - 1) : Tail(s)[l] = t[l]
    BY <1>1, <1>2, <1>3
<1> DEFINE u == Tail(s)
<1>5. u \in Seq(Nat) /\ Len(u) = Len(t) /\ \A l \in 1..Len(t) : u[l] = t[l]
    BY <1>2, <1>3, <1>4
<1> HIDE DEF u
<1>6. u = t
    BY <1>2, <1>5
<1>7. Head(s) = q + len - 1
    BY <1>1, <1>3
<1> QED BY <1>6, <1>7 DEF s, t, u

(* Putting a layer on.                                                     *)
LEMMA OnionPut ==
  ASSUME NEW q \in Nat, NEW len \in Nat
  PROVE  <<q + len>> \o Onion(q, len) = Onion(q, len + 1)
<1> DEFINE s == Onion(q, len)
           t == Onion(q, len + 1)
           u == <<q + len>> \o s
<1>1. s \in Seq(Nat) /\ Len(s) = len /\ \A l \in 1..len : s[l] = q + len - l
    BY OnionSeq
<1>2. t \in Seq(Nat) /\ Len(t) = len + 1 /\ \A l \in 1..(len + 1) : t[l] = q + (len + 1) - l
    BY OnionSeq
<1> HIDE DEF s, t
<1>3. u \in Seq(Nat) /\ Len(u) = len + 1 /\ u[1] = q + len
      /\ \A l \in 2..(len + 1) : u[l] = s[l - 1] /\ l - 1 \in 1..len
    BY <1>1
<1>4. ASSUME NEW l \in 1..(len + 1) PROVE u[l] = t[l]
    <2>1. CASE l = 1
        BY <1>2, <1>3, <2>1
    <2>2. CASE l # 1
        BY <1>1, <1>2, <1>3, <2>2
    <2> QED BY <2>1, <2>2
<1> HIDE DEF u
<1>5. u = t
    BY <1>2, <1>3, <1>4
<1> QED BY <1>5 DEF s, t, u

(* A single layer.                                                         *)
LEMMA OnionOne ==
  ASSUME NEW q \in Nat
  PROVE  <<q>> \o << >> = Onion(q, 1)
<1> DEFINE s == Onion(q, 1)
<1>0. s \in Seq(Nat) /\ Len(s) = 1 /\ \A l \in 1..1 : s[l] = q + 1 - l
    BY OnionSeq
<1> HIDE DEF s
<1>1. s \in Seq(Nat) /\ Len(s) = 1 /\ s[1] = q
    BY <1>0
<1>2. <<q>> \o << >> = <<q>>
    OBVIOUS
<1>3. s = <<q>>
    BY <1>1
<1> QED BY <1>2, <1>3 DEF s

-----------------------------------------------------------------------------
(* The inductive invariant.  Cells are counted by the number of their      *)
(* innermost layer: the client has sent those below Total, relay i has     *)
(* opened those below Passed(i) and numbered reverse cells below           *)
(* Returned(i), of which the client has opened those below Returned(0).    *)

Total ==
  IF hops = 0 THEN 0
  ELSE IF hops < Hops THEN 1
  ELSE written + (IF pc = "closed" THEN 2 ELSE 1)

Passed(i) == IF i = 0 THEN Total ELSE relay[i].fwdSeq + i - hops

Returned(k) == IF k = 0 THEN recvSeq[hops] ELSE relay[k].revSeq + k - hops

(* What the caller's stage says about the rest of the client.              *)
Stage ==
  /\ pc = "new" => ~registered /\ responses = << >>
  /\ pc \in {"new", "created"} => hops = 0
  /\ pc = "extended" => hops \in 1..(Hops - 1)
  /\ pc \in {"openOK", "stream", "stopped", "closed"} => hops = Hops
  /\ registered => pc \in {"created", "extended", "openOK", "stream"}
  /\ pc = "stream" => registered
  /\ pc \in {"stream", "stopped", "closed"} => pump # "none"
  /\ pc \notin {"stream", "stopped", "closed"} => written = 0 /\ got = << >> /\ eof = "none"

(* The numbers the client keeps for its hops differ by one from hop to     *)
(* hop.                                                                    *)
Numbers ==
  \A j \in Relays :
    /\ sendSeq[j] = IF j <= hops THEN Total + hops - j ELSE 0
    /\ recvSeq[j] = IF j <= hops THEN recvSeq[hops] + hops - j ELSE 0

(* How far a relay's extension is, and what that says about its numbers.   *)
Grown(i) ==
  /\ relay[i].outgoing <=> relay[i].extension \in {"linking", "linked"}
  /\ relay[i].extension = "linked" /\ relay[i].state = "open" => relay[i].relayOut
  /\ relay[i].extension # "none" => i < Hops /\ relay[i].fwdSeq >= 1
  /\ relay[i].extension \in {"waiting", "answered", "linking"} => relay[i].revSeq = 0
  /\ relay[i].fwdSeq = 0 => relay[i].revSeq = 0
  /\ relay[i].fwdSeq >= 1 => i <= hops
  /\ i < hops => relay[i].extension = "linked"
  /\ i = hops /\ i < Hops => relay[i].revSeq <= 1
  /\ relay[i].state = "closed" /\ i < Hops => ~registered

(* Which goroutine of a relay may have a cell to write.                    *)
Writers(i) ==
  /\ relay[i].revSeq = 0 => \A g \in Goroutines : sending[i][g] = NoCell
  /\ \A g \in Goroutines : sending[i][g] # NoCell => sending[i][g].kind = "relay"
  /\ sending[i]["extend"] # NoCell => relay[i].extension \in {"linked", "abandoned"}
  /\ sending[i]["out"] # NoCell => i < Hops
  /\ sending[i]["pump"] # NoCell => i = Hops /\ pump = "running"
  /\ sending[i]["in"] # NoCell /\ sending[i]["in"].cmd = "openOK" => i = Hops

(* CREATE is sent to relay i; CREATED has come back from it.               *)
Begun(i) == IF i = 1 THEN pc # "new" ELSE relay[i - 1].extension # "none"
Made(i) ==
  IF i = 1 THEN hops >= 1 \/ responses # << >>
  ELSE relay[i - 1].extension \in {"answered", "linking", "linked"}

(* CREATE, CREATED and DESTROY on link i.                                  *)
Making(i) ==
  /\ ~Begun(i) => down[i] = << >> /\ up[i] = << >> /\ relay[i].state = "none"
  /\ \A m \in 1..Len(down[i]) :
        down[i][m].kind = "create" => m = 1 /\ up[i] = << >> /\ relay[i].state = "none"
  /\ Holds(up[i], "created") => /\ Len(up[i]) = 1 /\ ~Holds(down[i], "create")
                                /\ relay[i].state # "none"
  /\ Made(i) => /\ ~Holds(down[i], "create") /\ ~Holds(up[i], "created")
                /\ relay[i].state # "none"
  /\ \A m \in 1..Len(down[i]) : down[i][m].kind \in {"create", "relay", "destroy"}
  /\ \A m \in 1..Len(up[i]) : up[i][m].kind \in {"created", "relay"}
  /\ Holds(down[i], "relay") \/ Holds(up[i], "relay") => i <= hops
  /\ Holds(down[i], "destroy") => IF i = 1 THEN ~registered ELSE relay[i - 1].state = "closed"

(* The forward cell with number q, as it is on link i.                     *)
ForeCmd(q) ==
  IF hops < Hops THEN "extend"
  ELSE IF q = 0 THEN "open" ELSE IF q <= written THEN "data" ELSE "close"
ForeCell(i, q) ==
  Relay(Onion(q, hops - i + 1), ForeCmd(q), IF ForeCmd(q) = "data" THEN q ELSE 0)
Fore(i) == [q \in Nat |-> {ForeCell(i, q)}]

(* Whoever writes to link i still does.                                    *)
Upstream(i) == IF i = 1 THEN registered ELSE relay[i - 1].state = "open"

(* The forward cells on link i, as long as relay i reads them.             *)
Forward(i) ==
  relay[i].state = "open" =>
    /\ Run(down[i], Passed(i), Passed(i - 1), Fore(i))
    /\ i \notin cut /\ Upstream(i) => Passed(i) + Len(down[i]) = Passed(i - 1)
    /\ written > 0 => Drained(down[i], Passed(i), written)

ForwardOrder == \A i, k \in 0..hops : i <= k => Passed(k) <= Passed(i)

(* The last hop's answer with number q.                                    *)
Answer(cmd, n, q) ==
  IF hops < Hops
  THEN q = 0 /\ (cmd = "openError" \/ (cmd = "extended" /\ relay[hops].extension = "linked"))
  ELSE \/ q = 0 /\ (cmd = "openError" \/ (cmd = "openOK" /\ pump # "none"))
       \/ q \in 1..answered /\ cmd = "data" /\ n = q
       \/ q = answered + 1 /\ cmd = "close" /\ app \in {"ended", "closed"}
Back(k) ==
  [q \in Nat |-> {c \in Cells : /\ c.kind = "relay" /\ c.layers = Onion(q, hops - k + 1)
                                /\ Answer(c.cmd, c.n, q)}]

(* The reverse cells on link k and the one that relay k is about to write; *)
(* an OPEN_OK is written before its pump runs.                             *)
Idle(k) == \A g \in Goroutines : sending[k][g] = NoCell
Pending(k, g) ==
  /\ \/ sending[k][g] \in Back(k)[Returned(k) - 1]
     \/ /\ g = "in" /\ k = Hops /\ Returned(k) = 1
        /\ sending[k][g].cmd = "openOK" /\ sending[k][g].layers = Onion(0, 1)
  /\ g = "out" <=> k < hops
  /\ \A h \in Goroutines : h # g => sending[k][h] = NoCell
Backward(k) ==
  /\ Run(up[k], Returned(k - 1), Returned(k), Back(k))
  /\ k \notin cut /\ Idle(k) => Returned(k - 1) + Len(up[k]) = Returned(k)
  /\ \A g \in Goroutines : k \notin cut /\ sending[k][g] # NoCell =>
       Returned(k - 1) + Len(up[k]) + 1 = Returned(k) /\ Pending(k, g)

Returning ==
  registered /\ hops >= 1 =>
    /\ \A i, k \in 0..hops : i <= k => Returned(i) <= Returned(k)
    /\ \A k \in 1..hops : Backward(k)

(* The responses the client has not taken are the last ones it has opened. *)
Queued ==
  /\ hops = 0 => Len(responses) <= 1
  /\ hops = 0 => \A m \in 1..Len(responses) : responses[m].cmd = "created"
  /\ hops >= 1 => Len(responses) <= recvSeq[hops] /\ recvSeq[hops] <= relay[hops].revSeq
  /\ hops >= 1 => \A m \in 1..Len(responses) :
                     Answer(responses[m].cmd, responses[m].n,
                            recvSeq[hops] - Len(responses) + m - 1)
  /\ Waiting /\ hops >= 1 => recvSeq[hops] = Len(responses)
  /\ pc \in {"stream", "stopped"} /\ eof = "none" =>
        recvSeq[Hops] = Len(responses) + 1 + Len(got)

(* The service's connection, its pump, and the numbers of the last relay.  *)
Service ==
  /\ pump = "none" => answered = 0 /\ relay[Hops].revSeq <= 1
  /\ pump # "none" => app # "none" /\ sending[Hops]["in"] = NoCell
  /\ sending[Hops]["in"] # NoCell /\ sending[Hops]["in"].cmd = "openOK" =>
        app \in {"open", "ended"}
  /\ pump = "running" /\ sending[Hops]["pump"] = NoCell => relay[Hops].revSeq = answered + 1
  /\ sending[Hops]["pump"] # NoCell =>
        \/ sending[Hops]["pump"].cmd = "data" /\ relay[Hops].revSeq = answered + 1
        \/ sending[Hops]["pump"].cmd = "close" /\ app # "open"
  /\ app # "none" => relay[Hops].fwdSeq >= 1
  /\ app = "open" => relay[Hops].state = "open" /\ Len(received) = relay[Hops].fwdSeq - 1
  /\ relay[Hops].fwdSeq = 0 => received = << >>
  /\ app = "closed" => relay[Hops].state = "closed" /\ (~registered \/ pump = "none")
  /\ eof = "close" => app # "open"

(* Somebody will close relay i, seen from its neighbour.                   *)
Closer(i) ==
  relay[i].state = "open" \/ Holds(down[i], "create") =>
    \/ i \in cut \/ Holds(down[i], "destroy")
    \/ i = 1 /\ registered
    \/ i > 1 /\ relay[i - 1].outgoing /\ relay[i - 1].state = "open"
    \/ i > 1 /\ relay[i - 1].extension \in {"waiting", "answered", "abandoned"}

CircuitInv ==
  /\ CircuitTypeOK /\ Stage /\ Numbers
  /\ \A i \in Relays : Grown(i)
  /\ \A i \in Relays : Writers(i)
  /\ \A i \in Relays : Making(i)
  /\ ForwardOrder
  /\ \A i \in 1..hops : Forward(i)
  /\ Returning /\ Queued /\ Service /\ StreamIntact
  /\ \A i \in Relays : Closer(i)

-----------------------------------------------------------------------------
(* Types.                                                                  *)

Links == [Relays -> Seq(Cells)]

(* Cells that are made.                                                    *)
LEMMA MadeCells ==
  ASSUME NEW layers \in Seq(Nat), NEW cmd \in Commands, NEW n \in Nat,
         NEW kind \in {"create", "created", "destroy"}
  PROVE  /\ Relay(layers, cmd, n) \in Cells
         /\ Relay(layers, cmd, n).kind = "relay" /\ Relay(layers, cmd, n).layers = layers
         /\ Relay(layers, cmd, n).cmd = cmd /\ Relay(layers, cmd, n).n = n
         /\ Control(kind) \in Cells /\ Control(kind).kind = kind
BY DEF Cells, Relay, Control, Commands

(* A handshake cell is a cell.                                             *)
LEMMA ControlCells ==
  ASSUME NEW kind \in {"create", "created", "destroy"}
  PROVE  Control(kind) \in Cells /\ Control(kind).kind = kind
BY DEF Cells, Control, Commands

(* Fields of a cell.                                                       *)
LEMMA CellFields ==
  ASSUME NEW c \in Cells
  PROVE  /\ c.kind \in {"create", "created", "relay", "destroy"} /\ c.layers \in Seq(Nat)
         /\ c.cmd \in Commands /\ c.n \in Nat
         /\ \A layers \in Seq(Nat) : [c EXCEPT !.layers = layers] \in Cells
BY DEF Cells

(* Fields of a relay's circuit.                                            *)
LEMMA RelayFields ==
  ASSUME CircuitTypeOK, NEW i \in Relays
  PROVE  /\ relay[i] \in RelayCircuits /\ relay[i].state \in {"none", "open", "closed"}
         /\ relay[i].fwdSeq \in Nat /\ relay[i].revSeq \in Nat
         /\ relay[i].outgoing \in BOOLEAN /\ relay[i].relayOut \in BOOLEAN
         /\ relay[i].extension \in {"none", "waiting", "answered", "linking", "linked", "abandoned"}
         /\ down[i] \in Seq(Cells) /\ up[i] \in Seq(Cells)
         /\ \A g \in Goroutines : sending[i][g] \in Cells \union {NoCell}
<1>1. relay[i] \in RelayCircuits
    BY DEF CircuitTypeOK
<1>2. down[i] \in Seq(Cells) /\ up[i] \in Seq(Cells)
    BY DEF CircuitTypeOK
<1>3. \A g \in Goroutines : sending[i][g] \in Cells \union {NoCell}
    BY DEF CircuitTypeOK
<1>4. /\ relay[i].state \in {"none", "open", "closed"}
      /\ relay[i].fwdSeq \in Nat /\ relay[i].revSeq \in Nat
      /\ relay[i].outgoing \in BOOLEAN /\ relay[i].relayOut \in BOOLEAN
      /\ relay[i].extension \in {"none", "waiting", "answered", "linking", "linked", "abandoned"}
    BY <1>1 DEF RelayCircuits
<1> QED BY <1>1, <1>2, <1>3, <1>4

(* Updates of a relay's circuit.                                           *)
LEMMA RelayUpdates ==
  ASSUME NEW rc \in RelayCircuits, NEW n \in Nat, NEW b \in BOOLEAN,
         NEW st \in {"none", "open", "closed"},
         NEW e \in {"none", "waiting", "answered", "linking", "linked", "abandoned"}
  PROVE  /\ [rc EXCEPT !.fwdSeq = n] \in RelayCircuits
         /\ [rc EXCEPT !.revSeq = n] \in RelayCircuits
         /\ [rc EXCEPT !.state = st] \in RelayCircuits
         /\ [rc EXCEPT !.extension = e] \in RelayCircuits
         /\ [rc EXCEPT !.state = st, !.relayOut = b] \in RelayCircuits
         /\ [rc EXCEPT !.extension = e, !.outgoing = b] \in RelayCircuits
         /\ [rc EXCEPT !.extension = e, !.relayOut = b] \in RelayCircuits
BY DEF RelayCircuits

(* A cell is written to a link.                                            *)
LEMMA SentType ==
  ASSUME NEW ch \in Links, NEW i, NEW c \in Cells
  PROVE  Sent(ch, i, c) \in Links
<1>1. ASSUME i \in Relays PROVE Append(ch[i], c) \in Seq(Cells)
    BY <1>1, LinkAppend DEF Links
<1> QED BY <1>1 DEF Sent, Links

(* A cell is read from a link.                                             *)
LEMMA TakenType ==
  ASSUME NEW ch \in Links, NEW i \in Relays, ch[i] # << >>
  PROVE  Taken(ch, i) \in Links /\ Head(ch[i]) \in Cells
<1>1. Tail(ch[i]) \in Seq(Cells) /\ Head(ch[i]) \in Cells
    BY LinkTail DEF Links
<1> QED BY <1>1 DEF Taken, Links

(* A reverse cell is numbered.                                             *)
LEMMA NumberedType ==
  ASSUME CircuitTypeOK, NEW i \in Relays, NEW g \in Goroutines, NEW rc \in RelayCircuits,
         NEW layers \in Seq(Nat), NEW cmd \in Commands, NEW n \in Nat,
         Numbered(i, g, rc, layers, cmd, n)
  PROVE  /\ relay' \in [Relays -> RelayCircuits]
         /\ sending' \in [Relays -> [Goroutines -> Cells \union {NoCell}]]
<1>1. rc.revSeq \in Nat /\ rc.revSeq + 1 \in Nat
    BY DEF RelayCircuits
<1>2. [rc EXCEPT !.revSeq = rc.revSeq + 1] \in RelayCircuits
    BY <1>1 DEF RelayCircuits
<1>3. relay' = [relay EXCEPT ![i] = [rc EXCEPT !.revSeq = rc.revSeq + 1]]
    BY DEF Numbered
<1>4. relay' \in [Relays -> RelayCircuits]
    BY <1>2, <1>3 DEF CircuitTypeOK
<1>5. <<rc.revSeq>> \o layers \in Seq(Nat)
    BY <1>1
<1>6. Relay(<<rc.revSeq>> \o layers, cmd, n) \in Cells
    BY <1>5, MadeCells
<1>7. sending' = [sending EXCEPT ![i][g] = Relay(<<rc.revSeq>> \o layers, cmd, n)]
    BY DEF Numbered
<1>8. sending' \in [Relays -> [Goroutines -> Cells \union {NoCell}]]
    BY <1>6, <1>7 DEF CircuitTypeOK
<1> QED BY <1>4, <1>8

(* A relay's circuit is closed.                                            *)
LEMMA ClosedType ==
  ASSUME CircuitTypeOK, NEW i \in Relays, NEW rest \in Links, closeRelayCircuit(i, rest)
  PROVE  /\ relay' \in [Relays -> RelayCircuits] /\ down' \in Links
         /\ app' \in {"none", "open", "ended", "closed"}
<1>1. [relay[i] EXCEPT !.state = "closed", !.relayOut = FALSE] \in RelayCircuits
    BY RelayFields DEF RelayCircuits
<1>2. relay' = [relay EXCEPT ![i] = [relay[i] EXCEPT !.state = "closed", !.relayOut = FALSE]]
    BY DEF closeRelayCircuit
<1>3. relay' \in [Relays -> RelayCircuits]
    BY <1>1, <1>2 DEF CircuitTypeOK
<1>4. Control("destroy") \in Cells
    BY DEF Control, Cells, Commands
<1>5. down' \in Links
    BY <1>4, SentType DEF closeRelayCircuit
<1>6. app' \in {"none", "open", "ended", "closed"}
    BY DEF closeRelayCircuit, CircuitTypeOK
<1> QED BY <1>3, <1>5, <1>6

(* A goroutine writes its cell.                                            *)
LEMMA WrittenType ==
  ASSUME CircuitTypeOK, NEW i \in Relays, NEW g \in Goroutines, sending[i][g] # NoCell,
         Written(i, g)
  PROVE  /\ up' \in Links
         /\ sending' \in [Relays -> [Goroutines -> Cells \union {NoCell}]]
<1>1. sending[i][g] \in Cells
    BY RelayFields
<1>2. up' \in Links
    BY <1>1, SentType DEF Written, CircuitTypeOK, Links
<1>3. sending' = [sending EXCEPT ![i][g] = NoCell]
    BY DEF Written
<1>4. sending' \in [Relays -> [Goroutines -> Cells \union {NoCell}]]
    BY <1>3 DEF CircuitTypeOK
<1> QED BY <1>2, <1>4

(* Types hold at first.                                                    *)
LEMMA TypeInit == CircuitInit => CircuitTypeOK
<1> SUFFICES ASSUME CircuitInit PROVE CircuitTypeOK
    OBVIOUS
<1>1. NewRelay \in RelayCircuits
    BY DEF NewRelay, RelayCircuits
<1>2. relay \in [Relays -> RelayCircuits]
    BY <1>1 DEF CircuitInit
<1>3. budget \in [Bounds -> Nat]
    BY BudgetsAssumption DEF CircuitInit
<1>4. /\ sendSeq \in [Relays -> Nat] /\ recvSeq \in [Relays -> Nat]
      /\ sending \in [Relays -> [Goroutines -> Cells \union {NoCell}]]
      /\ down \in [Relays -> Seq(Cells)] /\ up \in [Relays -> Seq(Cells)]
    BY DEF CircuitInit
<1>5. /\ responses \in Seq(Responses) /\ Len(responses) <= Capacity
      /\ received \in Seq(Nat) /\ got \in Seq(Nat) /\ hops \in 0..Hops
    BY CapacityAssumption, HopsAssumption DEF CircuitInit
<1> QED BY <1>2, <1>3, <1>4, <1>5 DEF CircuitInit, CircuitTypeOK

(* What the client's steps need.                                           *)
LEMMA ClientTypes ==
  ASSUME CircuitTypeOK
  PROVE  /\ 1 \in Relays /\ Hops \in Relays
         /\ down \in Links /\ up \in Links
         /\ \A kind \in {"create", "created", "destroy"} : Control(kind) \in Cells
         /\ \A ch \in Links, b \in BOOLEAN : closeLocal(ch, b) \in Links
         /\ \A seq \in [Relays -> Nat], h \in 0..Hops : Advanced(seq, h) \in [Relays -> Nat]
         /\ \A h \in 0..Hops, cmd \in Commands, n \in Nat : Wrapped(h, cmd, n) \in Cells
         /\ responses # << >> => /\ Tail(responses) \in Seq(Responses) /\ Head(responses) \in Responses
                                 /\ Len(Tail(responses)) <= Capacity
                                 /\ Head(responses).n \in Nat
<1>1. 1 \in Relays /\ Hops \in Relays /\ down \in Links /\ up \in Links
    BY HopsAssumption DEF Relays, CircuitTypeOK, Links
<1>2. \A kind \in {"create", "created", "destroy"} : Control(kind) \in Cells
    BY DEF Control, Cells, Commands
<1>3. \A ch \in Links, b \in BOOLEAN : closeLocal(ch, b) \in Links
    BY <1>2, SentType DEF closeLocal
<1>4. \A seq \in [Relays -> Nat], h \in 0..Hops : Advanced(seq, h) \in [Relays -> Nat]
    BY DEF Advanced
<1>5. ASSUME NEW h \in 0..Hops, NEW cmd \in Commands, NEW n \in Nat
      PROVE  Wrapped(h, cmd, n) \in Cells
    <2>1. \A j \in 1..h : j \in Relays /\ sendSeq[j] \in Nat
        BY HopsAssumption DEF Relays, CircuitTypeOK
    <2>2. [j \in 1..h |-> sendSeq[j]] \in Seq(Nat)
        BY <2>1, HopsAssumption
    <2> QED BY <2>2 DEF Wrapped, Relay, Cells
<1>6. ASSUME responses # << >>
      PROVE  /\ Tail(responses) \in Seq(Responses) /\ Head(responses) \in Responses
             /\ Len(Tail(responses)) <= Capacity
             /\ Head(responses).n \in Nat
    <2>1. responses \in Seq(Responses) /\ Len(responses) <= Capacity
        BY DEF CircuitTypeOK
    <2>2. Tail(responses) \in Seq(Responses) /\ Head(responses) \in Responses
          /\ Len(Tail(responses)) = Len(responses) - 1 /\ Len(responses) \in Nat
        BY <1>6, <2>1, LinkTail
    <2> QED BY <2>1, <2>2, CapacityAssumption DEF Responses
<1> QED BY <1>1, <1>2, <1>3, <1>4, <1>5, <1>6

(* A response is queued.                                                   *)
LEMMA QueueType ==
  ASSUME CircuitTypeOK, NEW cmd \in Commands \union {"created", "error"}, NEW n \in Nat,
         QueueOrDrop(Response(cmd, n)) \/ Queue(Response(cmd, n))
  PROVE  responses' \in Seq(Responses) /\ Len(responses') <= Capacity
<1>1. responses \in Seq(Responses) /\ Len(responses) <= Capacity /\ Len(responses) \in Nat
    BY DEF CircuitTypeOK
<1>2. Response(cmd, n) \in Responses
    BY DEF Response, Responses
<1>3. CASE responses' = responses
    BY <1>1, <1>3
<1>4. CASE Len(responses) < Capacity /\ responses' = Append(responses, Response(cmd, n))
    <2>1. Append(responses, Response(cmd, n)) \in Seq(Responses)
          /\ Len(Append(responses, Response(cmd, n))) = Len(responses) + 1
        BY <1>1, <1>2, LinkAppend
    <2> QED BY <1>1, <1>4, <2>1, CapacityAssumption
<1> QED BY <1>3, <1>4 DEF QueueOrDrop, Queue

(* A bound is used.                                                        *)
LEMMA SpendType ==
  ASSUME CircuitTypeOK, NEW what \in Bounds, Spend(what)
  PROVE  budget' \in [Bounds -> Nat]
<1>1. budget \in [Bounds -> Nat] /\ budget[what] \in Nat /\ budget[what] > 0
    BY DEF CircuitTypeOK, Spend
<1>2. budget' = [budget EXCEPT ![what] = budget[what] - 1] /\ budget[what] - 1 \in Nat
    BY <1>1 DEF Spend
<1> QED BY <1>1, <1>2

(* The client's steps keep the types.                                      *)
LEMMA TypeClient ==
  ASSUME CircuitTypeOK, Stage,
         \/ buildCircuit \/ waitAnswered \/ waitFails \/ Write \/ Read \/ Close
         \/ closeCircuits \/ handleCreated \/ handleReverse
  PROVE  CircuitTypeOK'
<1> USE ClientTypes, CapacityAssumption, HopsAssumption
<1>1. CASE buildCircuit
    <2>1. down' \in Links
        BY <1>1, SentType DEF buildCircuit
    <2> QED BY <1>1, <2>1 DEF buildCircuit, CircuitTypeOK, Links, exitVars
<1>2. CASE waitAnswered
    <2>1. hops \in 0..Hops /\ sendSeq \in [Relays -> Nat]
        BY DEF CircuitTypeOK
    <2>2. responses' \in Seq(Responses) /\ Len(responses') <= Capacity
        BY <1>2 DEF waitAnswered
    <2>3. /\ pc' \in {"new", "created", "extended", "openOK", "stream", "stopped", "failed", "closed"}
          /\ hops' \in 0..Hops /\ sendSeq' \in [Relays -> Nat] /\ down' \in Links
        <3>1. CASE Head(responses).cmd # pc \/ pc = "openOK"
            BY <1>2, <3>1 DEF waitAnswered, CircuitTypeOK, Links
        <3>2. CASE Head(responses).cmd = pc /\ pc # "openOK"
            <4>1. /\ hops' = hops + 1 /\ pc' = IF hops + 1 < Hops THEN "extended" ELSE "openOK"
                  /\ sendSeq' = Advanced(sendSeq, hops + 1)
                  /\ down' = Sent(down, 1, Wrapped(hops + 1,
                                 IF hops + 1 < Hops THEN "extend" ELSE "open", 0))
                BY <1>2, <3>2 DEF waitAnswered
            <4>2. hops + 1 \in 0..Hops /\ hops < Hops
                BY <1>2, <2>1, <3>2 DEF waitAnswered, Waiting, Stage
            <4>3. Wrapped(hops + 1, IF hops + 1 < Hops THEN "extend" ELSE "open", 0) \in Cells
                BY <4>2 DEF Commands
            <4>4. down' \in Links
                BY <4>1, <4>3, SentType
            <4>5. sendSeq' \in [Relays -> Nat]
                BY <2>1, <4>1, <4>2
            <4> QED BY <4>1, <4>2, <4>4, <4>5
        <3> QED BY <3>1, <3>2
    <2> QED BY <1>2, <2>2, <2>3 DEF waitAnswered, CircuitTypeOK, Links, exitVars
<1>3. CASE waitFails
    <2>1. down' \in Links
        BY <1>3 DEF waitFails
    <2>2. responses' \in Seq(Responses) /\ Len(responses') <= Capacity
        BY <1>3 DEF waitFails, WaitReturns, CircuitTypeOK
    <2> QED BY <1>3, <2>1, <2>2 DEF waitFails, WaitReturns, CircuitTypeOK, Links, exitVars
<1>4. CASE Write
    <2>1. down' \in Links
        <3>1. Wrapped(hops, "data", written + 1) \in Cells
            BY DEF CircuitTypeOK, Commands
        <3> QED BY <1>4, <3>1, SentType DEF Write
    <2>2. budget' \in [Bounds -> Nat]
        BY <1>4, SpendType DEF Write, Bounds
    <2>3. sendSeq' \in [Relays -> Nat] /\ written' \in Nat
        <3>1. hops \in 0..Hops /\ sendSeq \in [Relays -> Nat] /\ written \in Nat
            BY DEF CircuitTypeOK
        <3>2. Advanced(sendSeq, hops) \in [Relays -> Nat]
            BY <3>1
        <3> QED BY <1>4, <3>1, <3>2 DEF Write
    <2> QED BY <1>4, <2>1, <2>2, <2>3 DEF Write, CircuitTypeOK, Links, exitVars
<1>5. CASE Read
    <2>1. /\ responses' \in Seq(Responses) /\ Len(responses') <= Capacity
          /\ got' \in Seq(Nat) /\ eof' \in {"none", "close", "error", "openError", "done"}
        <3>1. CASE responses' = Tail(responses) /\ responses # << >>
            <4>1. got \in Seq(Nat) /\ Append(got, Head(responses).n) \in Seq(Nat)
                BY <3>1 DEF CircuitTypeOK
            <4>2. got' \in {got, Append(got, Head(responses).n)} \/ got' = got
                BY <1>5 DEF Read
            <4>3. eof' \in {"none", "close", "error", "openError", "done"}
                BY <1>5 DEF Read, CircuitTypeOK
            <4> QED BY <3>1, <4>1, <4>2, <4>3
        <3>2. CASE responses' = responses /\ got' = got /\ eof' = "done"
            BY <3>2 DEF CircuitTypeOK
        <3> QED BY <1>5, <3>1, <3>2 DEF Read
    <2> QED BY <1>5, <2>1 DEF Read, CircuitTypeOK, exitVars
<1>6. CASE Close
    <2>1. down' \in Links
        <3>1. Wrapped(hops, "close", 0) \in Cells
            BY DEF CircuitTypeOK, Commands
        <3> QED BY <1>6, <3>1, SentType DEF Close
    <2> QED BY <1>6, <2>1 DEF Close, CircuitTypeOK, Links, exitVars
<1>7. CASE closeCircuits
    <2>1. budget' \in [Bounds -> Nat]
        BY <1>7, SpendType DEF closeCircuits, Bounds
    <2> QED BY <1>7, <2>1 DEF closeCircuits, CircuitTypeOK, Links, exitVars
<1>8. CASE handleCreated
    <2>1. up' \in Links
        BY <1>8, TakenType DEF handleCreated
    <2>2. responses' \in Seq(Responses) /\ Len(responses') <= Capacity
        BY <1>8, QueueType DEF handleCreated, CircuitTypeOK
    <2> QED BY <1>8, <2>1, <2>2, ZenonT(40) DEF handleCreated, CircuitTypeOK, Links, exitVars
<1>9. CASE handleReverse
    <2>1. up' \in Links /\ Head(up[1]) \in Cells
        BY <1>9, TakenType DEF handleReverse
    <2>2. Head(up[1]).cmd \in Commands /\ Head(up[1]).n \in Nat
        BY <2>1, CellFields
    <2>3. responses' \in Seq(Responses) /\ Len(responses') <= Capacity
        BY <1>9, <2>2, QueueType DEF handleReverse, CircuitTypeOK
    <2>4. recvSeq' \in [Relays -> Nat] /\ registered' \in BOOLEAN
        <3>1. hops \in 0..Hops /\ recvSeq \in [Relays -> Nat] /\ registered \in BOOLEAN
            BY DEF CircuitTypeOK
        <3>2. Advanced(recvSeq, hops) \in [Relays -> Nat]
            BY <3>1
        <3> QED BY <1>9, <3>1, <3>2 DEF handleReverse
    <2> QED BY <1>9, <2>1, <2>3, <2>4 DEF handleReverse, CircuitTypeOK, Links, exitVars
<1> QED BY <1>1, <1>2, <1>3, <1>4, <1>5, <1>6, <1>7, <1>8, <1>9

(* The steps of a relay's readers keep the types.                          *)
LEMMA TypeReader ==
  ASSUME CircuitTypeOK, NEW i \in Relays,
         \/ handleCircuitCreate(i) \/ forwardRejected(i) \/ forwardOn(i)
         \/ extendCircuit(i) \/ openCircuitTarget(i) \/ relayData(i) \/ relayClose(i)
         \/ destroyCircuitByKey(i) \/ writeOpenOK(i)
         \/ handleCircuitCreated(i) \/ handleCircuitReverse(i),
         forwardOn(i) => Head(down[i]).layers # << >>
  PROVE  CircuitTypeOK'
<1> DEFINE Typed ==
      /\ relay' \in [Relays -> RelayCircuits]
      /\ sending' \in [Relays -> [Goroutines -> Cells \union {NoCell}]]
      /\ app' \in {"none", "open", "ended", "closed"}
      /\ pump' \in {"none", "running", "ended"}
      /\ down' \in Links /\ up' \in Links
      /\ received' \in Seq(Nat)
<1> SUFFICES Typed
             /\ UNCHANGED <<clientVars, answered, cut, budget>>
    BY DEF CircuitTypeOK, clientVars, Links
<1>1. UNCHANGED <<clientVars, answered, cut, budget>>
    BY DEF handleCircuitCreate, forwardRejected, forwardOn, extendCircuit, openCircuitTarget,
           relayData, relayClose, destroyCircuitByKey, writeOpenOK, handleCircuitCreated,
           handleCircuitReverse, exitVars
<1>2. /\ relay \in [Relays -> RelayCircuits] /\ relay[i] \in RelayCircuits
      /\ sending \in [Relays -> [Goroutines -> Cells \union {NoCell}]]
      /\ app \in {"none", "open", "ended", "closed"} /\ pump \in {"none", "running", "ended"}
      /\ down \in Links /\ up \in Links /\ received \in Seq(Nat)
      /\ relay[i].fwdSeq \in Nat
      /\ \A kind \in {"create", "created", "destroy"} : Control(kind) \in Cells
    BY ClientTypes, RelayFields DEF CircuitTypeOK
<1>3. Counted(i) \in RelayCircuits
    <2>1. relay[i].fwdSeq + 1 \in Nat
        BY <1>2
    <2> QED BY <1>2, <2>1 DEF Counted, RelayCircuits
<1>4. ASSUME down[i] # << >>
      PROVE  Taken(down, i) \in Links /\ Head(down[i]) \in Cells /\ Head(down[i]).n \in Nat
    BY <1>2, <1>4, TakenType, CellFields
<1>5. << >> \in Seq(Nat) /\ "in" \in Goroutines /\ "out" \in Goroutines
      /\ {"openError", "openOK"} \subseteq Commands /\ 0 \in Nat
    BY DEF Goroutines, Commands
<1>6. CASE handleCircuitCreate(i)
    <2>1. [relay[i] EXCEPT !.state = "open"] \in RelayCircuits
        BY <1>2, RelayUpdates, Zenon
    <2>2. relay' \in [Relays -> RelayCircuits]
        BY <1>2, <1>6, <2>1 DEF handleCircuitCreate
    <2>3. up' \in Links /\ down' \in Links
        BY <1>2, <1>4, <1>6, SentType DEF handleCircuitCreate, Arrives
    <2> QED BY <1>1, <1>2, <1>6, <2>2, <2>3 DEF handleCircuitCreate, exitVars
<1>7. CASE forwardRejected(i)
    <2>1. /\ relay' \in [Relays -> RelayCircuits] /\ down' \in Links
          /\ app' \in {"none", "open", "ended", "closed"}
        BY <1>2, <1>4, <1>7, ClosedType DEF forwardRejected, Arrives
    <2> QED BY <1>1, <1>2, <1>7, <2>1 DEF forwardRejected
<1>8. CASE forwardOn(i)
    <2>1. relay' \in [Relays -> RelayCircuits]
        BY <1>2, <1>3, <1>8 DEF forwardOn
    <2>2. down[i] # << >> /\ Head(down[i]) \in Cells
        BY <1>4, <1>8 DEF forwardOn, LayerOpens, Arrives
    <2>3. Head(down[i]).layers \in Seq(Nat)
        BY <2>2, CellFields
    <2>4. Tail(Head(down[i]).layers) \in Seq(Nat)
        BY <1>8, <2>3
    <2>5. [Head(down[i]) EXCEPT !.layers = Tail(@)] \in Cells
        BY <2>2, <2>4, CellFields, ZenonT(40)
    <2>6. down' \in Links
        BY <1>4, <1>8, <2>2, <2>5, SentType DEF forwardOn
    <2> QED BY <1>1, <1>2, <1>8, <2>1, <2>6 DEF forwardOn, exitVars
<1>9. CASE extendCircuit(i)
    <2>1. down[i] # << >>
        BY <1>9 DEF extendCircuit, Commanded, LayerOpens, Arrives
    <2>2. [Counted(i) EXCEPT !.extension = "waiting"] \in RelayCircuits
        BY <1>3, RelayUpdates, Zenon
    <2>3. /\ relay' \in [Relays -> RelayCircuits]
          /\ sending' \in [Relays -> [Goroutines -> Cells \union {NoCell}]]
        <3>1. CASE Numbered(i, "in", Counted(i), << >>, "openError", 0)
            BY <1>3, <1>5, <3>1, NumberedType
        <3>2. CASE /\ relay' = [relay EXCEPT ![i] = [Counted(i) EXCEPT !.extension = "waiting"]]
                   /\ UNCHANGED sending
            BY <1>2, <2>2, <3>2
        <3> QED BY <1>9, <3>1, <3>2 DEF extendCircuit
    <2>4. down' \in Links
        BY <1>2, <1>4, <1>9, <2>1, SentType DEF extendCircuit
    <2> QED BY <1>1, <1>2, <1>9, <2>3, <2>4 DEF extendCircuit, exitVars
<1>10. CASE openCircuitTarget(i)
    <2>1. down' \in Links
        BY <1>4, <1>10 DEF openCircuitTarget, Commanded, LayerOpens, Arrives
    <2>2. /\ relay' \in [Relays -> RelayCircuits]
          /\ sending' \in [Relays -> [Goroutines -> Cells \union {NoCell}]]
        BY <1>3, <1>5, <1>10, NumberedType DEF openCircuitTarget
    <2> QED BY <1>1, <1>2, <1>10, <2>1, <2>2 DEF openCircuitTarget
<1>11. CASE relayData(i)
    <2>1. down[i] # << >>
        BY <1>11 DEF relayData, Commanded, LayerOpens, Arrives
    <2>2. Append(received, Head(down[i]).n) \in Seq(Nat)
        BY <1>2, <1>4, <2>1
    <2>3. /\ relay' \in [Relays -> RelayCircuits] /\ down' \in Links /\ received' \in Seq(Nat)
          /\ app' \in {"none", "open", "ended", "closed"}
        <3>1. CASE /\ relay' = [relay EXCEPT ![i] = Counted(i)]
                   /\ received' = IF app = "open" THEN Append(received, Head(down[i]).n) ELSE received
                   /\ down' = Taken(down, i) /\ UNCHANGED app
            BY <1>2, <1>3, <1>4, <2>1, <2>2, <3>1
        <3>2. CASE closeRelayCircuit(i, Taken(down, i)) /\ UNCHANGED received
            BY <1>2, <1>4, <2>1, <3>2, ClosedType
        <3> QED BY <1>11, <3>1, <3>2 DEF relayData
    <2> QED BY <1>1, <1>2, <1>11, <2>3 DEF relayData
<1>12. CASE relayClose(i)
    <2>1. /\ relay' \in [Relays -> RelayCircuits] /\ down' \in Links
          /\ app' \in {"none", "open", "ended", "closed"}
        BY <1>4, <1>12, ClosedType DEF relayClose, Commanded, LayerOpens, Arrives
    <2> QED BY <1>1, <1>2, <1>12, <2>1 DEF relayClose
<1>13. CASE destroyCircuitByKey(i)
    <2>1. /\ relay' \in [Relays -> RelayCircuits] /\ down' \in Links
          /\ app' \in {"none", "open", "ended", "closed"}
        BY <1>2, <1>4, <1>13, ClosedType DEF destroyCircuitByKey, Arrives
    <2> QED BY <1>1, <1>2, <1>13, <2>1 DEF destroyCircuitByKey
<1>14. CASE writeOpenOK(i)
    <2>1. up' \in Links /\ sending' \in [Relays -> [Goroutines -> Cells \union {NoCell}]]
        BY <1>5, <1>14, WrittenType DEF writeOpenOK
    <2>2. /\ relay' \in [Relays -> RelayCircuits] /\ down' \in Links
          /\ app' \in {"none", "open", "ended", "closed"} /\ pump' \in {"none", "running", "ended"}
        BY <1>2, <1>14, ClosedType DEF writeOpenOK
    <2> QED BY <1>1, <1>2, <1>14, <2>1, <2>2 DEF writeOpenOK
<1>15. CASE handleCircuitCreated(i)
    <2>1. i + 1 \in Relays
        BY <1>15, HopsAssumption DEF handleCircuitCreated, Relays
    <2>2. up' \in Links
        BY <1>2, <1>15, <2>1, TakenType, SMTT(40) DEF handleCircuitCreated
    <2>3. [relay[i] EXCEPT !.extension = "answered"] \in RelayCircuits
        BY <1>2, RelayUpdates, Zenon
    <2>4. relay' \in [Relays -> RelayCircuits]
        BY <1>2, <1>15, <2>3 DEF handleCircuitCreated
    <2> QED BY <1>1, <1>2, <1>15, <2>2, <2>4 DEF handleCircuitCreated, exitVars
<1>16. CASE handleCircuitReverse(i)
    <2>1. i + 1 \in Relays
        BY <1>16, HopsAssumption DEF handleCircuitReverse, Relays
    <2>2. up' \in Links /\ Head(up[i + 1]) \in Cells
        BY <1>2, <1>16, <2>1, TakenType DEF handleCircuitReverse
    <2>3. /\ Head(up[i + 1]).layers \in Seq(Nat) /\ Head(up[i + 1]).cmd \in Commands
          /\ Head(up[i + 1]).n \in Nat
        BY <2>2, CellFields
    <2>4. /\ relay' \in [Relays -> RelayCircuits]
          /\ sending' \in [Relays -> [Goroutines -> Cells \union {NoCell}]]
        BY <1>2, <1>5, <1>16, <2>3, NumberedType DEF handleCircuitReverse
    <2> QED BY <1>1, <1>2, <1>16, <2>2, <2>4 DEF handleCircuitReverse, exitVars
<1> QED BY <1>6, <1>7, <1>8, <1>9, <1>10, <1>11, <1>12, <1>13, <1>14, <1>15, <1>16

(* So do those of the other goroutines, of the service, and a loss.        *)
LEMMA TypeOther ==
  ASSUME CircuitTypeOK,
         \/ pumpEnds \/ pumpWrites \/ pumpReads \/ serviceEnds
         \/ \E i \in Relays : \/ extendAnswered(i) \/ extendLinked(i) \/ extendTimesOut(i) \/ Cut(i)
                              \/ \E g \in Goroutines : writeReverse(i, g)
  PROVE  CircuitTypeOK'
<1>1. /\ relay \in [Relays -> RelayCircuits] /\ Hops \in Relays
      /\ sending \in [Relays -> [Goroutines -> Cells \union {NoCell}]]
      /\ app \in {"none", "open", "ended", "closed"} /\ pump \in {"none", "running", "ended"}
      /\ down \in Links /\ up \in Links
      /\ \A i \in Relays : relay[i] \in RelayCircuits
    BY ClientTypes DEF CircuitTypeOK
<1>2. << >> \in Seq(Nat) /\ {"extend", "pump"} \subseteq Goroutines
      /\ {"openError", "extended", "data", "close"} \subseteq Commands /\ 0 \in Nat
    BY DEF Goroutines, Commands
<1>3. CASE pumpEnds
    <2>1. /\ relay' \in [Relays -> RelayCircuits]
          /\ sending' \in [Relays -> [Goroutines -> Cells \union {NoCell}]]
        BY <1>1, <1>2, <1>3, NumberedType DEF pumpEnds
    <2> QED BY <1>3, <2>1 DEF pumpEnds, CircuitTypeOK, clientVars
<1>4. CASE pumpWrites
    <2>1. up' \in Links /\ sending' \in [Relays -> [Goroutines -> Cells \union {NoCell}]]
        BY <1>1, <1>2, <1>4, WrittenType DEF pumpWrites
    <2>2. /\ relay' \in [Relays -> RelayCircuits] /\ down' \in Links
          /\ app' \in {"none", "open", "ended", "closed"}
        BY <1>1, <1>4, ClosedType DEF pumpWrites
    <2>3. pump' \in {"none", "running", "ended"}
        BY <1>4 DEF pumpWrites
    <2> QED BY <1>4, <2>1, <2>2, <2>3 DEF pumpWrites, CircuitTypeOK, clientVars, Links
<1>5. CASE pumpReads
    <2>1. answered + 1 \in Nat
        BY DEF CircuitTypeOK
    <2>2. /\ relay' \in [Relays -> RelayCircuits]
          /\ sending' \in [Relays -> [Goroutines -> Cells \union {NoCell}]]
        BY <1>1, <1>2, <1>5, <2>1, NumberedType DEF pumpReads
    <2>3. budget' \in [Bounds -> Nat]
        BY <1>5, SpendType DEF pumpReads, Bounds
    <2> QED BY <1>5, <2>1, <2>2, <2>3 DEF pumpReads, CircuitTypeOK, clientVars
<1>6. CASE serviceEnds
    <2>1. budget' \in [Bounds -> Nat]
        BY <1>6, SpendType DEF serviceEnds, Bounds
    <2> QED BY <1>6, <2>1 DEF serviceEnds, CircuitTypeOK, clientVars
<1>7. ASSUME NEW i \in Relays, extendAnswered(i) PROVE CircuitTypeOK'
    <2>1. /\ [relay[i] EXCEPT !.extension = "abandoned"] \in RelayCircuits
          /\ [relay[i] EXCEPT !.extension = "linking", !.outgoing = TRUE] \in RelayCircuits
        BY <1>1, RelayUpdates, Zenon
    <2>2. relay' \in [Relays -> RelayCircuits]
        BY <1>1, <1>7, <2>1, ZenonT(40) DEF extendAnswered
    <2> QED BY <1>7, <2>2, ZenonT(40) DEF extendAnswered, CircuitTypeOK, clientVars, exitVars
<1>8. ASSUME NEW i \in Relays, extendLinked(i) PROVE CircuitTypeOK'
    <2>1. [relay[i] EXCEPT !.extension = "linked", !.relayOut = TRUE] \in RelayCircuits
        BY <1>1, RelayUpdates, Zenon
    <2>2. /\ relay' \in [Relays -> RelayCircuits]
          /\ sending' \in [Relays -> [Goroutines -> Cells \union {NoCell}]]
        BY <1>1, <1>2, <1>8, <2>1, NumberedType, ZenonT(40) DEF extendLinked
    <2> QED BY <1>8, <2>2, ZenonT(40) DEF extendLinked, CircuitTypeOK, clientVars, exitVars
<1>9. ASSUME NEW i \in Relays, extendTimesOut(i) PROVE CircuitTypeOK'
    <2>1. [relay[i] EXCEPT !.extension = "abandoned"] \in RelayCircuits
        BY <1>1, RelayUpdates, Zenon
    <2>2. /\ relay' \in [Relays -> RelayCircuits]
          /\ sending' \in [Relays -> [Goroutines -> Cells \union {NoCell}]]
        BY <1>1, <1>2, <1>9, <2>1, NumberedType, ZenonT(40) DEF extendTimesOut
    <2> QED BY <1>9, <2>2, ZenonT(40) DEF extendTimesOut, CircuitTypeOK, clientVars, exitVars
<1>10. ASSUME NEW i \in Relays, Cut(i) PROVE CircuitTypeOK'
    <2>1. budget' \in [Bounds -> Nat]
        BY <1>10, SpendType DEF Cut, Bounds
    <2>2. ASSUME NEW ch \in Links, NEW k \in 0..Len(ch[i])
          PROVE  [ch EXCEPT ![i] = SubSeq(@, 1, k)] \in Links
        <3>1. SubSeq(ch[i], 1, k) \in Seq(Cells)
            BY LinkPrefix DEF Links
        <3> QED BY <3>1 DEF Links
    <2>3. down' \in Links /\ up' \in Links
        BY <1>1, <1>10, <2>2 DEF Cut
    <2> QED BY <1>10, <2>1, <2>3, ZenonT(40) DEF Cut, CircuitTypeOK, clientVars, exitVars, Links
<1>11. ASSUME NEW i \in Relays, NEW g \in Goroutines, writeReverse(i, g) PROVE CircuitTypeOK'
    <2>1. up' \in Links /\ sending' \in [Relays -> [Goroutines -> Cells \union {NoCell}]]
        BY <1>11, WrittenType DEF writeReverse
    <2> QED BY <1>11, <2>1 DEF writeReverse, CircuitTypeOK, clientVars, exitVars, Links
<1> QED BY <1>3, <1>4, <1>5, <1>6, <1>7, <1>8, <1>9, <1>10, <1>11

-----------------------------------------------------------------------------
(* What the invariant says about the next cell and the next response.      *)

(* Ranges.                                                                 *)
LEMMA Ranges ==
  ASSUME CircuitInv
  PROVE  /\ Hops \in Nat /\ Hops >= 1 /\ hops \in Nat /\ hops <= Hops /\ written \in Nat
         /\ answered \in Nat /\ Total \in Nat
         /\ \A i \in 1..hops : i \in Relays /\ i \in Nat /\ i >= 1 /\ i <= hops /\ i <= Hops
         /\ \A i \in Relays : i \in Nat /\ i >= 1 /\ i <= Hops
         /\ Hops \in Relays /\ 1 \in Relays
         /\ \A i \in Relays : i <= hops => i \in 1..hops
<1>1. Hops \in Nat /\ Hops >= 1 /\ hops \in Nat /\ hops <= Hops /\ written \in Nat /\ answered \in Nat
    BY HopsAssumption DEF CircuitInv, CircuitTypeOK
<1>2. Total \in Nat
    BY <1>1 DEF Total
<1> QED BY <1>1, <1>2 DEF Relays

(* Positions are numbers.                                                  *)
LEMMA Positions ==
  ASSUME CircuitInv
  PROVE  \A i \in 0..hops : Passed(i) \in Nat
<1>1. hops \in Nat /\ Total \in Nat /\ \A i \in 1..hops : i \in Relays
    BY Ranges
<1>2. \A i \in 1..hops : relay[i].fwdSeq \in Nat
    BY <1>1, RelayFields DEF CircuitInv
<1>3. ASSUME NEW i \in 0..hops PROVE Passed(i) \in Int
    <2>1. CASE i = 0
        BY <1>1, <2>1 DEF Passed
    <2>2. CASE i # 0
        <3>1. i \in 1..hops
            BY <1>1, <2>2
        <3> QED BY <1>1, <1>2, <2>2, <3>1 DEF Passed
    <2> QED BY <2>1, <2>2
<1>4. Passed(hops) \in Nat
    <2>1. CASE hops = 0
        BY <1>1, <2>1 DEF Passed
    <2>2. CASE hops # 0
        <3>1. hops \in 1..hops
            BY <1>1, <2>2
        <3>2. Passed(hops) = relay[hops].fwdSeq + hops - hops /\ relay[hops].fwdSeq \in Nat
            BY <1>2, <2>2, <3>1 DEF Passed
        <3> QED BY <1>1, <3>2
    <2> QED BY <2>1, <2>2
<1>5. \A i \in 0..hops : Passed(hops) <= Passed(i)
    BY <1>1 DEF CircuitInv, ForwardOrder
<1> QED BY <1>3, <1>4, <1>5

(* The relays before the last hop have extended; CREATED has come from     *)
(* every hop.                                                              *)
LEMMA HopsMade ==
  ASSUME CircuitInv, NEW i \in 1..hops
  PROVE  /\ Made(i) /\ relay[i].state # "none"
         /\ ~Holds(down[i], "create") /\ ~Holds(up[i], "created")
         /\ i < hops => relay[i].extension = "linked" /\ relay[i].outgoing
<1>1. i \in Relays /\ i \in Nat /\ i >= 1 /\ i <= hops /\ hops \in Nat
      /\ (i # 1 => i - 1 \in 1..hops /\ i - 1 < hops)
    BY Ranges
<1>2. \A k \in 1..hops : k < hops => relay[k].extension = "linked" /\ relay[k].outgoing
    BY Ranges DEF CircuitInv, Grown
<1>3. Made(i)
    <2>1. CASE i = 1
        BY <1>1, <2>1 DEF Made
    <2>2. CASE i # 1
        BY <1>1, <1>2, <2>2 DEF Made
    <2> QED BY <2>1, <2>2
<1> QED BY <1>1, <1>2, <1>3 DEF CircuitInv, Making

(* The forward cell with a number.                                         *)
LEMMA ForeFields ==
  ASSUME CircuitInv, NEW i \in 1..hops, NEW q \in Nat
  PROVE  /\ ForeCell(i, q) \in Cells /\ ForeCell(i, q).kind = "relay"
         /\ ForeCell(i, q).layers = Onion(q, hops - i + 1) /\ ForeCell(i, q).cmd = ForeCmd(q)
         /\ ForeCell(i, q).n = IF ForeCmd(q) = "data" THEN q ELSE 0
         /\ Onion(q, hops - i + 1) \in Seq(Nat) /\ Len(Onion(q, hops - i + 1)) = hops - i + 1
         /\ Head(Onion(q, hops - i + 1)) = q + hops - i
         /\ Tail(Onion(q, hops - i + 1)) = Onion(q, hops - (i + 1) + 1)
<1>1. hops \in Nat /\ i \in Nat /\ i <= hops /\ hops - i + 1 \in Nat /\ hops - i + 1 >= 1
    BY Ranges
<1>2. Onion(q, hops - i + 1) \in Seq(Nat) /\ Len(Onion(q, hops - i + 1)) = hops - i + 1
    BY <1>1, OnionSeq
<1>3. ForeCmd(q) \in Commands
    BY DEF ForeCmd, Commands
<1>4. (IF ForeCmd(q) = "data" THEN q ELSE 0) \in Nat
    OBVIOUS
<1>5. /\ Head(Onion(q, hops - i + 1)) = q + (hops - i + 1) - 1
      /\ Tail(Onion(q, hops - i + 1)) = Onion(q, (hops - i + 1) - 1)
    BY <1>1, OnionTail
<1>6. q + (hops - i + 1) - 1 = q + hops - i /\ (hops - i + 1) - 1 = hops - (i + 1) + 1
    BY <1>1
<1> QED BY <1>2, <1>3, <1>4, <1>5, <1>6, MadeCells DEF ForeCell

(* The next cell of an open relay is the one that is due, and goes on if   *)
(* the relay has a next hop.                                               *)
LEMMA ForwardHead ==
  ASSUME CircuitInv, NEW i \in Relays, down[i] # << >>, Head(down[i]).kind = "relay",
         relay[i].state = "open"
  PROVE  /\ i \in 1..hops /\ i - 1 \in 0..hops /\ Passed(i) \in Nat /\ Passed(i - 1) \in Nat
         /\ Passed(i) + 1 <= Passed(i - 1) /\ Passed(i) + 1 <= Total
         /\ Head(down[i]) = ForeCell(i, Passed(i))
         /\ Head(Head(down[i]).layers) = relay[i].fwdSeq
         /\ Passed(i) = relay[i].fwdSeq + i - hops
         /\ (relay[i].outgoing <=> i < hops)
         /\ Run(Tail(down[i]), Passed(i) + 1, Passed(i - 1), Fore(i))
<1>1. /\ hops \in Nat /\ i \in Nat /\ i >= 1 /\ down[i] \in Seq(Cells) /\ Total \in Nat
      /\ relay[i].fwdSeq \in Nat /\ Hops \in Nat /\ hops <= Hops /\ written \in Nat
    BY Ranges, RelayFields DEF CircuitInv
<1>2. Holds(down[i], "relay")
    BY <1>1, HoldsTail
<1>3. i \in 1..hops /\ i - 1 \in 0..hops /\ i \in 0..hops /\ 0 \in 0..hops
    BY <1>1, <1>2 DEF CircuitInv, Making
<1>4. Passed(i) \in Nat /\ Passed(i - 1) \in Nat
    BY <1>3, Positions
<1>5. Run(down[i], Passed(i), Passed(i - 1), Fore(i))
    BY <1>3 DEF CircuitInv, Forward
<1>6. Run(Tail(down[i]), Passed(i) + 1, Passed(i - 1), Fore(i)) /\ Head(down[i]) \in Fore(i)[Passed(i)]
      /\ Passed(i) + 1 <= Passed(i - 1)
    BY <1>1, <1>4, <1>5, RunTail
<1>7. Head(down[i]) = ForeCell(i, Passed(i))
    BY <1>4, <1>6 DEF Fore
<1>8. Passed(i - 1) <= Passed(0) /\ Passed(0) = Total
    BY <1>3, <1>1 DEF CircuitInv, ForwardOrder, Passed
<1>9. Passed(i) = relay[i].fwdSeq + i - hops
    BY <1>1 DEF Passed
<1>10. Head(Head(down[i]).layers) = relay[i].fwdSeq
    <2>1. Head(Head(down[i]).layers) = Passed(i) + hops - i
        BY <1>3, <1>4, <1>7, ForeFields
    <2> QED BY <1>1, <1>4, <1>9, <2>1
<1>11. Passed(i) + 1 <= Total
    BY <1>1, <1>4, <1>6, <1>8
<1>12. relay[i].outgoing <=> i < hops
    <2>1. i < hops => relay[i].outgoing
        BY <1>3, HopsMade
    <2>2. ASSUME relay[i].outgoing, i = hops PROVE FALSE
        <3>1. i < Hops /\ relay[i].fwdSeq >= 1
            BY <2>2 DEF CircuitInv, Grown
        <3>2. Total = 1
            BY <1>1, <2>2, <3>1 DEF Total
        <3> QED BY <1>1, <1>9, <1>11, <2>2, <3>1, <3>2
    <2> QED BY <1>1, <1>3, <2>1, <2>2
<1> QED BY <1>3, <1>4, <1>6, <1>7, <1>9, <1>10, <1>11, <1>12

(* So no layer is ever rejected.                                           *)
LEMMA NeverRejected ==
  ASSUME CircuitInv, NEW i \in Relays, forwardRejected(i)
  PROVE  relay[i].state # "open" /\ down' = Taken(down, i) /\ UNCHANGED <<relay, app>>
BY ForwardHead DEF forwardRejected, Arrives, LayerOpens

(* The client opens the next reverse cell.                                 *)
LEMMA ReverseHead ==
  ASSUME CircuitInv, registered, up[1] # << >>, Head(up[1]).kind = "relay"
  PROVE  /\ hops \in 1..Hops /\ recvSeq[hops] \in Nat /\ Returned(1) \in Int
         /\ Opens(Head(up[1])) /\ Head(up[1]) \in Back(1)[recvSeq[hops]]
         /\ recvSeq[hops] + 1 <= Returned(1) /\ Returned(1) <= relay[hops].revSeq
         /\ Run(Tail(up[1]), recvSeq[hops] + 1, Returned(1), Back(1))
<1>1. /\ 1 \in Relays /\ up[1] \in Seq(Cells) /\ hops \in Nat /\ Hops \in Nat /\ hops <= Hops
      /\ relay[1].revSeq \in Nat
    BY Ranges, RelayFields DEF CircuitInv
<1>2. Holds(up[1], "relay")
    BY <1>1, HoldsTail
<1>3. hops >= 1 /\ 1 \in 1..hops /\ hops \in 0..hops /\ 1 \in 0..hops /\ hops \in Relays
      /\ \A j \in 1..hops : j \in Relays
    BY <1>1, <1>2, Ranges DEF CircuitInv, Making, Relays
<1>4. recvSeq[hops] \in Nat /\ Returned(0) = recvSeq[hops] /\ Returned(1) \in Int
      /\ relay[hops].revSeq \in Nat /\ Returned(hops) = relay[hops].revSeq
    <2>1. recvSeq[hops] \in Nat
        BY <1>3 DEF CircuitInv, CircuitTypeOK
    <2>2. relay[hops].revSeq \in Nat
        BY <1>3, RelayFields DEF CircuitInv
    <2>3. Returned(hops) = relay[hops].revSeq + hops - hops /\ Returned(1) = relay[1].revSeq + 1 - hops
        BY <1>1, <1>3 DEF Returned
    <2> QED BY <1>1, <2>1, <2>2, <2>3 DEF Returned
<1>5. Backward(1) /\ Returned(1) <= Returned(hops)
    BY <1>1, <1>3 DEF CircuitInv, Returning
<1>6. Run(up[1], recvSeq[hops], Returned(1), Back(1))
    BY <1>4, <1>5 DEF Backward
<1>7. /\ Run(Tail(up[1]), recvSeq[hops] + 1, Returned(1), Back(1))
      /\ Head(up[1]) \in Back(1)[recvSeq[hops]] /\ recvSeq[hops] + 1 <= Returned(1)
    BY <1>1, <1>4, <1>6, RunTail
<1>8. Head(up[1]).layers = Onion(recvSeq[hops], hops - 1 + 1) /\ hops - 1 + 1 = hops
    BY <1>1, <1>4, <1>7 DEF Back
<1>9. Opens(Head(up[1]))
    <2>1. Len(Onion(recvSeq[hops], hops)) = hops
          /\ \A j \in 1..hops : Onion(recvSeq[hops], hops)[j] = recvSeq[hops] + hops - j
        BY <1>1, <1>4, OnionSeq
    <2>2. \A j \in 1..hops : recvSeq[j] = recvSeq[hops] + hops - j
        BY <1>3 DEF CircuitInv, Numbers
    <2> QED BY <1>8, <2>1, <2>2 DEF Opens
<1> QED BY <1>1, <1>3, <1>4, <1>5, <1>7, <1>9

(* The next response is the one that is waited for, or an error.           *)
LEMMA ResponseHead ==
  ASSUME CircuitInv, Waiting, responses # << >>
  PROVE  /\ Head(responses).cmd \in {pc, "openError"}
         /\ Head(responses) \in Responses /\ Len(responses) \in Nat /\ Len(responses) >= 1
         /\ hops = 0 => Head(responses).cmd = "created" /\ Len(responses) = 1
         /\ hops >= 1 => Answer(Head(responses).cmd, Head(responses).n, 0)
<1>1. responses \in Seq(Responses) /\ hops \in Nat /\ Hops \in Nat /\ hops <= Hops /\ answered \in Nat
      /\ Hops >= 1
    BY Ranges DEF CircuitInv, CircuitTypeOK
<1>2. /\ Head(responses) = responses[1] /\ 1 \in 1..Len(responses) /\ Len(responses) \in Nat
      /\ Len(responses) >= 1 /\ Head(responses) \in Responses
    BY <1>1, LinkTail
<1>3. hops >= 1 => Answer(Head(responses).cmd, Head(responses).n, 0)
    <2>1. ASSUME hops >= 1
          PROVE  Answer(responses[1].cmd, responses[1].n, recvSeq[hops] - Len(responses) + 1 - 1)
                 /\ recvSeq[hops] = Len(responses)
        BY <1>1, <1>2, <2>1 DEF CircuitInv, Queued
    <2>2. Len(responses) - Len(responses) + 1 - 1 = 0
        BY <1>2
    <2> QED BY <1>2, <2>1, <2>2
<1>4. hops = 0 => Head(responses).cmd = "created" /\ Len(responses) = 1
    <2>1. Queued
        BY DEF CircuitInv
    <2>2. ASSUME hops = 0 PROVE Len(responses) <= 1 /\ responses[1].cmd = "created"
        BY <1>2, <2>1, <2>2 DEF Queued
    <2>3. ASSUME hops = 0 PROVE Len(responses) = 1
        <3>1. Len(responses) <= 1
            BY <2>2, <2>3
        <3>2. Len(responses) \in Nat /\ Len(responses) >= 1
            BY <1>2
        <3> QED BY <3>1, <3>2
    <2>4. hops = 0 => Head(responses).cmd = "created"
        BY <1>2, <2>2
    <2> QED BY <2>3, <2>4
<1>5. Stage
    BY DEF CircuitInv
<1>6. CASE hops = 0
    BY <1>1, <1>2, <1>4, <1>5, <1>6 DEF Stage, Waiting
<1>7. CASE hops >= 1 /\ hops < Hops
    <2>1. pc = "extended"
        BY <1>1, <1>5, <1>7 DEF Stage, Waiting
    <2> QED BY <1>1, <1>2, <1>3, <1>7, <2>1 DEF Answer
<1>8. CASE hops = Hops
    <2>1. pc = "openOK"
        BY <1>1, <1>5, <1>8 DEF Stage, Waiting
    <2>2. Answer(Head(responses).cmd, Head(responses).n, 0)
        BY <1>1, <1>3, <1>8
    <2>3. 0 \notin 1..answered /\ 0 # answered + 1
        BY <1>1
    <2> QED BY <1>1, <1>2, <1>8, <2>1, <2>2, <2>3 DEF Answer
<1> QED BY <1>1, <1>6, <1>7, <1>8

-----------------------------------------------------------------------------
(* What the steps of a relay do, field by field.                           *)

Becomes(i, st, fwd, rev, out, rout, ext) ==
  /\ relay'[i].state = st /\ relay'[i].fwdSeq = fwd /\ relay'[i].revSeq = rev
  /\ relay'[i].outgoing = out /\ relay'[i].relayOut = rout /\ relay'[i].extension = ext
  /\ \A k \in Relays : k # i => relay'[k] = relay[k]

(* The circuit of relay i as it is, except for what it counts.             *)
Counts(i, fwd, rev) ==
  Becomes(i, relay[i].state, fwd, rev, relay[i].outgoing, relay[i].relayOut, relay[i].extension)

(* Links after a write and a read.                                         *)
LEMMA SentAt ==
  ASSUME NEW ch \in Links, NEW i, NEW c, NEW k \in Relays
  PROVE  Sent(ch, i, c)[k] = IF k = i /\ i \notin cut THEN Append(ch[k], c) ELSE ch[k]
BY DEF Sent, Links

(* Reading link i leaves the others alone.                                 *)
LEMMA TakenAt ==
  ASSUME NEW ch \in Links, NEW i \in Relays, NEW k \in Relays
  PROVE  Taken(ch, i)[k] = IF k = i THEN Tail(ch[k]) ELSE ch[k]
BY DEF Taken, Links

(* A circuit is replaced by another.                                       *)
LEMMA Replaced ==
  ASSUME CircuitTypeOK, NEW i \in Relays, NEW rc, relay' = [relay EXCEPT ![i] = rc]
  PROVE  relay'[i] = rc /\ \A k \in Relays : k # i => relay'[k] = relay[k]
BY DEF CircuitTypeOK

(* Closing a relay's circuit: its state, the destroy cell onwards and the  *)
(* service (circuit.go:634-671).                                           *)
LEMMA CloseEffect ==
  ASSUME CircuitTypeOK, NEW i \in Relays, NEW rest \in Links, closeRelayCircuit(i, rest)
  PROVE  /\ Becomes(i, "closed", relay[i].fwdSeq, relay[i].revSeq, relay[i].outgoing, FALSE,
                    relay[i].extension)
         /\ \A k \in Relays : down'[k] = IF k = i + 1 /\ k \notin cut /\ relay[i].outgoing
                                         THEN Append(rest[k], Control("destroy")) ELSE rest[k]
         /\ app' = IF i = Hops /\ app = "open" THEN "closed" ELSE app
<1>1. relay' = [relay EXCEPT ![i] = [relay[i] EXCEPT !.state = "closed", !.relayOut = FALSE]]
    BY DEF closeRelayCircuit
<1>2. /\ relay'[i] = [relay[i] EXCEPT !.state = "closed", !.relayOut = FALSE]
      /\ \A k \in Relays : k # i => relay'[k] = relay[k]
    BY <1>1, Replaced
<1>3. relay[i] \in RelayCircuits
    BY RelayFields
<1>4. /\ relay'[i].state = "closed" /\ relay'[i].fwdSeq = relay[i].fwdSeq
      /\ relay'[i].revSeq = relay[i].revSeq /\ relay'[i].outgoing = relay[i].outgoing
      /\ relay'[i].relayOut = FALSE /\ relay'[i].extension = relay[i].extension
    BY <1>2, <1>3 DEF RelayCircuits
<1>5. ASSUME NEW k \in Relays
      PROVE  down'[k] = IF k = i + 1 /\ k \notin cut /\ relay[i].outgoing
                        THEN Append(rest[k], Control("destroy")) ELSE rest[k]
    BY SentAt DEF closeRelayCircuit
<1> QED BY <1>2, <1>4, <1>5 DEF Becomes, closeRelayCircuit

(* Numbering a reverse cell counts revSeq up and leaves the cell with its  *)
(* goroutine.                                                              *)
LEMMA NumberedEffect ==
  ASSUME CircuitTypeOK, NEW i \in Relays, NEW g \in Goroutines, NEW rc \in RelayCircuits,
         NEW layers, NEW cmd, NEW n, Numbered(i, g, rc, layers, cmd, n)
  PROVE  /\ Becomes(i, rc.state, rc.fwdSeq, rc.revSeq + 1, rc.outgoing, rc.relayOut, rc.extension)
         /\ sending'[i][g] = Relay(<<rc.revSeq>> \o layers, cmd, n)
         /\ \A h \in Goroutines : h # g => sending'[i][h] = sending[i][h]
         /\ \A k \in Relays : k # i => sending'[k] = sending[k]
<1>1. relay' = [relay EXCEPT ![i] = [rc EXCEPT !.revSeq = rc.revSeq + 1]]
    BY DEF Numbered
<1>2. /\ relay'[i] = [rc EXCEPT !.revSeq = rc.revSeq + 1]
      /\ \A k \in Relays : k # i => relay'[k] = relay[k]
    BY <1>1, Replaced
<1>3. /\ relay'[i].state = rc.state /\ relay'[i].fwdSeq = rc.fwdSeq
      /\ relay'[i].revSeq = rc.revSeq + 1 /\ relay'[i].outgoing = rc.outgoing
      /\ relay'[i].relayOut = rc.relayOut /\ relay'[i].extension = rc.extension
    BY <1>2 DEF RelayCircuits
<1>4. /\ sending'[i][g] = Relay(<<rc.revSeq>> \o layers, cmd, n)
      /\ \A h \in Goroutines : h # g => sending'[i][h] = sending[i][h]
      /\ \A k \in Relays : k # i => sending'[k] = sending[k]
    BY DEF Numbered, CircuitTypeOK
<1> QED BY <1>2, <1>3, <1>4 DEF Becomes

(* Writing the numbered cell puts it on the link to the client unless that *)
(* is lost.                                                                *)
LEMMA WrittenEffect ==
  ASSUME CircuitTypeOK, NEW i \in Relays, NEW g \in Goroutines, Written(i, g)
  PROVE  /\ \A k \in Relays : up'[k] = IF k = i /\ i \notin cut THEN Append(up[k], sending[i][g])
                                                                ELSE up[k]
         /\ sending'[i][g] = NoCell
         /\ \A h \in Goroutines : h # g => sending'[i][h] = sending[i][h]
         /\ \A k \in Relays : k # i => sending'[k] = sending[k]
<1>1. up \in Links
    BY DEF CircuitTypeOK, Links
<1>2. \A k \in Relays : up'[k] = IF k = i /\ i \notin cut THEN Append(up[k], sending[i][g])
                                                          ELSE up[k]
    BY <1>1, SentAt DEF Written
<1>3. /\ sending'[i][g] = NoCell
      /\ \A h \in Goroutines : h # g => sending'[i][h] = sending[i][h]
      /\ \A k \in Relays : k # i => sending'[k] = sending[k]
    BY DEF Written, CircuitTypeOK
<1> QED BY <1>2, <1>3

(* Counting a forward cell.                                                *)
LEMMA CountedFields ==
  ASSUME CircuitTypeOK, NEW i \in Relays
  PROVE  /\ Counted(i) \in RelayCircuits
         /\ Counted(i).state = relay[i].state /\ Counted(i).fwdSeq = relay[i].fwdSeq + 1
         /\ Counted(i).revSeq = relay[i].revSeq /\ Counted(i).outgoing = relay[i].outgoing
         /\ Counted(i).relayOut = relay[i].relayOut /\ Counted(i).extension = relay[i].extension
<1>1. relay[i] \in RelayCircuits /\ relay[i].fwdSeq + 1 \in Nat
    BY RelayFields
<1> QED BY <1>1 DEF Counted, RelayCircuits

(* A create cell opens the one relay behind the path, with nothing on its  *)
(* link back.                                                              *)
LEMMA CreateEffect ==
  ASSUME CircuitInv, NEW i \in Relays, handleCircuitCreate(i)
  PROVE  /\ Becomes(i, "open", relay[i].fwdSeq, relay[i].revSeq, relay[i].outgoing,
                    relay[i].relayOut, relay[i].extension)
         /\ down[i] # << >> /\ Head(down[i]).kind = "create"
         /\ \A k \in Relays : down'[k] = IF k = i THEN Tail(down[k]) ELSE down[k]
         /\ \A k \in Relays : up'[k] = IF k = i /\ i \notin cut THEN Append(up[k], Control("created"))
                                                                ELSE up[k]
         /\ up[i] = << >> /\ relay[i].state = "none" /\ i > hops
<1> CircuitTypeOK
    BY DEF CircuitInv
<1>1. relay' = [relay EXCEPT ![i] = [relay[i] EXCEPT !.state = "open"]]
    BY DEF handleCircuitCreate
<1>2. /\ relay'[i] = [relay[i] EXCEPT !.state = "open"]
      /\ \A k \in Relays : k # i => relay'[k] = relay[k]
    BY <1>1, Replaced
<1>3. relay[i] \in RelayCircuits /\ down[i] \in Seq(Cells) /\ up \in Links /\ down \in Links
      /\ down[i] # << >> /\ Head(down[i]).kind = "create"
    BY RelayFields DEF handleCircuitCreate, Arrives, CircuitTypeOK, Links
<1>4. Becomes(i, "open", relay[i].fwdSeq, relay[i].revSeq, relay[i].outgoing,
              relay[i].relayOut, relay[i].extension)
    BY <1>2, <1>3 DEF Becomes, RelayCircuits
<1>5. /\ \A k \in Relays : down'[k] = IF k = i THEN Tail(down[k]) ELSE down[k]
      /\ \A k \in Relays : up'[k] = IF k = i /\ i \notin cut THEN Append(up[k], Control("created"))
                                                             ELSE up[k]
    BY <1>3, SentAt, TakenAt DEF handleCircuitCreate
<1>6. Head(down[i]) = down[i][1] /\ 1 \in 1..Len(down[i]) /\ Holds(down[i], "create")
    BY <1>3, LinkTail, HoldsTail
<1>7. up[i] = << >> /\ relay[i].state = "none"
    BY <1>3, <1>6 DEF CircuitInv, Making
<1>8. i \notin 1..hops
    BY <1>6, HopsMade
<1>9. i > hops
    BY <1>8, Ranges
<1> QED BY <1>3, <1>4, <1>5, <1>7, <1>9

(* What a relay does with a cell that opens.                               *)
LEMMA OpenedEffect ==
  ASSUME CircuitInv, NEW i \in Relays, LayerOpens(i)
  PROVE  /\ down[i] # << >> /\ Head(down[i]).kind = "relay" /\ relay[i].state = "open"
         /\ sending[i]["in"] = NoCell
         /\ i \in 1..hops /\ i - 1 \in 0..hops /\ Passed(i) \in Nat /\ Passed(i - 1) \in Nat
         /\ Passed(i) + 1 <= Passed(i - 1) /\ Passed(i) + 1 <= Total
         /\ Head(down[i]).layers = Onion(Passed(i), hops - i + 1)
         /\ Head(down[i]).cmd = ForeCmd(Passed(i))
         /\ Head(down[i]).n = IF ForeCmd(Passed(i)) = "data" THEN Passed(i) ELSE 0
         /\ Head(down[i]) = ForeCell(i, Passed(i))
         /\ Passed(i) = relay[i].fwdSeq + i - hops
         /\ (relay[i].outgoing <=> i < hops)
         /\ Run(Tail(down[i]), Passed(i) + 1, Passed(i - 1), Fore(i))
         /\ down \in Links /\ Taken(down, i) \in Links
<1>1. /\ down[i] # << >> /\ Head(down[i]).kind = "relay" /\ relay[i].state = "open"
      /\ sending[i]["in"] = NoCell
    BY DEF LayerOpens, Arrives
<1>2. down \in Links /\ Taken(down, i) \in Links
    BY <1>1, TakenType DEF CircuitInv, CircuitTypeOK, Links
<1>3. /\ i \in 1..hops /\ i - 1 \in 0..hops /\ Passed(i) \in Nat /\ Passed(i - 1) \in Nat
      /\ Passed(i) + 1 <= Passed(i - 1) /\ Passed(i) + 1 <= Total
      /\ Head(down[i]) = ForeCell(i, Passed(i))
      /\ Passed(i) = relay[i].fwdSeq + i - hops
      /\ (relay[i].outgoing <=> i < hops)
      /\ Run(Tail(down[i]), Passed(i) + 1, Passed(i - 1), Fore(i))
    BY <1>1, ForwardHead
<1>4. /\ Head(down[i]).layers = Onion(Passed(i), hops - i + 1)
      /\ Head(down[i]).cmd = ForeCmd(Passed(i))
      /\ Head(down[i]).n = IF ForeCmd(Passed(i)) = "data" THEN Passed(i) ELSE 0
    BY <1>3, ForeFields
<1> QED BY <1>1, <1>2, <1>3, <1>4

(* A cell is its fields.                                                   *)
LEMMA SameCell ==
  ASSUME NEW c \in Cells, NEW d \in Cells, c.kind = d.kind, c.layers = d.layers,
         c.cmd = d.cmd, c.n = d.n
  PROVE  c = d
BY DEF Cells

(* A cell without its outer layer.                                         *)
LEMMA Peeled ==
  ASSUME NEW c \in Cells, NEW layers \in Seq(Nat)
  PROVE  /\ [c EXCEPT !.layers = layers] \in Cells /\ [c EXCEPT !.layers = layers].kind = c.kind
         /\ [c EXCEPT !.layers = layers].layers = layers
         /\ [c EXCEPT !.layers = layers].cmd = c.cmd /\ [c EXCEPT !.layers = layers].n = c.n
BY DEF Cells

(* A relay on the path opens its layer and passes on what is next in       *)
(* order.                                                                  *)
LEMMA ForwardOnEffect ==
  ASSUME CircuitInv, NEW i \in Relays, forwardOn(i)
  PROVE  /\ LayerOpens(i) /\ i < hops /\ i + 1 \in 1..hops
         /\ Counts(i, relay[i].fwdSeq + 1, relay[i].revSeq)
         /\ \A k \in Relays : down'[k] = IF k = i THEN Tail(down[k])
                                         ELSE IF k = i + 1 /\ k \notin cut
                                         THEN Append(down[k], ForeCell(i + 1, Passed(i))) ELSE down[k]
         /\ Head(down[i]).layers # << >>
<1> CircuitTypeOK
    BY DEF CircuitInv
<1>1. LayerOpens(i) /\ i < hops /\ i \in 1..hops /\ i + 1 \in 1..hops /\ Passed(i) \in Nat
      /\ Head(down[i]) = ForeCell(i, Passed(i)) /\ Taken(down, i) \in Links /\ down \in Links
    BY OpenedEffect, Ranges, SMTT(40) DEF forwardOn
<1>2. /\ relay'[i] = Counted(i) /\ \A k \in Relays : k # i => relay'[k] = relay[k]
    BY Replaced DEF forwardOn
<1>3. Counts(i, relay[i].fwdSeq + 1, relay[i].revSeq)
    BY <1>2, CountedFields DEF Becomes, Counts
<1>4. [Head(down[i]) EXCEPT !.layers = Tail(@)] = ForeCell(i + 1, Passed(i))
    <2>1. Tail(Onion(Passed(i), hops - i + 1)) = Onion(Passed(i), hops - (i + 1) + 1)
        BY <1>1, ForeFields
    <2> DEFINE c == Head(down[i])
               d == ForeCell(i + 1, Passed(i))
               l == Tail(c.layers)
               e == [c EXCEPT !.layers = l]
               n == IF ForeCmd(Passed(i)) = "data" THEN Passed(i) ELSE 0
    <2>2. /\ c \in Cells /\ c.kind = "relay" /\ c.layers = Onion(Passed(i), hops - i + 1)
          /\ c.cmd = ForeCmd(Passed(i)) /\ c.n = n
        BY <1>1, ForeFields
    <2>3. /\ d \in Cells /\ d.kind = "relay" /\ d.layers = Onion(Passed(i), hops - (i + 1) + 1)
          /\ d.cmd = ForeCmd(Passed(i)) /\ d.n = n /\ d.layers \in Seq(Nat)
        BY <1>1, ForeFields
    <2>4. l = d.layers
        BY <2>1, <2>2, <2>3
    <2> HIDE DEF c, d, l, n
    <2>5. e \in Cells /\ e.kind = c.kind /\ e.layers = l /\ e.cmd = c.cmd /\ e.n = c.n
        BY <2>2, <2>3, <2>4, Peeled
    <2> HIDE DEF e
    <2>6. e = d
        BY <2>2, <2>3, <2>4, <2>5, SameCell
    <2> QED BY <2>6 DEF c, d, e, l
<1>5. \A k \in Relays : down'[k] = IF k = i THEN Tail(down[k])
                                   ELSE IF k = i + 1 /\ k \notin cut
                                   THEN Append(down[k], ForeCell(i + 1, Passed(i))) ELSE down[k]
    <2>1. down' = Sent(Taken(down, i), i + 1, ForeCell(i + 1, Passed(i)))
        BY <1>4 DEF forwardOn
    <2>2. i # i + 1
        BY Ranges
    <2> SUFFICES ASSUME NEW k \in Relays
                 PROVE  down'[k] = IF k = i THEN Tail(down[k])
                                   ELSE IF k = i + 1 /\ k \notin cut
                                   THEN Append(down[k], ForeCell(i + 1, Passed(i))) ELSE down[k]
        OBVIOUS
    <2>3. Taken(down, i)[k] = IF k = i THEN Tail(down[k]) ELSE down[k]
        BY <1>1, TakenAt
    <2>4. down'[k] = IF k = i + 1 /\ i + 1 \notin cut
                     THEN Append(Taken(down, i)[k], ForeCell(i + 1, Passed(i)))
                     ELSE Taken(down, i)[k]
        BY <1>1, <2>1, SentAt
    <2> QED BY <2>2, <2>3, <2>4
<1>6. Head(down[i]).layers # << >>
    <2>1. Head(down[i]).layers = Onion(Passed(i), hops - i + 1)
          /\ Len(Onion(Passed(i), hops - i + 1)) = hops - i + 1
        BY <1>1, ForeFields
    <2>2. Len(Head(down[i]).layers) = hops - i + 1 /\ hops - i + 1 # 0
        BY <1>1, <2>1, Ranges
    <2> QED BY <2>2
<1> QED BY <1>1, <1>3, <1>5, <1>6

(* A command is for the last hop.                                          *)
LEMMA CommandedEffect ==
  ASSUME CircuitInv, NEW i \in Relays, NEW cmd, Commanded(i, cmd)
  PROVE  /\ LayerOpens(i) /\ i = hops /\ hops >= 1 /\ ~relay[i].outgoing
         /\ Passed(i) = relay[i].fwdSeq /\ cmd = ForeCmd(relay[i].fwdSeq)
         /\ relay[i].fwdSeq \in Nat /\ relay[i].fwdSeq + 1 <= Total
         /\ Head(down[i]).n = IF cmd = "data" THEN relay[i].fwdSeq ELSE 0
<1>1. LayerOpens(i) /\ ~relay[i].outgoing /\ Head(down[i]).cmd = cmd
    BY DEF Commanded
<1>2. /\ i \in 1..hops /\ ~(i < hops) /\ Head(down[i]).cmd = ForeCmd(Passed(i))
      /\ Passed(i) = relay[i].fwdSeq + i - hops /\ Passed(i) + 1 <= Total
      /\ Head(down[i]).n = IF ForeCmd(Passed(i)) = "data" THEN Passed(i) ELSE 0
    BY <1>1, OpenedEffect
<1>3. i = hops /\ hops >= 1 /\ hops \in Nat
    BY <1>2, Ranges
<1>4. relay[i].fwdSeq \in Nat
    BY RelayFields DEF CircuitInv
<1>5. Passed(i) = relay[i].fwdSeq
    BY <1>2, <1>3, <1>4
<1> QED BY <1>1, <1>2, <1>3, <1>4, <1>5

(* Only the end of the path extends, once, before anything else was        *)
(* counted there.                                                          *)
LEMMA ExtendEffect ==
  ASSUME CircuitInv, NEW i \in Relays, extendCircuit(i)
  PROVE  /\ LayerOpens(i) /\ i = hops /\ hops >= 1 /\ hops < Hops /\ i + 1 \in Relays
         /\ relay[i].fwdSeq = 0 /\ relay[i].revSeq = 0 /\ relay[i].extension = "none"
         /\ ~relay[i].outgoing
         /\ \/ /\ i + 1 \in cut /\ Counts(i, 1, 1)
               /\ sending'[i]["in"] = Relay(<< 0 >> \o << >>, "openError", 0)
               /\ \A h \in Goroutines : h # "in" => sending'[i][h] = sending[i][h]
               /\ \A k \in Relays : k # i => sending'[k] = sending[k]
               /\ \A k \in Relays : down'[k] = IF k = i THEN Tail(down[k]) ELSE down[k]
            \/ /\ Becomes(i, relay[i].state, 1, 0, relay[i].outgoing, relay[i].relayOut, "waiting")
               /\ sending' = sending
               /\ \A k \in Relays : down'[k] = IF k = i THEN Tail(down[k])
                                               ELSE IF k = i + 1 /\ k \notin cut
                                               THEN Append(down[k], Control("create")) ELSE down[k]
<1> CircuitTypeOK
    BY DEF CircuitInv
<1>1. /\ LayerOpens(i) /\ i = hops /\ hops >= 1 /\ ~relay[i].outgoing
      /\ "extend" = ForeCmd(relay[i].fwdSeq) /\ relay[i].fwdSeq \in Nat
      /\ relay[i].fwdSeq + 1 <= Total
    BY CommandedEffect DEF extendCircuit
<1>2. hops < Hops /\ hops \in Nat /\ Hops \in Nat /\ i \in Nat /\ i + 1 \in Relays /\ i # i + 1
    <2>1. hops < Hops
        BY <1>1 DEF ForeCmd
    <2> QED BY <1>1, <2>1, Ranges DEF Relays
<1>3. relay[i].fwdSeq = 0
    <2>1. Total = 1
        BY <1>1, <1>2 DEF Total
    <2> QED BY <1>1, <2>1
<1>4. relay[i].revSeq = 0 /\ relay[i].extension = "none"
    <2>1. Grown(i)
        BY DEF CircuitInv
    <2> QED BY <1>3, <2>1 DEF Grown
<1>5. down \in Links /\ Taken(down, i) \in Links
    BY <1>1, OpenedEffect
<1>6. \A k \in Relays : Taken(down, i)[k] = IF k = i THEN Tail(down[k]) ELSE down[k]
    BY <1>5, TakenAt
<1>7. CASE /\ i + 1 \in cut
           /\ Numbered(i, "in", Counted(i), << >>, "openError", 0)
           /\ down' = Taken(down, i)
    <2>1. "in" \in Goroutines
        BY DEF Goroutines
    <2>2. /\ Becomes(i, Counted(i).state, Counted(i).fwdSeq, Counted(i).revSeq + 1,
                     Counted(i).outgoing, Counted(i).relayOut, Counted(i).extension)
          /\ sending'[i]["in"] = Relay(<<Counted(i).revSeq>> \o << >>, "openError", 0)
          /\ \A h \in Goroutines : h # "in" => sending'[i][h] = sending[i][h]
          /\ \A k \in Relays : k # i => sending'[k] = sending[k]
        BY <1>7, <2>1, CountedFields, NumberedEffect
    <2>3. Counts(i, 1, 1) /\ sending'[i]["in"] = Relay(<< 0 >> \o << >>, "openError", 0)
        BY <1>3, <1>4, <2>2, CountedFields DEF Counts, Becomes
    <2> QED BY <1>1, <1>2, <1>3, <1>4, <1>6, <1>7, <2>2, <2>3
<1>8. CASE /\ relay' = [relay EXCEPT ![i] = [Counted(i) EXCEPT !.extension = "waiting"]]
           /\ down' = Sent(Taken(down, i), i + 1, Control("create"))
           /\ UNCHANGED sending
    <2>1. /\ relay'[i] = [Counted(i) EXCEPT !.extension = "waiting"]
          /\ \A k \in Relays : k # i => relay'[k] = relay[k]
        BY <1>8, Replaced
    <2>2. /\ relay'[i].state = Counted(i).state /\ relay'[i].fwdSeq = Counted(i).fwdSeq
          /\ relay'[i].revSeq = Counted(i).revSeq /\ relay'[i].outgoing = Counted(i).outgoing
          /\ relay'[i].relayOut = Counted(i).relayOut /\ relay'[i].extension = "waiting"
        BY <2>1, CountedFields DEF RelayCircuits
    <2>3. Becomes(i, relay[i].state, 1, 0, relay[i].outgoing, relay[i].relayOut, "waiting")
        BY <1>3, <1>4, <2>1, <2>2, CountedFields DEF Becomes
    <2>4. ASSUME NEW k \in Relays
          PROVE  down'[k] = IF k = i THEN Tail(down[k])
                            ELSE IF k = i + 1 /\ k \notin cut
                            THEN Append(down[k], Control("create")) ELSE down[k]
        <3>1. down'[k] = IF k = i + 1 /\ i + 1 \notin cut
                         THEN Append(Taken(down, i)[k], Control("create")) ELSE Taken(down, i)[k]
            BY <1>5, <1>8, SentAt
        <3> QED BY <1>2, <1>6, <3>1
    <2> QED BY <1>1, <1>2, <1>3, <1>4, <1>8, <2>3, <2>4
<1> QED BY <1>7, <1>8 DEF extendCircuit

(* Only the exit opens the service, once, before anything else was counted *)
(* there.                                                                  *)
LEMMA OpenEffect ==
  ASSUME CircuitInv, NEW i \in Relays, openCircuitTarget(i)
  PROVE  /\ LayerOpens(i) /\ i = Hops /\ hops = Hops
         /\ relay[i].fwdSeq = 0 /\ relay[i].revSeq = 0
         /\ app = "none" /\ pump = "none"
         /\ Counts(i, 1, 1)
         /\ \A h \in Goroutines : h # "in" => sending'[i][h] = sending[i][h]
         /\ \A k \in Relays : k # i => sending'[k] = sending[k]
         /\ \A k \in Relays : down'[k] = IF k = i THEN Tail(down[k]) ELSE down[k]
         /\ \/ sending'[i]["in"] = Relay(<< 0 >> \o << >>, "openError", 0) /\ app' = app
            \/ sending'[i]["in"] = Relay(<< 0 >> \o << >>, "openOK", 0) /\ app' = "open"
<1> CircuitTypeOK
    BY DEF CircuitInv
<1>1. /\ LayerOpens(i) /\ i = hops /\ hops >= 1
      /\ "open" = ForeCmd(relay[i].fwdSeq) /\ relay[i].fwdSeq \in Nat
    BY CommandedEffect DEF openCircuitTarget
<1>2. hops = Hops /\ relay[i].fwdSeq = 0
    BY <1>1, Ranges DEF ForeCmd
<1>3. relay[i].revSeq = 0
    <2>1. Grown(i)
        BY DEF CircuitInv
    <2> QED BY <1>2, <2>1 DEF Grown
<1>4. app = "none" /\ pump = "none"
    <2>1. Service
        BY DEF CircuitInv
    <2>2. ~(relay[Hops].fwdSeq >= 1)
        BY <1>1, <1>2
    <2> QED BY <2>1, <2>2 DEF Service
<1>5. \A k \in Relays : down'[k] = IF k = i THEN Tail(down[k]) ELSE down[k]
    BY <1>1, OpenedEffect, TakenAt DEF openCircuitTarget
<1>6. ASSUME NEW cmd, Numbered(i, "in", Counted(i), << >>, cmd, 0)
      PROVE  /\ Counts(i, 1, 1) /\ sending'[i]["in"] = Relay(<< 0 >> \o << >>, cmd, 0)
             /\ \A h \in Goroutines : h # "in" => sending'[i][h] = sending[i][h]
             /\ \A k \in Relays : k # i => sending'[k] = sending[k]
    <2>1. "in" \in Goroutines
        BY DEF Goroutines
    <2>2. /\ Becomes(i, Counted(i).state, Counted(i).fwdSeq, Counted(i).revSeq + 1,
                     Counted(i).outgoing, Counted(i).relayOut, Counted(i).extension)
          /\ sending'[i]["in"] = Relay(<<Counted(i).revSeq>> \o << >>, cmd, 0)
          /\ \A h \in Goroutines : h # "in" => sending'[i][h] = sending[i][h]
          /\ \A k \in Relays : k # i => sending'[k] = sending[k]
        BY <1>6, <2>1, CountedFields, NumberedEffect
    <2>3. Counts(i, 1, 1) /\ sending'[i]["in"] = Relay(<< 0 >> \o << >>, cmd, 0)
        BY <1>2, <1>3, <2>2, CountedFields DEF Counts, Becomes
    <2> QED BY <2>2, <2>3
<1>7. CASE Numbered(i, "in", Counted(i), << >>, "openError", 0) /\ UNCHANGED app
    BY <1>1, <1>2, <1>3, <1>4, <1>5, <1>6, <1>7
<1>8. CASE Numbered(i, "in", Counted(i), << >>, "openOK", 0) /\ app' = "open"
    BY <1>1, <1>2, <1>3, <1>4, <1>5, <1>6, <1>8
<1> QED BY <1>7, <1>8 DEF openCircuitTarget

(* The circuit of relay i is closed, and link i is as in rest.             *)
Closes(i, rest) ==
  /\ Becomes(i, "closed", relay[i].fwdSeq, relay[i].revSeq, relay[i].outgoing, FALSE,
             relay[i].extension)
  /\ \A k \in Relays : down'[k] = IF k = i + 1 /\ k \notin cut /\ relay[i].outgoing
                                  THEN Append(down[k], Control("destroy"))
                                  ELSE IF k = i THEN rest ELSE down[k]
  /\ app' = IF i = Hops /\ app = "open" THEN "closed" ELSE app

(* A circuit is closed with, and without, a cell that has been read.       *)
LEMMA ClosesEffect ==
  ASSUME CircuitInv, NEW i \in Relays
  PROVE  /\ down[i] # << >> /\ closeRelayCircuit(i, Taken(down, i)) => Closes(i, Tail(down[i]))
         /\ closeRelayCircuit(i, down) => Closes(i, down[i])
<1> CircuitTypeOK
    BY DEF CircuitInv
<1>1. down \in Links /\ i # i + 1
    <2>1. down \in Links
        BY DEF CircuitTypeOK, Links
    <2>2. i # i + 1
        BY Ranges
    <2> QED BY <2>1, <2>2
<1>2. ASSUME NEW rest \in Links, closeRelayCircuit(i, rest),
             \A k \in Relays : k # i => rest[k] = down[k]
      PROVE  Closes(i, rest[i])
    <2>1. /\ Becomes(i, "closed", relay[i].fwdSeq, relay[i].revSeq, relay[i].outgoing, FALSE,
                     relay[i].extension)
          /\ app' = IF i = Hops /\ app = "open" THEN "closed" ELSE app
        BY <1>2, CloseEffect
    <2>2. ASSUME NEW k \in Relays
          PROVE  down'[k] = IF k = i + 1 /\ k \notin cut /\ relay[i].outgoing
                            THEN Append(down[k], Control("destroy"))
                            ELSE IF k = i THEN rest[i] ELSE down[k]
        <3>1. down'[k] = IF k = i + 1 /\ k \notin cut /\ relay[i].outgoing
                         THEN Append(rest[k], Control("destroy")) ELSE rest[k]
            BY <1>2, CloseEffect
        <3>2. k # i => rest[k] = down[k]
            BY <1>2
        <3> QED BY <1>1, <3>1, <3>2
    <2> QED BY <2>1, <2>2 DEF Closes
<1>3. ASSUME down[i] # << >>
      PROVE  Taken(down, i) \in Links /\ Taken(down, i)[i] = Tail(down[i])
             /\ \A k \in Relays : k # i => Taken(down, i)[k] = down[k]
    BY <1>1, <1>3, TakenType, TakenAt
<1> QED BY <1>1, <1>2, <1>3

(* Data opened at the exit is one of the written pieces, and the next one. *)
LEMMA DataEffect ==
  ASSUME CircuitInv, NEW i \in Relays, relayData(i)
  PROVE  /\ LayerOpens(i) /\ i = Hops /\ hops = Hops
         /\ relay[i].fwdSeq \in 1..written
         /\ \/ /\ Counts(i, relay[i].fwdSeq + 1, relay[i].revSeq)
               /\ received' = IF app = "open" THEN Append(received, relay[i].fwdSeq) ELSE received
               /\ \A k \in Relays : down'[k] = IF k = i THEN Tail(down[k]) ELSE down[k]
               /\ app' = app
            \/ /\ app = "ended" /\ Closes(i, Tail(down[i])) /\ received' = received
<1> CircuitTypeOK
    BY DEF CircuitInv
<1>1. /\ LayerOpens(i) /\ i = hops /\ hops >= 1
      /\ "data" = ForeCmd(relay[i].fwdSeq) /\ relay[i].fwdSeq \in Nat
      /\ Head(down[i]).n = relay[i].fwdSeq /\ down[i] # << >>
    BY CommandedEffect, OpenedEffect DEF relayData
<1>2. hops = Hops /\ relay[i].fwdSeq # 0 /\ relay[i].fwdSeq <= written
    BY <1>1, Ranges DEF ForeCmd
<1>3. relay[i].fwdSeq \in 1..written
    BY <1>1, <1>2, Ranges
<1>4. CASE /\ relay' = [relay EXCEPT ![i] = Counted(i)]
           /\ received' = IF app = "open" THEN Append(received, Head(down[i]).n) ELSE received
           /\ down' = Taken(down, i)
           /\ UNCHANGED app
    <2>1. relay'[i] = Counted(i) /\ \A k \in Relays : k # i => relay'[k] = relay[k]
        BY <1>4, Replaced
    <2>2. Counts(i, relay[i].fwdSeq + 1, relay[i].revSeq)
        BY <2>1, CountedFields DEF Becomes, Counts
    <2>3. \A k \in Relays : down'[k] = IF k = i THEN Tail(down[k]) ELSE down[k]
        BY <1>1, <1>4, OpenedEffect, TakenAt
    <2> QED BY <1>1, <1>2, <1>3, <1>4, <2>2, <2>3
<1>5. CASE app = "ended" /\ closeRelayCircuit(i, Taken(down, i)) /\ UNCHANGED received
    BY <1>1, <1>2, <1>3, <1>5, ClosesEffect
<1> QED BY <1>4, <1>5 DEF relayData

(* The close command is opened after all the data, when the caller has     *)
(* closed.                                                                 *)
LEMMA CloseCmdEffect ==
  ASSUME CircuitInv, NEW i \in Relays, relayClose(i)
  PROVE  /\ LayerOpens(i) /\ i = Hops /\ hops = Hops
         /\ pc = "closed" /\ relay[i].fwdSeq = written + 1
         /\ Closes(i, Tail(down[i]))
<1>1. /\ LayerOpens(i) /\ i = hops /\ hops >= 1
      /\ "close" = ForeCmd(relay[i].fwdSeq) /\ relay[i].fwdSeq \in Nat
      /\ relay[i].fwdSeq + 1 <= Total /\ down[i] # << >>
    BY CommandedEffect, OpenedEffect DEF relayClose
<1>2. hops = Hops /\ ~(relay[i].fwdSeq <= written)
    BY <1>1, Ranges DEF ForeCmd
<1>3. written \in Nat /\ Total = written + (IF pc = "closed" THEN 2 ELSE 1)
    BY <1>1, <1>2, Ranges DEF Total
<1>4. pc = "closed" /\ relay[i].fwdSeq = written + 1
    BY <1>1, <1>2, <1>3
<1>5. Closes(i, Tail(down[i]))
    BY <1>1, ClosesEffect DEF relayClose
<1> QED BY <1>1, <1>2, <1>4, <1>5

(* A destroy cell closes an open circuit and is dropped elsewhere.         *)
LEMMA DestroyEffect ==
  ASSUME CircuitInv, NEW i \in Relays, destroyCircuitByKey(i)
  PROVE  /\ down[i] # << >> /\ Head(down[i]).kind = "destroy" /\ Holds(down[i], "destroy")
         /\ IF relay[i].state = "open" THEN Closes(i, Tail(down[i]))
            ELSE /\ relay' = relay /\ app' = app
                 /\ \A k \in Relays : down'[k] = IF k = i THEN Tail(down[k]) ELSE down[k]
<1>1. down[i] # << >> /\ Head(down[i]).kind = "destroy"
    BY DEF destroyCircuitByKey, Arrives
<1>2. Holds(down[i], "destroy")
    BY <1>1, HoldsTail, RelayFields DEF CircuitInv
<1>3. CASE relay[i].state = "open"
    BY <1>1, <1>2, <1>3, ClosesEffect DEF destroyCircuitByKey
<1>4. CASE relay[i].state # "open"
    <2>1. down \in Links
        BY DEF CircuitInv, CircuitTypeOK, Links
    <2> QED BY <1>1, <1>2, <1>4, <2>1, TakenAt DEF destroyCircuitByKey
<1> QED BY <1>3, <1>4

(* A relay cell for a circuit that is not open is dropped and changes no   *)
(* counter.                                                                *)
LEMMA RejectedEffect ==
  ASSUME CircuitInv, NEW i \in Relays, forwardRejected(i)
  PROVE  /\ down[i] # << >> /\ Head(down[i]).kind = "relay" /\ relay[i].state # "open"
         /\ relay' = relay /\ app' = app
         /\ \A k \in Relays : down'[k] = IF k = i THEN Tail(down[k]) ELSE down[k]
<1>1. down \in Links
    BY DEF CircuitInv, CircuitTypeOK, Links
<1>2. /\ down[i] # << >> /\ Head(down[i]).kind = "relay" /\ relay[i].state # "open"
      /\ relay' = relay /\ app' = app /\ down' = Taken(down, i)
    BY NeverRejected DEF forwardRejected, Arrives
<1> QED BY <1>1, <1>2, TakenAt

(* An answer to create is the only cell on its link.                       *)
LEMMA CreatedEffect ==
  ASSUME CircuitInv, NEW i \in Relays, handleCircuitCreated(i)
  PROVE  /\ i < Hops /\ i + 1 \in Relays /\ up[i + 1] # << >> /\ Head(up[i + 1]).kind = "created"
         /\ \A k \in Relays : up'[k] = IF k = i + 1 THEN << >> ELSE up[k]
         /\ relay[i + 1].state # "none" /\ ~Holds(down[i + 1], "create")
         /\ IF relay[i].extension = "waiting"
            THEN Becomes(i, relay[i].state, relay[i].fwdSeq, relay[i].revSeq, relay[i].outgoing,
                         relay[i].relayOut, "answered")
            ELSE relay' = relay
<1> CircuitTypeOK
    BY DEF CircuitInv
<1>1. i < Hops /\ i + 1 \in Relays /\ up[i + 1] # << >> /\ Head(up[i + 1]).kind = "created"
      /\ up \in Links
    <2>1. i < Hops /\ up[i + 1] # << >> /\ Head(up[i + 1]).kind = "created"
        BY DEF handleCircuitCreated
    <2> QED BY <2>1, Ranges DEF Relays, CircuitTypeOK, Links
<1>2. up[i + 1] \in Seq(Cells) /\ Holds(up[i + 1], "created")
    BY <1>1, RelayFields, HoldsTail
<1>3. Len(up[i + 1]) = 1 /\ ~Holds(down[i + 1], "create") /\ relay[i + 1].state # "none"
    BY <1>1, <1>2 DEF CircuitInv, Making
<1>4. Tail(up[i + 1]) = << >>
    BY <1>1, <1>2, <1>3, LinkLast
<1>5. \A k \in Relays : up'[k] = IF k = i + 1 THEN << >> ELSE up[k]
    BY <1>1, <1>4, TakenAt, ZenonT(40) DEF handleCircuitCreated
<1>6. CASE relay[i].extension = "waiting"
    <2>1. relay' = [relay EXCEPT ![i] = [relay[i] EXCEPT !.extension = "answered"]]
        BY <1>6 DEF handleCircuitCreated
    <2>2. /\ relay'[i] = [relay[i] EXCEPT !.extension = "answered"]
          /\ \A k \in Relays : k # i => relay'[k] = relay[k]
        BY <2>1, Replaced
    <2>3. relay[i] \in RelayCircuits
        BY RelayFields
    <2>4. Becomes(i, relay[i].state, relay[i].fwdSeq, relay[i].revSeq, relay[i].outgoing,
                  relay[i].relayOut, "answered")
        BY <2>2, <2>3 DEF Becomes, RelayCircuits
    <2> QED BY <1>1, <1>3, <1>5, <1>6, <2>4
<1>7. CASE relay[i].extension # "waiting"
    BY <1>1, <1>3, <1>5, <1>7 DEF handleCircuitCreated
<1> QED BY <1>6, <1>7

(* A reverse cell comes from a relay on the path and gets the next number. *)
LEMMA ReverseEffect ==
  ASSUME CircuitInv, NEW i \in Relays, handleCircuitReverse(i)
  PROVE  /\ i < Hops /\ i + 1 \in Relays /\ i + 1 \in 1..hops /\ i \in 1..hops
         /\ up[i + 1] # << >> /\ Head(up[i + 1]).kind = "relay" /\ Head(up[i + 1]) \in Cells
         /\ sending[i]["out"] = NoCell
         /\ \A k \in Relays : up'[k] = IF k = i + 1 THEN Tail(up[k]) ELSE up[k]
         /\ IF relay[i].relayOut /\ relay[i].state = "open"
            THEN /\ Counts(i, relay[i].fwdSeq, relay[i].revSeq + 1)
                 /\ sending'[i]["out"] = Relay(<<relay[i].revSeq>> \o Head(up[i + 1]).layers,
                                               Head(up[i + 1]).cmd, Head(up[i + 1]).n)
                 /\ \A h \in Goroutines : h # "out" => sending'[i][h] = sending[i][h]
                 /\ \A k \in Relays : k # i => sending'[k] = sending[k]
            ELSE relay' = relay /\ sending' = sending
<1> CircuitTypeOK
    BY DEF CircuitInv
<1>1. i < Hops /\ i + 1 \in Relays /\ up[i + 1] # << >> /\ Head(up[i + 1]).kind = "relay"
      /\ up \in Links /\ sending[i]["out"] = NoCell
    BY Ranges DEF handleCircuitReverse, Relays, CircuitTypeOK, Links
<1>2. up[i + 1] \in Seq(Cells) /\ Holds(up[i + 1], "relay") /\ Head(up[i + 1]) \in Cells
    BY <1>1, RelayFields, HoldsTail, LinkTail
<1>3. i + 1 \in 1..hops /\ i \in 1..hops
    BY <1>1, <1>2, Ranges DEF CircuitInv, Making
<1>4. \A k \in Relays : up'[k] = IF k = i + 1 THEN Tail(up[k]) ELSE up[k]
    BY <1>1, TakenAt DEF handleCircuitReverse
<1>5. CASE relay[i].relayOut /\ relay[i].state = "open"
    <2>1. Numbered(i, "out", relay[i], Head(up[i + 1]).layers, Head(up[i + 1]).cmd, Head(up[i + 1]).n)
        BY <1>5 DEF handleCircuitReverse
    <2>2. "out" \in Goroutines /\ relay[i] \in RelayCircuits
        BY RelayFields DEF Goroutines
    <2>3. /\ Becomes(i, relay[i].state, relay[i].fwdSeq, relay[i].revSeq + 1, relay[i].outgoing,
                     relay[i].relayOut, relay[i].extension)
          /\ sending'[i]["out"] = Relay(<<relay[i].revSeq>> \o Head(up[i + 1]).layers,
                                        Head(up[i + 1]).cmd, Head(up[i + 1]).n)
          /\ \A h \in Goroutines : h # "out" => sending'[i][h] = sending[i][h]
          /\ \A k \in Relays : k # i => sending'[k] = sending[k]
        BY <2>1, <2>2, NumberedEffect
    <2> QED BY <1>1, <1>2, <1>3, <1>4, <1>5, <2>3 DEF Counts
<1>6. CASE ~(relay[i].relayOut /\ relay[i].state = "open")
    BY <1>1, <1>2, <1>3, <1>4, <1>6 DEF handleCircuitReverse
<1> QED BY <1>5, <1>6

(* The extension goes on once answered, unless the circuit was closed      *)
(* meanwhile.                                                              *)
LEMMA AnsweredEffect ==
  ASSUME CircuitInv, NEW i \in Relays, extendAnswered(i)
  PROVE  /\ relay[i].extension = "answered" /\ relay[i].revSeq = 0
         /\ IF relay[i].state = "closed"
            THEN Becomes(i, relay[i].state, relay[i].fwdSeq, relay[i].revSeq, relay[i].outgoing,
                         relay[i].relayOut, "abandoned")
            ELSE Becomes(i, relay[i].state, relay[i].fwdSeq, relay[i].revSeq, TRUE,
                         relay[i].relayOut, "linking")
<1> CircuitTypeOK
    BY DEF CircuitInv
<1>1. relay[i].extension = "answered"
    BY DEF extendAnswered
<1>2. relay[i].revSeq = 0
    BY <1>1 DEF CircuitInv, Grown
<1>3. relay[i] \in RelayCircuits
    BY RelayFields
<1>4. CASE relay[i].state = "closed"
    <2>1. relay' = [relay EXCEPT ![i] = [relay[i] EXCEPT !.extension = "abandoned"]]
        BY <1>4 DEF extendAnswered
    <2>2. /\ relay'[i] = [relay[i] EXCEPT !.extension = "abandoned"]
          /\ \A k \in Relays : k # i => relay'[k] = relay[k]
        BY <2>1, Replaced
    <2>3. Becomes(i, relay[i].state, relay[i].fwdSeq, relay[i].revSeq, relay[i].outgoing,
                  relay[i].relayOut, "abandoned")
        BY <1>3, <2>2 DEF Becomes, RelayCircuits
    <2> QED BY <1>1, <1>2, <1>4, <2>3
<1>5. CASE relay[i].state # "closed"
    <2>1. relay' = [relay EXCEPT ![i] = [relay[i] EXCEPT !.extension = "linking", !.outgoing = TRUE]]
        BY <1>5 DEF extendAnswered
    <2>2. /\ relay'[i] = [relay[i] EXCEPT !.extension = "linking", !.outgoing = TRUE]
          /\ \A k \in Relays : k # i => relay'[k] = relay[k]
        BY <2>1, Replaced
    <2>3. Becomes(i, relay[i].state, relay[i].fwdSeq, relay[i].revSeq, TRUE,
                  relay[i].relayOut, "linking")
        BY <1>3, <2>2 DEF Becomes, RelayCircuits
    <2> QED BY <1>1, <1>2, <1>5, <2>3
<1> QED BY <1>4, <1>5

(* The goroutine of extendCircuit sends its last word, if the circuit is   *)
(* open.                                                                   *)
LastWord(i, cmd, rout, ext) ==
  /\ relay[i].revSeq = 0 /\ i = hops /\ i < Hops
  /\ IF relay[i].state = "open"
     THEN /\ Becomes(i, relay[i].state, relay[i].fwdSeq, 1, relay[i].outgoing, rout, ext)
          /\ sending'[i]["extend"] = Relay(<< 0 >> \o << >>, cmd, 0)
          /\ \A h \in Goroutines : h # "extend" => sending'[i][h] = sending[i][h]
          /\ \A k \in Relays : k # i => sending'[k] = sending[k]
     ELSE /\ Becomes(i, relay[i].state, relay[i].fwdSeq, 0, relay[i].outgoing, rout, ext)
          /\ sending' = sending

(* An extension ends with at most one reverse cell, number 0.              *)
LEMMA LastWordEffect ==
  ASSUME CircuitInv, NEW i \in Relays, NEW cmd, NEW rc \in RelayCircuits,
         relay[i].extension \in {"waiting", "answered", "linking"},
         rc.state = relay[i].state, rc.fwdSeq = relay[i].fwdSeq, rc.revSeq = relay[i].revSeq,
         rc.outgoing = relay[i].outgoing,
         IF rc.state = "open" THEN Numbered(i, "extend", rc, << >>, cmd, 0)
         ELSE relay' = [relay EXCEPT ![i] = rc] /\ UNCHANGED sending
  PROVE  LastWord(i, cmd, rc.relayOut, rc.extension)
<1> CircuitTypeOK
    BY DEF CircuitInv
<1>1. relay[i].revSeq = 0 /\ i < Hops /\ i <= hops /\ ~(i < hops)
    BY DEF CircuitInv, Grown
<1>2. i = hops
    BY <1>1, Ranges
<1>3. CASE rc.state = "open"
    <2>1. "extend" \in Goroutines
        BY DEF Goroutines
    <2>2. /\ Becomes(i, rc.state, rc.fwdSeq, rc.revSeq + 1, rc.outgoing, rc.relayOut, rc.extension)
          /\ sending'[i]["extend"] = Relay(<<rc.revSeq>> \o << >>, cmd, 0)
          /\ \A h \in Goroutines : h # "extend" => sending'[i][h] = sending[i][h]
          /\ \A k \in Relays : k # i => sending'[k] = sending[k]
        BY <1>3, <2>1, NumberedEffect
    <2> QED BY <1>1, <1>2, <1>3, <2>2 DEF LastWord, Becomes
<1>4. CASE rc.state # "open"
    <2>1. relay'[i] = rc /\ \A k \in Relays : k # i => relay'[k] = relay[k]
        BY <1>4, Replaced
    <2> QED BY <1>1, <1>2, <1>4, <2>1 DEF LastWord, Becomes
<1> QED BY <1>3, <1>4

(* The successful end of an extension.                                     *)
LEMMA LinkedEffect ==
  ASSUME CircuitInv, NEW i \in Relays, extendLinked(i)
  PROVE  relay[i].extension = "linking" /\ LastWord(i, "extended", TRUE, "linked")
<1> DEFINE rc == [relay[i] EXCEPT !.extension = "linked", !.relayOut = TRUE]
<1>1. relay[i] \in RelayCircuits /\ relay[i].extension = "linking"
    BY RelayFields DEF CircuitInv, extendLinked
<1>2. /\ rc \in RelayCircuits /\ rc.state = relay[i].state /\ rc.fwdSeq = relay[i].fwdSeq
      /\ rc.revSeq = relay[i].revSeq /\ rc.outgoing = relay[i].outgoing
      /\ rc.relayOut = TRUE /\ rc.extension = "linked"
    BY <1>1 DEF RelayCircuits
<1>3. IF rc.state = "open" THEN Numbered(i, "extend", rc, << >>, "extended", 0)
      ELSE relay' = [relay EXCEPT ![i] = rc] /\ UNCHANGED sending
    BY DEF extendLinked
<1> HIDE DEF rc
<1>4. LastWord(i, "extended", rc.relayOut, rc.extension)
    BY <1>1, <1>2, <1>3, LastWordEffect
<1> QED BY <1>1, <1>2, <1>4

(* The end of an extension that was not answered in time.                  *)
LEMMA TimesOutEffect ==
  ASSUME CircuitInv, NEW i \in Relays, extendTimesOut(i)
  PROVE  /\ relay[i].extension \in {"waiting", "answered"}
         /\ LastWord(i, "openError", relay[i].relayOut, "abandoned")
<1> DEFINE rc == [relay[i] EXCEPT !.extension = "abandoned"]
<1>1. relay[i] \in RelayCircuits /\ relay[i].extension \in {"waiting", "answered"}
    BY RelayFields DEF CircuitInv, extendTimesOut
<1>2. /\ rc \in RelayCircuits /\ rc.state = relay[i].state /\ rc.fwdSeq = relay[i].fwdSeq
      /\ rc.revSeq = relay[i].revSeq /\ rc.outgoing = relay[i].outgoing
      /\ rc.relayOut = relay[i].relayOut /\ rc.extension = "abandoned"
    BY <1>1 DEF RelayCircuits
<1>3. IF rc.state = "open" THEN Numbered(i, "extend", rc, << >>, "openError", 0)
      ELSE relay' = [relay EXCEPT ![i] = rc] /\ UNCHANGED sending
    BY DEF extendTimesOut
<1> HIDE DEF rc
<1>4. LastWord(i, "openError", rc.relayOut, rc.extension)
    BY <1>1, <1>2, <1>3, LastWordEffect
<1> QED BY <1>1, <1>2, <1>4

(* The pump numbers the next piece of the answer.                          *)
LEMMA PumpReadsEffect ==
  ASSUME CircuitInv, pumpReads
  PROVE  /\ app = "open" /\ pump = "running" /\ sending[Hops]["pump"] = NoCell
         /\ relay[Hops].revSeq = answered + 1
         /\ Counts(Hops, relay[Hops].fwdSeq, relay[Hops].revSeq + 1)
         /\ sending'[Hops]["pump"] = Relay(<<relay[Hops].revSeq>> \o << >>, "data", answered + 1)
         /\ \A h \in Goroutines : h # "pump" => sending'[Hops][h] = sending[Hops][h]
         /\ \A k \in Relays : k # Hops => sending'[k] = sending[k]
<1> CircuitTypeOK
    BY DEF CircuitInv
<1>1. app = "open" /\ pump = "running" /\ sending[Hops]["pump"] = NoCell
    BY DEF pumpReads
<1>2. relay[Hops].revSeq = answered + 1
    BY <1>1 DEF CircuitInv, Service
<1>3. "pump" \in Goroutines /\ Hops \in Relays /\ relay[Hops] \in RelayCircuits
    BY Ranges, RelayFields DEF Goroutines
<1>4. Numbered(Hops, "pump", relay[Hops], << >>, "data", answered + 1)
    BY DEF pumpReads
<1>5. /\ Becomes(Hops, relay[Hops].state, relay[Hops].fwdSeq, relay[Hops].revSeq + 1,
                 relay[Hops].outgoing, relay[Hops].relayOut, relay[Hops].extension)
      /\ sending'[Hops]["pump"] = Relay(<<relay[Hops].revSeq>> \o << >>, "data", answered + 1)
      /\ \A h \in Goroutines : h # "pump" => sending'[Hops][h] = sending[Hops][h]
      /\ \A k \in Relays : k # Hops => sending'[k] = sending[k]
    BY <1>3, <1>4, NumberedEffect
<1> QED BY <1>1, <1>2, <1>5 DEF Counts

(* The pump's last cell is the close, sent while the circuit is open.      *)
LEMMA PumpEndsEffect ==
  ASSUME CircuitInv, pumpEnds
  PROVE  /\ app \in {"ended", "closed"} /\ pump = "running" /\ sending[Hops]["pump"] = NoCell
         /\ relay[Hops].revSeq = answered + 1
         /\ IF relay[Hops].state = "open"
            THEN /\ Counts(Hops, relay[Hops].fwdSeq, relay[Hops].revSeq + 1)
                 /\ sending'[Hops]["pump"] = Relay(<<relay[Hops].revSeq>> \o << >>, "close", 0)
                 /\ \A h \in Goroutines : h # "pump" => sending'[Hops][h] = sending[Hops][h]
                 /\ \A k \in Relays : k # Hops => sending'[k] = sending[k]
                 /\ pump' = pump
            ELSE pump' = "ended" /\ relay' = relay /\ sending' = sending
<1> CircuitTypeOK
    BY DEF CircuitInv
<1>1. app # "open" /\ pump = "running" /\ sending[Hops]["pump"] = NoCell
    BY DEF pumpEnds
<1>2. relay[Hops].revSeq = answered + 1
    BY <1>1 DEF CircuitInv, Service
<1>3. app \in {"ended", "closed"}
    BY <1>1 DEF CircuitInv, Service, CircuitTypeOK
<1>4. "pump" \in Goroutines /\ Hops \in Relays /\ relay[Hops] \in RelayCircuits
    BY Ranges, RelayFields DEF Goroutines
<1>5. CASE relay[Hops].state = "open"
    <2>1. Numbered(Hops, "pump", relay[Hops], << >>, "close", 0) /\ pump' = pump
        BY <1>5 DEF pumpEnds
    <2>2. /\ Becomes(Hops, relay[Hops].state, relay[Hops].fwdSeq, relay[Hops].revSeq + 1,
                     relay[Hops].outgoing, relay[Hops].relayOut, relay[Hops].extension)
          /\ sending'[Hops]["pump"] = Relay(<<relay[Hops].revSeq>> \o << >>, "close", 0)
          /\ \A h \in Goroutines : h # "pump" => sending'[Hops][h] = sending[Hops][h]
          /\ \A k \in Relays : k # Hops => sending'[k] = sending[k]
        BY <1>4, <2>1, NumberedEffect
    <2> QED BY <1>1, <1>2, <1>3, <1>5, <2>1, <2>2 DEF Counts
<1>6. CASE relay[Hops].state # "open"
    BY <1>1, <1>2, <1>3, <1>6 DEF pumpEnds
<1> QED BY <1>5, <1>6

(* The client takes the answer it waits for.                               *)
LEMMA AnswerTaken ==
  ASSUME CircuitInv, waitAnswered
  PROVE  /\ Waiting /\ responses # << >> /\ Head(responses).cmd = pc
         /\ responses' = Tail(responses)
         /\ pc = "openOK" => hops = Hops /\ Answer("openOK", Head(responses).n, 0) /\ pump # "none"
         /\ pc # "openOK" =>
              /\ pc \in {"created", "extended"} /\ hops < Hops /\ hops' = hops + 1
              /\ pc' = IF hops + 1 < Hops THEN "extended" ELSE "openOK"
              /\ sendSeq' = Advanced(sendSeq, hops + 1)
              /\ down' = Sent(down, 1, Wrapped(hops + 1,
                                   IF hops + 1 < Hops THEN "extend" ELSE "open", 0))
         /\ pc = "openOK" => /\ pc' = IF registered THEN "stream" ELSE "stopped"
                             /\ UNCHANGED <<hops, sendSeq, down>>
<1>1. Waiting /\ responses # << >> /\ Head(responses).cmd \notin {"openError", "error"}
      /\ responses' = Tail(responses)
    BY DEF waitAnswered
<1>2. Head(responses).cmd = pc
    BY <1>1, ResponseHead
<1>3. Hops \in Nat /\ Hops >= 1 /\ hops \in Nat /\ hops <= Hops /\ Stage /\ answered \in Nat
    BY Ranges DEF CircuitInv
<1>4. CASE pc = "openOK"
    <2>1. hops = Hops /\ pc' = (IF registered THEN "stream" ELSE "stopped")
          /\ UNCHANGED <<hops, sendSeq, down>>
        BY <1>2, <1>3, <1>4 DEF Stage, waitAnswered
    <2>2. Answer("openOK", Head(responses).n, 0)
        BY <1>1, <1>2, <1>3, <1>4, <2>1, ResponseHead
    <2>3. pump # "none"
        BY <1>3, <2>1, <2>2 DEF Answer
    <2> QED BY <1>1, <1>2, <1>4, <2>1, <2>2, <2>3
<1>5. CASE pc # "openOK"
    <2>1. pc \in {"created", "extended"} /\ hops < Hops
        BY <1>1, <1>3, <1>5 DEF Waiting, Stage
    <2> QED BY <1>1, <1>2, <1>5, <2>1 DEF waitAnswered
<1> QED BY <1>4, <1>5

(* A hop is added: everything sent before has arrived, and has been        *)
(* answered.                                                               *)
LEMMA HopAdded ==
  ASSUME CircuitInv, waitAnswered, pc # "openOK"
  PROVE  /\ hops \in Nat /\ hops < Hops /\ hops' = hops + 1 /\ hops + 1 \in Relays
         /\ responses' = << >> /\ Total = (IF hops = 0 THEN 0 ELSE 1) /\ Total' = 1
         /\ relay' = relay /\ recvSeq' = recvSeq /\ registered' = registered
         /\ \A k \in Relays : k > hops => relay[k].fwdSeq = 0 /\ relay[k].revSeq = 0
         /\ hops >= 1 => /\ recvSeq[hops] = 1 /\ relay[hops].extension = "linked"
                         /\ relay[hops].revSeq = 1 /\ relay[hops].fwdSeq >= 1
         /\ \A i \in 1..hops : Passed(i) = 1
         /\ registered => \A k \in 1..hops : Returned(k) = 1
<1>1. /\ Waiting /\ responses # << >> /\ Head(responses).cmd = pc /\ responses' = Tail(responses)
      /\ pc \in {"created", "extended"} /\ hops < Hops /\ hops' = hops + 1
      /\ pc' = IF hops + 1 < Hops THEN "extended" ELSE "openOK"
    BY AnswerTaken
<1>2. /\ Hops \in Nat /\ Hops >= 1 /\ hops \in Nat /\ hops <= Hops /\ hops + 1 \in Relays
      /\ written \in Nat /\ \A k \in 1..hops : k \in Relays
    BY <1>1, Ranges DEF Relays
<1>3. /\ Stage /\ Queued /\ \A i \in Relays : Grown(i)
    BY DEF CircuitInv
<1>4. relay' = relay /\ recvSeq' = recvSeq /\ registered' = registered /\ written' = written
    BY DEF waitAnswered
<1>5. written = 0
    BY <1>1, <1>3 DEF Stage
<1>6. Total = (IF hops = 0 THEN 0 ELSE 1)
    BY <1>1 DEF Total
<1>7. Total' = 1
    <2>1. Total' = IF hops + 1 = 0 THEN 0 ELSE IF hops + 1 < Hops THEN 1
                   ELSE 0 + (IF pc' = "closed" THEN 2 ELSE 1)
        BY <1>1, <1>4, <1>5 DEF Total
    <2>2. hops + 1 # 0 /\ pc' # "closed" /\ 0 + 1 = 1
        BY <1>1, <1>2
    <2> QED BY <2>1, <2>2
<1>8. \A k \in Relays : relay[k].fwdSeq \in Nat /\ relay[k].revSeq \in Nat /\ k \in Nat
    BY RelayFields, Ranges DEF CircuitInv
<1>9. \A k \in Relays : k > hops => relay[k].fwdSeq = 0 /\ relay[k].revSeq = 0
    BY <1>2, <1>3, <1>8 DEF Grown
<1>10. responses \in Seq(Responses) /\ Len(responses) \in Nat /\ Len(responses) >= 1
    BY <1>1, ResponseHead DEF CircuitInv, CircuitTypeOK
<1>11. ASSUME hops >= 1
       PROVE  /\ recvSeq[hops] = 1 /\ relay[hops].extension = "linked" /\ Len(responses) = 1
              /\ relay[hops].revSeq = 1 /\ relay[hops].fwdSeq >= 1
    <2>1. hops \in Relays /\ recvSeq[hops] \in Nat
        BY <1>2, <1>11 DEF Relays, CircuitInv, CircuitTypeOK
    <2>2. recvSeq[hops] = Len(responses) /\ recvSeq[hops] <= relay[hops].revSeq
        BY <1>1, <1>3, <1>11 DEF Queued
    <2>3. relay[hops].revSeq <= 1
        BY <1>1, <1>3, <2>1 DEF Grown
    <2>4. relay[hops].revSeq = 1 /\ recvSeq[hops] = 1 /\ Len(responses) = 1
        <3> DEFINE a == relay[hops].revSeq
                   b == recvSeq[hops]
                   c == Len(responses)
        <3>1. a \in Nat /\ b \in Nat /\ c \in Nat /\ c >= 1 /\ b = c /\ b <= a /\ a <= 1
            BY <1>8, <1>10, <2>1, <2>2, <2>3
        <3> HIDE DEF a, b, c
        <3>2. a = 1 /\ b = 1 /\ c = 1
            BY <3>1
        <3> QED BY <3>2 DEF a, b, c
    <2>5. pc = "extended" /\ Answer("extended", Head(responses).n, 0)
        BY <1>1, <1>3, <1>11, ResponseHead DEF Stage
    <2>6. relay[hops].extension = "linked"
        BY <1>1, <2>5 DEF Answer
    <2>7. relay[hops].fwdSeq >= 1
        BY <1>3, <2>1, <2>6 DEF Grown
    <2> QED BY <2>4, <2>6, <2>7
<1>12. responses' = << >>
    <2>1. Len(responses) = 1
        <3>1. CASE hops = 0
            BY <1>1, <3>1, ResponseHead
        <3>2. CASE hops >= 1
            BY <1>11, <3>2
        <3> QED BY <1>2, <3>1, <3>2
    <2> QED BY <1>1, <1>10, <2>1, LinkLast
<1>13. ASSUME NEW i \in 1..hops PROVE Passed(i) = 1
    <2>1. i \in 0..hops /\ hops \in 0..hops /\ 0 \in 0..hops /\ 0 <= i /\ i <= hops /\ hops >= 1
          /\ hops # 0 /\ hops \in Relays
        BY <1>2 DEF Relays
    <2>2. Passed(hops) <= Passed(i) /\ Passed(i) <= Passed(0) /\ Passed(i) \in Nat
        BY <2>1, Positions DEF CircuitInv, ForwardOrder
    <2>3. Passed(0) = 1
        BY <1>6, <2>1 DEF Passed
    <2>4. Passed(hops) = relay[hops].fwdSeq + hops - hops
        BY <2>1 DEF Passed
    <2>5. Passed(hops) >= 1
        BY <1>2, <1>8, <1>11, <2>1, <2>4
    <2>6. Passed(hops) \in Nat
        BY <2>1, Positions
    <2> QED BY <2>2, <2>3, <2>5, <2>6
<1>14. ASSUME registered, NEW k \in 1..hops PROVE Returned(k) = 1
    <2>1. k \in 0..hops /\ hops \in 0..hops /\ 0 \in 0..hops /\ 0 <= k /\ k <= hops /\ hops >= 1
          /\ hops # 0 /\ hops \in Relays /\ k \in Nat /\ k # 0 /\ k \in Relays
        BY <1>2 DEF Relays
    <2>2. Returned(0) <= Returned(k) /\ Returned(k) <= Returned(hops)
        BY <1>14, <2>1 DEF CircuitInv, Returning
    <2>3. Returned(0) = 1
        BY <1>11, <2>1 DEF Returned
    <2>4. Returned(hops) = relay[hops].revSeq + hops - hops /\ Returned(k) = relay[k].revSeq + k - hops
        BY <2>1 DEF Returned
    <2>5. Returned(hops) = 1 /\ Returned(k) \in Int
        BY <1>2, <1>8, <1>11, <2>1, <2>4
    <2> QED BY <2>2, <2>3, <2>5
<1> QED BY <1>1, <1>2, <1>4, <1>6, <1>7, <1>9, <1>11, <1>12, <1>13, <1>14
=============================================================================
