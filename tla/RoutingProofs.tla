---------------------------- MODULE RoutingProofs ----------------------------
(***************************************************************************)
(* Proofs about how a node knows where to send: the advertisements it      *)
(* makes and floods (LinkState), for every set of nodes, goroutines and    *)
(* budgets, and the routes it computes from a table of them (Router), for  *)
(* every set of identities and every table.  The two specifications share  *)
(* no variable.                                                            *)
(***************************************************************************)
EXTENDS LinkState, Router, FiniteSetTheorems, SequenceTheorems, WellFoundedInduction, TLAPS

-----------------------------------------------------------------------------
(* The inductive invariant, part by part.                                  *)

Counters ==
    \A n \in Nodes :
        /\ link[n][n] = "none"
        /\ latest[n].origin = n
        /\ latest[n].stamp <= signed[n]
        /\ sequence[n] <= signed[n]
        /\ expired[n] < latest[n].stamp
        /\ NeverRestarted(n) => latest[n].sequence = latest[n].stamp

(* A numbered advertisement whose peers are still to be read.              *)
Drafts ==
    \A n \in Nodes, w \in Workers :
        worker[n][w].pc = "read" =>
            /\ worker[n][w].lsa.origin = n
            /\ worker[n][w].lsa.stamp <= signed[n]
            /\ worker[n][w].lsa.stamp # latest[n].stamp
            /\ NeverRestarted(n) => worker[n][w].lsa.sequence = worker[n][w].lsa.stamp
            /\ \A v \in Workers :
                 v # w /\ worker[n][v].pc = "read"
                 => worker[n][v].lsa.stamp # worker[n][w].lsa.stamp

(* While latest is not the newest number, or misses a change of the map,   *)
(* a goroutine is on its way to replace it.                                *)
Due(n) ==
    latest[n].stamp < signed[n] \/ latest[n].links # peers(n)
    => \E w \in Workers :
         \/ worker[n][w].pc = "number"
         \/ /\ worker[n][w].pc = "read"
            /\ worker[n][w].lsa.stamp = signed[n]
            /\ latest[n].stamp < signed[n]

EmissionDue == \A n \in Nodes : Due(n)

(* The part that concerns one node's emissions, inductive by itself.       *)
EmissionInv ==
    /\ TypeOK
    /\ Counters
    /\ Drafts
    /\ EmissionDue

-----------------------------------------------------------------------------
(* What is signed: x comes of the current process of its origin.           *)
Current(x) == x.stamp + sequence[x.origin] > signed[x.origin]

(* The numbers of a process are consecutive, and follow the stamps.        *)
Numbered(x) ==
    /\ x.stamp > 0
    /\ Current(x) => x.sequence + signed[x.origin] = x.stamp + sequence[x.origin]

(* Where an advertisement can be: in a table, in the hands of a reader, on *)
(* a connection, in the hands of the goroutine that has signed it.         *)
Held(x) == \E a, b \in Nodes : x = lsas[a][b] /\ x # None

Taken(x) == \E a, b \in Nodes : x = reader[a][b] /\ x # None

Sent(x) == \E a, b, o \in Nodes : x \in Frames(wire[a][b][o])

Made(x) == \E a \in Nodes, w \in Workers :
               worker[a][w].pc \in {"store", "flood"} /\ x = worker[a][w].lsa

Exists(x) == Held(x) \/ Taken(x) \/ Sent(x) \/ Made(x)

(* No advertisement is newer than latest, and two of one stamp are one.    *)
Genuine ==
    /\ \A x : Exists(x) => Numbered(x) /\ x.stamp <= latest[x.origin].stamp
    /\ \A n \in Nodes : Numbered(latest[n])
    /\ \A x : Exists(x) /\ x.stamp = latest[x.origin].stamp => x = latest[x.origin]
    /\ \A x, y : Exists(x) /\ Exists(y) /\ x.origin = y.origin /\ x.stamp = y.stamp => x = y

(* A draft will be an advertisement of a new stamp.                        *)
Unused ==
    \A n \in Nodes, w \in Workers :
        worker[n][w].pc = "read" =>
            /\ Numbered(worker[n][w].lsa) /\ Current(worker[n][w].lsa)
            /\ \A x : Exists(x) /\ x.origin = n => x.stamp # worker[n][w].lsa.stamp

(* Advertisements are kept, sent and made under their origin.              *)
Filed ==
    /\ \A n, o \in Nodes : lsas[n][o] # None => lsas[n][o].origin = o
    /\ \A n, m, o \in Nodes : \A x \in Frames(wire[n][m][o]) : x.origin = o
    /\ \A n \in Nodes, w \in Workers : worker[n][w].pc \in {"store", "flood"} => worker[n][w].lsa.origin = n

-----------------------------------------------------------------------------
(* How far latest has got on a connection of n with m.                     *)
Underway(n) ==
    \E w \in Workers :
      \/ worker[n][w].pc = "number"
      \/ worker[n][w].pc = "read" /\ worker[n][w].lsa.stamp > latest[n].stamp
      \/ worker[n][w].pc \in {"store", "flood"} /\ worker[n][w].lsa = latest[n]

Settled(n, m) ==
    \/ lsas[m][n] = latest[n]
    \/ /\ lsas[m][n] # None /\ ~Current(lsas[m][n])
       /\ lsas[m][n].sequence >= latest[n].sequence
    \/ /\ lsas[m][n] = None \/ lsas[m][n].sequence < latest[n].sequence
       /\ expired[n] > 0 /\ ~NeverRestarted(n)

(* A process that has not numbered anything is about to.                   *)
Starting ==
    \A n \in Nodes : sequence[n] = 0 => \E w \in Workers : worker[n][w].pc = "number"

Progress ==
    \A n, m \in Nodes :
        link[n][m] = "up" /\ ~Broken(n, m) =>
            Underway(n) \/ latest[n] \in Frames(wire[n][m][n]) \/ Settled(n, m)

-----------------------------------------------------------------------------
(* What is relayed: m holds an advertisement of o no older than stamp k.   *)
Has(m, o, k) == lsas[m][o] # None /\ lsas[m][o].stamp >= k

(* A node has what it is about to flood, and what it has written on a      *)
(* connection that lives.                                                  *)
Sources ==
    \A m, o \in Nodes : m # o /\ NeverRestarted(o) =>
       /\ \A x \in Nodes :
            reader[m][x] # None /\ reader[m][x].origin = o /\ reader[m][x].stamp > expired[o]
            => Has(m, o, reader[m][x].stamp)
       /\ \A n \in Nodes : link[n][m] # "none" /\ ~Broken(n, m) =>
            \A x \in Frames(wire[m][n][o]) : x.stamp > expired[o] => Has(m, o, x.stamp)

(* What n holds of o is to be sent to m, sent, or held by m.               *)
Relayed ==
    \A n, m \in Nodes : \A o \in Nodes \ {n, m} :
       (/\ link[n][m] = "up" /\ ~Broken(n, m) /\ NeverRestarted(o)
        /\ lsas[n][o] # None /\ lsas[n][o].stamp > expired[o])
       => \/ \E w \in Workers : worker[n][w].to = m
          \/ \E x \in Nodes \ {m} : reader[n][x] = lsas[n][o]
          \/ \E x \in Frames(wire[n][m][o]) : x.stamp >= lsas[n][o].stamp
          \/ Has(m, o, lsas[n][o].stamp)

-----------------------------------------------------------------------------
(* Frames of a connection.                                                 *)
LEMMA FramesAppend ==
    ASSUME NEW T, NEW s \in Seq(T), NEW e \in T
    PROVE  /\ Append(s, e) \in Seq(T)
           /\ Frames(Append(s, e)) = Frames(s) \cup {e}
<1>1. Append(s, e) \in Seq(T) /\ Len(Append(s, e)) = Len(s) + 1
      /\ \A i \in 1..Len(s) : Append(s, e)[i] = s[i]
      /\ Append(s, e)[Len(s) + 1] = e
    OBVIOUS
<1>2. Len(s) \in Nat
    OBVIOUS
<1>3. ASSUME NEW x PROVE x \in Frames(Append(s, e)) <=> x \in Frames(s) \cup {e}
    BY <1>1, <1>2 DEF Frames
<1> QED BY <1>1, <1>3

(* Reading a frame leaves the others.                                      *)
LEMMA FramesTail ==
    ASSUME NEW T, NEW s \in Seq(T), s # << >>
    PROVE  /\ Head(s) \in T
           /\ Tail(s) \in Seq(T)
           /\ Frames(s) = {Head(s)} \cup Frames(Tail(s))
<1>1. Len(s) \in Nat /\ Len(s) > 0 /\ Head(s) = s[1] /\ Head(s) \in T
    OBVIOUS
<1>2. Tail(s) \in Seq(T) /\ Len(Tail(s)) = Len(s) - 1
      /\ \A i \in 1..(Len(s) - 1) : Tail(s)[i] = s[i + 1]
    BY <1>1
<1>3. ASSUME NEW x, x \in Frames(s) PROVE x = Head(s) \/ x \in Frames(Tail(s))
    <2>1. PICK i \in 1..Len(s) : x = s[i]
        BY <1>3 DEF Frames
    <2>2. CASE i = 1
        BY <2>1, <2>2, <1>1
    <2>3. CASE i # 1
        <3>1. i - 1 \in 1..(Len(s) - 1) /\ Tail(s)[i - 1] = s[i]
            BY <2>1, <2>3, <1>1, <1>2
        <3> QED BY <3>1, <2>1, <1>2 DEF Frames
    <2> QED BY <2>2, <2>3
<1>4. ASSUME NEW x, x = Head(s) \/ x \in Frames(Tail(s)) PROVE x \in Frames(s)
    BY <1>1, <1>2, <1>4 DEF Frames
<1> QED BY <1>1, <1>2, <1>3, <1>4

(* Nested updates.                                                         *)
LEMMA Update2 ==
    ASSUME NEW A, NEW B, NEW S, NEW f \in [A -> [B -> S]],
           NEW a \in A, NEW b \in B, NEW v \in S
    PROVE  [f EXCEPT ![a][b] = v] \in [A -> [B -> S]]
    OBVIOUS

(* The same one level deeper.                                              *)
LEMMA Update3 ==
    ASSUME NEW A, NEW B, NEW C, NEW S, NEW f \in [A -> [B -> [C -> S]]],
           NEW a \in A, NEW b \in B, NEW c \in C, NEW v \in S
    PROVE  [f EXCEPT ![a][b][c] = v] \in [A -> [B -> [C -> S]]]
<1>1. [f[a][b] EXCEPT ![c] = v] \in [C -> S]
    OBVIOUS
<1>2. [f EXCEPT ![a][b] = [f[a][b] EXCEPT ![c] = v]] \in [A -> [B -> [C -> S]]]
    BY <1>1
<1> QED BY <1>2

(* A connection that carries nothing holds no advertisement.               *)
LEMMA FramesEmpty == Frames(<< >>) = {}
    BY DEF Frames

-----------------------------------------------------------------------------
(* A written frame keeps the wires well-typed.                             *)
LEMMA BroadcastType ==
    ASSUME TypeOK, NEW n \in Nodes, NEW lsa \in LSA, NEW except
    PROVE  broadcast(n, lsa, except) \in [Nodes -> [Nodes -> [Nodes -> Seq(LSA)]]]
<1>1. lsa.origin \in Nodes
    BY DEF LSA
<1>2. ASSUME NEW m \in Nodes
      PROVE [wire[n][m] EXCEPT ![lsa.origin] = Append(@, lsa)] \in [Nodes -> Seq(LSA)]
    <2>1. wire[n][m] \in [Nodes -> Seq(LSA)]
        BY DEF TypeOK
    <2>2. Append(wire[n][m][lsa.origin], lsa) \in Seq(LSA)
        BY <1>1, <2>1, FramesAppend
    <2> QED BY <1>1, <2>1, <2>2
<1> QED BY <1>2 DEF TypeOK, broadcast

(* Spending from a budget leaves one.                                      *)
LEMMA SpendType ==
    ASSUME TypeOK, NEW what \in Bounds, Spend(what)
    PROVE  budget' \in [Bounds -> Nat]
BY DEF TypeOK, Spend

(* The state after Start is well-typed.                                    *)
LEMMA InitType == Init => TypeOK
<1> SUFFICES ASSUME Init PROVE TypeOK
    OBVIOUS
<1> DEFINE first == [n \in Nodes |->
                    [origin |-> n, sequence |-> 1, stamp |-> 1, links |-> {}]]
<1>1. first \in [Nodes -> LSA]
    BY DEF LSA
<1>2. latest = first /\ lsas = [n \in Nodes |-> [o \in Nodes |->
                                   IF o = n THEN first[n] ELSE None]]
    BY DEF Init
<1>3. latest \in [Nodes -> LSA]
      /\ lsas \in [Nodes -> [Nodes -> LSA \cup {None}]]
    BY <1>1, <1>2
<1>4. worker \in [Nodes -> [Workers -> Job]]
    BY DEF Init, Idle, Job
<1>5. wire \in [Nodes -> [Nodes -> [Nodes -> Seq(LSA)]]]
    BY DEF Init, Quiet
<1> QED BY <1>3, <1>4, <1>5, BudgetsAssumption DEF Init, TypeOK
(* A goroutine starting to emit stays well-typed.                          *)
LEMMA EmittingType ==
    ASSUME TypeOK, NEW n \in Nodes, NEW w \in Workers, NEW to \in Nodes \cup {None},
           Emitting(n, w, to)
    PROVE  worker' \in [Nodes -> [Workers -> Job]]
<1>1. [pc |-> "number", lsa |-> None, to |-> to] \in Job
    BY DEF Job
<1> QED BY <1>1 DEF Emitting, TypeOK

(* A goroutine that closes a connection and emits, in the terms of TypeOK. *)
LEMMA EmittingWithoutType ==
    ASSUME TypeOK, NEW n \in Nodes, NEW w \in Workers, NEW m \in Nodes,
           EmittingWithout(n, w, m)
    PROVE  worker' \in [Nodes -> [Workers -> Job]]
<1>1. [pc |-> "number", lsa |-> None, to |-> None] \in Job
    BY DEF Job
<1>2. ASSUME NEW v \in Workers PROVE [worker[n][v] EXCEPT !.to = None] \in Job
    <2>1. worker[n][v] \in Job
        BY DEF TypeOK
    <2> QED BY <2>1 DEF Job
<1> QED BY <1>1, <1>2 DEF EmittingWithout, TypeOK

(* Each action keeps the types.                                            *)
LEMMA TypeStep == TypeOK /\ [Next]_vars => TypeOK'
<1> SUFFICES ASSUME TypeOK, [Next]_vars PROVE TypeOK'
    OBVIOUS
<1>1. ASSUME NEW n \in Nodes, NEW m \in Nodes, establishPeer(n, m) PROVE TypeOK'
    <2>1. budget' \in [Bounds -> Nat]
        BY <1>1, SpendType DEF establishPeer, Bounds
    <2>2. Quiet \in [Nodes -> Seq(LSA)]
        BY DEF Quiet
    <2>3. wire' \in [Nodes -> [Nodes -> [Nodes -> Seq(LSA)]]]
        BY <1>1, <2>2 DEF establishPeer, TypeOK
    <2>4. link' \in [Nodes -> [Nodes -> {"none", "hello", "up"}]]
        BY <1>1 DEF establishPeer, TypeOK
    <2> QED BY <1>1, <2>1, <2>3, <2>4 DEF establishPeer, TypeOK, emitVars
<1>2. ASSUME NEW n \in Nodes, NEW m \in Nodes, TransportFails(n, m) PROVE TypeOK'
    <2>1. budget' \in [Bounds -> Nat]
        BY <1>2, SpendType DEF TransportFails, Bounds
    <2> QED BY <1>2, <2>1 DEF TransportFails, TypeOK, emitVars
<1>3. ASSUME NEW n \in Nodes, NEW m \in Nodes, NEW o \in Nodes, handleLSA(n, m, o)
      PROVE TypeOK'
    <2>1. wire[m][n][o] \in Seq(LSA) /\ wire[m][n][o] # << >>
        BY <1>3 DEF handleLSA, TypeOK
    <2>2. Head(wire[m][n][o]) \in LSA /\ Tail(wire[m][n][o]) \in Seq(LSA)
        BY <2>1, FramesTail
    <2>3. wire' = [wire EXCEPT ![m][n][o] = Tail(wire[m][n][o])]
        BY <1>3 DEF handleLSA
    <2>4. wire' \in [Nodes -> [Nodes -> [Nodes -> Seq(LSA)]]]
        <3> DEFINE S == Seq(LSA)
        <3> DEFINE t == Tail(wire[m][n][o])
        <3>1. wire \in [Nodes -> [Nodes -> [Nodes -> S]]] /\ t \in S
              /\ wire' = [wire EXCEPT ![m][n][o] = t]
            BY <2>2, <2>3 DEF TypeOK
        <3> HIDE DEF S, t
        <3>2. wire' \in [Nodes -> [Nodes -> [Nodes -> S]]]
            BY <3>1, Update3
        <3> QED BY <3>2 DEF S
    <2>5. CASE Accepts(n, Head(wire[m][n][o]))
        <3>1. lsas' = [lsas EXCEPT ![n][o] = Head(wire[m][n][o])]
              /\ reader' = [reader EXCEPT ![n][m] = Head(wire[m][n][o])]
            BY <1>3, <2>5 DEF handleLSA
        <3>2. lsas' \in [Nodes -> [Nodes -> LSA \cup {None}]]
            BY <2>2, <3>1 DEF TypeOK
        <3>3. reader' \in [Nodes -> [Nodes -> LSA \cup {None}]]
            BY <2>2, <3>1 DEF TypeOK
        <3> QED BY <1>3, <2>4, <3>2, <3>3 DEF handleLSA, TypeOK, emitVars
    <2>6. CASE ~Accepts(n, Head(wire[m][n][o]))
        BY <1>3, <2>4, <2>6 DEF handleLSA, TypeOK, emitVars
    <2> QED BY <2>5, <2>6
<1>4. ASSUME NEW n \in Nodes, NEW m \in Nodes, floodOnward(n, m) PROVE TypeOK'
    <2>1. reader[n][m] \in LSA
        BY <1>4 DEF floodOnward, TypeOK
    <2>2. wire' \in [Nodes -> [Nodes -> [Nodes -> Seq(LSA)]]]
        BY <1>4, <2>1, BroadcastType DEF floodOnward
    <2> QED BY <1>4, <2>2 DEF floodOnward, TypeOK, emitVars
<1>5. ASSUME NEW n \in Nodes, NEW m \in Nodes, NEW w \in Workers, registerPeer(n, m, w)
      PROVE TypeOK'
    <2>1. worker' \in [Nodes -> [Workers -> Job]]
        BY <1>5, EmittingType DEF registerPeer
    <2> QED BY <1>5, <2>1 DEF registerPeer, TypeOK
<1>6. ASSUME NEW n \in Nodes, NEW m \in Nodes, NEW w \in Workers, unregisterPeer(n, m, w)
      PROVE TypeOK'
    <2>1. worker' \in [Nodes -> [Workers -> Job]]
        BY <1>6, EmittingWithoutType DEF unregisterPeer
    <2>2. wire' \in [Nodes -> [Nodes -> [Nodes -> Seq(LSA)]]]
        BY <1>6 DEF unregisterPeer, TypeOK, Quiet
    <2> QED BY <1>6, <2>1, <2>2 DEF unregisterPeer, TypeOK
<1>7. ASSUME NEW n \in Nodes, NEW w \in Workers, lsaTick(n, w) PROVE TypeOK'
    <2>1. budget' \in [Bounds -> Nat] /\ worker' \in [Nodes -> [Workers -> Job]]
        BY <1>7, SpendType, EmittingType DEF lsaTick, Bounds
    <2> QED BY <1>7, <2>1 DEF lsaTick, TypeOK, linkVars
<1>8. ASSUME NEW n \in Nodes, NEW w \in Workers, Emission(n, w) PROVE TypeOK'
    <2>0. worker[n][w] \in Job /\ sequence[n] \in Nat /\ signed[n] \in Nat
        BY DEF TypeOK
    <2>1. CASE emitNumber(n, w)
        <3>1. [origin |-> n, sequence |-> sequence[n] + 1,
               stamp |-> signed[n] + 1, links |-> {}] \in LSA
            BY <2>0 DEF LSA
        <3> DEFINE j == [worker[n][w] EXCEPT !.pc = "read", !.lsa =
                           [origin |-> n, sequence |-> sequence[n] + 1,
                            stamp |-> signed[n] + 1, links |-> {}]]
        <3>2. j \in Job
            BY <2>1, <2>0, <3>1 DEF emitNumber, Job
        <3>3. worker' = [worker EXCEPT ![n][w] = j]
            BY <2>1 DEF emitNumber, TypeOK
        <3>4. worker' \in [Nodes -> [Workers -> Job]]
            BY <3>2, <3>3 DEF TypeOK
        <3> QED BY <2>1, <2>0, <3>4 DEF emitNumber, TypeOK, linkVars
    <2>2. CASE emitRead(n, w)
        <3> DEFINE lsa == [worker[n][w].lsa EXCEPT !.links = peers(n)]
        <3>1. worker[n][w].lsa \in LSA /\ worker[n][w].to \in Nodes \cup {None}
            BY <2>2, <2>0 DEF emitRead, Job
        <3>2. lsa \in LSA
            BY <3>1 DEF LSA, peers
        <3>3. worker' = [worker EXCEPT ![n][w] = [@ EXCEPT !.pc = "store", !.lsa = lsa]]
            BY <2>2, <2>0 DEF emitRead, TypeOK
        <3>4. [worker[n][w] EXCEPT !.pc = "store", !.lsa = lsa] \in Job
            BY <2>0, <3>1, <3>2 DEF Job
        <3>5. worker' \in [Nodes -> [Workers -> Job]]
            BY <3>3, <3>4 DEF TypeOK
        <3>6. latest' \in [Nodes -> LSA]
            BY <2>2, <3>2 DEF emitRead, TypeOK
        <3> QED BY <2>2, <3>5, <3>6 DEF emitRead, TypeOK, linkVars
    <2>3. CASE emitStore(n, w)
        <3>1. worker[n][w].lsa \in LSA
            BY <2>3, <2>0 DEF emitStore, Job
        <3>2. [worker[n][w] EXCEPT !.pc = "flood"] \in Job
            BY <2>3, <2>0 DEF emitStore, Job
        <3>3. worker' \in [Nodes -> [Workers -> Job]]
            BY <2>3, <3>2 DEF emitStore, TypeOK
        <3> QED BY <2>3, <3>1, <3>3 DEF emitStore, TypeOK, linkVars
    <2>4. CASE emitFlood(n, w)
        <3>1. worker[n][w].lsa \in LSA
            BY <2>4, <2>0 DEF emitFlood, Job
        <3>2. wire' \in [Nodes -> [Nodes -> [Nodes -> Seq(LSA)]]]
            BY <2>4, <3>1, BroadcastType DEF emitFlood
        <3>3. [worker[n][w] EXCEPT !.pc = "sync", !.lsa = None] \in Job /\ Idle \in Job
            BY <2>4, <2>0 DEF emitFlood, Job, Idle
        <3>4. worker' \in [Nodes -> [Workers -> Job]]
            BY <2>4, <3>3 DEF emitFlood, TypeOK
        <3> QED BY <2>4, <3>2, <3>4 DEF emitFlood, TypeOK
    <2>5. CASE sendAllLSAs(n, w)
        <3> DEFINE m == worker[n][w].to
        <3>1. Idle \in Job
            BY DEF Job, Idle
        <3>2. worker' \in [Nodes -> [Workers -> Job]]
            BY <2>5, <3>1 DEF sendAllLSAs, TypeOK
        <3>3. m \in Nodes \cup {None}
            BY <2>0 DEF Job
        <3>4. ASSUME m # None
              PROVE [o \in Nodes |-> IF lsas[n][o] = None THEN wire[n][m][o]
                                     ELSE Append(wire[n][m][o], lsas[n][o])]
                    \in [Nodes -> Seq(LSA)]
            <4>1. m \in Nodes
                BY <3>3, <3>4
            <4>2. ASSUME NEW o \in Nodes, lsas[n][o] # None
                  PROVE Append(wire[n][m][o], lsas[n][o]) \in Seq(LSA)
                <5>1. wire[n][m][o] \in Seq(LSA) /\ lsas[n][o] \in LSA
                    BY <4>1, <4>2 DEF TypeOK
                <5> QED BY <5>1, FramesAppend
            <4>3. \A o \in Nodes : wire[n][m][o] \in Seq(LSA)
                BY <4>1 DEF TypeOK
            <4> QED BY <4>2, <4>3
        <3>5. wire' \in [Nodes -> [Nodes -> [Nodes -> Seq(LSA)]]]
            BY <2>5, <3>3, <3>4 DEF sendAllLSAs, TypeOK
        <3> QED BY <2>5, <3>2, <3>5 DEF sendAllLSAs, TypeOK
    <2> QED BY <1>8, <2>1, <2>2, <2>3, <2>4, <2>5 DEF Emission
<1>9. ASSUME NEW n \in Nodes, cleanupExpired(n) PROVE TypeOK'
    <2>1. Kept(n) \in [Nodes -> LSA \cup {None}]
        BY DEF Kept, TypeOK
    <2> QED BY <1>9, <2>1 DEF cleanupExpired, TypeOK, linkVars, emitVars
<1>10. ASSUME NEW n \in Nodes, Age(n) PROVE TypeOK'
    <2>1. budget' \in [Bounds -> Nat]
        BY <1>10, SpendType DEF Age, Bounds
    <2>2. latest[n].stamp \in Nat /\ expired[n] \in Nat
        BY DEF TypeOK, LSA
    <2>3. expired' \in [Nodes -> Nat]
        BY <1>10, <2>2 DEF Age, TypeOK
    <2> QED BY <1>10, <2>1, <2>3 DEF Age, TypeOK, linkVars, emitVars
<1>11. ASSUME NEW n \in Nodes, Restart(n) PROVE TypeOK'
    <2>1. budget' \in [Bounds -> Nat]
        BY <1>11, SpendType DEF Restart, Bounds
    <2>2. [pc |-> "number", lsa |-> None, to |-> None] \in Job /\ Idle \in Job
        BY DEF Job, Idle
    <2>3. worker' \in [Nodes -> [Workers -> Job]]
        BY <1>11, <2>2 DEF Restart, TypeOK
    <2>4. wire' \in [Nodes -> [Nodes -> [Nodes -> Seq(LSA)]]]
        BY <1>11 DEF Restart, TypeOK, Quiet
    <2>5. cut' \subseteq SUBSET Nodes
        <3> SUFFICES ASSUME NEW p \in cut' PROVE p \subseteq Nodes
            OBVIOUS
        <3>1. p \in cut \/ \E m \in Nodes : p = {n, m}
            BY <1>11 DEF Restart
        <3> QED BY <3>1 DEF TypeOK
    <2> QED BY <1>11, <2>1, <2>3, <2>4, <2>5 DEF Restart, TypeOK
<1>12. CASE UNCHANGED vars
    BY <1>12 DEF vars, TypeOK
<1> QED BY <1>1, <1>2, <1>3, <1>4, <1>5, <1>6, <1>7, <1>8, <1>9, <1>10, <1>11, <1>12
        DEF Next

(* The variables keep their types in every behaviour (node.go, peer.go): a *)
(* goroutine past numbering always carries an advertisement, and every     *)
(* node has signed one.                                                    *)
THEOREM TypeCorrect == Spec => []TypeOK
    BY InitType, TypeStep, PTL DEF Spec
-----------------------------------------------------------------------------
(* The counters of a node, and that it has no connection with itself.      *)
LEMMA CountersStep == EmissionInv /\ [Next]_vars => Counters'
<1> SUFFICES ASSUME EmissionInv, [Next]_vars PROVE Counters'
    OBVIOUS
<1>0. TypeOK /\ Counters /\ Drafts /\ TypeOK'
    BY TypeStep DEF EmissionInv
<1>t. \A n \in Nodes : /\ latest[n] \in LSA /\ latest[n].stamp \in Nat
                       /\ sequence[n] \in Nat /\ signed[n] \in Nat /\ expired[n] \in Nat
    BY <1>0 DEF TypeOK, LSA
<1>l. link \in [Nodes -> [Nodes -> {"none", "hello", "up"}]]
    BY <1>0 DEF TypeOK
<1>1. ASSUME NEW n \in Nodes, NEW m \in Nodes, establishPeer(n, m) PROVE Counters'
    <2>1. /\ link' = [link EXCEPT ![n][m] = "hello", ![m][n] = "hello"]
          /\ n # m
          /\ UNCHANGED <<sequence, signed, latest, expired>>
        BY <1>1 DEF establishPeer, emitVars
    <2>2. \A x \in Nodes : link'[x][x] = link[x][x]
        BY <2>1, <1>l
    <2> QED BY <2>1, <2>2, <1>0 DEF Counters, NeverRestarted
<1>2. ASSUME NEW n \in Nodes, NEW m \in Nodes, NEW w \in Workers,
             registerPeer(n, m, w) \/ unregisterPeer(n, m, w)
      PROVE Counters'
    <2>1. /\ link[n][m] \in {"hello", "up"}
          /\ link' = [link EXCEPT ![n][m] = "up"] \/ link' = [link EXCEPT ![n][m] = "none"]
          /\ UNCHANGED <<sequence, signed, latest, expired>>
        BY <1>2 DEF registerPeer, unregisterPeer
    <2>2. n # m
        BY <2>1, <1>0 DEF Counters
    <2>3. \A x \in Nodes : link'[x][x] = link[x][x]
        BY <2>1, <2>2, <1>l
    <2> QED BY <2>1, <2>3, <1>0 DEF Counters, NeverRestarted
<1>3. ASSUME NEW n \in Nodes, NEW w \in Workers, emitNumber(n, w) PROVE Counters'
    BY <1>3, <1>0, <1>t, SMTT(30) DEF emitNumber, Counters, NeverRestarted, TypeOK, linkVars
<1>4. ASSUME NEW n \in Nodes, NEW w \in Workers, emitRead(n, w) PROVE Counters'
    <2> DEFINE lsa == [worker[n][w].lsa EXCEPT !.links = peers(n)]
    <2>1. /\ worker[n][w].lsa \in LSA
          /\ worker[n][w].lsa.origin = n
          /\ worker[n][w].lsa.stamp <= signed[n]
          /\ NeverRestarted(n) => worker[n][w].lsa.sequence = worker[n][w].lsa.stamp
        <3>1. worker[n][w] \in Job /\ worker[n][w].pc = "read"
            BY <1>4, <1>0 DEF emitRead, TypeOK
        <3>2. worker[n][w].lsa \in LSA
            BY <3>1 DEF Job
        <3> QED BY <3>1, <3>2, <1>0 DEF Drafts
    <2>2. /\ lsa.origin = n /\ lsa.stamp = worker[n][w].lsa.stamp
          /\ lsa.sequence = worker[n][w].lsa.sequence /\ lsa.stamp \in Nat
        BY <2>1 DEF LSA
    <2>3. \A o \in Nodes : latest'[o] = IF o = n /\ latest[n].stamp < lsa.stamp
                                        THEN lsa ELSE latest[o]
        BY <1>4, <1>0 DEF emitRead, TypeOK
    <2>4. UNCHANGED <<link, sequence, signed, expired>>
        BY <1>4 DEF emitRead, linkVars
    <2> HIDE DEF lsa
    <2> QED BY <2>1, <2>2, <2>3, <2>4, <1>0, <1>t DEF Counters, NeverRestarted
<1>5. ASSUME NEW n \in Nodes, Restart(n) PROVE Counters'
    <2>1. /\ sequence' = [sequence EXCEPT ![n] = 0]
          /\ link' = [link EXCEPT ![n] = [m \in Nodes |-> "none"]]
          /\ UNCHANGED <<signed, latest, expired>>
        BY <1>5 DEF Restart
    <2>2. sequence \in [Nodes -> Nat]
        BY <1>0 DEF TypeOK
    <2>3. signed[n] > 0
        BY <1>0, <1>t DEF Counters
    <2>4. \A x \in Nodes : link'[x][x] = "none"
        BY <2>1, <1>l, <1>0 DEF Counters
    <2> QED BY <2>1, <2>2, <2>3, <2>4, <1>0, <1>t DEF Counters, NeverRestarted
<1>6. ASSUME NEW n \in Nodes, Age(n) PROVE Counters'
    <2>1. PICK k \in (expired[n] + 1)..(latest[n].stamp - 1) :
              expired' = [expired EXCEPT ![n] = k]
        BY <1>6 DEF Age
    <2>2. UNCHANGED <<link, sequence, signed, latest>> /\ expired \in [Nodes -> Nat]
        BY <1>6, <1>0 DEF Age, linkVars, emitVars, TypeOK
    <2> QED BY <2>1, <2>2, <1>0, <1>t DEF Counters, NeverRestarted
<1>7. ASSUME UNCHANGED <<link, sequence, signed, latest, expired>> PROVE Counters'
    BY <1>7, <1>0 DEF Counters, NeverRestarted
<1>8. ASSUME NEW n \in Nodes, NEW m \in Nodes, NEW o \in Nodes,
             TransportFails(n, m) \/ handleLSA(n, m, o) \/ floodOnward(n, m)
      PROVE UNCHANGED <<link, sequence, signed, latest, expired>>
    BY <1>8 DEF TransportFails, handleLSA, floodOnward, emitVars
<1>9. ASSUME NEW n \in Nodes, NEW w \in Workers,
             lsaTick(n, w) \/ emitStore(n, w) \/ emitFlood(n, w) \/ sendAllLSAs(n, w)
      PROVE UNCHANGED <<link, sequence, signed, latest, expired>>
    BY <1>9 DEF lsaTick, emitStore, emitFlood, sendAllLSAs, linkVars
<1>10. ASSUME NEW n \in Nodes, cleanupExpired(n)
       PROVE UNCHANGED <<link, sequence, signed, latest, expired>>
    BY <1>10 DEF cleanupExpired, linkVars, emitVars
<1>11. CASE UNCHANGED vars
    BY <1>11, <1>7 DEF vars
<1> QED BY <1>1, <1>2, <1>3, <1>4, <1>5, <1>6, <1>7, <1>8, <1>9, <1>10, <1>11
        DEF Next, Emission
-----------------------------------------------------------------------------
(* What the goroutines of emitLocalLSA may do to one another's jobs: the   *)
(* actions other than emitNumber and emitRead leave every numbered draft,  *)
(* the newest advertisement and the counters of the node alone.            *)
Untouched ==
    \A x \in Nodes :
        /\ latest'[x] = latest[x] /\ signed'[x] = signed[x]
        /\ NeverRestarted(x)' => NeverRestarted(x)
        /\ \A y \in Workers :
             worker'[x][y].pc = "read" => worker[x][y].pc = "read"
                                         /\ worker'[x][y].lsa = worker[x][y].lsa

(* Every action but emitNumber and emitRead is of that kind.               *)
LEMMA UntouchedStep ==
    ASSUME TypeOK, Counters, [Next]_vars,
           \A n \in Nodes, w \in Workers : ~emitNumber(n, w) /\ ~emitRead(n, w)
    PROVE  Untouched
<1>t. worker \in [Nodes -> [Workers -> Job]]
    BY DEF TypeOK
<1>1. ASSUME NEW n \in Nodes, NEW w \in Workers, NEW j, j.pc # "read",
             worker' = [worker EXCEPT ![n][w] = j],
             UNCHANGED <<latest, signed, sequence>>
      PROVE Untouched
    <2>1. ASSUME NEW x \in Nodes, NEW y \in Workers, worker'[x][y].pc = "read"
          PROVE worker'[x][y] = worker[x][y]
        BY <2>1, <1>1, <1>t
    <2> QED BY <2>1, <1>1 DEF Untouched, NeverRestarted
<1>2. ASSUME NEW n \in Nodes, NEW m \in Nodes, NEW w \in Workers, registerPeer(n, m, w)
      PROVE Untouched
    <2> DEFINE j == [pc |-> "number", lsa |-> None, to |-> m]
    <2>1. j.pc # "read" /\ worker' = [worker EXCEPT ![n][w] = j]
          /\ UNCHANGED <<latest, signed, sequence>>
        BY <1>2 DEF registerPeer, Emitting
    <2> HIDE DEF j
    <2> QED BY <1>1, <2>1
<1>3. ASSUME NEW n \in Nodes, NEW w \in Workers, lsaTick(n, w) PROVE Untouched
    <2> DEFINE j == [pc |-> "number", lsa |-> None, to |-> None]
    <2>1. j.pc # "read" /\ worker' = [worker EXCEPT ![n][w] = j]
          /\ UNCHANGED <<latest, signed, sequence>>
        BY <1>3 DEF lsaTick, Emitting
    <2> HIDE DEF j
    <2> QED BY <1>1, <2>1
<1>4. ASSUME NEW n \in Nodes, NEW w \in Workers,
             emitStore(n, w) \/ emitFlood(n, w) \/ sendAllLSAs(n, w)
      PROVE Untouched
    <2>1. worker[n][w] \in Job
        BY <1>t
    <2>2. CASE emitStore(n, w)
        <3>1. [worker[n][w] EXCEPT !.pc = "flood"].pc # "read"
            BY <2>1 DEF Job
        <3>2. worker' = [worker EXCEPT ![n][w] = [worker[n][w] EXCEPT !.pc = "flood"]]
            BY <2>2, <1>t DEF emitStore
        <3> QED BY <3>1, <3>2, <2>2, <1>1, ZenonT(30) DEF emitStore
    <2>3. CASE emitFlood(n, w)
        <3> DEFINE j == IF worker[n][w].to = None THEN Idle
                        ELSE [worker[n][w] EXCEPT !.pc = "sync", !.lsa = None]
        <3>1. j.pc # "read"
            BY <2>1 DEF Job, Idle
        <3>2. worker' = [worker EXCEPT ![n][w] = j]
            BY <2>3, <1>t DEF emitFlood
        <3> QED BY <3>1, <3>2, <2>3, <1>1 DEF emitFlood
    <2>4. CASE sendAllLSAs(n, w)
        <3>1. Idle.pc # "read"
            BY DEF Idle
        <3> QED BY <3>1, <2>4, <1>1 DEF sendAllLSAs
    <2> QED BY <1>4, <2>2, <2>3, <2>4
<1>5. ASSUME NEW n \in Nodes, NEW m \in Nodes, NEW w \in Workers, unregisterPeer(n, m, w)
      PROVE Untouched
    <2>1. ASSUME NEW x \in Nodes, NEW y \in Workers, worker'[x][y].pc = "read"
          PROVE worker[x][y].pc = "read" /\ worker'[x][y].lsa = worker[x][y].lsa
        <3>1. worker[x][y] \in Job
            BY <1>t
        <3>2. CASE x # n \/ worker'[x][y] = worker[x][y]
            BY <3>2, <2>1, <1>5, <1>t DEF unregisterPeer, EmittingWithout
        <3>3. CASE x = n /\ worker'[x][y] = [worker[x][y] EXCEPT !.to = None]
            BY <3>1, <3>3, <2>1 DEF Job
        <3>4. CASE x = n /\ worker'[x][y] = [pc |-> "number", lsa |-> None, to |-> None]
            BY <3>4, <2>1
        <3> QED BY <3>2, <3>3, <3>4, <1>5, <1>t DEF unregisterPeer, EmittingWithout
    <2> QED BY <2>1, <1>5 DEF Untouched, NeverRestarted, unregisterPeer
<1>6. ASSUME NEW n \in Nodes, Restart(n) PROVE Untouched
    <2>1. ASSUME NEW x \in Nodes, NEW y \in Workers, worker'[x][y].pc = "read"
          PROVE worker'[x][y] = worker[x][y]
        BY <2>1, <1>6, <1>t DEF Restart, Idle
    <2>2. sequence' = [sequence EXCEPT ![n] = 0] /\ UNCHANGED <<signed, latest>>
        BY <1>6 DEF Restart
    <2>3. sequence \in [Nodes -> Nat] /\ signed[n] # 0
        BY DEF TypeOK, Counters, LSA
    <2>4. ASSUME NEW x \in Nodes, NeverRestarted(x)' PROVE NeverRestarted(x)
        BY <2>2, <2>3, <2>4 DEF NeverRestarted
    <2> QED BY <2>1, <2>2, <2>4 DEF Untouched
<1>7. ASSUME UNCHANGED <<latest, signed, sequence, worker>> PROVE Untouched
    BY <1>7 DEF Untouched, NeverRestarted
<1>8. ASSUME NEW n \in Nodes, NEW m \in Nodes, NEW o \in Nodes,
             \/ establishPeer(n, m) \/ TransportFails(n, m)
             \/ handleLSA(n, m, o) \/ floodOnward(n, m)
      PROVE UNCHANGED <<latest, signed, sequence, worker>>
    BY <1>8 DEF establishPeer, TransportFails, handleLSA, floodOnward, emitVars
<1>9. ASSUME NEW n \in Nodes, cleanupExpired(n) \/ Age(n)
      PROVE UNCHANGED <<latest, signed, sequence, worker>>
    BY <1>9 DEF cleanupExpired, Age, emitVars
<1>10. CASE UNCHANGED vars
    BY <1>10, <1>7 DEF vars
<1> QED BY <1>2, <1>3, <1>4, <1>5, <1>6, <1>7, <1>8, <1>9, <1>10 DEF Next, Emission

(* Numbers drawn and not yet used are distinct and not in use.             *)
LEMMA DraftsStep == EmissionInv /\ [Next]_vars => Drafts'
<1> SUFFICES ASSUME EmissionInv, [Next]_vars PROVE Drafts'
    OBVIOUS
<1>0. TypeOK /\ Counters /\ Drafts
    BY DEF EmissionInv
<1>t. /\ worker \in [Nodes -> [Workers -> Job]]
      /\ \A n \in Nodes : /\ latest[n].stamp \in Nat
                           /\ sequence[n] \in Nat /\ signed[n] \in Nat
    BY <1>0 DEF TypeOK, LSA
<1>1. ASSUME Untouched PROVE Drafts'
    BY <1>1, <1>0 DEF Untouched, Drafts
<1>2. ASSUME NEW n \in Nodes, NEW w \in Workers, emitNumber(n, w) PROVE Drafts'
    <2> DEFINE d == [origin |-> n, sequence |-> sequence[n] + 1,
                     stamp |-> signed[n] + 1, links |-> {}]
    <2>1. \A x \in Nodes, y \in Workers :
             IF x = n /\ y = w
             THEN worker'[x][y].pc = "read" /\ worker'[x][y].lsa = d
             ELSE worker'[x][y] = worker[x][y]
        <3>1. worker[n][w] \in Job
            BY <1>t
        <3>2. worker' = [worker EXCEPT ![n][w] =
                           [worker[n][w] EXCEPT !.pc = "read", !.lsa = d]]
            BY <1>2, <1>t DEF emitNumber
        <3>3. /\ [worker[n][w] EXCEPT !.pc = "read", !.lsa = d].pc = "read"
              /\ [worker[n][w] EXCEPT !.pc = "read", !.lsa = d].lsa = d
            BY <3>1 DEF Job
        <3> HIDE DEF d
        <3> QED BY <3>2, <3>3, <1>t
    <2>2. /\ \A x \in Nodes : signed'[x] = IF x = n THEN signed[n] + 1 ELSE signed[x]
          /\ \A x \in Nodes : sequence'[x] = IF x = n THEN sequence[n] + 1 ELSE sequence[x]
          /\ latest' = latest
        BY <1>2, <1>0 DEF emitNumber, TypeOK
    <2>3. \A x \in Nodes, y \in Workers : worker[x][y].pc = "read" =>
             worker[x][y].lsa.stamp \in Nat
        <3> SUFFICES ASSUME NEW x \in Nodes, NEW y \in Workers, worker[x][y].pc = "read"
                     PROVE worker[x][y].lsa.stamp \in Nat
            OBVIOUS
        <3>1. worker[x][y] \in Job
            BY <1>t
        <3> QED BY <3>1 DEF Job, LSA
    <2>4. /\ d.origin = n /\ d.sequence = sequence[n] + 1 /\ d.stamp = signed[n] + 1
        OBVIOUS
    <2> HIDE DEF d
    <2>5. NeverRestarted(n)' <=> NeverRestarted(n)
        BY <2>2, <1>t DEF NeverRestarted
    <2>6. \A x \in Nodes : x # n => (NeverRestarted(x)' <=> NeverRestarted(x))
        BY <2>2 DEF NeverRestarted
    <2> SUFFICES ASSUME NEW x \in Nodes, NEW y \in Workers, worker'[x][y].pc = "read"
                 PROVE /\ worker'[x][y].lsa.origin = x
                       /\ worker'[x][y].lsa.stamp <= signed'[x]
                       /\ worker'[x][y].lsa.stamp # latest'[x].stamp
                       /\ NeverRestarted(x)' =>
                            worker'[x][y].lsa.sequence = worker'[x][y].lsa.stamp
                       /\ \A v \in Workers : v # y /\ worker'[x][v].pc = "read"
                            => worker'[x][v].lsa.stamp # worker'[x][y].lsa.stamp
        BY DEF Drafts
    <2>7. CASE x # n
        BY <2>7, <2>1, <2>2, <2>6, <1>0 DEF Drafts
    <2>8. CASE x = n /\ y = w
        <3>1. worker'[x][y].lsa = d
            BY <2>1, <2>8
        <3>2. latest[n].stamp <= signed[n]
            BY <1>0 DEF Counters
        <3>3. ASSUME NEW v \in Workers, v # y, worker'[x][v].pc = "read"
              PROVE worker'[x][v].lsa.stamp # d.stamp
            <4>1. worker'[x][v] = worker[n][v]
                BY <3>3, <2>8, <2>1
            <4>2. worker[n][v].lsa.stamp <= signed[n]
                BY <4>1, <3>3, <1>0 DEF Drafts
            <4> QED BY <4>1, <4>2, <3>3, <2>3, <2>4, <1>t
        <3>4. NeverRestarted(x)' => d.sequence = d.stamp
            BY <2>8, <2>5, <2>4 DEF NeverRestarted
        <3> QED BY <3>1, <3>2, <3>3, <3>4, <2>8, <2>2, <2>4, <1>t
    <2>9. CASE x = n /\ y # w
        <3>1. worker'[n][y] = worker[n][y] /\ worker[n][y].pc = "read"
            BY <2>9, <2>1
        <3>2. /\ worker[n][y].lsa.origin = n
              /\ worker[n][y].lsa.stamp <= signed[n]
              /\ worker[n][y].lsa.stamp # latest[n].stamp
              /\ NeverRestarted(n) => worker[n][y].lsa.sequence = worker[n][y].lsa.stamp
            BY <3>1, <1>0 DEF Drafts
        <3>3. ASSUME NEW v \in Workers, v # y, worker'[n][v].pc = "read"
              PROVE worker'[n][v].lsa.stamp # worker[n][y].lsa.stamp
            <4>1. CASE v = w
                BY <4>1, <2>1, <2>3, <2>4, <3>1, <3>2, <1>t
            <4>2. CASE v # w
                BY <4>2, <3>3, <3>1, <2>1, <1>0 DEF Drafts
            <4> QED BY <4>1, <4>2
        <3> QED BY <3>1, <3>2, <3>3, <2>9, <2>2, <2>3, <2>5, <1>t
    <2> QED BY <2>7, <2>8, <2>9
<1>3. ASSUME NEW n \in Nodes, NEW w \in Workers, emitRead(n, w) PROVE Drafts'
    <2> DEFINE lsa == [worker[n][w].lsa EXCEPT !.links = peers(n)]
    <2>1. /\ worker[n][w].pc = "read" /\ worker'[n][w].pc = "store"
          /\ \A x \in Nodes, y \in Workers :
               x # n \/ y # w => worker'[x][y] = worker[x][y]
        <3>1. worker[n][w] \in Job
            BY <1>t
        <3>2. worker' = [worker EXCEPT ![n][w] =
                           [worker[n][w] EXCEPT !.pc = "store", !.lsa = lsa]]
            BY <1>3, <1>t DEF emitRead
        <3>3. [worker[n][w] EXCEPT !.pc = "store", !.lsa = lsa].pc = "store"
            BY <3>1 DEF Job
        <3> HIDE DEF lsa
        <3>4. worker[n][w].pc = "read"
            BY <1>3 DEF emitRead
        <3> QED BY <3>2, <3>3, <3>4, <1>t
    <2>2. lsa.stamp = worker[n][w].lsa.stamp
        <3>1. worker[n][w] \in Job
            BY <1>t
        <3>2. worker[n][w].lsa \in LSA
            BY <3>1, <2>1 DEF Job
        <3> QED BY <3>2 DEF LSA
    <2>3. /\ UNCHANGED <<signed, sequence>>
          /\ \A x \in Nodes : latest'[x] = latest[x] \/ (x = n /\ latest'[x] = lsa)
        BY <1>3, <1>0 DEF emitRead, TypeOK
    <2> HIDE DEF lsa
    <2> QED BY <2>1, <2>2, <2>3, <1>0 DEF Drafts, NeverRestarted
<1> QED BY <1>0, <1>1, <1>2, <1>3, UntouchedStep

(* A change of the peer map that latest misses has an emission on its way. *)
LEMMA EmissionDueStep == EmissionInv /\ [Next]_vars => EmissionDue'
<1> SUFFICES ASSUME EmissionInv, [Next]_vars PROVE EmissionDue'
    OBVIOUS
<1>0. TypeOK /\ Counters /\ Drafts /\ EmissionDue
    BY DEF EmissionInv
<1>t. /\ worker \in [Nodes -> [Workers -> Job]]
      /\ link \in [Nodes -> [Nodes -> {"none", "hello", "up"}]]
      /\ \A n \in Nodes : latest[n].stamp \in Nat /\ signed[n] \in Nat
    BY <1>0 DEF TypeOK, LSA
<1>1. ASSUME NEW x \in Nodes, peers(x)' = peers(x),
             latest'[x] = latest[x], signed'[x] = signed[x],
             \A y \in Workers : worker[x][y].pc \in {"number", "read"} =>
                 worker'[x][y].pc = worker[x][y].pc /\ worker'[x][y].lsa = worker[x][y].lsa
      PROVE Due(x)'
    <2>1. Due(x)
        BY <1>0 DEF EmissionDue
    <2> QED BY <1>1, <2>1 DEF Due
<1>2. ASSUME NEW x \in Nodes, NEW w \in Workers, worker'[x][w].pc = "number" PROVE Due(x)'
    BY <1>2 DEF Due
<1>3. ASSUME NEW n \in Nodes, NEW m \in Nodes, establishPeer(n, m) PROVE EmissionDue'
    <2>1. /\ link' = [link EXCEPT ![n][m] = "hello", ![m][n] = "hello"]
          /\ link[n][m] = "none" /\ link[m][n] = "none"
          /\ UNCHANGED <<signed, latest, worker>>
        BY <1>3 DEF establishPeer, emitVars
    <2>2. \A x, y \in Nodes : link'[x][y] = "up" <=> link[x][y] = "up"
        BY <2>1, <1>t
    <2>3. \A x \in Nodes : peers(x)' = peers(x)
        BY <2>2 DEF peers
    <2> QED BY <2>1, <2>3, <1>1 DEF EmissionDue
<1>4. ASSUME NEW n \in Nodes, NEW m \in Nodes, NEW w \in Workers,
             registerPeer(n, m, w) \/ unregisterPeer(n, m, w)
      PROVE EmissionDue'
    <2>1. worker'[n][w].pc = "number"
        BY <1>4, <1>t DEF registerPeer, unregisterPeer, Emitting, EmittingWithout
    <2>2. /\ UNCHANGED <<signed, latest>>
          /\ \A x \in Nodes : x # n => link'[x] = link[x] /\ worker'[x] = worker[x]
        BY <1>4, <1>t DEF registerPeer, unregisterPeer, Emitting, EmittingWithout
    <2>3. \A x \in Nodes : x # n => peers(x)' = peers(x)
        BY <2>2 DEF peers
    <2> QED BY <2>1, <2>2, <2>3, <1>1, <1>2 DEF EmissionDue
<1>5. ASSUME NEW n \in Nodes, Restart(n) PROVE EmissionDue'
    <2>1. \E w \in Workers : worker'[n][w].pc = "number"
        BY <1>5, <1>t DEF Restart
    <2>2. /\ UNCHANGED <<signed, latest>>
          /\ \A x \in Nodes : x # n => link'[x] = link[x] /\ worker'[x] = worker[x]
        BY <1>5, <1>t DEF Restart
    <2>3. \A x \in Nodes : x # n => peers(x)' = peers(x)
        BY <2>2 DEF peers
    <2> QED BY <2>1, <2>2, <2>3, <1>1, <1>2 DEF EmissionDue
<1>6. ASSUME NEW n \in Nodes, NEW w \in Workers, emitNumber(n, w) PROVE EmissionDue'
    <2> DEFINE d == [origin |-> n, sequence |-> sequence[n] + 1,
                     stamp |-> signed[n] + 1, links |-> {}]
    <2>1. /\ worker'[n][w].pc = "read" /\ worker'[n][w].lsa = d
          /\ \A x \in Nodes : x # n => worker'[x] = worker[x]
        <3>1. worker[n][w] \in Job
            BY <1>t
        <3>2. worker' = [worker EXCEPT ![n][w] =
                           [worker[n][w] EXCEPT !.pc = "read", !.lsa = d]]
            BY <1>6, <1>t DEF emitNumber
        <3>3. /\ [worker[n][w] EXCEPT !.pc = "read", !.lsa = d].pc = "read"
              /\ [worker[n][w] EXCEPT !.pc = "read", !.lsa = d].lsa = d
            BY <3>1 DEF Job
        <3> HIDE DEF d
        <3> QED BY <3>2, <3>3, <1>t
    <2>2. /\ \A x \in Nodes : signed'[x] = IF x = n THEN signed[n] + 1 ELSE signed[x]
          /\ latest' = latest /\ link' = link
        BY <1>6, <1>0 DEF emitNumber, TypeOK, linkVars
    <2>3. \A x \in Nodes : peers(x)' = peers(x)
        BY <2>2 DEF peers
    <2>4. ASSUME NEW x \in Nodes, x # n PROVE Due(x)'
        BY <2>4, <2>1, <2>2, <2>3, <1>1
    <2>5. latest[n].stamp <= signed[n] /\ d.stamp = signed[n] + 1
        BY <1>0 DEF Counters
    <2> HIDE DEF d
    <2>6. Due(n)'
        BY <2>1, <2>2, <2>5, <1>t DEF Due
    <2> QED BY <2>4, <2>6 DEF EmissionDue
<1>7. ASSUME NEW n \in Nodes, NEW w \in Workers, emitRead(n, w) PROVE EmissionDue'
    <2> DEFINE lsa == [worker[n][w].lsa EXCEPT !.links = peers(n)]
    <2>1. /\ worker[n][w].pc = "read"
          /\ \A x \in Nodes, y \in Workers :
               x # n \/ y # w => worker'[x][y] = worker[x][y]
        BY <1>7, <1>t DEF emitRead
    <2>2. lsa.stamp = worker[n][w].lsa.stamp /\ lsa.links = peers(n) /\ lsa.stamp \in Nat
        <3>1. worker[n][w] \in Job
            BY <1>t
        <3>2. worker[n][w].lsa \in LSA
            BY <3>1, <2>1 DEF Job
        <3> QED BY <3>2 DEF LSA
    <2>3. /\ UNCHANGED <<signed, link>>
          /\ \A x \in Nodes : latest'[x] = IF x = n /\ latest[n].stamp < lsa.stamp
                                            THEN lsa ELSE latest[x]
        BY <1>7, <1>0 DEF emitRead, TypeOK, linkVars
    <2> HIDE DEF lsa
    <2>4. \A x \in Nodes : peers(x)' = peers(x)
        BY <2>3 DEF peers
    <2>5. ASSUME NEW x \in Nodes, x # n PROVE Due(x)'
        BY <2>5, <2>1, <2>3, <2>4, <1>1
    <2>6. lsa.stamp <= signed[n] /\ lsa.stamp # latest[n].stamp /\ Due(n)
        BY <2>1, <2>2, <1>0 DEF Drafts, EmissionDue
    <2>7. latest[n].stamp <= signed[n] /\ latest[n].stamp \in Nat /\ signed[n] \in Nat
        BY <1>0, <1>t DEF Counters
    <2>8. /\ latest'[n] = IF latest[n].stamp < lsa.stamp THEN lsa ELSE latest[n]
          /\ signed'[n] = signed[n] /\ peers(n)' = peers(n)
        BY <2>3, <2>4
    <2>9. ASSUME lsa.stamp = signed[n] PROVE Due(n)'
        <3>1. latest[n].stamp < lsa.stamp
            BY <2>6, <2>7, <2>9
        <3>2. latest'[n] = lsa
            BY <3>1, <2>8
        <3>3. ~(latest'[n].stamp < signed'[n]) /\ latest'[n].links = peers(n)'
            BY <3>2, <2>2, <2>7, <2>8, <2>9
        <3> QED BY <3>3 DEF Due
    <2>10. ASSUME lsa.stamp < signed[n] PROVE Due(n)'
        <3>1. \/ latest'[n].stamp < signed[n] /\ latest[n].stamp < signed[n]
              \/ latest'[n] = latest[n]
            BY <2>8, <2>10, <2>2, <2>7
        <3>2. ASSUME latest'[n].stamp < signed[n] \/ latest'[n].links # peers(n)
              PROVE \E v \in Workers :
                       \/ worker[n][v].pc = "number"
                       \/ /\ worker[n][v].pc = "read"
                          /\ worker[n][v].lsa.stamp = signed[n]
                          /\ latest'[n].stamp < signed[n]
            BY <3>1, <3>2, <2>6 DEF Due
        <3>3. ASSUME NEW v \in Workers,
                     \/ worker[n][v].pc = "number"
                     \/ worker[n][v].pc = "read" /\ worker[n][v].lsa.stamp = signed[n]
              PROVE worker'[n][v] = worker[n][v]
            <4>1. v # w
                BY <3>3, <2>1, <2>2, <2>10, <2>7
            <4> QED BY <4>1, <2>1
        <3>4. ASSUME latest'[n].stamp < signed'[n] \/ latest'[n].links # peers(n)'
              PROVE \E v \in Workers :
                       \/ worker'[n][v].pc = "number"
                       \/ /\ worker'[n][v].pc = "read"
                          /\ worker'[n][v].lsa.stamp = signed'[n]
                          /\ latest'[n].stamp < signed'[n]
            BY <3>2, <3>3, <3>4, <2>8
        <3> QED BY <3>4 DEF Due
    <2>11. Due(n)'
        BY <2>6, <2>7, <2>9, <2>10, <2>2
    <2> QED BY <2>5, <2>11 DEF EmissionDue
<1>8. ASSUME NEW n \in Nodes, NEW w \in Workers,
             lsaTick(n, w) \/ emitStore(n, w) \/ emitFlood(n, w) \/ sendAllLSAs(n, w)
      PROVE EmissionDue'
    <2>1. /\ UNCHANGED <<signed, latest, link>>
          /\ worker[n][w].pc \notin {"number", "read"}
          /\ \A x \in Nodes, y \in Workers :
               x # n \/ y # w => worker'[x][y] = worker[x][y]
        BY <1>8, <1>t
           DEF lsaTick, emitStore, emitFlood, sendAllLSAs, Emitting, Idle, linkVars
    <2>2. \A x \in Nodes : peers(x)' = peers(x)
        BY <2>1 DEF peers
    <2> QED BY <2>1, <2>2, <1>1 DEF EmissionDue
<1>9. ASSUME UNCHANGED <<link, signed, latest, worker>> PROVE EmissionDue'
    BY <1>9, <1>1 DEF EmissionDue, peers
<1>10. ASSUME NEW n \in Nodes, NEW m \in Nodes, NEW o \in Nodes,
              TransportFails(n, m) \/ handleLSA(n, m, o) \/ floodOnward(n, m)
       PROVE UNCHANGED <<link, signed, latest, worker>>
    BY <1>10 DEF TransportFails, handleLSA, floodOnward, emitVars
<1>11. ASSUME NEW n \in Nodes, cleanupExpired(n) \/ Age(n)
       PROVE UNCHANGED <<link, signed, latest, worker>>
    BY <1>11 DEF cleanupExpired, Age, linkVars, emitVars
<1>12. CASE UNCHANGED vars
    BY <1>12, <1>9 DEF vars
<1> QED BY <1>3, <1>4, <1>5, <1>6, <1>7, <1>8, <1>9, <1>10, <1>11, <1>12
        DEF Next, Emission

(* The state after Start satisfies the invariant of the emissions.         *)
LEMMA InitEmissionInv == Init => EmissionInv
<1> SUFFICES ASSUME Init PROVE EmissionInv
    OBVIOUS
<1>1. \A n \in Nodes : /\ latest[n].origin = n /\ latest[n].sequence = 1
                       /\ latest[n].stamp = 1 /\ latest[n].links = {}
    BY DEF Init
<1>2. /\ \A n \in Nodes : sequence[n] = 1 /\ signed[n] = 1 /\ expired[n] = 0
      /\ \A n, m \in Nodes : link[n][m] = "none"
      /\ \A n \in Nodes, w \in Workers : worker[n][w].pc = "idle"
    BY DEF Init, Idle
<1>3. Counters /\ Drafts
    BY <1>1, <1>2 DEF Counters, Drafts
<1>4. \A n \in Nodes : peers(n) = {}
    BY <1>2 DEF peers
<1>5. ASSUME NEW n \in Nodes PROVE Due(n)
    <2>1. latest[n].stamp = 1 /\ signed[n] = 1 /\ latest[n].links = {} /\ peers(n) = {}
        BY <1>1, <1>2, <1>4
    <2>2. ~(latest[n].stamp < signed[n]) /\ latest[n].links = peers(n)
        BY <2>1
    <2> QED BY <2>2 DEF Due
<1> QED BY <1>3, <1>5, InitType DEF EmissionInv, EmissionDue

(* Every step keeps the invariant of the emissions.                        *)
LEMMA EmissionInvStep == EmissionInv /\ [Next]_vars => EmissionInv'
BY TypeStep, CountersStep, DraftsStep, EmissionDueStep DEF EmissionInv

(* What the emissions of a node keep (node.go:395-464): numbers drawn and  *)
(* not used are distinct and unused, and while the newest signed           *)
(* advertisement is not of the newest number or misses a change of the     *)
(* peer map, a goroutine is on its way to replace it.                      *)
THEOREM EmissionInvariant == Spec => []EmissionInv
BY InitEmissionInv, EmissionInvStep, PTL DEF Spec

(* However many goroutines of a node overlap in emitLocalLSA               *)
(* (node.go:444-464), once none of them is before its read of the peer map *)
(* the newest signed advertisement lists exactly the registered peers.     *)
THEOREM NewestAdvertised == Spec => []NewestAdvertisesPeers
<1>1. EmissionInv => NewestAdvertisesPeers
    <2> SUFFICES ASSUME EmissionInv, NEW n \in Nodes,
                        \A w \in Workers : worker[n][w].pc \notin {"number", "read"}
                 PROVE latest[n].stamp = signed[n] /\ latest[n].links = peers(n)
        BY DEF NewestAdvertisesPeers
    <2>1. Due(n) /\ latest[n].stamp <= signed[n]
        BY DEF EmissionInv, EmissionDue, Counters
    <2>2. latest[n].stamp \in Nat /\ signed[n] \in Nat
        BY DEF EmissionInv, TypeOK, LSA
    <2> QED BY <2>1, <2>2 DEF Due
<1> QED BY EmissionInvariant, <1>1, PTL

-----------------------------------------------------------------------------
(* What each action does, entry by entry.                                  *)
Only(n, w) == \A x \in Nodes, y \in Workers : x # n \/ y # w => worker'[x][y] = worker[x][y]

(* The fields of a goroutine.                                              *)
LEMMA JobFields ==
    ASSUME TypeOK, NEW n \in Nodes, NEW w \in Workers
    PROVE  /\ worker[n][w] = [pc |-> worker[n][w].pc, lsa |-> worker[n][w].lsa, to |-> worker[n][w].to]
           /\ worker[n][w].to \in Nodes \cup {None}
           /\ worker[n][w].pc \in {"idle", "number", "sync", "read", "store", "flood"}
           /\ worker[n][w].pc \in {"read", "store", "flood"} => worker[n][w].lsa \in LSA
<1>1. worker[n][w] \in Job
    BY DEF TypeOK
<1> QED BY <1>1 DEF Job

(* registerPeer and the ticker: one goroutine is about to number.          *)
LEMMA StartEffect ==
    ASSUME TypeOK, NEW n \in Nodes, NEW w \in Workers, NEW to, Emitting(n, w, to)
    PROVE  /\ Only(n, w) /\ worker[n][w].pc = "idle" /\ worker[n][w].to = None
           /\ worker'[n][w].pc = "number" /\ worker'[n][w].to = to
<1>1. worker' = [worker EXCEPT ![n][w] = [pc |-> "number", lsa |-> None, to |-> to]]
      /\ worker[n][w] = Idle /\ worker \in [Nodes -> [Workers -> Job]]
    BY DEF Emitting, TypeOK
<1>2. worker'[n][w] = [pc |-> "number", lsa |-> None, to |-> to]
    BY <1>1
<1>3. Only(n, w)
    BY <1>1 DEF Only
<1> QED BY <1>1, <1>2, <1>3 DEF Idle

(* unregisterPeer: the same, and what was due on the connection is not.    *)
LEMMA CloseEffect ==
    ASSUME TypeOK, NEW n \in Nodes, NEW w \in Workers, NEW m \in Nodes, EmittingWithout(n, w, m)
    PROVE  /\ worker[n][w].pc = "idle" /\ worker[n][w].to = None
           /\ worker'[n][w].pc = "number" /\ worker'[n][w].to = None
           /\ \A x \in Nodes, y \in Workers : x # n => worker'[x][y] = worker[x][y]
           /\ \A y \in Workers : y # w =>
                /\ worker'[n][y].pc = worker[n][y].pc /\ worker'[n][y].lsa = worker[n][y].lsa
                /\ worker[n][y].to # m => worker'[n][y].to = worker[n][y].to
<1>1. /\ worker[n][w] = Idle /\ worker \in [Nodes -> [Workers -> Job]]
      /\ \A y \in Workers : worker'[n][y] =
           IF y = w THEN [pc |-> "number", lsa |-> None, to |-> None]
           ELSE IF worker[n][y].to = m THEN [worker[n][y] EXCEPT !.to = None]
           ELSE worker[n][y]
      /\ \A x \in Nodes, y \in Workers : x # n => worker'[x][y] = worker[x][y]
    BY DEF EmittingWithout, TypeOK
<1>2. ASSUME NEW y \in Workers, y # w
      PROVE  /\ worker'[n][y].pc = worker[n][y].pc /\ worker'[n][y].lsa = worker[n][y].lsa
             /\ worker[n][y].to # m => worker'[n][y].to = worker[n][y].to
    <2>1. worker[n][y] = [pc |-> worker[n][y].pc, lsa |-> worker[n][y].lsa, to |-> worker[n][y].to]
        BY JobFields
    <2>2. CASE worker[n][y].to = m
        <3>1. worker'[n][y] = [worker[n][y] EXCEPT !.to = None]
            BY <1>1, <1>2, <2>2
        <3> QED BY <2>1, <2>2, <3>1
    <2>3. CASE worker[n][y].to # m
        BY <1>1, <1>2, <2>3
    <2> QED BY <2>2, <2>3
<1>3. worker'[n][w] = [pc |-> "number", lsa |-> None, to |-> None]
    BY <1>1
<1> QED BY <1>1, <1>2, <1>3 DEF Idle

(* A number is drawn for a draft.                                          *)
LEMMA NumberEffect ==
    ASSUME TypeOK, NEW n \in Nodes, NEW w \in Workers, emitNumber(n, w)
    PROVE  /\ Only(n, w) /\ worker[n][w].pc = "number"
           /\ worker'[n][w].pc = "read" /\ worker'[n][w].to = worker[n][w].to
           /\ worker'[n][w].lsa = [origin |-> n, sequence |-> sequence[n] + 1,
                                   stamp |-> signed[n] + 1, links |-> {}]
           /\ \A x \in Nodes : signed'[x] = (IF x = n THEN signed[n] + 1 ELSE signed[x])
           /\ \A x \in Nodes : sequence'[x] = (IF x = n THEN sequence[n] + 1 ELSE sequence[x])
           /\ UNCHANGED <<link, cut, wire, latest, lsas, reader, expired>>
<1>1. PICK d : d = [origin |-> n, sequence |-> sequence[n] + 1, stamp |-> signed[n] + 1, links |-> {}]
    OBVIOUS
<1>2. /\ worker' = [worker EXCEPT ![n][w].pc = "read", ![n][w].lsa = d]
      /\ worker[n][w].pc = "number" /\ worker \in [Nodes -> [Workers -> Job]]
      /\ signed' = [signed EXCEPT ![n] = @ + 1] /\ sequence' = [sequence EXCEPT ![n] = @ + 1]
      /\ UNCHANGED <<link, cut, wire, latest, lsas, reader, expired>>
    BY <1>1 DEF emitNumber, TypeOK, linkVars
<1>3. worker[n][w] = [pc |-> worker[n][w].pc, lsa |-> worker[n][w].lsa, to |-> worker[n][w].to]
    BY JobFields
<1>4. worker'[n][w] = [pc |-> "read", lsa |-> d, to |-> worker[n][w].to]
    BY <1>2, <1>3
<1>5. Only(n, w)
    BY <1>2 DEF Only
<1>6. /\ \A x \in Nodes : signed'[x] = (IF x = n THEN signed[n] + 1 ELSE signed[x])
      /\ \A x \in Nodes : sequence'[x] = (IF x = n THEN sequence[n] + 1 ELSE sequence[x])
    BY <1>2 DEF TypeOK
<1> QED BY <1>1, <1>2, <1>4, <1>5, <1>6

(* A draft becomes an advertisement of the peers.                          *)
ReadBy(n, w, lsa) ==
    /\ lsa.origin = worker[n][w].lsa.origin /\ lsa.stamp = worker[n][w].lsa.stamp
    /\ lsa.sequence = worker[n][w].lsa.sequence /\ lsa.links = peers(n)
    /\ Only(n, w) /\ worker[n][w].pc = "read" /\ worker[n][w].lsa \in LSA
    /\ worker'[n][w].pc = "store" /\ worker'[n][w].to = worker[n][w].to /\ worker'[n][w].lsa = lsa
    /\ \A x \in Nodes : latest'[x] = (IF x = n /\ latest[n].stamp < lsa.stamp THEN lsa ELSE latest[x])
    /\ UNCHANGED <<link, cut, wire, sequence, signed, lsas, reader, expired>>

(* It keeps the number and the stamp of the draft.                         *)
LEMMA ReadEffect ==
    ASSUME TypeOK, NEW n \in Nodes, NEW w \in Workers, emitRead(n, w)
    PROVE  \E lsa \in LSA : ReadBy(n, w, lsa)
<1>1. PICK lsa : lsa = [worker[n][w].lsa EXCEPT !.links = peers(n)]
    OBVIOUS
<1>2. /\ worker' = [worker EXCEPT ![n][w].pc = "store", ![n][w].lsa = lsa]
      /\ worker[n][w].pc = "read" /\ worker \in [Nodes -> [Workers -> Job]]
      /\ latest' = IF latest[n].stamp < lsa.stamp THEN [latest EXCEPT ![n] = lsa] ELSE latest
      /\ UNCHANGED <<link, cut, wire, sequence, signed, lsas, reader, expired>>
    BY <1>1 DEF emitRead, TypeOK, linkVars
<1>3. /\ worker[n][w] = [pc |-> worker[n][w].pc, lsa |-> worker[n][w].lsa, to |-> worker[n][w].to]
      /\ worker[n][w].lsa \in LSA
    BY <1>2, JobFields
<1>4. worker'[n][w] = [pc |-> "store", lsa |-> lsa, to |-> worker[n][w].to]
    BY <1>2, <1>3
<1>5. Only(n, w)
    BY <1>2 DEF Only
<1>6. /\ lsa.origin = worker[n][w].lsa.origin /\ lsa.stamp = worker[n][w].lsa.stamp
      /\ lsa.sequence = worker[n][w].lsa.sequence /\ lsa.links = peers(n) /\ lsa \in LSA
    BY <1>1, <1>3 DEF LSA, peers
<1>7. \A x \in Nodes : latest'[x] = (IF x = n /\ latest[n].stamp < lsa.stamp THEN lsa ELSE latest[x])
    BY <1>2 DEF TypeOK
<1> QED BY <1>2, <1>3, <1>4, <1>5, <1>6, <1>7 DEF ReadBy

(* The own entry is replaced.                                              *)
LEMMA StoreEffect ==
    ASSUME TypeOK, NEW n \in Nodes, NEW w \in Workers, emitStore(n, w)
    PROVE  /\ Only(n, w) /\ worker[n][w].pc = "store" /\ worker[n][w].lsa \in LSA
           /\ worker'[n][w].pc = "flood" /\ worker'[n][w].to = worker[n][w].to
           /\ worker'[n][w].lsa = worker[n][w].lsa
           /\ \A x, o \in Nodes : lsas'[x][o] = (IF x = n /\ o = n THEN worker[n][w].lsa ELSE lsas[x][o])
           /\ UNCHANGED <<link, cut, wire, sequence, signed, latest, reader, expired>>
<1>1. /\ worker' = [worker EXCEPT ![n][w].pc = "flood"] /\ lsas' = [lsas EXCEPT ![n][n] = worker[n][w].lsa]
      /\ worker[n][w].pc = "store" /\ worker \in [Nodes -> [Workers -> Job]]
      /\ UNCHANGED <<link, cut, wire, sequence, signed, latest, reader, expired>>
    BY DEF emitStore, TypeOK, linkVars
<1>2. /\ worker[n][w] = [pc |-> worker[n][w].pc, lsa |-> worker[n][w].lsa, to |-> worker[n][w].to]
      /\ worker[n][w].lsa \in LSA
    BY <1>1, JobFields
<1>3. worker'[n][w] = [pc |-> "flood", lsa |-> worker[n][w].lsa, to |-> worker[n][w].to]
    BY <1>1, <1>2
<1>4. Only(n, w)
    BY <1>1 DEF Only
<1>5. \A x, o \in Nodes : lsas'[x][o] = (IF x = n /\ o = n THEN worker[n][w].lsa ELSE lsas[x][o])
    BY <1>1 DEF TypeOK
<1> QED BY <1>1, <1>2, <1>3, <1>4, <1>5

(* A broadcast adds one frame to each live connection but one.             *)
Sends(n, lsa, except, a, b, o) ==
    a = n /\ b \in peers(n) \ {except} /\ ~Broken(n, b) /\ o = lsa.origin

(* The frames after a broadcast.                                           *)
LEMMA BroadcastFrames ==
    ASSUME TypeOK, NEW n \in Nodes, NEW lsa \in LSA, NEW except,
           NEW a \in Nodes, NEW b \in Nodes, NEW o \in Nodes, wire' = broadcast(n, lsa, except)
    PROVE  \A x : x \in Frames(wire'[a][b][o]) <=>
                   (x \in Frames(wire[a][b][o]) \/ (x = lsa /\ Sends(n, lsa, except, a, b, o)))
<1>1. wire \in [Nodes -> [Nodes -> [Nodes -> Seq(LSA)]]] /\ lsa.origin \in Nodes
    BY DEF TypeOK, LSA
<1>2. wire'[a][b] = IF a = n /\ b \in peers(n) \ {except} /\ ~Broken(n, b)
                    THEN [wire[a][b] EXCEPT ![lsa.origin] = Append(@, lsa)] ELSE wire[a][b]
    BY <1>1 DEF broadcast
<1>3. wire'[a][b][o] = IF Sends(n, lsa, except, a, b, o) THEN Append(wire[a][b][o], lsa) ELSE wire[a][b][o]
    BY <1>1, <1>2 DEF Sends
<1>4. wire[a][b][o] \in Seq(LSA)
    BY <1>1
<1>5. Frames(Append(wire[a][b][o], lsa)) = Frames(wire[a][b][o]) \cup {lsa}
    BY <1>4, FramesAppend
<1> QED BY <1>3, <1>5

(* The own advertisement goes out.                                         *)
LEMMA FloodEffect ==
    ASSUME TypeOK, NEW n \in Nodes, NEW w \in Workers, emitFlood(n, w)
    PROVE  /\ Only(n, w) /\ worker[n][w].pc = "flood" /\ worker[n][w].lsa \in LSA
           /\ worker'[n][w].pc \in {"idle", "sync"} /\ worker'[n][w].to = worker[n][w].to
           /\ \A a, b, o \in Nodes : \A x : x \in Frames(wire'[a][b][o]) <=>
                (x \in Frames(wire[a][b][o]) \/ (x = worker[n][w].lsa /\ Sends(n, worker[n][w].lsa, None, a, b, o)))
           /\ UNCHANGED <<link, cut, sequence, signed, latest, lsas, reader, expired>>
<1>1. /\ worker' = [worker EXCEPT ![n][w] =
                      IF @.to = None THEN Idle ELSE [@ EXCEPT !.pc = "sync", !.lsa = None]]
      /\ wire' = broadcast(n, worker[n][w].lsa, None)
      /\ worker[n][w].pc = "flood" /\ worker \in [Nodes -> [Workers -> Job]]
      /\ UNCHANGED <<link, cut, sequence, signed, latest, lsas, reader, expired>>
    BY DEF emitFlood, TypeOK
<1>2. /\ worker[n][w] = [pc |-> worker[n][w].pc, lsa |-> worker[n][w].lsa, to |-> worker[n][w].to]
      /\ worker[n][w].lsa \in LSA
    BY <1>1, JobFields
<1>3. worker'[n][w] = IF worker[n][w].to = None THEN Idle
                      ELSE [pc |-> "sync", lsa |-> None, to |-> worker[n][w].to]
    <2>1. PICK j : j = [worker[n][w] EXCEPT !.pc = "sync", !.lsa = None]
        OBVIOUS
    <2>2. j = [pc |-> "sync", lsa |-> None, to |-> worker[n][w].to]
        BY <1>2, <2>1
    <2>3. PICK k : k = IF worker[n][w].to = None THEN Idle ELSE j
        OBVIOUS
    <2>4. worker' = [worker EXCEPT ![n][w] = k]
        BY <1>1, <2>1, <2>3
    <2>5. worker \in [Nodes -> [Workers -> Job]]
        BY DEF TypeOK
    <2>6. worker'[n][w] = k
        BY <2>4, <2>5
    <2> QED BY <2>2, <2>3, <2>6
<1>4. Only(n, w)
    BY <1>1 DEF Only
<1>5. worker'[n][w].pc \in {"idle", "sync"} /\ worker'[n][w].to = worker[n][w].to
    BY <1>3 DEF Idle
<1>6. \A a, b, o \in Nodes : \A x : x \in Frames(wire'[a][b][o]) <=>
                (x \in Frames(wire[a][b][o]) \/ (x = worker[n][w].lsa /\ Sends(n, worker[n][w].lsa, None, a, b, o)))
    <2>1. PICK x \in LSA : x = worker[n][w].lsa
        BY <1>2
    <2>2. wire' = broadcast(n, x, None)
        BY <1>1, <2>1
    <2>3. \A a, b, o \in Nodes : \A y : y \in Frames(wire'[a][b][o]) <=>
                (y \in Frames(wire[a][b][o]) \/ (y = x /\ Sends(n, x, None, a, b, o)))
        BY <2>2, BroadcastFrames
    <2> QED BY <2>1, <2>3
<1> QED BY <1>1, <1>2, <1>4, <1>5, <1>6

(* A stored advertisement goes out to the other peers.                     *)
LEMMA OnwardEffect ==
    ASSUME TypeOK, NEW n \in Nodes, NEW m \in Nodes, floodOnward(n, m)
    PROVE  /\ reader[n][m] \in LSA /\ reader'[n][m] = None
           /\ \A a, b \in Nodes : a # n \/ b # m => reader'[a][b] = reader[a][b]
           /\ \A a, b, o \in Nodes : \A x : x \in Frames(wire'[a][b][o]) <=>
                (x \in Frames(wire[a][b][o]) \/ (x = reader[n][m] /\ Sends(n, reader[n][m], m, a, b, o)))
           /\ UNCHANGED <<link, cut, sequence, signed, latest, worker, lsas, expired>>
<1>1. /\ reader[n][m] # None /\ wire' = broadcast(n, reader[n][m], m)
      /\ reader' = [reader EXCEPT ![n][m] = None]
      /\ UNCHANGED <<link, cut, sequence, signed, latest, worker, lsas, expired>>
    BY DEF floodOnward, emitVars
<1>2. reader[n][m] \in LSA
    BY <1>1 DEF TypeOK
<1>3. reader'[n][m] = None /\ \A a, b \in Nodes : a # n \/ b # m => reader'[a][b] = reader[a][b]
    BY <1>1 DEF TypeOK
<1>4. \A a, b, o \in Nodes : \A x : x \in Frames(wire'[a][b][o]) <=>
                (x \in Frames(wire[a][b][o]) \/ (x = reader[n][m] /\ Sends(n, reader[n][m], m, a, b, o)))
    <2>1. PICK x \in LSA : x = reader[n][m]
        BY <1>2
    <2>2. wire' = broadcast(n, x, m)
        BY <1>1, <2>1
    <2>3. \A a, b, o \in Nodes : \A y : y \in Frames(wire'[a][b][o]) <=>
                (y \in Frames(wire[a][b][o]) \/ (y = x /\ Sends(n, x, m, a, b, o)))
        BY <2>2, BroadcastFrames
    <2> QED BY <2>1, <2>3
<1> QED BY <1>1, <1>2, <1>3, <1>4

(* A new peer is sent all that is held.                                    *)
LEMMA SyncEffect ==
    ASSUME TypeOK, NEW n \in Nodes, NEW w \in Workers, sendAllLSAs(n, w)
    PROVE  /\ Only(n, w) /\ worker[n][w].pc = "sync" /\ worker'[n][w].pc = "idle" /\ worker'[n][w].to = None
           /\ \A a, b, o \in Nodes : \A x : x \in Frames(wire'[a][b][o]) <=>
                \/ x \in Frames(wire[a][b][o])
                \/ /\ a = n /\ b = worker[n][w].to /\ ~Broken(n, b)
                   /\ lsas[n][o] # None /\ x = lsas[n][o]
           /\ UNCHANGED <<link, cut, sequence, signed, latest, lsas, reader, expired>>
<1>1. /\ worker' = [worker EXCEPT ![n][w] = Idle] /\ worker[n][w].pc = "sync"
      /\ worker \in [Nodes -> [Workers -> Job]] /\ wire \in [Nodes -> [Nodes -> [Nodes -> Seq(LSA)]]]
      /\ UNCHANGED <<link, cut, sequence, signed, latest, lsas, reader, expired>>
    BY DEF sendAllLSAs, TypeOK
<1>2. PICK m : m = worker[n][w].to
    OBVIOUS
<1>3. m \in Nodes \cup {None}
    BY <1>2, JobFields
<1>4. wire' = IF m = None \/ Broken(n, m) THEN wire
              ELSE [wire EXCEPT ![n][m] = [o \in Nodes |->
                      IF lsas[n][o] = None THEN wire[n][m][o] ELSE Append(wire[n][m][o], lsas[n][o])]]
    BY <1>2 DEF sendAllLSAs
<1>5. ASSUME NEW a \in Nodes, NEW b \in Nodes, NEW o \in Nodes
      PROVE  Frames(wire'[a][b][o]) = Frames(wire[a][b][o])
                  \cup (IF a = n /\ b = m /\ ~Broken(n, b) /\ lsas[n][o] # None THEN {lsas[n][o]} ELSE {})
    <2>1. CASE a = n /\ b = m /\ ~Broken(n, b) /\ lsas[n][o] # None
        <3>1. wire'[a][b][o] = Append(wire[a][b][o], lsas[n][o])
            BY <1>1, <1>3, <1>4, <2>1, NoneAssumption
        <3>2. wire[a][b][o] \in Seq(LSA) /\ lsas[n][o] \in LSA
            BY <2>1 DEF TypeOK
        <3> QED BY <2>1, <3>1, <3>2, FramesAppend
    <2>2. CASE ~(a = n /\ b = m /\ ~Broken(n, b) /\ lsas[n][o] # None)
        <3>1. wire'[a][b][o] = wire[a][b][o]
            BY <1>1, <1>3, <1>4, <2>2
        <3> QED BY <2>2, <3>1
    <2> QED BY <2>1, <2>2
<1>6. Only(n, w) /\ worker'[n][w] = Idle
    BY <1>1 DEF Only
<1>7. worker'[n][w].pc = "idle" /\ worker'[n][w].to = None
    BY <1>6 DEF Idle
<1>8. \A a, b, o \in Nodes : \A x : x \in Frames(wire'[a][b][o]) <=>
                \/ x \in Frames(wire[a][b][o])
                \/ /\ a = n /\ b = worker[n][w].to /\ ~Broken(n, b)
                   /\ lsas[n][o] # None /\ x = lsas[n][o]
    BY <1>2, <1>5
<1> QED BY <1>1, <1>6, <1>7, <1>8

(* Two ends enter the map of connections; nothing is on the wire.          *)
LEMMA EstablishEffect ==
    ASSUME TypeOK, NEW n \in Nodes, NEW m \in Nodes, establishPeer(n, m)
    PROVE  /\ n # m
           /\ \A a, b \in Nodes :
                IF (a = n /\ b = m) \/ (a = m /\ b = n)
                THEN link'[a][b] = "hello" /\ \A o \in Nodes : Frames(wire'[a][b][o]) = {}
                ELSE /\ link'[a][b] = link[a][b] /\ wire'[a][b] = wire[a][b]
                     /\ Broken(a, b)' = Broken(a, b)
           /\ UNCHANGED <<sequence, signed, latest, worker, lsas, reader, expired>>
<1>1. /\ n # m /\ link' = [link EXCEPT ![n][m] = "hello", ![m][n] = "hello"]
      /\ wire' = [wire EXCEPT ![n][m] = Quiet, ![m][n] = Quiet]
      /\ cut' = cut \ {{n, m}}
      /\ UNCHANGED <<sequence, signed, latest, worker, lsas, reader, expired>>
    BY DEF establishPeer, emitVars
<1>2. ASSUME NEW a \in Nodes, NEW b \in Nodes, (a = n /\ b = m) \/ (a = m /\ b = n)
      PROVE  link'[a][b] = "hello" /\ wire'[a][b] = Quiet
    BY <1>1, <1>2 DEF TypeOK
<1>3. ASSUME NEW a \in Nodes, NEW b \in Nodes, ~((a = n /\ b = m) \/ (a = m /\ b = n))
      PROVE  link'[a][b] = link[a][b] /\ wire'[a][b] = wire[a][b]
    BY <1>1, <1>3 DEF TypeOK
<1>4. ASSUME NEW a \in Nodes, NEW b \in Nodes, ~((a = n /\ b = m) \/ (a = m /\ b = n))
      PROVE  Broken(a, b)' = Broken(a, b)
    <2>1. {a, b} # {n, m}
        BY <1>4, Zenon
    <2> QED BY <1>1, <2>1 DEF Broken
<1>5. \A o \in Nodes : Frames(Quiet[o]) = {}
    BY FramesEmpty DEF Quiet
<1> QED BY <1>1, <1>2, <1>3, <1>4, <1>5

(* One end is in the peer map and about to emit.                           *)
LEMMA RegisterEffect ==
    ASSUME TypeOK, NEW n \in Nodes, NEW m \in Nodes, NEW w \in Workers, registerPeer(n, m, w)
    PROVE  /\ \A a, b \in Nodes : link'[a][b] = (IF a = n /\ b = m THEN "up" ELSE link[a][b])
           /\ link[n][m] = "hello" /\ Only(n, w) /\ worker[n][w].pc = "idle" /\ worker[n][w].to = None
           /\ worker'[n][w].pc = "number" /\ worker'[n][w].to = m
           /\ UNCHANGED <<cut, wire, sequence, signed, latest, lsas, reader, expired>>
<1>1. \A a, b \in Nodes : link'[a][b] = (IF a = n /\ b = m THEN "up" ELSE link[a][b])
    BY DEF registerPeer, TypeOK
<1>2. Emitting(n, w, m)
    BY DEF registerPeer
<1>3. /\ Only(n, w) /\ worker[n][w].pc = "idle" /\ worker[n][w].to = None
      /\ worker'[n][w].pc = "number" /\ worker'[n][w].to = m
    BY <1>2, StartEffect
<1> QED BY <1>1, <1>3 DEF registerPeer

(* One end leaves the peer map of a broken connection, what it has not     *)
(* read is gone.                                                           *)
LEMMA UnregisterEffect ==
    ASSUME TypeOK, NEW n \in Nodes, NEW m \in Nodes, NEW w \in Workers, unregisterPeer(n, m, w)
    PROVE  /\ Broken(n, m)
           /\ \A a, b \in Nodes : link'[a][b] = (IF a = n /\ b = m THEN "none" ELSE link[a][b])
           /\ \A a, b, o \in Nodes : Frames(wire'[a][b][o]) =
                (IF a = m /\ b = n THEN {} ELSE Frames(wire[a][b][o]))
           /\ EmittingWithout(n, w, m)
           /\ UNCHANGED <<cut, sequence, signed, latest, lsas, reader, expired>>
<1>1. \A a, b \in Nodes : link'[a][b] = (IF a = n /\ b = m THEN "none" ELSE link[a][b])
    BY DEF unregisterPeer, TypeOK
<1>2. \A a, b \in Nodes : wire'[a][b] = (IF a = m /\ b = n THEN Quiet ELSE wire[a][b])
    BY DEF unregisterPeer, TypeOK
<1>3. \A o \in Nodes : Frames(Quiet[o]) = {}
    BY FramesEmpty DEF Quiet
<1>4. \A a, b, o \in Nodes : Frames(wire'[a][b][o]) =
                (IF a = m /\ b = n THEN {} ELSE Frames(wire[a][b][o]))
    BY <1>2, <1>3
<1> QED BY <1>1, <1>4 DEF unregisterPeer

(* A transport fails.                                                      *)
LEMMA FailEffect ==
    ASSUME TypeOK, NEW n \in Nodes, NEW m \in Nodes, TransportFails(n, m)
    PROVE  /\ \A a, b \in Nodes : Broken(a, b) => Broken(a, b)'
           /\ UNCHANGED <<link, wire, sequence, signed, latest, worker, lsas, reader, expired>>
BY DEF TransportFails, Broken, emitVars

(* The ticker starts an emission.                                          *)
LEMMA TickEffect ==
    ASSUME TypeOK, NEW n \in Nodes, NEW w \in Workers, lsaTick(n, w)
    PROVE  /\ Only(n, w) /\ worker[n][w].pc = "idle" /\ worker[n][w].to = None
           /\ worker'[n][w].pc = "number" /\ worker'[n][w].to = None
           /\ UNCHANGED <<link, cut, wire, sequence, signed, latest, lsas, reader, expired>>
<1>1. Emitting(n, w, None)
    BY DEF lsaTick
<1> QED BY <1>1, StartEffect DEF lsaTick, linkVars

(* A frame is read; it is stored, to be flooded, or refused.               *)
Handled(n, m, o, lsa) ==
    /\ Frames(wire[m][n][o]) = {lsa} \cup Frames(wire'[m][n][o])
    /\ \A a, b, c \in Nodes : a # m \/ b # n \/ c # o => wire'[a][b][c] = wire[a][b][c]
    /\ \A a, b \in Nodes : a # n \/ b # o => lsas'[a][b] = lsas[a][b]
    /\ \A a, b \in Nodes : a # n \/ b # m => reader'[a][b] = reader[a][b]
    /\ IF Accepts(n, lsa) THEN lsas'[n][o] = lsa /\ reader'[n][m] = lsa
       ELSE lsas'[n][o] = lsas[n][o] /\ reader'[n][m] = reader[n][m]
    /\ link[n][m] = "up" /\ reader[n][m] = None
    /\ UNCHANGED <<link, cut, sequence, signed, latest, worker, expired>>

(* The frame read is the one taken from the connection.                    *)
LEMMA HandleEffect ==
    ASSUME TypeOK, NEW n \in Nodes, NEW m \in Nodes, NEW o \in Nodes, handleLSA(n, m, o)
    PROVE  \E lsa \in LSA : Handled(n, m, o, lsa)
<1>0. wire[m][n][o] \in Seq(LSA)
    BY DEF TypeOK
<1>1. PICK s \in Seq(LSA) : s = wire[m][n][o]
    BY <1>0
<1>2. /\ s # << >> /\ wire' = [wire EXCEPT ![m][n][o] = Tail(s)]
      /\ IF Accepts(n, Head(s))
         THEN lsas' = [lsas EXCEPT ![n][o] = Head(s)] /\ reader' = [reader EXCEPT ![n][m] = Head(s)]
         ELSE UNCHANGED <<lsas, reader>>
      /\ link[n][m] = "up" /\ reader[n][m] = None
      /\ UNCHANGED <<link, cut, sequence, signed, latest, worker, expired>>
    BY <1>1 DEF handleLSA, Reading, emitVars
<1>3. PICK lsa : lsa = Head(s)
    OBVIOUS
<1>4. PICK t : t = Tail(s)
    OBVIOUS
<1>5. lsa \in LSA /\ Frames(s) = {lsa} \cup Frames(t)
    BY <1>2, <1>3, <1>4, FramesTail
<1>6. /\ wire'[m][n][o] = t
      /\ \A a, b, c \in Nodes : a # m \/ b # n \/ c # o => wire'[a][b][c] = wire[a][b][c]
    <2>1. wire' = [wire EXCEPT ![m][n][o] = t] /\ wire \in [Nodes -> [Nodes -> [Nodes -> Seq(LSA)]]]
        BY <1>2, <1>4 DEF TypeOK
    <2>2. PICK S : wire \in [Nodes -> [Nodes -> [Nodes -> S]]]
        BY <2>1
    <2> QED BY <2>1, <2>2, ZenonT(30)
<1>7. CASE Accepts(n, lsa)
    <2>1. lsas' = [lsas EXCEPT ![n][o] = lsa] /\ reader' = [reader EXCEPT ![n][m] = lsa]
        BY <1>2, <1>3, <1>7
    <2>2. /\ lsas'[n][o] = lsa /\ \A a, b \in Nodes : a # n \/ b # o => lsas'[a][b] = lsas[a][b]
        BY <2>1 DEF TypeOK
    <2>3. /\ reader'[n][m] = lsa /\ \A a, b \in Nodes : a # n \/ b # m => reader'[a][b] = reader[a][b]
        BY <2>1 DEF TypeOK
    <2> QED BY <1>1, <1>2, <1>5, <1>6, <1>7, <2>2, <2>3 DEF Handled
<1>8. CASE ~Accepts(n, lsa)
    <2>1. lsas' = lsas /\ reader' = reader
        BY <1>2, <1>3, <1>8
    <2> QED BY <1>1, <1>2, <1>5, <1>6, <1>8, <2>1 DEF Handled
<1> QED BY <1>7, <1>8

(* Expired entries of other nodes go.                                      *)
LEMMA CleanEffect ==
    ASSUME TypeOK, NEW n \in Nodes, cleanupExpired(n)
    PROVE  /\ \A a, b \in Nodes : lsas'[a][b] =
                (IF a = n /\ b # n /\ lsas[a][b] # None /\ lsas[a][b].stamp <= expired[b]
                 THEN None ELSE lsas[a][b])
           /\ UNCHANGED <<link, cut, wire, sequence, signed, latest, worker, reader, expired>>
<1>1. /\ lsas' = [lsas EXCEPT ![n] = Kept(n)]
      /\ UNCHANGED <<link, cut, wire, sequence, signed, latest, worker, reader, expired>>
    BY DEF cleanupExpired, linkVars, emitVars
<1>2. \A b \in Nodes : lsas'[n][b] = Kept(n)[b]
    BY <1>1 DEF TypeOK
<1>3. \A a, b \in Nodes : a # n => lsas'[a][b] = lsas[a][b]
    BY <1>1 DEF TypeOK
<1> QED BY <1>1, <1>2, <1>3 DEF Kept

(* Time passes.                                                            *)
LEMMA AgeEffect ==
    ASSUME TypeOK, NEW n \in Nodes, Age(n)
    PROVE  /\ \A x \in Nodes : expired'[x] >= expired[x]
           /\ UNCHANGED <<link, cut, wire, sequence, signed, latest, worker, lsas, reader>>
<1>1. PICK k \in (expired[n] + 1)..(latest[n].stamp - 1) : expired' = [expired EXCEPT ![n] = k]
    BY DEF Age
<1>2. expired \in [Nodes -> Nat] /\ latest[n].stamp \in Nat
    BY DEF TypeOK, LSA
<1>3. \A x \in Nodes : expired'[x] >= expired[x]
    BY <1>1, <1>2
<1> QED BY <1>3 DEF Age, linkVars, emitVars

(* A process starts anew; the connections it had are broken.               *)
LEMMA RestartEffect ==
    ASSUME TypeOK, NEW n \in Nodes, Restart(n)
    PROVE  /\ \A a, b \in Nodes : link'[a][b] = (IF a = n THEN "none" ELSE link[a][b])
           /\ \A a, b \in Nodes : Broken(a, b) => Broken(a, b)'
           /\ \A a \in Nodes : link[a][n] # "none" => Broken(a, n)'
           /\ \A a, b, o \in Nodes : Frames(wire'[a][b][o]) =
                (IF b = n THEN {} ELSE Frames(wire[a][b][o]))
           /\ \A x \in Nodes : sequence'[x] = (IF x = n THEN 0 ELSE sequence[x])
           /\ \A a, b \in Nodes : lsas'[a][b] = (IF a = n THEN None ELSE lsas[a][b])
           /\ \A a, b \in Nodes : reader'[a][b] = (IF a = n THEN None ELSE reader[a][b])
           /\ \A x \in Nodes, y \in Workers : x # n => worker'[x][y] = worker[x][y]
           /\ \A y \in Workers : worker'[n][y].to = None /\ worker'[n][y].pc \in {"idle", "number"}
           /\ \E w \in Workers : worker'[n][w].pc = "number"
           /\ UNCHANGED <<signed, latest, expired>>
<1>1. /\ \A a, b \in Nodes : link'[a][b] = (IF a = n THEN "none" ELSE link[a][b])
      /\ \A x \in Nodes : sequence'[x] = (IF x = n THEN 0 ELSE sequence[x])
      /\ \A a, b \in Nodes : lsas'[a][b] = (IF a = n THEN None ELSE lsas[a][b])
      /\ \A a, b \in Nodes : reader'[a][b] = (IF a = n THEN None ELSE reader[a][b])
    BY DEF Restart, TypeOK
<1>2. /\ \A a, b \in Nodes : Broken(a, b) => Broken(a, b)'
      /\ \A a \in Nodes : link[a][n] # "none" => Broken(a, n)'
    <2>1. cut' = cut \cup {{n, m} : m \in {x \in Nodes : link[x][n] # "none"}}
        BY DEF Restart
    <2>2. \A a : {n, a} = {a, n}
        OBVIOUS
    <2> QED BY <2>1, <2>2 DEF Broken
<1>3. \A a, b \in Nodes : wire'[a][b] = (IF b = n THEN Quiet ELSE wire[a][b])
    BY DEF Restart, TypeOK
<1>4. \A o \in Nodes : Frames(Quiet[o]) = {}
    BY FramesEmpty DEF Quiet
<1>5. \A a, b, o \in Nodes : Frames(wire'[a][b][o]) = (IF b = n THEN {} ELSE Frames(wire[a][b][o]))
    BY <1>3, <1>4
<1>6. PICK w \in Workers : worker' = [worker EXCEPT ![n] = [v \in Workers |->
                      IF v = w THEN [pc |-> "number", lsa |-> None, to |-> None]
                      ELSE Idle]]
    BY DEF Restart
<1>7. /\ \A x \in Nodes, y \in Workers : x # n => worker'[x][y] = worker[x][y]
      /\ \A y \in Workers : worker'[n][y] =
           IF y = w THEN [pc |-> "number", lsa |-> None, to |-> None] ELSE Idle
    BY <1>6 DEF TypeOK
<1>8. /\ \A y \in Workers : worker'[n][y].to = None /\ worker'[n][y].pc \in {"idle", "number"}
      /\ \E v \in Workers : worker'[n][v].pc = "number"
    BY <1>7 DEF Idle
<1>9. UNCHANGED <<signed, latest, expired>>
    BY DEF Restart
<1> QED BY <1>1, <1>2, <1>5, <1>7, <1>8, <1>9

-----------------------------------------------------------------------------
(* Exists, as a set.                                                       *)
LEMMA ExistsIff == \A x : x \in InExistence <=> Exists(x)
<1> SUFFICES ASSUME NEW x PROVE x \in InExistence <=> Exists(x)
    OBVIOUS
<1> DEFINE held == UNION {{lsas[n][m] : m \in Nodes} \cup {reader[n][m] : m \in Nodes} :
                            n \in Nodes}
<1> DEFINE sent == UNION {UNION {UNION {Frames(wire[n][m][o]) : o \in Nodes} : m \in Nodes} :
                            n \in Nodes}
<1> DEFINE jobs == UNION {{worker[n][w] : w \in Workers} : n \in Nodes}
<1> DEFINE made == {j.lsa : j \in {y \in jobs : y.pc \in {"store", "flood"}}}
<1>1. x \in held <=> \E a, b \in Nodes : x = lsas[a][b] \/ x = reader[a][b]
    OBVIOUS
<1>2. x \in sent <=> \E a, b, o \in Nodes : x \in Frames(wire[a][b][o])
    OBVIOUS
<1>3. x \in made <=> \E a \in Nodes, w \in Workers :
                      worker[a][w].pc \in {"store", "flood"} /\ x = worker[a][w].lsa
    OBVIOUS
<1>4. InExistence = (held \ {None}) \cup sent \cup made
    BY DEF InExistence
<1> HIDE DEF held, sent, jobs, made
<1> QED BY <1>1, <1>2, <1>3, <1>4 DEF Exists, Held, Taken, Sent, Made

(* What exists is an advertisement.                                        *)
LEMMA ExistsType == TypeOK => \A x : Exists(x) => x \in LSA
<1> SUFFICES ASSUME TypeOK, NEW x, Exists(x) PROVE x \in LSA
    OBVIOUS
<1>1. ASSUME NEW a \in Nodes, NEW b \in Nodes, x = lsas[a][b] \/ x = reader[a][b], x # None
      PROVE  x \in LSA
    BY <1>1 DEF TypeOK
<1>2. ASSUME NEW a \in Nodes, NEW b \in Nodes, NEW o \in Nodes, x \in Frames(wire[a][b][o])
      PROVE  x \in LSA
    <2>1. wire[a][b][o] \in Seq(LSA)
        BY DEF TypeOK
    <2> QED BY <1>2, <2>1 DEF Frames
<1>3. ASSUME NEW a \in Nodes, NEW w \in Workers, worker[a][w].pc \in {"store", "flood"},
             x = worker[a][w].lsa
      PROVE  x \in LSA
    BY <1>3, JobFields
<1> QED BY <1>1, <1>2, <1>3 DEF Exists, Held, Taken, Sent, Made

(* Only the read of the peer map brings an advertisement into existence.   *)
LEMMA Newcomer ==
    ASSUME TypeOK, [Next]_vars, NEW x, Exists(x)'
    PROVE  Exists(x) \/ \E n \in Nodes, w \in Workers : emitRead(n, w) /\ x = worker'[n][w].lsa
<1> DEFINE Goal == Exists(x) \/ \E n \in Nodes, w \in Workers : emitRead(n, w) /\ x = worker'[n][w].lsa
<1>0. Held(x)' \/ Taken(x)' \/ Sent(x)' \/ Made(x)'
    BY DEF Exists
<1>h. lsas' = lsas => (Held(x)' => Held(x))
    BY DEF Held
<1>t. reader' = reader => (Taken(x)' => Taken(x))
    BY DEF Taken
<1>s. (\A a, b, o \in Nodes : Frames(wire'[a][b][o]) \subseteq Frames(wire[a][b][o]))
      => (Sent(x)' => Sent(x))
    BY DEF Sent
<1>m. (\A a \in Nodes, v \in Workers :
         worker'[a][v].pc \in {"store", "flood"} =>
           worker[a][v].pc \in {"store", "flood"} /\ worker'[a][v].lsa = worker[a][v].lsa)
      => (Made(x)' => Made(x))
    BY DEF Made
<1>1. ASSUME NEW n \in Nodes, NEW m \in Nodes, establishPeer(n, m) PROVE Exists(x)
    <2>1. ASSUME NEW a \in Nodes, NEW b \in Nodes, NEW o \in Nodes
          PROVE  Frames(wire'[a][b][o]) \subseteq Frames(wire[a][b][o])
        <3>1. Frames(wire'[a][b][o]) = {} \/ wire'[a][b] = wire[a][b]
            BY <1>1, EstablishEffect
        <3> QED BY <3>1
    <2>2. UNCHANGED <<lsas, reader, worker>>
        BY <1>1, EstablishEffect
    <2> QED BY <1>0, <1>h, <1>t, <1>s, <1>m, <2>1, <2>2 DEF Exists
<1>2. ASSUME NEW n \in Nodes, NEW m \in Nodes, TransportFails(n, m) PROVE Exists(x)
    <2>1. UNCHANGED <<wire, lsas, reader, worker>>
        BY <1>2, FailEffect
    <2> QED BY <1>0, <1>h, <1>t, <1>s, <1>m, <2>1 DEF Exists
<1>3. ASSUME NEW n \in Nodes, NEW m \in Nodes, NEW o \in Nodes, handleLSA(n, m, o) PROVE Exists(x)
    <2>1. PICK lsa \in LSA : Handled(n, m, o, lsa)
        BY <1>3, HandleEffect
    <2>2. \A a, b, c \in Nodes : Frames(wire'[a][b][c]) \subseteq Frames(wire[a][b][c])
        <3> SUFFICES ASSUME NEW a \in Nodes, NEW b \in Nodes, NEW c \in Nodes
                     PROVE Frames(wire'[a][b][c]) \subseteq Frames(wire[a][b][c])
            OBVIOUS
        <3>1. CASE a = m /\ b = n /\ c = o
            BY <2>1, <3>1 DEF Handled
        <3>2. CASE ~(a = m /\ b = n /\ c = o)
            BY <2>1, <3>2 DEF Handled
        <3> QED BY <3>1, <3>2
    <2>3. lsa \in Frames(wire[m][n][o])
        BY <2>1 DEF Handled
    <2>4. \A a, b \in Nodes : lsas'[a][b] = lsas[a][b] \/ lsas'[a][b] = lsa
        BY <2>1 DEF Handled
    <2>5. \A a, b \in Nodes : reader'[a][b] = reader[a][b] \/ reader'[a][b] = lsa
        BY <2>1 DEF Handled
    <2>6. Sent(lsa)
        BY <2>3 DEF Sent
    <2>7. Held(x)' => Held(x) \/ x = lsa
        BY <2>4 DEF Held
    <2>8. Taken(x)' => Taken(x) \/ x = lsa
        BY <2>5 DEF Taken
    <2>9. worker' = worker
        BY <2>1 DEF Handled
    <2> QED BY <1>0, <1>s, <1>m, <2>2, <2>6, <2>7, <2>8, <2>9 DEF Exists
<1>4. ASSUME NEW n \in Nodes, NEW m \in Nodes, floodOnward(n, m) PROVE Exists(x)
    <2>0. PICK r : r = reader[n][m]
        OBVIOUS
    <2>1. r \in LSA /\ UNCHANGED <<worker, lsas>>
        BY <1>4, <2>0, OnwardEffect
    <2>r. ASSUME NEW a \in Nodes, NEW b \in Nodes, NEW o \in Nodes, x \in Frames(wire'[a][b][o])
          PROVE  x \in Frames(wire[a][b][o]) \/ x = r
        BY <1>4, <2>0, <2>r, OnwardEffect, SMTT(30)
    <2>2. \A a, b \in Nodes : reader'[a][b] = reader[a][b] \/ reader'[a][b] = None
        BY <1>4, OnwardEffect
    <2>3. Taken(r)
        BY <2>0, <2>1, NoLSAAssumption DEF Taken
    <2>4. Taken(x)' => Taken(x)
        BY <2>2 DEF Taken
    <2>5. Sent(x)' => Sent(x) \/ x = r
        BY <2>r DEF Sent
    <2> QED BY <1>0, <1>h, <1>m, <2>1, <2>3, <2>4, <2>5 DEF Exists
<1>5. ASSUME NEW n \in Nodes, NEW m \in Nodes, NEW w \in Workers, registerPeer(n, m, w) PROVE Exists(x)
    <2>1. /\ UNCHANGED <<wire, lsas, reader>> /\ Only(n, w) /\ worker'[n][w].pc = "number"
        BY <1>5, RegisterEffect
    <2>2. Made(x)' => Made(x)
        BY <1>m, <2>1 DEF Only
    <2> QED BY <1>0, <1>h, <1>t, <1>s, <2>1, <2>2 DEF Exists
<1>6. ASSUME NEW n \in Nodes, NEW m \in Nodes, NEW w \in Workers, unregisterPeer(n, m, w) PROVE Exists(x)
    <2>1. /\ UNCHANGED <<lsas, reader>> /\ EmittingWithout(n, w, m)
          /\ \A a, b, o \in Nodes : Frames(wire'[a][b][o]) \subseteq Frames(wire[a][b][o])
        BY <1>6, UnregisterEffect
    <2>2. /\ worker'[n][w].pc = "number"
          /\ \A a \in Nodes, v \in Workers : a # n => worker'[a][v] = worker[a][v]
          /\ \A v \in Workers : v # w =>
                worker'[n][v].pc = worker[n][v].pc /\ worker'[n][v].lsa = worker[n][v].lsa
        BY <2>1, CloseEffect
    <2>3. Made(x)' => Made(x)
        <3>1. ASSUME NEW a \in Nodes, NEW v \in Workers, worker'[a][v].pc \in {"store", "flood"}
              PROVE  worker[a][v].pc \in {"store", "flood"} /\ worker'[a][v].lsa = worker[a][v].lsa
            BY <2>2, <3>1
        <3> QED BY <3>1, <1>m
    <2> QED BY <1>0, <1>h, <1>t, <1>s, <2>1, <2>3 DEF Exists
<1>7. ASSUME NEW n \in Nodes, NEW w \in Workers, lsaTick(n, w) PROVE Exists(x)
    <2>1. /\ UNCHANGED <<wire, lsas, reader>> /\ Only(n, w) /\ worker'[n][w].pc = "number"
        BY <1>7, TickEffect
    <2>2. Made(x)' => Made(x)
        BY <1>m, <2>1 DEF Only
    <2> QED BY <1>0, <1>h, <1>t, <1>s, <2>1, <2>2 DEF Exists
<1>8. ASSUME NEW n \in Nodes, NEW w \in Workers, emitNumber(n, w) PROVE Exists(x)
    <2>1. /\ UNCHANGED <<wire, lsas, reader>> /\ Only(n, w) /\ worker'[n][w].pc = "read"
        BY <1>8, NumberEffect
    <2>2. Made(x)' => Made(x)
        BY <1>m, <2>1 DEF Only
    <2> QED BY <1>0, <1>h, <1>t, <1>s, <2>1, <2>2 DEF Exists
<1>9. ASSUME NEW n \in Nodes, NEW w \in Workers, emitRead(n, w) PROVE Goal
    <2>1. /\ UNCHANGED <<wire, lsas, reader>> /\ Only(n, w)
        BY <1>9, ReadEffect DEF ReadBy
    <2>2. Made(x)' => Made(x) \/ x = worker'[n][w].lsa
        BY <2>1 DEF Only, Made
    <2>3. Exists(x) \/ x = worker'[n][w].lsa
        BY <1>0, <1>h, <1>t, <1>s, <2>1, <2>2 DEF Exists
    <2> QED BY <1>9, <2>3
<1>10. ASSUME NEW n \in Nodes, NEW w \in Workers, emitStore(n, w) PROVE Exists(x)
    <2>1. /\ UNCHANGED <<wire, reader>> /\ Only(n, w) /\ worker'[n][w].lsa = worker[n][w].lsa
          /\ worker[n][w].pc = "store"
          /\ \A a, b \in Nodes : lsas'[a][b] = lsas[a][b] \/ lsas'[a][b] = worker[n][w].lsa
        BY <1>10, StoreEffect
    <2>2. Made(x)' => Made(x)
        BY <1>m, <2>1 DEF Only
    <2>3. Held(x)' => Held(x) \/ x = worker[n][w].lsa
        BY <2>1 DEF Held
    <2>4. Made(worker[n][w].lsa)
        BY <2>1 DEF Made
    <2> QED BY <1>0, <1>t, <1>s, <2>1, <2>2, <2>3, <2>4 DEF Exists
<1>11. ASSUME NEW n \in Nodes, NEW w \in Workers, emitFlood(n, w) PROVE Exists(x)
    <2>0. PICK r : r = worker[n][w].lsa
        OBVIOUS
    <2>1. /\ UNCHANGED <<lsas, reader>> /\ Only(n, w) /\ worker'[n][w].pc \in {"idle", "sync"}
          /\ worker[n][w].pc = "flood"
        BY <1>11, <2>0, FloodEffect
    <2>r. ASSUME NEW a \in Nodes, NEW b \in Nodes, NEW o \in Nodes, x \in Frames(wire'[a][b][o])
          PROVE  x \in Frames(wire[a][b][o]) \/ x = r
        BY <1>11, <2>0, <2>r, FloodEffect
    <2>2. Made(x)' => Made(x)
        BY <1>m, <2>1 DEF Only
    <2>3. Sent(x)' => Sent(x) \/ x = r
        BY <2>r DEF Sent
    <2>4. Made(r)
        BY <2>0, <2>1 DEF Made
    <2> QED BY <1>0, <1>h, <1>t, <2>1, <2>2, <2>3, <2>4 DEF Exists
<1>12. ASSUME NEW n \in Nodes, NEW w \in Workers, sendAllLSAs(n, w) PROVE Exists(x)
    <2>1. UNCHANGED <<lsas, reader>> /\ Only(n, w) /\ worker'[n][w].pc = "idle"
        BY <1>12, SyncEffect
    <2>2. ASSUME NEW a \in Nodes, NEW b \in Nodes, NEW o \in Nodes, x \in Frames(wire'[a][b][o])
          PROVE  x \in Frames(wire[a][b][o]) \/ (x = lsas[n][o] /\ x # None)
        BY <1>12, <2>2, SyncEffect
    <2>3. Made(x)' => Made(x)
        BY <1>m, <2>1 DEF Only
    <2>4. Sent(x)' => Sent(x) \/ Held(x)
        BY <2>2 DEF Sent, Held
    <2> QED BY <1>0, <1>h, <1>t, <2>1, <2>3, <2>4 DEF Exists
<1>13. ASSUME NEW n \in Nodes, cleanupExpired(n) PROVE Exists(x)
    <2>1. /\ UNCHANGED <<wire, worker, reader>>
          /\ \A a, b \in Nodes : lsas'[a][b] = lsas[a][b] \/ lsas'[a][b] = None
        BY <1>13, CleanEffect
    <2>2. Held(x)' => Held(x)
        BY <2>1 DEF Held
    <2> QED BY <1>0, <1>t, <1>s, <1>m, <2>1, <2>2 DEF Exists
<1>14. ASSUME NEW n \in Nodes, Age(n) PROVE Exists(x)
    <2>1. UNCHANGED <<wire, lsas, reader, worker>>
        BY <1>14, AgeEffect
    <2> QED BY <1>0, <1>h, <1>t, <1>s, <1>m, <2>1 DEF Exists
<1>15. ASSUME NEW n \in Nodes, Restart(n) PROVE Exists(x)
    <2>1. \A a, b, o \in Nodes : Frames(wire'[a][b][o]) \subseteq Frames(wire[a][b][o])
        BY <1>15, RestartEffect
    <2>2. /\ \A a, b \in Nodes : lsas'[a][b] = lsas[a][b] \/ lsas'[a][b] = None
          /\ \A a, b \in Nodes : reader'[a][b] = reader[a][b] \/ reader'[a][b] = None
        BY <1>15, RestartEffect
    <2>3. \A a \in Nodes, y \in Workers :
             worker'[a][y] = worker[a][y] \/ worker'[a][y].pc \in {"idle", "number"}
        BY <1>15, RestartEffect
    <2>4. Held(x)' => Held(x)
        BY <2>2 DEF Held
    <2>5. Taken(x)' => Taken(x)
        BY <2>2 DEF Taken
    <2>6. Made(x)' => Made(x)
        BY <1>m, <2>3
    <2> QED BY <1>0, <1>s, <2>1, <2>4, <2>5, <2>6 DEF Exists
<1>16. CASE UNCHANGED vars
    <2>1. UNCHANGED <<wire, lsas, reader, worker>>
        BY <1>16 DEF vars
    <2> QED BY <1>0, <1>h, <1>t, <1>s, <1>m, <2>1 DEF Exists
<1> HIDE DEF Goal
<1>17. Exists(x) => Goal
    BY DEF Goal
<1>18. Goal
    BY <1>1, <1>2, <1>3, <1>4, <1>5, <1>6, <1>7, <1>8, <1>9, <1>10, <1>11, <1>12, <1>13,
       <1>14, <1>15, <1>16, <1>17 DEF Next, Emission
<1> QED BY <1>18 DEF Goal

(* Only a start and a draw of a number move the counter of a node.         *)
LEMMA SequenceStep ==
    ASSUME TypeOK, [Next]_vars, NEW x \in Nodes
    PROVE  \/ sequence'[x] = sequence[x]
           \/ Restart(x)
           \/ \E w \in Workers : emitNumber(x, w)
<1>1. ASSUME NEW n \in Nodes, Restart(n) PROVE sequence'[x] = sequence[x] \/ Restart(x)
    BY <1>1, RestartEffect
<1>2. ASSUME NEW n \in Nodes, NEW w \in Workers, emitNumber(n, w)
      PROVE  sequence'[x] = sequence[x] \/ \E v \in Workers : emitNumber(x, v)
    <2>1. x = n \/ sequence'[x] = sequence[x]
        BY <1>2 DEF emitNumber, TypeOK
    <2> QED BY <1>2, <2>1
<1>3. ASSUME NEW n \in Nodes, NEW m \in Nodes, NEW o \in Nodes,
             \/ establishPeer(n, m) \/ TransportFails(n, m)
             \/ handleLSA(n, m, o) \/ floodOnward(n, m)
      PROVE sequence' = sequence
    BY <1>3 DEF establishPeer, TransportFails, handleLSA, floodOnward, emitVars
<1>4. ASSUME NEW n \in Nodes, NEW m \in Nodes, NEW w \in Workers,
             registerPeer(n, m, w) \/ unregisterPeer(n, m, w)
      PROVE sequence' = sequence
    BY <1>4 DEF registerPeer, unregisterPeer
<1>5. ASSUME NEW n \in Nodes, NEW w \in Workers,
             \/ lsaTick(n, w) \/ emitRead(n, w) \/ emitStore(n, w)
             \/ emitFlood(n, w) \/ sendAllLSAs(n, w)
      PROVE sequence' = sequence
    BY <1>5 DEF lsaTick, emitRead, emitStore, emitFlood, sendAllLSAs
<1>6. ASSUME NEW n \in Nodes, cleanupExpired(n) \/ Age(n) PROVE sequence' = sequence
    BY <1>6 DEF cleanupExpired, Age, emitVars
<1>7. CASE UNCHANGED vars
    BY <1>7 DEF vars
<1> QED BY <1>1, <1>2, <1>3, <1>4, <1>5, <1>6, <1>7 DEF Next, Emission

(* A number stays what it was, and an advertisement of an earlier process  *)
(* does not become one of the current one.                                 *)
LEMMA NumberedStep ==
    ASSUME EmissionInv, [Next]_vars, NEW x \in LSA, x.stamp <= signed[x.origin], Numbered(x)
    PROVE  /\ Numbered(x)'
           /\ Current(x)' => Current(x)
           /\ ~Restart(x.origin) => (Current(x) => Current(x)')
<1>1. TypeOK /\ x.origin \in Nodes /\ x.stamp \in Nat /\ x.sequence \in Nat
    BY DEF EmissionInv, LSA
<1>2. PICK n \in Nodes : n = x.origin
    BY <1>1
<1>3. sequence[n] \in Nat /\ signed[n] \in Nat
    BY <1>1 DEF TypeOK
<1>4. CASE Restart(n)
    <2>1. sequence'[n] = 0 /\ signed'[n] = signed[n]
        BY <1>1, <1>4, RestartEffect
    <2> QED BY <1>1, <1>2, <1>3, <1>4, <2>1 DEF Numbered, Current
<1>5. ASSUME NEW w \in Workers, emitNumber(n, w)
      PROVE  Numbered(x)' /\ (Current(x)' <=> Current(x))
    <2>1. sequence'[n] = sequence[n] + 1 /\ signed'[n] = signed[n] + 1
        BY <1>1, <1>5, NumberEffect
    <2> QED BY <1>1, <1>2, <1>3, <2>1 DEF Numbered, Current
<1>6. CASE sequence'[n] = sequence[n] /\ ~\E w \in Workers : emitNumber(n, w)
    <2>1. signed'[n] = signed[n]
        <3>1. ASSUME NEW a \in Nodes, NEW w \in Workers, emitNumber(a, w) PROVE signed'[n] = signed[n]
            <4>1. n # a
                BY <1>6, <3>1
            <4> QED BY <1>1, <3>1, <4>1 DEF emitNumber, TypeOK
        <3>2. ASSUME NEW a \in Nodes, NEW w \in Workers, emitRead(a, w) PROVE signed'[n] = signed[n]
            BY <3>2 DEF emitRead
        <3>3. CASE \A a \in Nodes, w \in Workers : ~emitNumber(a, w) /\ ~emitRead(a, w)
            <4>1. Untouched
                BY <3>3, UntouchedStep DEF EmissionInv
            <4> QED BY <4>1 DEF Untouched
        <3> QED BY <3>1, <3>2, <3>3
    <2> QED BY <1>1, <1>2, <1>3, <1>6, <2>1 DEF Numbered, Current
<1> QED BY <1>1, <1>2, <1>4, <1>5, <1>6, SequenceStep

(* The four parts about what has been signed.                              *)
SignedInv == EmissionInv /\ Genuine /\ Unused /\ Filed

(* A read of the peer map signs an advertisement of a new stamp.           *)
LEMMA GenuineRead ==
    ASSUME SignedInv, [Next]_vars, NEW n \in Nodes, NEW w \in Workers, emitRead(n, w)
    PROVE  Genuine' /\ Unused'
<1>0. TypeOK /\ Counters /\ Drafts /\ Genuine /\ Unused
    BY DEF SignedInv, EmissionInv
<1>1. PICK lsa \in LSA : ReadBy(n, w, lsa)
    BY <1>0, ReadEffect
<1>2. ASSUME NEW x, Exists(x)' PROVE Exists(x) \/ x = lsa
    <2>1. ASSUME NEW a \in Nodes, NEW v \in Workers, emitRead(a, v) PROVE worker'[a][v].lsa = lsa
        <3>1. worker'[a][v].pc = "store" /\ worker[a][v].pc = "read"
            BY <1>0, <2>1, ReadEffect DEF ReadBy
        <3>2. a = n /\ v = w
            BY <1>1, <3>1 DEF ReadBy, Only
        <3> QED BY <1>1, <3>2 DEF ReadBy
    <2> QED BY <1>0, <1>2, <2>1, Newcomer
<1>3. \A x : Exists(x) => /\ x \in LSA /\ Numbered(x) /\ x.stamp <= latest[x.origin].stamp
                          /\ x.stamp = latest[x.origin].stamp => x = latest[x.origin]
    BY <1>0, ExistsType DEF Genuine
<1>4. \A x, y : Exists(x) /\ Exists(y) /\ x.origin = y.origin /\ x.stamp = y.stamp => x = y
    BY <1>0 DEF Genuine
<1>5. PICK d \in LSA : d = worker[n][w].lsa
    BY <1>1 DEF ReadBy
<1>6. /\ lsa.origin = n /\ lsa.stamp = d.stamp /\ lsa.sequence = d.sequence /\ d.origin = n
      /\ \A x \in Nodes : latest'[x] = (IF x = n /\ latest[n].stamp < lsa.stamp THEN lsa ELSE latest[x])
      /\ UNCHANGED <<sequence, signed>>
    BY <1>0, <1>1, <1>5 DEF ReadBy, Drafts
<1>7. /\ Numbered(d) /\ Current(d) /\ d.stamp # latest[n].stamp
      /\ \A x : Exists(x) /\ x.origin = n => x.stamp # d.stamp
    BY <1>0, <1>1, <1>5 DEF ReadBy, Drafts, Unused
<1>8. Numbered(lsa)'
    BY <1>6, <1>7 DEF Numbered, Current
<1>9. \A x : Numbered(x)' <=> Numbered(x)
    BY <1>6 DEF Numbered, Current
<1>10. lsa.stamp \in Nat /\ \A x \in Nodes : latest[x].stamp \in Nat /\ latest[x] \in LSA
    BY <1>0 DEF LSA, TypeOK
<1>11. ASSUME NEW x, Exists(x)'
       PROVE  /\ Numbered(x)' /\ x.stamp <= latest'[x.origin].stamp
              /\ x.stamp = latest'[x.origin].stamp => x = latest'[x.origin]
    <2>1. CASE Exists(x)
        <3>1. x.origin \in Nodes /\ x.stamp \in Nat
            BY <1>3, <2>1 DEF LSA
        <3>2. Numbered(x)' /\ x.stamp <= latest[x.origin].stamp
              /\ (x.stamp = latest[x.origin].stamp => x = latest[x.origin])
              /\ (x.origin = n => x.stamp # lsa.stamp)
            BY <1>3, <1>6, <1>7, <1>9, <2>1
        <3>3. CASE latest'[x.origin] = latest[x.origin]
            BY <3>2, <3>3
        <3>4. CASE latest'[x.origin] = lsa /\ x.origin = n /\ latest[n].stamp < lsa.stamp
            BY <3>1, <3>2, <3>4, <1>10
        <3> QED BY <3>1, <3>3, <3>4, <1>6
    <2>2. CASE x = lsa
        BY <2>2, <1>6, <1>7, <1>8, <1>10
    <2> QED BY <2>1, <2>2, <1>2, <1>11
<1>12. ASSUME NEW a \in Nodes PROVE Numbered(latest[a])'
    <2>1. Numbered(latest[a])
        BY <1>0 DEF Genuine
    <2>2. latest'[a] = lsa \/ latest'[a] = latest[a]
        BY <1>6
    <2> QED BY <2>1, <2>2, <1>6, <1>8 DEF Numbered, Current
<1>13. \A x, y : Exists(x)' /\ Exists(y)' /\ x.origin = y.origin /\ x.stamp = y.stamp => x = y
    BY <1>2, <1>4, <1>6, <1>7
<1>14. Genuine'
    BY <1>11, <1>12, <1>13 DEF Genuine
<1>15. ASSUME NEW a \in Nodes, NEW v \in Workers, worker'[a][v].pc = "read"
       PROVE  /\ Numbered(worker[a][v].lsa)' /\ Current(worker[a][v].lsa)'
              /\ \A x : Exists(x)' /\ x.origin = a => x.stamp # worker'[a][v].lsa.stamp
    <2>1. worker'[a][v] = worker[a][v] /\ (a # n \/ v # w)
        BY <1>1, <1>15 DEF ReadBy, Only
    <2>2. PICK e : e = worker[a][v].lsa
        OBVIOUS
    <2>3. /\ Numbered(e) /\ Current(e)
          /\ \A x : Exists(x) /\ x.origin = a => x.stamp # e.stamp
        BY <1>0, <1>15, <2>1, <2>2 DEF Unused
    <2>4. a = n => e.stamp # lsa.stamp
        BY <1>0, <1>1, <1>15, <2>1, <2>2 DEF Drafts, ReadBy
    <2>5. Numbered(worker[a][v].lsa)' /\ Current(worker[a][v].lsa)'
        BY <2>1, <2>2, <2>3, <1>6 DEF Current, Numbered
    <2>6. \A x : Exists(x)' /\ x.origin = a => x.stamp # e.stamp
        BY <2>3, <2>4, <1>2, <1>6
    <2> QED BY <2>1, <2>2, <2>5, <2>6
<1>16. Unused'
    BY <1>15 DEF Unused
<1> QED BY <1>14, <1>16

(* A number is drawn for a draft of a stamp above all others.              *)
LEMMA UnusedNumber ==
    ASSUME SignedInv, [Next]_vars, NEW n \in Nodes, NEW w \in Workers, emitNumber(n, w),
           \A x : Exists(x)' => Exists(x)
    PROVE  Unused'
<1>0. TypeOK /\ Counters /\ Drafts /\ Genuine /\ Unused
    BY DEF SignedInv, EmissionInv
<1> SUFFICES ASSUME NEW a \in Nodes, NEW v \in Workers, worker'[a][v].pc = "read"
             PROVE  /\ Numbered(worker[a][v].lsa)' /\ Current(worker[a][v].lsa)'
                    /\ \A x : Exists(x) /\ x.origin = a => x.stamp # worker'[a][v].lsa.stamp
    BY DEF Unused
<1>1. sequence[n] \in Nat /\ signed[n] \in Nat /\ signed'[n] = signed[n] + 1 /\ sequence'[n] = sequence[n] + 1
    BY <1>0 DEF emitNumber, TypeOK
<1>2. CASE a = n /\ v = w
    <2>1. PICK d : d = [origin |-> n, sequence |-> sequence[n] + 1, stamp |-> signed[n] + 1, links |-> {}]
        OBVIOUS
    <2>2. worker'[a][v].lsa = d
        BY <1>0, <1>2, <2>1, NumberEffect
    <2>3. d.stamp = signed[n] + 1 /\ d.sequence = sequence[n] + 1 /\ d.origin = n
        BY <2>1
    <2>4. Numbered(worker[a][v].lsa)' /\ Current(worker[a][v].lsa)'
        BY <2>2, <2>3, <1>1 DEF Numbered, Current
    <2>5. ASSUME NEW x, Exists(x), x.origin = a PROVE x.stamp # d.stamp
        <3>0. x \in LSA /\ latest[n] \in LSA
            BY <1>0, <2>5, ExistsType DEF TypeOK
        <3>1. x.stamp \in Nat /\ latest[n].stamp \in Nat
            BY <3>0 DEF LSA
        <3>2. x.stamp <= latest[n].stamp /\ latest[n].stamp <= signed[n]
            BY <1>0, <1>2, <2>5 DEF Genuine, Counters
        <3> QED BY <1>1, <2>3, <3>1, <3>2
    <2> QED BY <2>2, <2>4, <2>5
<1>3. CASE ~(a = n /\ v = w)
    <2>0. Only(n, w)
        BY <1>0, NumberEffect
    <2>1. worker'[a][v] = worker[a][v]
        BY <1>3, <2>0 DEF Only
    <2>2. PICK e : e = worker[a][v].lsa
        OBVIOUS
    <2>a. e \in LSA
        BY <1>0, <2>1, <2>2, JobFields
    <2>b. e.origin = a /\ e.stamp <= signed[a]
        BY <1>0, <2>1, <2>2 DEF Drafts
    <2>3. e \in LSA /\ e.stamp <= signed[e.origin] /\ e.origin = a
        BY <2>a, <2>b
    <2>4. /\ Numbered(e) /\ Current(e)
          /\ \A x : Exists(x) /\ x.origin = a => x.stamp # e.stamp
        BY <1>0, <2>1, <2>2 DEF Unused
    <2>5. ~Restart(a)
        BY <1>0, <2>1, RestartEffect
    <2>6. Numbered(e)' /\ Current(e)'
        BY <2>3, <2>4, <2>5, NumberedStep DEF SignedInv
    <2>7. Numbered(worker[a][v].lsa)' /\ Current(worker[a][v].lsa)'
        BY <2>1, <2>2, <2>6 DEF Numbered, Current
    <2> QED BY <2>1, <2>2, <2>4, <2>7
<1> QED BY <1>2, <1>3

(* Genuine and Unused are kept by every action.                            *)
LEMMA GenuineStep == SignedInv /\ [Next]_vars => Genuine' /\ Unused'
<1> SUFFICES ASSUME SignedInv, [Next]_vars PROVE Genuine' /\ Unused'
    OBVIOUS
<1>0. TypeOK /\ Counters /\ Drafts /\ Genuine /\ Unused
    BY DEF SignedInv, EmissionInv
<1>1. ASSUME NEW n \in Nodes, NEW w \in Workers, emitRead(n, w) PROVE Genuine' /\ Unused'
    BY <1>1, GenuineRead
<1>2. CASE \A n \in Nodes, w \in Workers : ~emitRead(n, w)
    <2>1. \A x : Exists(x)' => Exists(x)
        BY <1>0, <1>2, Newcomer
    <2>2. \A n \in Nodes : latest'[n] = latest[n]
        <3>1. ASSUME NEW n \in Nodes, NEW w \in Workers, emitNumber(n, w) PROVE latest' = latest
            BY <3>1 DEF emitNumber
        <3>2. CASE \A n \in Nodes, w \in Workers : ~emitNumber(n, w)
            <4>1. Untouched
                BY <1>0, <1>2, <3>2, UntouchedStep
            <4> QED BY <4>1 DEF Untouched
        <3> QED BY <3>1, <3>2
    <2>3. ASSUME NEW x, Exists(x)
          PROVE  /\ Numbered(x)' /\ x.stamp <= latest'[x.origin].stamp
                 /\ x.stamp = latest'[x.origin].stamp => x = latest'[x.origin]
        <3>1. x \in LSA /\ x.origin \in Nodes /\ x.stamp \in Nat
            BY <1>0, <2>3, ExistsType DEF LSA
        <3>2. x.stamp <= latest[x.origin].stamp /\ latest[x.origin].stamp <= signed[x.origin] /\ Numbered(x)
            BY <1>0, <2>3, <3>1 DEF Genuine, Counters
        <3>3. latest[x.origin].stamp \in Nat /\ signed[x.origin] \in Nat
            BY <1>0, <3>1 DEF TypeOK, LSA
        <3>4. x.stamp <= signed[x.origin]
            BY <3>1, <3>2, <3>3
        <3>5. Numbered(x)'
            BY <3>1, <3>2, <3>4, NumberedStep DEF SignedInv
        <3> QED BY <1>0, <2>2, <2>3, <3>1, <3>2, <3>5 DEF Genuine
    <2>4. ASSUME NEW n \in Nodes PROVE Numbered(latest[n])'
        <3>1. PICK x \in LSA : x = latest[n]
            BY <1>0 DEF TypeOK
        <3>2. x.stamp <= signed[x.origin] /\ Numbered(x)
            BY <1>0, <3>1 DEF Counters, Genuine
        <3>3. Numbered(x)'
            BY <3>2, NumberedStep DEF SignedInv
        <3> QED BY <2>2, <3>1, <3>3 DEF Numbered, Current
    <2>5. \A x, y : Exists(x)' /\ Exists(y)' /\ x.origin = y.origin /\ x.stamp = y.stamp => x = y
        BY <1>0, <2>1 DEF Genuine
    <2>6. Genuine'
        BY <2>1, <2>3, <2>4, <2>5 DEF Genuine
    <2>7. ASSUME NEW n \in Nodes, NEW w \in Workers, emitNumber(n, w) PROVE Unused'
        BY <2>1, <2>7, UnusedNumber
    <2>8. ASSUME \A n \in Nodes, w \in Workers : ~emitNumber(n, w) PROVE Unused'
        <3>1. Untouched
            BY <1>0, <1>2, <2>8, UntouchedStep
        <3>2. ASSUME NEW n \in Nodes, NEW w \in Workers, worker'[n][w].pc = "read"
              PROVE  /\ Numbered(worker[n][w].lsa)' /\ Current(worker[n][w].lsa)'
                     /\ \A x : Exists(x)' /\ x.origin = n => x.stamp # worker'[n][w].lsa.stamp
            <4>1. worker[n][w].pc = "read" /\ worker'[n][w].lsa = worker[n][w].lsa
                BY <3>1, <3>2 DEF Untouched
            <4>2. PICK e : e = worker[n][w].lsa
                OBVIOUS
            <4>a. e \in LSA
                BY <1>0, <4>1, <4>2, JobFields
            <4>b. e.origin = n /\ e.stamp <= signed[n]
                BY <1>0, <4>1, <4>2 DEF Drafts
            <4>3. e \in LSA /\ e.stamp <= signed[e.origin] /\ e.origin = n
                BY <4>a, <4>b
            <4>4. /\ Numbered(e) /\ Current(e)
                  /\ \A x : Exists(x) /\ x.origin = n => x.stamp # e.stamp
                BY <1>0, <4>1, <4>2 DEF Unused
            <4>5. ~Restart(n)
                BY <1>0, <3>2, RestartEffect
            <4>6. Numbered(e)' /\ Current(e)'
                BY <4>3, <4>4, <4>5, NumberedStep DEF SignedInv
            <4>7. Numbered(worker[n][w].lsa)' /\ Current(worker[n][w].lsa)'
                BY <4>1, <4>2, <4>6 DEF Numbered, Current
            <4> QED BY <2>1, <4>1, <4>2, <4>4, <4>7
        <3> QED BY <3>2 DEF Unused
    <2> QED BY <2>6, <2>7, <2>8
<1> QED BY <1>1, <1>2

(* Every advertisement stays under its origin.                             *)
LEMMA FiledStep == EmissionInv /\ Filed /\ [Next]_vars => Filed'
<1> SUFFICES ASSUME EmissionInv, Filed, [Next]_vars PROVE Filed'
    OBVIOUS
<1> DEFINE F1 == \A n, o \in Nodes : lsas[n][o] # None => lsas[n][o].origin = o
<1> DEFINE F2 == \A n, m, o \in Nodes : \A x \in Frames(wire[n][m][o]) : x.origin = o
<1> DEFINE F3 == \A n \in Nodes, w \in Workers :
                    worker[n][w].pc \in {"store", "flood"} => worker[n][w].lsa.origin = n
<1>0. TypeOK /\ Drafts /\ F1 /\ F2 /\ F3
    BY DEF EmissionInv, Filed
<1>f. F1' /\ F2' /\ F3' => Filed'
    BY DEF Filed
<1>h. (\A a, b \in Nodes : lsas'[a][b] = lsas[a][b] \/ lsas'[a][b] = None) => F1'
    BY <1>0
<1>s. (\A a, b, o \in Nodes : Frames(wire'[a][b][o]) \subseteq Frames(wire[a][b][o])) => F2'
    BY <1>0
<1>m. (\A a \in Nodes, v \in Workers :
         worker'[a][v].pc \in {"store", "flood"} =>
           worker[a][v].pc \in {"store", "flood"} /\ worker'[a][v].lsa = worker[a][v].lsa)
      => F3'
    BY <1>0
<1> HIDE DEF F1, F2, F3
<1>1. ASSUME NEW n \in Nodes, NEW m \in Nodes, establishPeer(n, m) PROVE Filed'
    <2>1. ASSUME NEW a \in Nodes, NEW b \in Nodes, NEW o \in Nodes
          PROVE  Frames(wire'[a][b][o]) \subseteq Frames(wire[a][b][o])
        <3>1. Frames(wire'[a][b][o]) = {} \/ wire'[a][b] = wire[a][b]
            BY <1>0, <1>1, EstablishEffect
        <3> QED BY <3>1
    <2>2. UNCHANGED <<lsas, worker>>
        BY <1>0, <1>1, EstablishEffect
    <2> QED BY <1>f, <1>h, <1>s, <1>m, <2>1, <2>2
<1>2. ASSUME NEW n \in Nodes, NEW m \in Nodes, TransportFails(n, m) PROVE Filed'
    <2>1. UNCHANGED <<wire, lsas, worker>>
        BY <1>0, <1>2, FailEffect
    <2> QED BY <1>f, <1>h, <1>s, <1>m, <2>1
<1>3. ASSUME NEW n \in Nodes, NEW m \in Nodes, NEW o \in Nodes, handleLSA(n, m, o) PROVE Filed'
    <2>1. PICK lsa \in LSA : Handled(n, m, o, lsa)
        BY <1>0, <1>3, HandleEffect
    <2>2. ASSUME NEW a \in Nodes, NEW b \in Nodes, NEW c \in Nodes
          PROVE Frames(wire'[a][b][c]) \subseteq Frames(wire[a][b][c])
        <3>1. CASE a = m /\ b = n /\ c = o
            BY <2>1, <3>1 DEF Handled
        <3>2. CASE ~(a = m /\ b = n /\ c = o)
            BY <2>1, <3>2 DEF Handled
        <3> QED BY <3>1, <3>2
    <2>3. lsa \in Frames(wire[m][n][o])
        BY <2>1 DEF Handled
    <2>4. lsa.origin = o
        BY <1>0, <2>3 DEF F2
    <2>5. \A a, b \in Nodes : lsas'[a][b] = lsas[a][b] \/ (a = n /\ b = o /\ lsas'[a][b] = lsa)
        BY <2>1 DEF Handled
    <2>6. F1'
        BY <1>0, <2>4, <2>5 DEF F1
    <2>7. worker' = worker
        BY <2>1 DEF Handled
    <2> QED BY <1>f, <1>s, <1>m, <2>2, <2>6, <2>7
<1>4. ASSUME NEW n \in Nodes, NEW m \in Nodes, floodOnward(n, m) PROVE Filed'
    <2>0. PICK r : r = reader[n][m]
        OBVIOUS
    <2>1. UNCHANGED <<worker, lsas>>
        BY <1>0, <1>4, OnwardEffect
    <2>2. ASSUME NEW a \in Nodes, NEW b \in Nodes, NEW o \in Nodes, NEW x \in Frames(wire'[a][b][o])
          PROVE  x.origin = o
        <3>1. TypeOK /\ floodOnward(n, m)
            BY <1>0, <1>4
        <3>2. x \in Frames(wire[a][b][o]) \/ (x = reader[n][m] /\ Sends(n, reader[n][m], m, a, b, o))
            BY <2>2, <3>1, OnwardEffect
        <3>3. x \in Frames(wire[a][b][o]) \/ (x = r /\ o = r.origin)
            BY <2>0, <3>2 DEF Sends
        <3> QED BY <1>0, <3>3 DEF F2
    <2>3. F2'
        BY <2>2 DEF F2
    <2> QED BY <1>f, <1>h, <1>m, <2>1, <2>3
<1>5. ASSUME NEW n \in Nodes, NEW m \in Nodes, NEW w \in Workers, registerPeer(n, m, w) PROVE Filed'
    <2>1. UNCHANGED <<wire, lsas>> /\ Only(n, w) /\ worker'[n][w].pc = "number"
        BY <1>0, <1>5, RegisterEffect
    <2>2. F3'
        BY <1>m, <2>1 DEF Only
    <2> QED BY <1>f, <1>h, <1>s, <2>1, <2>2
<1>6. ASSUME NEW n \in Nodes, NEW m \in Nodes, NEW w \in Workers, unregisterPeer(n, m, w) PROVE Filed'
    <2>1. /\ UNCHANGED lsas /\ EmittingWithout(n, w, m)
          /\ \A a, b, o \in Nodes : Frames(wire'[a][b][o]) \subseteq Frames(wire[a][b][o])
        BY <1>0, <1>6, UnregisterEffect
    <2>2. /\ worker'[n][w].pc = "number"
          /\ \A a \in Nodes, v \in Workers : a # n => worker'[a][v] = worker[a][v]
          /\ \A v \in Workers : v # w =>
                worker'[n][v].pc = worker[n][v].pc /\ worker'[n][v].lsa = worker[n][v].lsa
        BY <1>0, <2>1, CloseEffect
    <2>3. ASSUME NEW a \in Nodes, NEW v \in Workers, worker'[a][v].pc \in {"store", "flood"}
          PROVE  worker[a][v].pc \in {"store", "flood"} /\ worker'[a][v].lsa = worker[a][v].lsa
        BY <2>2, <2>3
    <2> QED BY <1>f, <1>h, <1>s, <1>m, <2>1, <2>3
<1>7. ASSUME NEW n \in Nodes, NEW w \in Workers, lsaTick(n, w) PROVE Filed'
    <2>1. UNCHANGED <<wire, lsas>> /\ Only(n, w) /\ worker'[n][w].pc = "number"
        BY <1>0, <1>7, TickEffect
    <2>2. F3'
        BY <1>m, <2>1 DEF Only
    <2> QED BY <1>f, <1>h, <1>s, <2>1, <2>2
<1>8. ASSUME NEW n \in Nodes, NEW w \in Workers, emitNumber(n, w) PROVE Filed'
    <2>1. UNCHANGED <<wire, lsas>> /\ Only(n, w) /\ worker'[n][w].pc = "read"
        BY <1>0, <1>8, NumberEffect
    <2>2. F3'
        BY <1>m, <2>1 DEF Only
    <2> QED BY <1>f, <1>h, <1>s, <2>1, <2>2
<1>9. ASSUME NEW n \in Nodes, NEW w \in Workers, emitRead(n, w) PROVE Filed'
    <2>1. PICK lsa \in LSA : ReadBy(n, w, lsa)
        BY <1>0, <1>9, ReadEffect
    <2>2. UNCHANGED <<wire, lsas>> /\ Only(n, w) /\ worker'[n][w].lsa = lsa /\ lsa.origin = n
        BY <1>0, <2>1 DEF ReadBy, Drafts
    <2>3. F3'
        BY <1>0, <2>2 DEF Only, F3
    <2> QED BY <1>f, <1>h, <1>s, <2>2, <2>3
<1>10. ASSUME NEW n \in Nodes, NEW w \in Workers, emitStore(n, w) PROVE Filed'
    <2>1. /\ UNCHANGED wire /\ Only(n, w) /\ worker'[n][w].lsa = worker[n][w].lsa
          /\ worker[n][w].pc = "store"
          /\ \A a, b \in Nodes : lsas'[a][b] = lsas[a][b] \/ (a = n /\ b = n /\ lsas'[a][b] = worker[n][w].lsa)
        BY <1>0, <1>10, StoreEffect
    <2>2. F3'
        BY <1>m, <2>1 DEF Only
    <2>3. worker[n][w].lsa.origin = n
        BY <1>0, <2>1 DEF F3
    <2>4. F1'
        BY <1>0, <2>1, <2>3 DEF F1
    <2> QED BY <1>f, <1>s, <2>1, <2>2, <2>4
<1>11. ASSUME NEW n \in Nodes, NEW w \in Workers, emitFlood(n, w) PROVE Filed'
    <2>0. PICK r : r = worker[n][w].lsa
        OBVIOUS
    <2>1. UNCHANGED lsas /\ Only(n, w) /\ worker'[n][w].pc \in {"idle", "sync"}
        BY <1>0, <1>11, FloodEffect
    <2>2. F3'
        BY <1>m, <2>1 DEF Only
    <2>3. ASSUME NEW a \in Nodes, NEW b \in Nodes, NEW o \in Nodes, NEW x \in Frames(wire'[a][b][o])
          PROVE  x.origin = o
        <3>1. x \in Frames(wire[a][b][o]) \/ (x = r /\ o = r.origin)
            BY <1>0, <1>11, <2>0, <2>3, FloodEffect, SMTT(30) DEF Sends
        <3> QED BY <1>0, <3>1 DEF F2
    <2>4. F2'
        BY <2>3 DEF F2
    <2> QED BY <1>f, <1>h, <2>1, <2>2, <2>4
<1>12. ASSUME NEW n \in Nodes, NEW w \in Workers, sendAllLSAs(n, w) PROVE Filed'
    <2>1. UNCHANGED lsas /\ Only(n, w) /\ worker'[n][w].pc = "idle"
        BY <1>0, <1>12, SyncEffect
    <2>2. F3'
        BY <1>m, <2>1 DEF Only
    <2>3. ASSUME NEW a \in Nodes, NEW b \in Nodes, NEW o \in Nodes, NEW x \in Frames(wire'[a][b][o])
          PROVE  x.origin = o
        <3>1. x \in Frames(wire[a][b][o]) \/ (x = lsas[n][o] /\ x # None)
            BY <1>0, <1>12, <2>3, SyncEffect
        <3> QED BY <1>0, <3>1 DEF F1, F2
    <2>4. F2'
        BY <2>3 DEF F2
    <2> QED BY <1>f, <1>h, <2>1, <2>2, <2>4
<1>13. ASSUME NEW n \in Nodes, cleanupExpired(n) PROVE Filed'
    <2>1. /\ UNCHANGED <<wire, worker>>
          /\ \A a, b \in Nodes : lsas'[a][b] = lsas[a][b] \/ lsas'[a][b] = None
        BY <1>0, <1>13, CleanEffect
    <2> QED BY <1>f, <1>h, <1>s, <1>m, <2>1
<1>14. ASSUME NEW n \in Nodes, Age(n) PROVE Filed'
    <2>1. UNCHANGED <<wire, lsas, worker>>
        BY <1>0, <1>14, AgeEffect
    <2> QED BY <1>f, <1>h, <1>s, <1>m, <2>1
<1>15. ASSUME NEW n \in Nodes, Restart(n) PROVE Filed'
    <2>1. \A a, b, o \in Nodes : Frames(wire'[a][b][o]) \subseteq Frames(wire[a][b][o])
        BY <1>0, <1>15, RestartEffect
    <2>2. \A a, b \in Nodes : lsas'[a][b] = lsas[a][b] \/ lsas'[a][b] = None
        BY <1>0, <1>15, RestartEffect
    <2>3. \A a \in Nodes, y \in Workers :
             worker'[a][y] = worker[a][y] \/ worker'[a][y].pc \in {"idle", "number"}
        BY <1>0, <1>15, RestartEffect
    <2>4. F3'
        BY <1>m, <2>3
    <2> QED BY <1>f, <1>h, <1>s, <2>1, <2>2, <2>4
<1>16. CASE UNCHANGED vars
    <2>1. UNCHANGED <<wire, lsas, worker>>
        BY <1>16 DEF vars
    <2> QED BY <1>f, <1>h, <1>s, <1>m, <2>1
<1> QED BY <1>1, <1>2, <1>3, <1>4, <1>5, <1>6, <1>7, <1>8, <1>9, <1>10, <1>11, <1>12, <1>13,
           <1>14, <1>15, <1>16 DEF Next, Emission

(* At the start the only advertisements are the first ones.                *)
LEMMA InitSignedInv == Init => SignedInv
<1> SUFFICES ASSUME Init PROVE SignedInv
    OBVIOUS
<1>1. EmissionInv /\ TypeOK
    BY InitEmissionInv DEF EmissionInv
<1>2. \A n \in Nodes : latest[n].origin = n /\ latest[n].sequence = 1 /\ latest[n].stamp = 1
    BY DEF Init
<1>3. \A a, b \in Nodes : lsas[a][b] = IF b = a THEN latest[a] ELSE None
    BY DEF Init
<1>4. /\ \A n \in Nodes : sequence[n] = 1 /\ signed[n] = 1
      /\ \A a, b \in Nodes : reader[a][b] = None
      /\ \A a \in Nodes, w \in Workers : worker[a][w].pc = "idle"
      /\ \A a, b, o \in Nodes : wire[a][b][o] = << >>
    BY DEF Init, Idle, Quiet
<1>5. \A a, b, o \in Nodes : Frames(wire[a][b][o]) = {}
    BY <1>4, FramesEmpty
<1>6. ASSUME NEW x, Exists(x) PROVE \E n \in Nodes : x = latest[n]
    <2>1. ~Taken(x) /\ ~Sent(x) /\ ~Made(x)
        BY <1>4, <1>5 DEF Taken, Sent, Made
    <2>2. Held(x)
        BY <1>6, <2>1 DEF Exists
    <2> QED BY <2>2, <1>3 DEF Held
<1>7. \A n \in Nodes : Numbered(latest[n])
    BY <1>2, <1>4 DEF Numbered, Current
<1>8. Genuine
    BY <1>2, <1>6, <1>7 DEF Genuine
<1>9. Unused
    BY <1>4 DEF Unused
<1>10. Filed
    BY <1>2, <1>3, <1>4, <1>5, ZenonT(30) DEF Filed
<1> QED BY <1>1, <1>8, <1>9, <1>10 DEF SignedInv

(* Every step keeps what is known of what is signed.                       *)
LEMMA SignedInvStep == SignedInv /\ [Next]_vars => SignedInv'
BY EmissionInvStep, GenuineStep, FiledStep DEF SignedInv

(* What is signed (node.go:449-464): each stamp of a node is that of one   *)
(* advertisement, none is newer than the newest, and the sequence numbers  *)
(* of one process follow the order of signing.                             *)
THEOREM SignedInvariant == Spec => []SignedInv
BY InitSignedInv, SignedInvStep, PTL DEF Spec

(* No two advertisements of one process share a number (node.go:453), so   *)
(* handleLSA never drops one for another of equal number.                  *)
THEOREM NeverEquivocates == Spec => []NoEquivocation
<1>1. SignedInv => NoEquivocation
    BY ExistsIff DEF SignedInv, Genuine, NoEquivocation
<1> QED BY SignedInvariant, <1>1, PTL

-----------------------------------------------------------------------------
(* A job of a goroutine is kept, or it is that goroutine's step.           *)
Stays(n, w) == worker'[n][w].pc = worker[n][w].pc /\ worker'[n][w].lsa = worker[n][w].lsa

(* Who may change the job of a goroutine that is inside emitLocalLSA.      *)
LEMMA JobStep ==
    ASSUME TypeOK, [Next]_vars, NEW n \in Nodes, NEW w \in Workers,
           worker[n][w].pc \in {"number", "read", "store", "flood"}
    PROVE  \/ Stays(n, w)
           \/ Restart(n)
           \/ emitNumber(n, w) \/ emitRead(n, w) \/ emitStore(n, w) \/ emitFlood(n, w)
<1> DEFINE Goal == \/ Stays(n, w)
                   \/ Restart(n)
                   \/ emitNumber(n, w) \/ emitRead(n, w) \/ emitStore(n, w) \/ emitFlood(n, w)
<1>0. ASSUME NEW a \in Nodes, NEW v \in Workers, Only(a, v) PROVE Stays(n, w) \/ (a = n /\ v = w)
    BY <1>0 DEF Only, Stays
<1>1. ASSUME NEW a \in Nodes, NEW m \in Nodes, NEW v \in Workers, registerPeer(a, m, v) PROVE Stays(n, w)
    <2>1. Only(a, v) /\ worker[a][v].pc = "idle"
        BY <1>1, RegisterEffect
    <2> QED BY <2>1, <1>0
<1>2. ASSUME NEW a \in Nodes, NEW m \in Nodes, NEW v \in Workers, unregisterPeer(a, m, v) PROVE Stays(n, w)
    <2>1. EmittingWithout(a, v, m)
        BY <1>2, UnregisterEffect
    <2>2. /\ worker[a][v].pc = "idle"
          /\ \A x \in Nodes, y \in Workers : x # a => worker'[x][y] = worker[x][y]
          /\ \A y \in Workers : y # v =>
                worker'[a][y].pc = worker[a][y].pc /\ worker'[a][y].lsa = worker[a][y].lsa
        BY <2>1, CloseEffect
    <2>3. CASE n = a
        BY <2>2, <2>3 DEF Stays
    <2>4. CASE n # a
        BY <2>2, <2>4 DEF Stays
    <2> QED BY <2>3, <2>4
<1>3. ASSUME NEW a \in Nodes, NEW v \in Workers, lsaTick(a, v) PROVE Stays(n, w)
    <2>1. Only(a, v) /\ worker[a][v].pc = "idle"
        BY <1>3, TickEffect
    <2> QED BY <2>1, <1>0
<1>4. ASSUME NEW a \in Nodes, NEW v \in Workers, emitNumber(a, v) PROVE Goal
    <2>1. Only(a, v)
        BY <1>4, NumberEffect
    <2> QED BY <1>4, <2>1, <1>0
<1>5. ASSUME NEW a \in Nodes, NEW v \in Workers, emitRead(a, v) PROVE Goal
    <2>1. Only(a, v)
        BY <1>5, ReadEffect DEF ReadBy
    <2> QED BY <1>5, <2>1, <1>0
<1>6. ASSUME NEW a \in Nodes, NEW v \in Workers, emitStore(a, v) PROVE Goal
    <2>1. Only(a, v)
        BY <1>6, StoreEffect
    <2> QED BY <1>6, <2>1, <1>0
<1>7. ASSUME NEW a \in Nodes, NEW v \in Workers, emitFlood(a, v) PROVE Goal
    <2>1. Only(a, v)
        BY <1>7, FloodEffect
    <2> QED BY <1>7, <2>1, <1>0
<1>8. ASSUME NEW a \in Nodes, NEW v \in Workers, sendAllLSAs(a, v) PROVE Stays(n, w)
    <2>1. Only(a, v) /\ worker[a][v].pc = "sync"
        BY <1>8, SyncEffect
    <2> QED BY <2>1, <1>0
<1>9. ASSUME NEW a \in Nodes, Restart(a) PROVE Goal
    <2>1. n # a => worker'[n][w] = worker[n][w]
        BY <1>9, RestartEffect
    <2> QED BY <1>9, <2>1 DEF Stays
<1>10. ASSUME NEW a \in Nodes, NEW m \in Nodes, NEW o \in Nodes,
              \/ establishPeer(a, m) \/ TransportFails(a, m)
              \/ handleLSA(a, m, o) \/ floodOnward(a, m)
       PROVE worker' = worker
    BY <1>10 DEF establishPeer, TransportFails, handleLSA, floodOnward, emitVars
<1>11. ASSUME NEW a \in Nodes, cleanupExpired(a) \/ Age(a) PROVE worker' = worker
    BY <1>11 DEF cleanupExpired, Age, emitVars
<1>12. CASE UNCHANGED vars
    BY <1>12 DEF vars, Stays
<1>13. worker' = worker => Stays(n, w)
    BY DEF Stays
<1>14. Stays(n, w) => Goal
    OBVIOUS
<1> HIDE DEF Goal
<1>15. Goal
    BY <1>1, <1>2, <1>3, <1>4, <1>5, <1>6, <1>7, <1>8, <1>9, <1>10, <1>11, <1>12, <1>13, <1>14
       DEF Next, Emission
<1> QED BY <1>15 DEF Goal

(* A process that has numbered nothing keeps the goroutine that will.      *)
LEMMA StartingStep == TypeOK /\ Starting /\ [Next]_vars => Starting'
<1> SUFFICES ASSUME TypeOK, Starting, [Next]_vars, NEW n \in Nodes, sequence'[n] = 0
             PROVE  \E w \in Workers : worker'[n][w].pc = "number"
    BY DEF Starting
<1>1. CASE Restart(n)
    BY <1>1, RestartEffect
<1>2. ASSUME NEW w \in Workers, emitNumber(n, w) PROVE FALSE
    BY <1>2 DEF emitNumber, TypeOK
<1>3. CASE sequence'[n] = sequence[n] /\ ~Restart(n)
    <2>1. PICK w \in Workers : worker[n][w].pc = "number"
        BY <1>3 DEF Starting
    <2>2. Stays(n, w) \/ emitNumber(n, w) \/ emitRead(n, w) \/ emitStore(n, w) \/ emitFlood(n, w)
        BY <1>3, <2>1, JobStep
    <2>3. Stays(n, w)
        BY <1>2, <2>1, <2>2 DEF emitRead, emitStore, emitFlood
    <2> QED BY <2>1, <2>3 DEF Stays
<1> QED BY <1>1, <1>2, <1>3, SequenceStep

(* Only a read of the peer map changes the newest advertisement, and it    *)
(* leaves it to be stored and flooded.                                     *)
LEMMA LatestStep ==
    ASSUME TypeOK, Counters, [Next]_vars, NEW n \in Nodes
    PROVE  latest'[n] = latest[n] \/ Underway(n)'
<1>1. ASSUME NEW a \in Nodes, NEW w \in Workers, emitNumber(a, w) PROVE latest' = latest
    BY <1>1 DEF emitNumber
<1>2. ASSUME NEW a \in Nodes, NEW v \in Workers, emitRead(a, v), latest'[n] # latest[n] PROVE Underway(n)'
    <2>1. PICK lsa \in LSA : ReadBy(a, v, lsa)
        BY <1>2, ReadEffect
    <2>2. a = n /\ worker'[n][v].pc = "store" /\ worker'[n][v].lsa = latest'[n]
        BY <1>2, <2>1 DEF ReadBy
    <2> QED BY <2>2 DEF Underway
<1>3. CASE \A a \in Nodes, w \in Workers : ~emitNumber(a, w) /\ ~emitRead(a, w)
    <2>1. Untouched
        BY <1>3, UntouchedStep
    <2> QED BY <2>1 DEF Untouched
<1> QED BY <1>1, <1>2, <1>3

(* An emission under way stays so until it is flooded.                     *)
LEMMA UnderwayStep ==
    ASSUME EmissionInv, [Next]_vars, NEW n \in Nodes, Underway(n), ~Restart(n)
    PROVE  Underway(n)' \/ \E w \in Workers : emitFlood(n, w) /\ worker[n][w].lsa = latest[n]
<1>0. TypeOK /\ Counters
    BY DEF EmissionInv
<1>1. CASE latest'[n] = latest[n]
    <2>1. PICK w \in Workers :
             \/ worker[n][w].pc = "number"
             \/ worker[n][w].pc = "read" /\ worker[n][w].lsa.stamp > latest[n].stamp
             \/ worker[n][w].pc \in {"store", "flood"} /\ worker[n][w].lsa = latest[n]
        BY DEF Underway
    <2>2. CASE Stays(n, w)
        BY <1>1, <2>1, <2>2 DEF Stays, Underway
    <2>3. CASE emitNumber(n, w)
        <3>1. PICK d : d = [origin |-> n, sequence |-> sequence[n] + 1, stamp |-> signed[n] + 1, links |-> {}]
            OBVIOUS
        <3>2. worker'[n][w].pc = "read" /\ worker'[n][w].lsa = d
            BY <1>0, <2>3, <3>1, NumberEffect
        <3>3. d.stamp = signed[n] + 1
            BY <3>1
        <3>4. latest[n].stamp <= signed[n] /\ latest[n].stamp \in Nat /\ signed[n] \in Nat
            BY <1>0 DEF Counters, TypeOK, LSA
        <3>5. d.stamp > latest'[n].stamp
            BY <1>1, <3>3, <3>4
        <3> QED BY <3>2, <3>5 DEF Underway
    <2>4. CASE emitRead(n, w)
        <3>1. PICK lsa \in LSA : ReadBy(n, w, lsa)
            BY <1>0, <2>4, ReadEffect
        <3>2. lsa.stamp > latest[n].stamp
            BY <2>1, <3>1 DEF ReadBy
        <3>3. latest[n].stamp \in Nat /\ lsa.stamp \in Nat
            BY <1>0 DEF TypeOK, LSA
        <3>4. latest'[n] = lsa
            BY <3>1, <3>2, <3>3 DEF ReadBy
        <3>5. worker'[n][w].pc = "store" /\ worker'[n][w].lsa = lsa
            BY <3>1 DEF ReadBy
        <3> QED BY <3>4, <3>5 DEF Underway
    <2>5. CASE emitStore(n, w)
        <3>1. worker[n][w].pc = "store" /\ worker'[n][w].pc = "flood" /\ worker'[n][w].lsa = worker[n][w].lsa
            BY <1>0, <2>5, StoreEffect
        <3> QED BY <1>1, <2>1, <3>1 DEF Underway
    <2>6. CASE emitFlood(n, w)
        <3>1. worker[n][w].pc = "flood"
            BY <2>6 DEF emitFlood
        <3> QED BY <2>1, <2>6, <3>1
    <2>7. worker[n][w].pc \in {"number", "read", "store", "flood"}
        BY <2>1
    <2> QED BY <1>0, <2>2, <2>3, <2>4, <2>5, <2>6, <2>7, JobStep
<1> QED BY <1>0, <1>1, LatestStep

(* An advertisement that is not of the current process is being replaced.  *)
LEMMA CurrentOrUnderway ==
    ASSUME EmissionInv, Starting, NEW n \in Nodes, ~Current(latest[n])
    PROVE  Underway(n)
<1>1. /\ latest[n].stamp \in Nat /\ signed[n] \in Nat /\ sequence[n] \in Nat /\ latest[n].origin = n
    BY DEF EmissionInv, TypeOK, Counters, LSA
<1>2. latest[n].stamp + sequence[n] <= signed[n]
    BY <1>1 DEF Current
<1>3. CASE sequence[n] = 0
    BY <1>3 DEF Starting, Underway
<1>4. CASE sequence[n] # 0
    <2>1. latest[n].stamp < signed[n]
        BY <1>1, <1>2, <1>4
    <2>2. Due(n)
        BY DEF EmissionInv, EmissionDue
    <2> QED BY <2>1, <2>2 DEF Due, Underway
<1> QED BY <1>3, <1>4

-----------------------------------------------------------------------------
(* What a step can do to one connection, one entry, one counter.           *)

(* A broken connection is broken for both ends.                            *)
LEMMA BrokenSymmetric == \A a, b : Broken(a, b) <=> Broken(b, a)
<1>1. \A a, b : {a, b} = {b, a}
    OBVIOUS
<1> QED BY <1>1 DEF Broken

(* A connection that is registered and lives was so before, or this step   *)
(* registers it; neither end has restarted.                                *)
LEMMA LiveStep ==
    ASSUME TypeOK, [Next]_vars, NEW n \in Nodes, NEW m \in Nodes, link'[n][m] = "up", ~Broken(n, m)'
    PROVE  /\ ~Restart(n) /\ ~Restart(m)
           /\ \/ link[n][m] = "up" /\ ~Broken(n, m)
              \/ \E w \in Workers : registerPeer(n, m, w)
<1>1. ~Restart(n)
    BY RestartEffect
<1>2. ~Restart(m)
    <2> SUFFICES ASSUME Restart(m) PROVE FALSE
        OBVIOUS
    <2>1. link[n][m] = "up"
        BY RestartEffect, <1>1
    <2> QED BY <2>1, RestartEffect
<1> DEFINE Goal == (link[n][m] = "up" /\ ~Broken(n, m)) \/ \E w \in Workers : registerPeer(n, m, w)
<1>3. (cut' = cut /\ link' = link) => Goal
    BY DEF Broken
<1>4. ASSUME NEW a \in Nodes, NEW b \in Nodes, establishPeer(a, b) PROVE Goal
    BY <1>4, EstablishEffect
<1>5. ASSUME NEW a \in Nodes, NEW b \in Nodes, TransportFails(a, b) PROVE Goal
    BY <1>5, FailEffect
<1>6. ASSUME NEW a \in Nodes, NEW b \in Nodes, NEW w \in Workers, registerPeer(a, b, w) PROVE Goal
    <2>1. (a = n /\ b = m) \/ link'[n][m] = link[n][m]
        BY <1>6, RegisterEffect
    <2>2. cut' = cut
        BY <1>6, RegisterEffect
    <2> QED BY <1>6, <2>1, <2>2 DEF Broken
<1>7. ASSUME NEW a \in Nodes, NEW b \in Nodes, NEW w \in Workers, unregisterPeer(a, b, w) PROVE Goal
    <2>1. link'[n][m] = link[n][m] /\ cut' = cut
        BY <1>7, UnregisterEffect
    <2> QED BY <2>1 DEF Broken
<1>8. ASSUME NEW a \in Nodes, Restart(a) PROVE Goal
    BY <1>8, RestartEffect
<1>9. ASSUME NEW a \in Nodes, NEW b \in Nodes, NEW o \in Nodes, handleLSA(a, b, o) \/ floodOnward(a, b)
      PROVE cut' = cut /\ link' = link
    BY <1>9 DEF handleLSA, floodOnward
<1>10. ASSUME NEW a \in Nodes, NEW w \in Workers, lsaTick(a, w) \/ Emission(a, w)
       PROVE cut' = cut /\ link' = link
    BY <1>10 DEF lsaTick, Emission, emitNumber, emitRead, emitStore, emitFlood, sendAllLSAs, linkVars
<1>11. ASSUME NEW a \in Nodes, cleanupExpired(a) \/ Age(a) PROVE cut' = cut /\ link' = link
    BY <1>11 DEF cleanupExpired, Age, linkVars
<1>12. ASSUME UNCHANGED vars PROVE Goal
    BY <1>12, <1>3 DEF vars
<1> HIDE DEF Goal
<1>13. Goal
    BY <1>3, <1>4, <1>5, <1>6, <1>7, <1>8, <1>9, <1>10, <1>11, <1>12 DEF Next
<1> QED BY <1>1, <1>2, <1>13 DEF Goal

(* A frame on a connection that lives stays there until it is read.        *)
LEMMA FrameStep ==
    ASSUME TypeOK, [Next]_vars, NEW a \in Nodes, NEW b \in Nodes, NEW o \in Nodes,
           link[a][b] = "up", link'[a][b] = "up", ~Broken(a, b)', NEW f \in Frames(wire[a][b][o])
    PROVE  f \in Frames(wire'[a][b][o]) \/ Handled(b, a, o, f)
<1> DEFINE Goal == f \in Frames(wire'[a][b][o]) \/ Handled(b, a, o, f)
<1>0. Frames(wire[a][b][o]) \subseteq Frames(wire'[a][b][o]) => Goal
    OBVIOUS
<1>1. ASSUME NEW n \in Nodes, NEW m \in Nodes, establishPeer(n, m) PROVE Goal
    <2>1. wire'[a][b] = wire[a][b]
        BY <1>1, EstablishEffect
    <2> QED BY <2>1
<1>2. ASSUME NEW n \in Nodes, NEW m \in Nodes, NEW c \in Nodes, handleLSA(n, m, c) PROVE Goal
    <2>1. PICK lsa \in LSA : Handled(n, m, c, lsa)
        BY <1>2, HandleEffect
    <2>2. CASE m = a /\ n = b /\ c = o
        <3>1. f = lsa \/ f \in Frames(wire'[a][b][o])
            BY <2>1, <2>2 DEF Handled
        <3> QED BY <2>1, <2>2, <3>1
    <2>3. CASE ~(m = a /\ n = b /\ c = o)
        <3>1. wire'[a][b][o] = wire[a][b][o]
            BY <2>1, <2>3 DEF Handled
        <3> QED BY <3>1
    <2> QED BY <2>2, <2>3
<1>3. ASSUME NEW n \in Nodes, NEW m \in Nodes, floodOnward(n, m) PROVE Goal
    BY <1>3, OnwardEffect
<1>4. ASSUME NEW n \in Nodes, NEW m \in Nodes, NEW w \in Workers, unregisterPeer(n, m, w) PROVE Goal
    <2>1. Broken(n, m) /\ cut' = cut
        BY <1>4, UnregisterEffect
    <2>2. ~(a = m /\ b = n)
        BY <2>1, BrokenSymmetric DEF Broken
    <2>3. Frames(wire'[a][b][o]) = Frames(wire[a][b][o])
        BY <1>4, <2>2, UnregisterEffect
    <2> QED BY <2>3
<1>5. ASSUME NEW n \in Nodes, NEW w \in Workers, emitFlood(n, w) PROVE Goal
    BY <1>5, FloodEffect
<1>6. ASSUME NEW n \in Nodes, NEW w \in Workers, sendAllLSAs(n, w) PROVE Goal
    BY <1>6, SyncEffect
<1>7. ASSUME NEW n \in Nodes, Restart(n) PROVE Goal
    <2>1. n # b
        BY <1>7, RestartEffect
    <2>2. Frames(wire'[a][b][o]) = Frames(wire[a][b][o])
        BY <1>7, <2>1, RestartEffect
    <2> QED BY <2>2
<1>8. ASSUME NEW n \in Nodes, NEW m \in Nodes, NEW w \in Workers, TransportFails(n, m) \/ registerPeer(n, m, w)
      PROVE wire' = wire
    BY <1>8 DEF TransportFails, registerPeer
<1>9. ASSUME NEW n \in Nodes, NEW w \in Workers,
             lsaTick(n, w) \/ emitNumber(n, w) \/ emitRead(n, w) \/ emitStore(n, w)
      PROVE wire' = wire
    BY <1>9 DEF lsaTick, emitNumber, emitRead, emitStore, linkVars
<1>10. ASSUME NEW n \in Nodes, cleanupExpired(n) \/ Age(n) PROVE wire' = wire
    BY <1>10 DEF cleanupExpired, Age, linkVars
<1>11. ASSUME NEW n \in Nodes, NEW m \in Nodes, TransportFails(n, m) PROVE wire' = wire
    BY <1>11 DEF TransportFails
<1>12. ASSUME UNCHANGED vars PROVE Goal
    BY <1>12 DEF vars
<1>13. wire' = wire => Goal
    OBVIOUS
<1> HIDE DEF Goal
<1>14. Goal
    BY <1>1, <1>2, <1>3, <1>4, <1>5, <1>6, <1>7, <1>8, <1>9, <1>10, <1>11, <1>12, <1>13 DEF Next, Emission
<1> QED BY <1>14 DEF Goal

(* What a node holds of another changes by a start, by expiry, or by an    *)
(* advertisement it accepts.                                               *)
LEMMA HeldStep ==
    ASSUME TypeOK, [Next]_vars, NEW m \in Nodes, NEW o \in Nodes, m # o
    PROVE  \/ lsas'[m][o] = lsas[m][o]
           \/ Restart(m)
           \/ /\ lsas'[m][o] = None /\ lsas[m][o] # None /\ lsas[m][o].stamp <= expired[o]
              /\ expired' = expired
           \/ \E x \in Nodes, lsa \in LSA :
                Handled(m, x, o, lsa) /\ Accepts(m, lsa) /\ lsas'[m][o] = lsa
<1> DEFINE Goal == \/ lsas'[m][o] = lsas[m][o]
                   \/ Restart(m)
                   \/ /\ lsas'[m][o] = None /\ lsas[m][o] # None /\ lsas[m][o].stamp <= expired[o]
                      /\ expired' = expired
                   \/ \E x \in Nodes, lsa \in LSA :
                        Handled(m, x, o, lsa) /\ Accepts(m, lsa) /\ lsas'[m][o] = lsa
<1>1. ASSUME NEW a \in Nodes, NEW x \in Nodes, NEW c \in Nodes, handleLSA(a, x, c) PROVE Goal
    <2>1. PICK lsa \in LSA : Handled(a, x, c, lsa)
        BY <1>1, HandleEffect
    <2>2. CASE a = m /\ c = o /\ Accepts(a, lsa)
        <3>1. lsas'[m][o] = lsa
            BY <2>1, <2>2 DEF Handled
        <3> QED BY <2>1, <2>2, <3>1
    <2>3. CASE ~(a = m /\ c = o /\ Accepts(a, lsa))
        BY <2>1, <2>3 DEF Handled
    <2> QED BY <2>2, <2>3
<1>2. ASSUME NEW a \in Nodes, NEW w \in Workers, emitStore(a, w) PROVE lsas'[m][o] = lsas[m][o]
    BY <1>2, StoreEffect
<1>3. ASSUME NEW a \in Nodes, cleanupExpired(a) PROVE Goal
    <2>1. \/ lsas'[m][o] = lsas[m][o]
          \/ lsas'[m][o] = None /\ lsas[m][o] # None /\ lsas[m][o].stamp <= expired[o]
        BY <1>3, CleanEffect
    <2>2. expired' = expired
        BY <1>3, CleanEffect
    <2> QED BY <2>1, <2>2
<1>4. ASSUME NEW a \in Nodes, Restart(a) PROVE Goal
    <2>1. a = m \/ lsas'[m][o] = lsas[m][o]
        BY <1>4, RestartEffect
    <2> QED BY <1>4, <2>1
<1>5. ASSUME NEW a \in Nodes, NEW b \in Nodes,
             establishPeer(a, b) \/ TransportFails(a, b) \/ floodOnward(a, b)
      PROVE lsas' = lsas
    BY <1>5 DEF establishPeer, TransportFails, floodOnward
<1>6. ASSUME NEW a \in Nodes, NEW b \in Nodes, NEW w \in Workers, registerPeer(a, b, w) \/ unregisterPeer(a, b, w)
      PROVE lsas' = lsas
    BY <1>6 DEF registerPeer, unregisterPeer
<1>7. ASSUME NEW a \in Nodes, NEW w \in Workers,
             lsaTick(a, w) \/ emitNumber(a, w) \/ emitRead(a, w) \/ emitFlood(a, w) \/ sendAllLSAs(a, w)
      PROVE lsas' = lsas
    BY <1>7 DEF lsaTick, emitNumber, emitRead, emitFlood, sendAllLSAs
<1>8. ASSUME NEW a \in Nodes, Age(a) PROVE lsas' = lsas
    BY <1>8 DEF Age
<1>9. ASSUME UNCHANGED vars PROVE Goal
    BY <1>9 DEF vars
<1>10. lsas'[m][o] = lsas[m][o] => Goal
    OBVIOUS
<1> HIDE DEF Goal
<1>11. Goal
    BY <1>1, <1>2, <1>3, <1>4, <1>5, <1>6, <1>7, <1>8, <1>9, <1>10 DEF Next, Emission
<1> QED BY <1>11 DEF Goal

(* Time does not run back, and a node never becomes one that has not been  *)
(* restarted.                                                              *)
LEMMA ClockStep ==
    ASSUME TypeOK, Counters, [Next]_vars, NEW n \in Nodes
    PROVE  /\ expired'[n] >= expired[n]
           /\ NeverRestarted(n)' => NeverRestarted(n)
<1>0. expired[n] \in Nat
    BY DEF TypeOK
<1>1. ASSUME NEW a \in Nodes, Age(a) PROVE expired'[n] >= expired[n]
    BY <1>1, AgeEffect
<1>2. ASSUME NEW a \in Nodes, NEW b \in Nodes, NEW o \in Nodes,
             \/ establishPeer(a, b) \/ TransportFails(a, b) \/ floodOnward(a, b) \/ handleLSA(a, b, o)
      PROVE expired' = expired
    BY <1>2 DEF establishPeer, TransportFails, floodOnward, handleLSA
<1>3. ASSUME NEW a \in Nodes, NEW b \in Nodes, NEW w \in Workers, registerPeer(a, b, w) \/ unregisterPeer(a, b, w)
      PROVE expired' = expired
    BY <1>3 DEF registerPeer, unregisterPeer
<1>4. ASSUME NEW a \in Nodes, NEW w \in Workers, lsaTick(a, w) \/ Emission(a, w) PROVE expired' = expired
    BY <1>4 DEF lsaTick, Emission, emitNumber, emitRead, emitStore, emitFlood, sendAllLSAs
<1>5. ASSUME NEW a \in Nodes, cleanupExpired(a) \/ Restart(a) PROVE expired' = expired
    BY <1>5 DEF cleanupExpired, Restart
<1>6. ASSUME UNCHANGED vars PROVE expired' = expired
    BY <1>6 DEF vars
<1>7. expired' = expired \/ expired'[n] >= expired[n]
    BY <1>1, <1>2, <1>3, <1>4, <1>5, <1>6 DEF Next, vars
<1>8. expired'[n] >= expired[n]
    BY <1>0, <1>7
<1>9. ASSUME NEW a \in Nodes, NEW w \in Workers, emitNumber(a, w)
      PROVE  NeverRestarted(n)' => NeverRestarted(n)
    <2>1. sequence[n] \in Nat /\ signed[n] \in Nat
        BY DEF TypeOK
    <2>2. \/ sequence'[n] = sequence[n] /\ signed'[n] = signed[n]
          \/ sequence'[n] = sequence[n] + 1 /\ signed'[n] = signed[n] + 1
        BY <1>9 DEF emitNumber, TypeOK
    <2> QED BY <2>1, <2>2 DEF NeverRestarted
<1>10. ASSUME NEW a \in Nodes, NEW w \in Workers, emitRead(a, w)
       PROVE  NeverRestarted(n)' => NeverRestarted(n)
    BY <1>10 DEF emitRead, NeverRestarted
<1>11. ASSUME \A a \in Nodes, w \in Workers : ~emitNumber(a, w) /\ ~emitRead(a, w)
       PROVE  NeverRestarted(n)' => NeverRestarted(n)
    BY <1>11, UntouchedStep DEF Untouched
<1> QED BY <1>8, <1>9, <1>10, <1>11

-----------------------------------------------------------------------------
(* An advertisement whose number is not below that of the newest is the    *)
(* newest, or of an earlier process, or a newer one is on its way.         *)
LEMMA Outnumbers ==
    ASSUME SignedInv, Starting, NEW n \in Nodes, NEW y, Exists(y), y.origin = n,
           y.sequence >= latest[n].sequence
    PROVE  y = latest[n] \/ ~Current(y) \/ Underway(n)
<1> SUFFICES ASSUME Current(y), ~Underway(n) PROVE y = latest[n]
    OBVIOUS
<1>0. TypeOK /\ Counters /\ Genuine /\ EmissionInv
    BY DEF SignedInv, EmissionInv
<1>1. Current(latest[n])
    BY <1>0, CurrentOrUnderway
<1>2. y \in LSA /\ latest[n] \in LSA
    BY <1>0, ExistsType DEF TypeOK
<1>3. /\ y.stamp \in Nat /\ y.sequence \in Nat /\ latest[n].stamp \in Nat /\ latest[n].sequence \in Nat
    BY <1>2 DEF LSA
<1>4. sequence[n] \in Nat /\ signed[n] \in Nat
    BY <1>0 DEF TypeOK
<1>5. latest[n].origin = n
    BY <1>0 DEF Counters
<1>6. y.sequence + signed[n] = y.stamp + sequence[n]
    BY <1>0 DEF Genuine, Numbered
<1>7. latest[n].sequence + signed[n] = latest[n].stamp + sequence[n]
    BY <1>0, <1>1, <1>5 DEF Genuine, Numbered
<1>8. y.stamp <= latest[n].stamp
    BY <1>0 DEF Genuine
<1>9. y.stamp = latest[n].stamp
    BY <1>3, <1>4, <1>6, <1>7, <1>8
<1> QED BY <1>0, <1>9 DEF Genuine

(* An advertisement in existence, at the next state.                       *)
LEMMA OldStaysOld ==
    ASSUME SignedInv, [Next]_vars, NEW y, Exists(y)
    PROVE  /\ y \in LSA /\ y.stamp > 0
           /\ ~Current(y) => ~Current(y)'
<1>0. TypeOK /\ Counters /\ Genuine /\ EmissionInv
    BY DEF SignedInv, EmissionInv
<1>1. y \in LSA
    BY <1>0, ExistsType
<1>2. y.origin \in Nodes /\ y.stamp \in Nat
    BY <1>1 DEF LSA
<1>3. y.stamp <= latest[y.origin].stamp /\ Numbered(y)
    BY <1>0 DEF Genuine
<1>4. latest[y.origin].stamp <= signed[y.origin]
    BY <1>0, <1>2 DEF Counters
<1>5. latest[y.origin].stamp \in Nat /\ signed[y.origin] \in Nat
    BY <1>0, <1>2 DEF TypeOK, LSA
<1>6. y.stamp <= signed[y.origin]
    BY <1>2, <1>3, <1>4, <1>5
<1> QED BY <1>0, <1>1, <1>3, <1>6, NumberedStep DEF Numbered

(* What m holds of n, and the newest is in no frame: it stays settled.     *)
LEMMA SettledStep ==
    ASSUME SignedInv, Starting, [Next]_vars, NEW n \in Nodes, NEW m \in Nodes, m # n,
           ~Restart(m), Settled(n, m), latest'[n] = latest[n], ~Underway(n)
    PROVE  Settled(n, m)'
<1>0. TypeOK /\ Counters /\ Genuine /\ Filed
    BY DEF SignedInv, EmissionInv
<1>1. PICK y : y = lsas[m][n]
    OBVIOUS
<1>2. PICK l \in LSA : l = latest[n]
    BY <1>0 DEF TypeOK
<1>3. l.sequence \in Nat /\ l.stamp \in Nat /\ expired[n] < l.stamp /\ expired[n] \in Nat
    BY <1>0, <1>2 DEF TypeOK, Counters, LSA
<1>4. y # None => Exists(y) /\ y.origin = n
    BY <1>0, <1>1 DEF Exists, Held, Filed
<1>5. y # None => y \in LSA /\ y.stamp > 0 /\ (~Current(y) => ~Current(y)')
    BY <1>4, OldStaysOld
<1>6. expired'[n] >= expired[n] /\ (~NeverRestarted(n) => ~NeverRestarted(n)')
    BY <1>0, ClockStep
<1>7. expired'[n] \in Nat
    BY <1>0, TypeStep DEF TypeOK
<1>8. \/ y = l
      \/ y # None /\ ~Current(y) /\ y.sequence >= l.sequence
      \/ (y = None \/ y.sequence < l.sequence) /\ expired[n] > 0 /\ ~NeverRestarted(n)
    BY <1>1, <1>2 DEF Settled
<1>9. expired[n] > 0 => expired'[n] > 0
    BY <1>3, <1>6, <1>7
<1>10. CASE lsas'[m][n] = y
    <2>1. CASE y = l
        BY <1>2, <1>10, <2>1 DEF Settled
    <2>2. CASE y # None /\ ~Current(y) /\ y.sequence >= l.sequence
        <3>1. ~Current(lsas[m][n])'
            BY <1>5, <1>10, <2>2 DEF Current
        <3> QED BY <1>2, <1>10, <2>2, <3>1 DEF Settled
    <2>3. CASE (y = None \/ y.sequence < l.sequence) /\ expired[n] > 0 /\ ~NeverRestarted(n)
        BY <1>2, <1>6, <1>9, <1>10, <2>3 DEF Settled
    <2> QED BY <1>8, <2>1, <2>2, <2>3
<1>11. CASE lsas'[m][n] = None /\ y # None /\ y.stamp <= expired[n]
    <2>1. y \in LSA /\ y.stamp \in Nat /\ y.stamp > 0 /\ y.origin = n
        BY <1>4, <1>5, <1>11 DEF LSA
    <2>2. y # l
        BY <1>3, <1>11, <2>1
    <2>3. expired[n] > 0
        BY <1>3, <1>11, <2>1
    <2>4. sequence[n] \in Nat /\ signed[n] \in Nat
        BY <1>0 DEF TypeOK
    <2>5. ~Current(y) => ~NeverRestarted(n)
        BY <2>1, <2>4 DEF Current, NeverRestarted
    <2>6. ~NeverRestarted(n)
        BY <1>8, <2>2, <2>5
    <2> QED BY <1>6, <1>9, <1>11, <2>3, <2>6 DEF Settled
<1>12. ASSUME NEW x \in Nodes, NEW z \in LSA, Handled(m, x, n, z), Accepts(m, z), lsas'[m][n] = z
       PROVE  Settled(n, m)'
    <2>1. z \in Frames(wire[x][m][n])
        BY <1>12 DEF Handled
    <2>2. Exists(z) /\ z.origin = n
        BY <1>0, <2>1 DEF Exists, Sent, Filed
    <2>3. z # None
        BY <1>12, NoLSAAssumption
    <2>4. z.sequence \in Nat
        BY <1>12 DEF LSA
    <2>5. CASE z.sequence >= l.sequence
        <3>1. z = l \/ ~Current(z)
            BY <1>2, <2>2, <2>5, Outnumbers
        <3>2. CASE z = l
            BY <1>2, <1>12, <3>2 DEF Settled
        <3>3. CASE ~Current(z)
            <4>1. ~Current(z)'
                BY <2>2, <3>3, OldStaysOld
            <4>2. ~Current(lsas[m][n])'
                BY <1>12, <4>1 DEF Current
            <4> QED BY <1>2, <1>12, <2>3, <2>5, <4>2 DEF Settled
        <3> QED BY <3>1, <3>2, <3>3
    <2>6. CASE z.sequence < l.sequence
        <3>1. y = None \/ y.sequence < z.sequence
            BY <1>1, <1>12, <2>2 DEF Accepts
        <3>2. y # None => y.sequence \in Nat
            BY <1>5 DEF LSA
        <3>3. y # l
            BY <1>2, <1>3, <2>4, <2>6, <3>1, <3>2, NoLSAAssumption
        <3>4. ~(y # None /\ y.sequence >= l.sequence)
            BY <1>3, <2>4, <2>6, <3>1, <3>2
        <3>5. expired[n] > 0 /\ ~NeverRestarted(n)
            BY <1>8, <3>3, <3>4
        <3> QED BY <1>2, <1>6, <1>9, <1>12, <2>6, <3>5 DEF Settled
    <2> QED BY <1>3, <2>4, <2>5, <2>6
<1> QED BY <1>0, <1>1, <1>10, <1>11, <1>12, HeldStep

(* The newest advertisement of a node, on a connection that is up: about   *)
(* to be flooded, in a frame, or settled.                                  *)
LEMMA ProgressStep == SignedInv /\ Starting /\ Progress /\ [Next]_vars => Progress'
<1> SUFFICES ASSUME SignedInv, Starting, Progress, [Next]_vars, NEW n \in Nodes, NEW m \in Nodes,
                    link'[n][m] = "up", ~Broken(n, m)'
             PROVE  Underway(n)' \/ latest'[n] \in Frames(wire'[n][m][n]) \/ Settled(n, m)'
    BY DEF Progress
<1>0. TypeOK /\ Counters /\ Genuine /\ Filed /\ EmissionInv
    BY DEF SignedInv, EmissionInv
<1>1. ~Restart(n) /\ ~Restart(m)
    BY <1>0, LiveStep
<1>2. m # n
    <2>1. Counters'
        BY <1>0, CountersStep
    <2> QED BY <2>1 DEF Counters
<1>3. ASSUME NEW w \in Workers, registerPeer(n, m, w) PROVE Underway(n)'
    <2>1. worker'[n][w].pc = "number"
        BY <1>0, <1>3, RegisterEffect
    <2> QED BY <2>1 DEF Underway
<1>4. CASE link[n][m] = "up" /\ ~Broken(n, m)
    <2>1. Underway(n) \/ latest[n] \in Frames(wire[n][m][n]) \/ Settled(n, m)
        BY <1>4 DEF Progress
    <2>2. CASE Underway(n)
        <3>1. ASSUME NEW w \in Workers, emitFlood(n, w), worker[n][w].lsa = latest[n]
              PROVE  latest'[n] \in Frames(wire'[n][m][n])
            <4>1. latest' = latest
                BY <3>1 DEF emitFlood
            <4>2. m \in peers(n) \ {None}
                BY <1>4, NoneAssumption DEF peers
            <4>3. latest[n].origin = n
                BY <1>0 DEF Counters
            <4>4. Sends(n, worker[n][w].lsa, None, n, m, n)
                BY <1>4, <3>1, <4>2, <4>3 DEF Sends
            <4>5. worker[n][w].lsa \in Frames(wire'[n][m][n])
                BY <1>0, <3>1, <4>4, FloodEffect
            <4> QED BY <3>1, <4>1, <4>5
        <3> QED BY <1>0, <1>1, <2>2, <3>1, UnderwayStep
    <2>3. CASE ~Underway(n) /\ latest'[n] = latest[n]
        <3>1. CASE Settled(n, m)
            BY <1>1, <1>2, <2>3, <3>1, SettledStep
        <3>2. CASE latest[n] \in Frames(wire[n][m][n])
            <4>1. latest[n] \in Frames(wire'[n][m][n]) \/ Handled(m, n, n, latest[n])
                BY <1>0, <1>4, <3>2, FrameStep
            <4>2. CASE Handled(m, n, n, latest[n]) /\ Accepts(m, latest[n])
                <5>1. lsas'[m][n] = latest[n]
                    BY <4>2 DEF Handled
                <5> QED BY <2>3, <5>1 DEF Settled
            <4>3. CASE Handled(m, n, n, latest[n]) /\ ~Accepts(m, latest[n])
                <5>1. PICK y : y = lsas[m][n]
                    OBVIOUS
                <5>2. lsas'[m][n] = y
                    BY <4>3, <5>1 DEF Handled
                <5>3. latest[n].origin = n /\ expired[n] < latest[n].stamp
                    BY <1>0 DEF Counters
                <5>4. expired[n] \in Nat /\ latest[n].stamp \in Nat /\ latest[n].sequence \in Nat
                    BY <1>0 DEF TypeOK, LSA
                <5>5. y # None /\ ~(y.sequence < latest[n].sequence)
                    BY <1>2, <4>3, <5>1, <5>3, <5>4 DEF Accepts
                <5>6. Exists(y) /\ y.origin = n
                    BY <1>0, <5>1, <5>5 DEF Exists, Held, Filed
                <5>7. y.sequence \in Nat
                    BY <5>6, OldStaysOld DEF LSA
                <5>8. y.sequence >= latest[n].sequence
                    BY <5>4, <5>5, <5>7
                <5>9. y = latest[n] \/ ~Current(y)
                    BY <2>3, <5>6, <5>8, Outnumbers
                <5>10. CASE y = latest[n]
                    BY <2>3, <5>2, <5>10 DEF Settled
                <5>11. CASE ~Current(y)
                    <6>1. ~Current(y)'
                        BY <5>6, <5>11, OldStaysOld
                    <6>2. ~Current(lsas[m][n])'
                        BY <5>2, <6>1 DEF Current
                    <6> QED BY <2>3, <5>2, <5>5, <5>8, <6>2 DEF Settled
                <5> QED BY <5>9, <5>10, <5>11
            <4> QED BY <2>3, <4>1, <4>2, <4>3
        <3> QED BY <2>1, <2>3, <3>1, <3>2
    <2> QED BY <1>0, <2>2, <2>3, LatestStep
<1> QED BY <1>0, <1>3, <1>4, LiveStep

(* The parts about neighbours.                                             *)
NeighbourInv == SignedInv /\ Starting /\ Progress

(* On a connection that is up (node.go:395-520), the newest advertisement  *)
(* of a node is being emitted, is in a frame, or the neighbour has settled *)
(* on it, or on one of an earlier process.                                 *)
THEOREM NeighbourInvariant == Spec => []NeighbourInv
<1>1. Init => NeighbourInv
    <2> SUFFICES ASSUME Init PROVE NeighbourInv
        OBVIOUS
    <2>1. \A n \in Nodes : sequence[n] = 1 /\ \A m \in Nodes : link[n][m] = "none"
        BY DEF Init
    <2> QED BY <2>1, InitSignedInv DEF NeighbourInv, Starting, Progress
<1>2. NeighbourInv /\ [Next]_vars => NeighbourInv'
    <2>1. SignedInv => TypeOK
        BY DEF SignedInv, EmissionInv
    <2> QED BY <2>1, SignedInvStep, StartingStep, ProgressStep DEF NeighbourInv
<1> QED BY <1>1, <1>2, PTL DEF Spec

(* A neighbour that has read everything holds the newest advertisement,    *)
(* or is held back by an earlier process of the node (node.go:466-491).    *)
THEOREM StaleIsOutnumbered == Spec => []StaleOnlyIfOutnumbered
<1>1. NeighbourInv => StaleOnlyIfOutnumbered
    <2> SUFFICES ASSUME NeighbourInv, NEW n \in Nodes, NEW m \in Nodes,
                        Linked(n, m), EmissionsOut(n), wire[n][m][n] = << >>
                 PROVE  \/ lsas[m][n] = latest[n]
                        \/ /\ lsas[m][n] # None
                           /\ lsas[m][n].stamp <= signed[n] - sequence[n]
                           /\ lsas[m][n].sequence >= latest[n].sequence
                        \/ /\ lsas[m][n] = None \/ lsas[m][n].sequence < latest[n].sequence
                           /\ expired[n] > 0
                           /\ ~NeverRestarted(n)
        BY DEF StaleOnlyIfOutnumbered
    <2>1. ~Underway(n)
        BY DEF EmissionsOut, Underway
    <2>2. Frames(wire[n][m][n]) = {}
        BY FramesEmpty
    <2>3. Settled(n, m)
        BY <2>1, <2>2 DEF NeighbourInv, Progress, Linked
    <2>4. ASSUME lsas[m][n] # None, ~Current(lsas[m][n])
          PROVE  lsas[m][n].stamp <= signed[n] - sequence[n]
        <3>1. lsas[m][n] \in LSA /\ lsas[m][n].origin = n
            BY <2>4 DEF NeighbourInv, SignedInv, EmissionInv, TypeOK, Filed
        <3>2. lsas[m][n].stamp \in Nat /\ sequence[n] \in Nat /\ signed[n] \in Nat
            BY <3>1 DEF NeighbourInv, SignedInv, EmissionInv, TypeOK, LSA
        <3> QED BY <2>4, <3>1, <3>2 DEF Current
    <2> QED BY <2>3, <2>4 DEF Settled
<1> QED BY NeighbourInvariant, <1>1, PTL

(* Without a restart the neighbour holds the newest advertisement, and it  *)
(* lists the registered peers (node.go:395-520).                           *)
THEOREM NeighboursAreCurrent == Spec => []NeighboursCurrent
<1>1. NeighbourInv /\ StaleOnlyIfOutnumbered /\ NewestAdvertisesPeers => NeighboursCurrent
    <2> SUFFICES ASSUME NeighbourInv, StaleOnlyIfOutnumbered, NewestAdvertisesPeers
                 PROVE  NeighboursCurrent
        OBVIOUS
    <2>0. TypeOK /\ Genuine
        BY DEF NeighbourInv, SignedInv, EmissionInv
    <2>1. ASSUME NEW n \in Nodes, NEW m \in Nodes,
                 Linked(n, m), EmissionsOut(n), wire[n][m][n] = << >>, NeverRestarted(n)
          PROVE  lsas[m][n] = latest[n] /\ lsas[m][n].links = peers(n)
        <3>1. latest[n].links = peers(n)
            BY <2>1 DEF NewestAdvertisesPeers, EmissionsOut
        <3>2. sequence[n] \in Nat /\ signed[n] = sequence[n]
            BY <2>0, <2>1 DEF TypeOK, NeverRestarted
        <3>3. ASSUME lsas[m][n] # None PROVE ~(lsas[m][n].stamp <= signed[n] - sequence[n])
            <4>1. lsas[m][n] \in LSA
                BY <2>0, <3>3 DEF TypeOK
            <4>2. lsas[m][n].stamp \in Nat /\ lsas[m][n].stamp > 0
                BY <2>0, <3>3, <4>1 DEF Genuine, Exists, Held, Numbered, LSA
            <4> QED BY <3>2, <4>2
        <3> QED BY <2>1, <3>1, <3>3 DEF StaleOnlyIfOutnumbered
    <2> QED BY <2>0, <2>1 DEF NeighboursCurrent
<1> QED BY NeighbourInvariant, StaleIsOutnumbered, NewestAdvertised, <1>1, PTL

-----------------------------------------------------------------------------
(* The hands of a reader fill with what it accepts and empty by the flood. *)
LEMMA ReaderStep ==
    ASSUME TypeOK, [Next]_vars, NEW n \in Nodes, NEW x \in Nodes
    PROVE  \/ reader'[n][x] = reader[n][x]
           \/ reader'[n][x] = None /\ (floodOnward(n, x) \/ Restart(n))
           \/ \E c \in Nodes, lsa \in LSA :
                Handled(n, x, c, lsa) /\ Accepts(n, lsa) /\ reader'[n][x] = lsa
<1> DEFINE Goal == \/ reader'[n][x] = reader[n][x]
                   \/ reader'[n][x] = None /\ (floodOnward(n, x) \/ Restart(n))
                   \/ \E c \in Nodes, lsa \in LSA :
                        Handled(n, x, c, lsa) /\ Accepts(n, lsa) /\ reader'[n][x] = lsa
<1>1. ASSUME NEW a \in Nodes, NEW b \in Nodes, NEW c \in Nodes, handleLSA(a, b, c) PROVE Goal
    <2>1. PICK lsa \in LSA : Handled(a, b, c, lsa)
        BY <1>1, HandleEffect
    <2>2. CASE a = n /\ b = x /\ Accepts(a, lsa)
        <3>1. reader'[n][x] = lsa
            BY <2>1, <2>2 DEF Handled
        <3> QED BY <2>1, <2>2, <3>1
    <2>3. CASE ~(a = n /\ b = x /\ Accepts(a, lsa))
        BY <2>1, <2>3 DEF Handled
    <2> QED BY <2>2, <2>3
<1>2. ASSUME NEW a \in Nodes, NEW b \in Nodes, floodOnward(a, b) PROVE Goal
    <2>1. (a = n /\ b = x /\ reader'[n][x] = None) \/ reader'[n][x] = reader[n][x]
        BY <1>2, OnwardEffect
    <2> QED BY <1>2, <2>1
<1>3. ASSUME NEW a \in Nodes, Restart(a) PROVE Goal
    <2>1. (a = n /\ reader'[n][x] = None) \/ reader'[n][x] = reader[n][x]
        BY <1>3, RestartEffect
    <2> QED BY <1>3, <2>1
<1>4. ASSUME NEW a \in Nodes, NEW b \in Nodes, establishPeer(a, b) \/ TransportFails(a, b)
      PROVE reader' = reader
    BY <1>4 DEF establishPeer, TransportFails
<1>5. ASSUME NEW a \in Nodes, NEW b \in Nodes, NEW w \in Workers, registerPeer(a, b, w) \/ unregisterPeer(a, b, w)
      PROVE reader' = reader
    BY <1>5 DEF registerPeer, unregisterPeer
<1>6. ASSUME NEW a \in Nodes, NEW w \in Workers, lsaTick(a, w) \/ Emission(a, w) PROVE reader' = reader
    BY <1>6 DEF lsaTick, Emission, emitNumber, emitRead, emitStore, emitFlood, sendAllLSAs
<1>7. ASSUME NEW a \in Nodes, cleanupExpired(a) \/ Age(a) PROVE reader' = reader
    BY <1>7 DEF cleanupExpired, Age
<1>8. ASSUME UNCHANGED vars PROVE reader' = reader
    BY <1>8 DEF vars
<1>9. reader' = reader => Goal
    OBVIOUS
<1> HIDE DEF Goal
<1>10. Goal
    BY <1>1, <1>2, <1>3, <1>4, <1>5, <1>6, <1>7, <1>8, <1>9 DEF Next
<1> QED BY <1>10 DEF Goal

(* Where a frame comes from.                                               *)
LEMMA FrameOrigin ==
    ASSUME TypeOK, [Next]_vars, NEW m \in Nodes, NEW n \in Nodes, NEW o \in Nodes,
           NEW f \in Frames(wire'[m][n][o])
    PROVE  \/ f \in Frames(wire[m][n][o])
           \/ \E x \in Nodes : reader[m][x] \in LSA /\ f = reader[m][x] /\ o = f.origin
           \/ \E w \in Workers : worker[m][w].pc = "flood" /\ f = worker[m][w].lsa /\ o = f.origin
           \/ f = lsas[m][o] /\ f # None /\ lsas' = lsas
<1> DEFINE Goal == \/ f \in Frames(wire[m][n][o])
                   \/ \E x \in Nodes : reader[m][x] \in LSA /\ f = reader[m][x] /\ o = f.origin
                   \/ \E w \in Workers : worker[m][w].pc = "flood" /\ f = worker[m][w].lsa /\ o = f.origin
                   \/ f = lsas[m][o] /\ f # None /\ lsas' = lsas
<1>0. f \in Frames(wire[m][n][o]) => Goal
    OBVIOUS
<1>1. ASSUME NEW a \in Nodes, NEW b \in Nodes, establishPeer(a, b) PROVE f \in Frames(wire[m][n][o])
    <2>1. Frames(wire'[m][n][o]) = {} \/ wire'[m][n] = wire[m][n]
        BY <1>1, EstablishEffect
    <2> QED BY <2>1
<1>2. ASSUME NEW a \in Nodes, NEW b \in Nodes, NEW c \in Nodes, handleLSA(a, b, c)
      PROVE f \in Frames(wire[m][n][o])
    <2>1. PICK lsa \in LSA : Handled(a, b, c, lsa)
        BY <1>2, HandleEffect
    <2>2. CASE b = m /\ a = n /\ c = o
        BY <2>1, <2>2 DEF Handled
    <2>3. CASE ~(b = m /\ a = n /\ c = o)
        BY <2>1, <2>3 DEF Handled
    <2> QED BY <2>2, <2>3
<1>3. ASSUME NEW a \in Nodes, NEW x \in Nodes, floodOnward(a, x) PROVE Goal
    <2>1. f \in Frames(wire[m][n][o]) \/ (f = reader[a][x] /\ Sends(a, reader[a][x], x, m, n, o))
        BY <1>3, OnwardEffect
    <2>2. reader[a][x] \in LSA
        BY <1>3, OnwardEffect
    <2> QED BY <2>1, <2>2 DEF Sends
<1>4. ASSUME NEW a \in Nodes, NEW w \in Workers, emitFlood(a, w) PROVE Goal
    <2>1. f \in Frames(wire[m][n][o]) \/ (f = worker[a][w].lsa /\ Sends(a, worker[a][w].lsa, None, m, n, o))
        BY <1>4, FloodEffect
    <2>2. worker[a][w].pc = "flood"
        BY <1>4, FloodEffect
    <2> QED BY <2>1, <2>2 DEF Sends
<1>5. ASSUME NEW a \in Nodes, NEW w \in Workers, sendAllLSAs(a, w) PROVE Goal
    <2>1. f \in Frames(wire[m][n][o]) \/ (f = lsas[m][o] /\ f # None)
        BY <1>5, SyncEffect
    <2>2. lsas' = lsas
        BY <1>5, SyncEffect
    <2> QED BY <2>1, <2>2
<1>6. ASSUME NEW a \in Nodes, NEW b \in Nodes, NEW w \in Workers, unregisterPeer(a, b, w)
      PROVE f \in Frames(wire[m][n][o])
    BY <1>6, UnregisterEffect
<1>7. ASSUME NEW a \in Nodes, Restart(a) PROVE f \in Frames(wire[m][n][o])
    BY <1>7, RestartEffect
<1>8. ASSUME NEW a \in Nodes, NEW b \in Nodes, TransportFails(a, b) PROVE wire' = wire
    BY <1>8 DEF TransportFails
<1>9. ASSUME NEW a \in Nodes, NEW b \in Nodes, NEW w \in Workers, registerPeer(a, b, w) PROVE wire' = wire
    BY <1>9 DEF registerPeer
<1>10. ASSUME NEW a \in Nodes, NEW w \in Workers,
              lsaTick(a, w) \/ emitNumber(a, w) \/ emitRead(a, w) \/ emitStore(a, w)
       PROVE wire' = wire
    BY <1>10 DEF lsaTick, emitNumber, emitRead, emitStore, linkVars
<1>11. ASSUME NEW a \in Nodes, cleanupExpired(a) \/ Age(a) PROVE wire' = wire
    BY <1>11 DEF cleanupExpired, Age, linkVars
<1>12. ASSUME UNCHANGED vars PROVE wire' = wire
    BY <1>12 DEF vars
<1>13. wire' = wire => Goal
    OBVIOUS
<1> HIDE DEF Goal
<1>14. Goal
    BY <1>0, <1>1, <1>2, <1>3, <1>4, <1>5, <1>6, <1>7, <1>8, <1>9, <1>10, <1>11, <1>12, <1>13
       DEF Next, Emission
<1> QED BY <1>14 DEF Goal

(* A connection one end still has, alive: it was so before, or it is new   *)
(* and carries nothing; the other end has not restarted.                   *)
LEMMA OpenStep ==
    ASSUME TypeOK, [Next]_vars, NEW n \in Nodes, NEW m \in Nodes, link'[n][m] # "none", ~Broken(n, m)'
    PROVE  /\ ~Restart(m)
           /\ \/ link[n][m] # "none" /\ ~Broken(n, m)
              \/ \A o \in Nodes : Frames(wire'[m][n][o]) = {}
<1>1. ~Restart(m)
    <2> SUFFICES ASSUME Restart(m) PROVE FALSE
        OBVIOUS
    <2>1. link[n][m] # "none"
        BY RestartEffect
    <2> QED BY <2>1, RestartEffect
<1> DEFINE Goal == (link[n][m] # "none" /\ ~Broken(n, m)) \/ \A o \in Nodes : Frames(wire'[m][n][o]) = {}
<1>2. (cut' = cut /\ link' = link) => Goal
    BY DEF Broken
<1>3. ASSUME NEW a \in Nodes, NEW b \in Nodes, establishPeer(a, b) PROVE Goal
    <2>1. CASE (n = a /\ m = b) \/ (n = b /\ m = a)
        BY <1>3, <2>1, EstablishEffect
    <2>2. CASE ~((n = a /\ m = b) \/ (n = b /\ m = a))
        <3>1. link'[n][m] = link[n][m] /\ Broken(n, m)' = Broken(n, m)
            BY <1>3, <2>2, EstablishEffect
        <3> QED BY <3>1
    <2> QED BY <2>1, <2>2
<1>4. ASSUME NEW a \in Nodes, NEW b \in Nodes, TransportFails(a, b) PROVE Goal
    BY <1>4, FailEffect
<1>5. ASSUME NEW a \in Nodes, NEW b \in Nodes, NEW w \in Workers, registerPeer(a, b, w) PROVE Goal
    <2>1. link[n][m] # "none" /\ cut' = cut
        BY <1>5, RegisterEffect
    <2> QED BY <2>1 DEF Broken
<1>6. ASSUME NEW a \in Nodes, NEW b \in Nodes, NEW w \in Workers, unregisterPeer(a, b, w) PROVE Goal
    <2>1. link'[n][m] = link[n][m] /\ cut' = cut
        BY <1>6, UnregisterEffect
    <2> QED BY <2>1 DEF Broken
<1>7. ASSUME NEW a \in Nodes, Restart(a) PROVE Goal
    BY <1>7, RestartEffect
<1>8. ASSUME NEW a \in Nodes, NEW b \in Nodes, NEW o \in Nodes, handleLSA(a, b, o) \/ floodOnward(a, b)
      PROVE cut' = cut /\ link' = link
    BY <1>8 DEF handleLSA, floodOnward
<1>9. ASSUME NEW a \in Nodes, NEW w \in Workers, lsaTick(a, w) \/ Emission(a, w)
      PROVE cut' = cut /\ link' = link
    BY <1>9 DEF lsaTick, Emission, emitNumber, emitRead, emitStore, emitFlood, sendAllLSAs, linkVars
<1>10. ASSUME NEW a \in Nodes, cleanupExpired(a) \/ Age(a) PROVE cut' = cut /\ link' = link
    BY <1>10 DEF cleanupExpired, Age, linkVars
<1>11. ASSUME UNCHANGED vars PROVE cut' = cut /\ link' = link
    BY <1>11 DEF vars
<1> HIDE DEF Goal
<1>12. Goal
    BY <1>2, <1>3, <1>4, <1>5, <1>6, <1>7, <1>8, <1>9, <1>10, <1>11 DEF Next
<1> QED BY <1>1, <1>12 DEF Goal

(* What registerPeer owes a new peer stays owed until it is sent.          *)
LEMMA OwedStep ==
    ASSUME TypeOK, [Next]_vars, NEW n \in Nodes, NEW m \in Nodes, NEW w \in Workers,
           worker[n][w].to = m, link'[n][m] = "up"
    PROVE  worker'[n][w].to = m \/ sendAllLSAs(n, w)
<1> DEFINE Goal == worker'[n][w].to = m \/ sendAllLSAs(n, w)
<1>0. ASSUME NEW a \in Nodes, NEW v \in Workers, Only(a, v), worker[a][v].to = worker'[a][v].to PROVE Goal
    <2>1. CASE a = n /\ v = w
        BY <1>0, <2>1
    <2>2. CASE ~(a = n /\ v = w)
        BY <1>0, <2>2 DEF Only
    <2> QED BY <2>1, <2>2
<1>1. ASSUME NEW a \in Nodes, NEW b \in Nodes, NEW v \in Workers, registerPeer(a, b, v) PROVE Goal
    <2>1. Only(a, v) /\ worker[a][v].to = None
        BY <1>1, RegisterEffect
    <2>2. ~(a = n /\ v = w)
        BY <2>1, NoneAssumption
    <2> QED BY <2>1, <2>2 DEF Only
<1>2. ASSUME NEW a \in Nodes, NEW b \in Nodes, NEW v \in Workers, unregisterPeer(a, b, v) PROVE Goal
    <2>1. EmittingWithout(a, v, b)
        BY <1>2, UnregisterEffect
    <2>2. ~(a = n /\ b = m)
        BY <1>2, UnregisterEffect
    <2>3. /\ worker[a][v].to = None
          /\ \A x \in Nodes, y \in Workers : x # a => worker'[x][y] = worker[x][y]
          /\ \A y \in Workers : y # v /\ worker[a][y].to # b => worker'[a][y].to = worker[a][y].to
        BY <2>1, CloseEffect
    <2>4. ~(a = n /\ v = w)
        BY <2>3, NoneAssumption
    <2> QED BY <2>2, <2>3, <2>4
<1>3. ASSUME NEW a \in Nodes, NEW v \in Workers, lsaTick(a, v) PROVE Goal
    <2>1. Only(a, v) /\ worker[a][v].to = worker'[a][v].to
        BY <1>3, TickEffect
    <2> QED BY <2>1, <1>0
<1>4. ASSUME NEW a \in Nodes, NEW v \in Workers, emitNumber(a, v) PROVE Goal
    <2>1. Only(a, v) /\ worker[a][v].to = worker'[a][v].to
        BY <1>4, NumberEffect, ZenonT(30)
    <2> QED BY <2>1, <1>0
<1>5. ASSUME NEW a \in Nodes, NEW v \in Workers, emitRead(a, v) PROVE Goal
    <2>1. Only(a, v) /\ worker[a][v].to = worker'[a][v].to
        BY <1>5, ReadEffect DEF ReadBy
    <2> QED BY <2>1, <1>0
<1>6. ASSUME NEW a \in Nodes, NEW v \in Workers, emitStore(a, v) PROVE Goal
    <2>1. Only(a, v) /\ worker[a][v].to = worker'[a][v].to
        BY <1>6, StoreEffect
    <2> QED BY <2>1, <1>0
<1>7. ASSUME NEW a \in Nodes, NEW v \in Workers, emitFlood(a, v) PROVE Goal
    <2>1. Only(a, v) /\ worker[a][v].to = worker'[a][v].to
        BY <1>7, FloodEffect
    <2> QED BY <2>1, <1>0
<1>8. ASSUME NEW a \in Nodes, NEW v \in Workers, sendAllLSAs(a, v) PROVE Goal
    <2>1. Only(a, v)
        BY <1>8, SyncEffect
    <2>2. (a = n /\ v = w) \/ worker'[n][w] = worker[n][w]
        BY <2>1 DEF Only
    <2> QED BY <1>8, <2>2
<1>9. ASSUME NEW a \in Nodes, Restart(a) PROVE Goal
    <2>1. a # n
        BY <1>9, RestartEffect
    <2> QED BY <1>9, <2>1, RestartEffect
<1>10. ASSUME NEW a \in Nodes, NEW b \in Nodes, NEW o \in Nodes,
              \/ establishPeer(a, b) \/ TransportFails(a, b)
              \/ handleLSA(a, b, o) \/ floodOnward(a, b)
       PROVE worker' = worker
    BY <1>10 DEF establishPeer, TransportFails, handleLSA, floodOnward, emitVars
<1>11. ASSUME NEW a \in Nodes, cleanupExpired(a) \/ Age(a) PROVE worker' = worker
    BY <1>11 DEF cleanupExpired, Age, emitVars
<1>12. ASSUME UNCHANGED vars PROVE worker' = worker
    BY <1>12 DEF vars
<1>13. worker' = worker => Goal
    OBVIOUS
<1> HIDE DEF Goal
<1>14. Goal
    BY <1>1, <1>2, <1>3, <1>4, <1>5, <1>6, <1>7, <1>8, <1>9, <1>10, <1>11, <1>12, <1>13
       DEF Next, Emission
<1> QED BY <1>14 DEF Goal

-----------------------------------------------------------------------------
(* Without a restart the sequence numbers are the stamps.                  *)
LEMMA NumberIsStamp ==
    ASSUME SignedInv, NEW x, Exists(x), NeverRestarted(x.origin)
    PROVE  x \in LSA /\ x.stamp \in Nat /\ x.sequence = x.stamp
<1>0. TypeOK /\ Genuine
    BY DEF SignedInv, EmissionInv
<1>1. x \in LSA
    BY <1>0, ExistsType
<1>2. x.origin \in Nodes /\ x.stamp \in Nat /\ x.sequence \in Nat
    BY <1>1 DEF LSA
<1>3. sequence[x.origin] \in Nat /\ signed[x.origin] = sequence[x.origin]
    BY <1>0, <1>2 DEF TypeOK, NeverRestarted
<1>4. Numbered(x)
    BY <1>0 DEF Genuine
<1> QED BY <1>1, <1>2, <1>3, <1>4 DEF Numbered, Current

(* What a node holds and has not expired it keeps, or replaces by a newer. *)
LEMMA HasStep ==
    ASSUME SignedInv, [Next]_vars, NEW m \in Nodes, NEW o \in Nodes, m # o,
           NeverRestarted(o), ~Restart(m), NEW k \in Nat, Has(m, o, k), k > expired'[o]
    PROVE  Has(m, o, k)'
<1>0. TypeOK /\ Counters /\ Filed
    BY DEF SignedInv, EmissionInv
<1>1. PICK y : y = lsas[m][o]
    OBVIOUS
<1>2. y # None /\ y.stamp >= k
    BY <1>1 DEF Has
<1>3. Exists(y) /\ y.origin = o
    BY <1>0, <1>1, <1>2 DEF Exists, Held, Filed
<1>4. y \in LSA /\ y.stamp \in Nat /\ y.sequence = y.stamp
    BY <1>3, NumberIsStamp
<1>5. expired'[o] >= expired[o] /\ expired[o] \in Nat /\ expired'[o] \in Nat
    BY <1>0, ClockStep, TypeStep DEF TypeOK
<1>6. CASE lsas'[m][o] = y
    BY <1>2, <1>6 DEF Has
<1>7. ~(y.stamp <= expired[o])
    BY <1>2, <1>4, <1>5
<1>8. ASSUME NEW x \in Nodes, NEW z \in LSA, Handled(m, x, o, z), Accepts(m, z), lsas'[m][o] = z
      PROVE  Has(m, o, k)'
    <2>1. z \in Frames(wire[x][m][o])
        BY <1>8 DEF Handled
    <2>2. Exists(z) /\ z.origin = o
        BY <1>0, <2>1 DEF Exists, Sent, Filed
    <2>3. z.stamp \in Nat /\ z.sequence = z.stamp /\ z # None
        BY <1>8, <2>2, NumberIsStamp, NoLSAAssumption
    <2>4. y.sequence < z.sequence
        BY <1>1, <1>2, <1>8, <2>2 DEF Accepts
    <2>5. z.stamp >= k
        BY <1>2, <1>4, <2>3, <2>4
    <2> QED BY <1>8, <2>3, <2>5 DEF Has
<1> QED BY <1>0, <1>1, <1>6, <1>7, <1>8, HeldStep

(* What is sent on or about to be is held by the sender.                   *)
LEMMA SourcesStep == SignedInv /\ Sources /\ [Next]_vars => Sources'
<1> SUFFICES ASSUME SignedInv, Sources, [Next]_vars, NEW m \in Nodes, NEW o \in Nodes,
                    m # o, NeverRestarted(o)'
             PROVE  /\ \A x \in Nodes :
                         reader'[m][x] # None /\ reader'[m][x].origin = o /\ reader'[m][x].stamp > expired'[o]
                         => Has(m, o, reader[m][x].stamp)'
                    /\ \A n \in Nodes : link'[n][m] # "none" /\ ~Broken(n, m)' =>
                         \A x \in Frames(wire'[m][n][o]) : x.stamp > expired'[o] => Has(m, o, x.stamp)'
    BY DEF Sources
<1>0. TypeOK /\ Counters /\ Filed
    BY DEF SignedInv, EmissionInv
<1>1. NeverRestarted(o) /\ expired'[o] >= expired[o] /\ expired[o] \in Nat /\ expired'[o] \in Nat
    BY <1>0, ClockStep, TypeStep DEF TypeOK
<1>2. ASSUME NEW r, Exists(r), r.stamp > expired'[o] PROVE r.stamp \in Nat /\ r.stamp > expired[o]
    <2>1. r.stamp \in Nat
        BY <1>0, <1>2, ExistsType DEF LSA
    <2> QED BY <1>1, <1>2, <2>1
<1>3. ASSUME NEW x \in Nodes, NEW r, r = reader[m][x], r # None, r.origin = o,
             r.stamp > expired'[o], ~Restart(m)
      PROVE  Has(m, o, r.stamp)'
    <2>1. Exists(r)
        BY <1>3 DEF Exists, Taken
    <2>2. r.stamp \in Nat /\ r.stamp > expired[o]
        BY <1>2, <1>3, <2>1
    <2>3. Has(m, o, r.stamp)
        BY <1>1, <1>3, <2>2 DEF Sources
    <2> QED BY <1>1, <1>3, <2>2, <2>3, HasStep
<1>4. ASSUME NEW x \in Nodes, NEW r, r = reader'[m][x], r # None, r.origin = o, r.stamp > expired'[o]
      PROVE  Has(m, o, r.stamp)'
    <2>1. CASE r = reader[m][x]
        <3>1. ~Restart(m)
            BY <1>0, <1>4, RestartEffect
        <3> QED BY <1>3, <1>4, <2>1, <3>1
    <2>2. ASSUME NEW c \in Nodes, NEW z \in LSA, Handled(m, x, c, z), Accepts(m, z), r = z
          PROVE  Has(m, o, r.stamp)'
        <3>1. z \in Frames(wire[x][m][c])
            BY <2>2 DEF Handled
        <3>2. c = o
            BY <1>0, <1>4, <2>2, <3>1 DEF Filed
        <3>3. lsas'[m][o] = z
            BY <2>2, <3>2 DEF Handled
        <3>4. z.stamp \in Nat
            BY <2>2 DEF LSA
        <3> QED BY <1>4, <2>2, <3>3, <3>4 DEF Has
    <2> QED BY <1>0, <1>4, <2>1, <2>2, ReaderStep
<1>5. ASSUME NEW n \in Nodes, link'[n][m] # "none", ~Broken(n, m)',
             NEW f \in Frames(wire'[m][n][o]), f.stamp > expired'[o]
      PROVE  Has(m, o, f.stamp)'
    <2>1. ~Restart(m) /\ link[n][m] # "none" /\ ~Broken(n, m)
        BY <1>0, <1>5, OpenStep
    <2>2. CASE f \in Frames(wire[m][n][o])
        <3>1. Exists(f)
            BY <2>2 DEF Exists, Sent
        <3>2. f.stamp \in Nat /\ f.stamp > expired[o]
            BY <1>2, <1>5, <3>1
        <3>3. Has(m, o, f.stamp)
            BY <1>1, <2>1, <2>2, <3>2 DEF Sources
        <3> QED BY <1>1, <1>5, <2>1, <3>2, <3>3, HasStep
    <2>3. ASSUME NEW x \in Nodes, reader[m][x] \in LSA, f = reader[m][x], o = f.origin
          PROVE  Has(m, o, f.stamp)'
        <3>1. f # None
            BY <2>3, NoLSAAssumption
        <3> QED BY <1>3, <1>5, <2>1, <2>3, <3>1
    <2>4. ASSUME NEW w \in Workers, worker[m][w].pc = "flood", f = worker[m][w].lsa, o = f.origin
          PROVE  FALSE
        BY <1>0, <2>4 DEF Filed
    <2>5. CASE f = lsas[m][o] /\ f # None /\ lsas' = lsas
        <3>1. f.stamp \in Nat
            BY <1>0, <2>5 DEF TypeOK, LSA
        <3> QED BY <2>5, <3>1 DEF Has
    <2> QED BY <1>0, <1>5, <2>2, <2>3, <2>4, <2>5, FrameOrigin, SMTT(30)
<1>6. ASSUME NEW x \in Nodes, reader'[m][x] # None, reader'[m][x].origin = o,
             reader'[m][x].stamp > expired'[o]
      PROVE  Has(m, o, reader[m][x].stamp)'
    <2>1. PICK r : r = reader'[m][x]
        OBVIOUS
    <2>2. Has(m, o, r.stamp)'
        BY <1>4, <1>6, <2>1
    <2> QED BY <2>1, <2>2 DEF Has
<1> QED BY <1>5, <1>6

(* What a node holds of a third one is owed, in hand, sent, or held by the *)
(* neighbour.                                                              *)
LEMMA RelayedStep == SignedInv /\ Sources /\ Relayed /\ [Next]_vars => Relayed'
<1> SUFFICES ASSUME SignedInv, Sources, Relayed, [Next]_vars,
                    NEW n \in Nodes, NEW m \in Nodes, NEW o \in Nodes \ {n, m},
                    link'[n][m] = "up", ~Broken(n, m)', NeverRestarted(o)',
                    NEW l, l = lsas'[n][o], l # None, l.stamp > expired'[o]
             PROVE  \/ \E w \in Workers : worker'[n][w].to = m
                    \/ \E x \in Nodes \ {m} : reader'[n][x] = l
                    \/ \E x \in Frames(wire'[n][m][o]) : x.stamp >= l.stamp
                    \/ Has(m, o, l.stamp)'
    BY DEF Relayed, Has
<1> DEFINE Goal == \/ \E w \in Workers : worker'[n][w].to = m
                   \/ \E x \in Nodes \ {m} : reader'[n][x] = l
                   \/ \E x \in Frames(wire'[n][m][o]) : x.stamp >= l.stamp
                   \/ Has(m, o, l.stamp)'
<1>0. TypeOK /\ Counters /\ Filed
    BY DEF SignedInv, EmissionInv
<1>1. NeverRestarted(o) /\ expired'[o] >= expired[o] /\ expired[o] \in Nat /\ expired'[o] \in Nat
    BY <1>0, ClockStep, TypeStep DEF TypeOK
<1>2. ~Restart(n) /\ ~Restart(m)
    BY <1>0, LiveStep
<1>3. TypeOK'
    BY <1>0, TypeStep
<1>4. l \in LSA /\ l.stamp \in Nat /\ l.stamp > expired[o]
    <2>1. l \in LSA
        BY <1>3 DEF TypeOK
    <2>2. l.stamp \in Nat
        BY <2>1 DEF LSA
    <2> QED BY <1>1, <2>1, <2>2
<1>5. ASSUME NEW w \in Workers, registerPeer(n, m, w) PROVE Goal
    <2>1. worker'[n][w].to = m
        BY <1>0, <1>5, RegisterEffect
    <2> QED BY <2>1
<1>6. ASSUME link[n][m] = "up", ~Broken(n, m), lsas[n][o] = l PROVE Goal
    <2>0. l.origin = o
        BY <1>0, <1>6 DEF Filed
    <2>1. \/ \E w \in Workers : worker[n][w].to = m
          \/ \E x \in Nodes \ {m} : reader[n][x] = l
          \/ \E x \in Frames(wire[n][m][o]) : x.stamp >= l.stamp
          \/ Has(m, o, l.stamp)
        BY <1>1, <1>4, <1>6 DEF Relayed
    <2>2. ASSUME NEW w \in Workers, worker[n][w].to = m PROVE Goal
        <3>1. CASE worker'[n][w].to = m
            BY <3>1
        <3>2. CASE sendAllLSAs(n, w)
            <4>1. l \in Frames(wire'[n][m][o])
                BY <1>0, <1>6, <2>2, <3>2, SyncEffect
            <4> QED BY <1>4, <4>1
        <3> QED BY <1>0, <2>2, <3>1, <3>2, OwedStep
    <2>3. ASSUME NEW x \in Nodes \ {m}, reader[n][x] = l PROVE Goal
        <3>1. CASE reader'[n][x] = reader[n][x]
            BY <2>3, <3>1
        <3>2. CASE floodOnward(n, x)
            <4>1. m \in peers(n) \ {x}
                BY <1>6, <2>3 DEF peers
            <4>2. Sends(n, reader[n][x], x, n, m, o)
                BY <1>6, <2>0, <2>3, <4>1 DEF Sends
            <4>3. reader[n][x] \in Frames(wire'[n][m][o])
                BY <1>0, <3>2, <4>2, OnwardEffect
            <4> QED BY <1>4, <2>3, <4>3
        <3>3. ASSUME NEW c \in Nodes, NEW z \in LSA, Handled(n, x, c, z) PROVE FALSE
            BY <2>3, <3>3 DEF Handled
        <3> QED BY <1>0, <1>2, <3>1, <3>2, <3>3, ReaderStep
    <2>4. ASSUME NEW f \in Frames(wire[n][m][o]), f.stamp >= l.stamp PROVE Goal
        <3>1. Exists(f) /\ f.origin = o
            BY <1>0 DEF Exists, Sent, Filed
        <3>2. f \in LSA /\ f.stamp \in Nat /\ f.sequence = f.stamp
            BY <1>1, <3>1, NumberIsStamp
        <3>3. f.stamp > expired[o]
            BY <1>1, <1>4, <2>4, <3>2
        <3>4. CASE f \in Frames(wire'[n][m][o])
            BY <2>4, <3>4
        <3>5. CASE Handled(m, n, o, f) /\ Accepts(m, f)
            <4>1. lsas'[m][o] = f /\ f # None
                BY <3>2, <3>5, NoLSAAssumption DEF Handled
            <4> QED BY <2>4, <4>1 DEF Has
        <3>6. CASE Handled(m, n, o, f) /\ ~Accepts(m, f)
            <4>1. PICK y : y = lsas[m][o]
                OBVIOUS
            <4>2. lsas'[m][o] = y
                BY <3>6, <4>1 DEF Handled
            <4>3. y # None /\ ~(y.sequence < f.sequence)
                BY <3>1, <3>3, <3>6, <4>1 DEF Accepts
            <4>4. Exists(y) /\ y.origin = o
                BY <1>0, <4>1, <4>3 DEF Exists, Held, Filed
            <4>5. y.stamp \in Nat /\ y.sequence = y.stamp
                BY <1>1, <4>4, NumberIsStamp
            <4>6. y.stamp >= l.stamp
                BY <1>4, <2>4, <3>2, <4>3, <4>5
            <4> QED BY <4>2, <4>3, <4>6 DEF Has
        <3> QED BY <1>0, <1>6, <3>4, <3>5, <3>6, FrameStep
    <2>5. CASE Has(m, o, l.stamp)
        BY <1>1, <1>2, <1>4, <2>5, HasStep
    <2> HIDE DEF Goal
    <2>6. Has(m, o, l.stamp) => Goal
        BY <2>5 DEF Goal
    <2> QED BY <2>1, <2>2, <2>3, <2>4, <2>6
<1>7. ASSUME link[n][m] = "up", ~Broken(n, m),
             NEW x \in Nodes, NEW z \in LSA, Handled(n, x, o, z), Accepts(n, z), l = z
      PROVE  Goal
    <2>1. CASE x # m
        <3>1. reader'[n][x] = z
            BY <1>7 DEF Handled
        <3> QED BY <1>7, <2>1, <3>1
    <2>2. CASE x = m
        <3>1. z \in Frames(wire[m][n][o])
            BY <1>7, <2>2 DEF Handled
        <3>2. Has(m, o, l.stamp)
            BY <1>1, <1>4, <1>7, <3>1 DEF Sources
        <3>3. Has(m, o, l.stamp)'
            BY <1>1, <1>2, <1>4, <3>2, HasStep
        <3> QED BY <3>3
    <2> QED BY <2>1, <2>2
<1>8. \/ lsas[n][o] = l
      \/ \E x \in Nodes, z \in LSA : Handled(n, x, o, z) /\ Accepts(n, z) /\ l = z
    BY <1>0, <1>2, HeldStep
<1> HIDE DEF Goal
<1>9. Goal
    BY <1>0, <1>5, <1>6, <1>7, <1>8, LiveStep
<1> QED BY <1>9 DEF Goal

(* The parts about third nodes.                                            *)
FloodInv == SignedInv /\ Sources /\ Relayed

(* What a node has stored of a third one (node.go:466-520) it owes to each *)
(* peer by sendAllLSAs or by the flood, has sent, or the peer holds it.    *)
THEOREM FloodInvariant == Spec => []FloodInv
<1>1. Init => FloodInv
    <2> SUFFICES ASSUME Init PROVE FloodInv
        OBVIOUS
    <2>1. \A n, m \in Nodes : link[n][m] = "none" /\ reader[n][m] = None
        BY DEF Init
    <2> QED BY <2>1, InitSignedInv DEF FloodInv, Sources, Relayed
<1>2. FloodInv /\ [Next]_vars => FloodInv'
    BY SignedInvStep, SourcesStep, RelayedStep DEF FloodInv
<1> QED BY <1>1, <1>2, PTL DEF Spec

(* Once a node has flooded what it stored and the connection is read out,  *)
(* its neighbour holds what it holds of a third node, or newer.            *)
THEOREM FloodReachesNeighbours == Spec => []FloodComplete
<1>1. FloodInv => FloodComplete
    <2> SUFFICES ASSUME FloodInv, NEW n \in Nodes, NEW m \in Nodes, NEW o \in Nodes \ {n, m},
                        Linked(n, m), \A w \in Workers : worker[n][w].to # m,
                        \A x \in Nodes : reader[n][x] = None, wire[n][m][o] = << >>,
                        NeverRestarted(o), lsas[n][o] # None, lsas[n][o].stamp > expired[o]
                 PROVE  lsas[m][o] # None /\ lsas[m][o].stamp >= lsas[n][o].stamp
        BY DEF FloodComplete
    <2>1. Frames(wire[n][m][o]) = {}
        BY FramesEmpty
    <2>2. Has(m, o, lsas[n][o].stamp)
        BY <2>1 DEF FloodInv, Relayed, Linked
    <2> QED BY <2>2 DEF Has
<1> QED BY FloodInvariant, <1>1, PTL

-----------------------------------------------------------------------------
(***************************************************************************)
(* Routes.                                                                 *)
(***************************************************************************)

(* Every non-empty set of natural numbers has a least element.             *)
LEMMA LeastNatural ==
    ASSUME NEW T, T \subseteq Nat, T # {}
    PROVE  \E x \in T : \A y \in T : x <= y
<1> DEFINE R == OpToRel(<, Nat)
<1>1. IsWellFoundedOn(R, Nat)
    BY NatLessThanWellFounded
<1>2. \A x, y \in Nat : x < y => <<x, y>> \in R
    BY DEF OpToRel
<1> HIDE DEF R
<1>3. PICK x \in T : \A y \in T : ~(<<y, x>> \in R)
    BY <1>1, WFMin
<1>4. ASSUME NEW y \in T PROVE x <= y
    <2>1. x \in Nat /\ y \in Nat
        OBVIOUS
    <2>2. ~(y < x)
        BY <1>2, <1>3, <2>1
    <2> QED BY <2>1, <2>2
<1> QED BY <1>4

(* The inner loop takes one of the neighbours that are left.               *)
LEMMA LeastIsMember ==
    ASSUME NEW S, S \subseteq Identities, S # {}
    PROVE  Least(S) \in S /\ \A m \in S : Least(S) <= m
<1>1. \E x \in S : \A y \in S : x <= y
    BY LeastNatural, IdentitiesAssumption
<1> QED BY <1>1 DEF Least

(* The links the search uses are those both ends advertise.                *)
LEMMA AdjacencyIsMutual ==
    ASSUME RouteTypeOK, NEW a \in Identities, NEW b
    PROVE  /\ b \in adjacency(a) <=> Mutual(a, b)
           /\ b \in adjacency(a) => b \in Identities
<1>1. DOMAIN adverts \subseteq Identities
    BY TablesAssumption DEF RouteTypeOK
<1> QED BY <1>1 DEF adjacency, advertised, Mutual

(* Facts about sequences, in the form the steps below use them.            *)
LEMMA SeqFacts ==
    ASSUME NEW T, NEW s \in Seq(T)
    PROVE  /\ Len(s) \in Nat
           /\ s # << >> => Len(s) >= 1
           /\ \A i \in 1..Len(s) : s[i] \in T
           /\ \A e \in T : /\ Append(s, e) \in Seq(T)
                           /\ Len(Append(s, e)) = Len(s) + 1
                           /\ \A i \in 1..Len(s) : Append(s, e)[i] = s[i]
                           /\ Append(s, e)[Len(s) + 1] = e
                           /\ Append(s, e) # << >>
<1>1. Len(s) \in Nat /\ (s # << >> => Len(s) >= 1) /\ \A i \in 1..Len(s) : s[i] \in T
    OBVIOUS
<1>2. ASSUME NEW e \in T
      PROVE /\ Append(s, e) \in Seq(T)
            /\ Len(Append(s, e)) = Len(s) + 1
            /\ \A i \in 1..Len(s) : Append(s, e)[i] = s[i]
            /\ Append(s, e)[Len(s) + 1] = e
    OBVIOUS
<1>3. ASSUME NEW e \in T PROVE Append(s, e) # << >>
    <2>1. Len(Append(s, e)) # 0
        BY <1>1, <1>2
    <2>2. Len(<< >>) = 0
        OBVIOUS
    <2> QED BY <2>1, <2>2
<1> QED BY <1>1, <1>2, <1>3

(* Taking the first node from the queue.                                   *)
LEMMA TailFacts ==
    ASSUME NEW T, NEW s \in Seq(T), s # << >>
    PROVE  /\ Head(s) = s[1] /\ Head(s) \in T
           /\ Tail(s) \in Seq(T)
           /\ Len(Tail(s)) = Len(s) - 1
           /\ \A i \in 1..(Len(s) - 1) : Tail(s)[i] = s[i + 1]
    OBVIOUS

(* A path of two nodes or more makes a route.                              *)
LEMMA RouteOfPath ==
    ASSUME NEW p \in Seq(Identities), Len(p) >= 2
    PROVE  Route(p) \in RouteType /\ Route(p) # NoRoute
<1>1. 2 \in 1..Len(p) /\ Len(p) - 1 \in Nat
    BY SeqFacts
<1>2. p[2] \in Identities
    BY <1>1, SeqFacts
<1>3. Route(p) \in RouteType
    BY <1>1, <1>2 DEF Route, RouteType
<1> QED BY <1>3, NoRouteAssumption

-----------------------------------------------------------------------------
(* Before the first iteration only the node itself is known.               *)
LEMMA InitIInv == RouteInit => IInv
<1> SUFFICES ASSUME RouteInit PROVE IInv
    OBVIOUS
<1>1. local \in Identities /\ adverts \in Tables /\ local \in DOMAIN adverts
    BY TablesAssumption DEF RouteInit
<1>2. /\ queue \in Seq(Identities) /\ Len(queue) = 1 /\ queue[1] = local
      /\ <<local>> \in Seq(Identities) /\ Len(<<local>>) = 1 /\ <<local>>[1] = local
      /\ << >> \in Seq(Identities) /\ <<local>> # << >>
    BY <1>1 DEF RouteInit
<1>3. /\ current = NoRoute /\ todo = {} /\ routes = [n \in Identities |-> NoRoute]
      /\ paths \in [Identities -> Seq(Identities)]
      /\ paths[local] = <<local>> /\ \A n \in Identities : n # local => paths[n] = << >>
    BY <1>1, <1>2 DEF RouteInit
<1>4. RouteTypeOK
    BY <1>1, <1>2, <1>3 DEF RouteTypeOK
<1>5. \A n \in Identities : Known(n) <=> n = local
    BY <1>2, <1>3 DEF Known
<1>6. Sound(local, paths[local])
    <2>1. \A i, j \in 1..1 : i = j
        OBVIOUS
    <2>2. 1..(1 - 1) = {}
        OBVIOUS
    <2>3. IsPath(<<local>>)
        BY <1>2, <2>2 DEF IsPath
    <2> QED BY <1>1, <1>2, <1>3, <1>5, <2>1, <2>3 DEF Sound
<1>7. PathsSound
    BY <1>5, <1>6 DEF PathsSound
<1>8. Frontier
    BY <1>1, <1>2, <1>3, <1>5 DEF Frontier
<1>9. RoutesMatch
    BY <1>3, <1>5 DEF RoutesMatch
<1>10. Layered
    BY <1>2, <1>3, <1>5 DEF Layered
<1>11. Relaxed
    <2>1. Waiting(local)
        BY <1>2 DEF Waiting
    <2> QED BY <1>5, <2>1 DEF Relaxed
<1> QED BY <1>4, <1>7, <1>8, <1>9, <1>10, <1>11 DEF IInv

-----------------------------------------------------------------------------
(* What Compute knows only depends on adverts, local and paths.            *)
LEMMA DequeueStep == IInv /\ Dequeue => IInv'
<1> SUFFICES ASSUME IInv, Dequeue PROVE IInv'
    OBVIOUS
<1> DEFINE h == Head(queue)
<1>0. RouteTypeOK /\ PathsSound /\ Frontier /\ RoutesMatch /\ Layered /\ Relaxed
    BY DEF IInv
<1>1. /\ todo = {} /\ queue \in Seq(Identities) /\ queue # << >>
      /\ current' = h /\ queue' = Tail(queue) /\ todo' = adjacency(h)
      /\ UNCHANGED <<adverts, local, paths, routes>>
    BY <1>0 DEF Dequeue, RouteTypeOK
<1>2. /\ h = queue[1] /\ h \in Identities /\ Tail(queue) \in Seq(Identities)
      /\ Len(queue) \in Nat /\ Len(queue) >= 1 /\ Len(Tail(queue)) = Len(queue) - 1
      /\ \A i \in 1..(Len(queue) - 1) : Tail(queue)[i] = queue[i + 1]
    BY <1>1, TailFacts, SeqFacts
<1>3. adjacency(h) \subseteq Identities /\ h # NoRoute
    BY <1>0, <1>2, AdjacencyIsMutual, NoRouteAssumption
<1> HIDE DEF h
<1>4. RouteTypeOK'
    BY <1>0, <1>1, <1>2, <1>3 DEF RouteTypeOK
<1>5. /\ \A n \in Identities : Known(n)' <=> Known(n)
      /\ \A n \in Identities : adjacency(n)' = adjacency(n)
      /\ \A p : IsPath(p)' <=> IsPath(p)
    BY <1>1 DEF Known, adjacency, advertised, IsPath, Mutual
<1>6. PathsSound'
    BY <1>0, <1>1 DEF PathsSound, Sound, Known, IsPath, Mutual
<1>7. Known(h) /\ \A i \in 1..(Len(queue) - 1) : Known(Tail(queue)[i])
    BY <1>0, <1>2 DEF Frontier
<1>8. Frontier'
    BY <1>0, <1>1, <1>2, <1>3, <1>5, <1>7 DEF Frontier, Known, adjacency, advertised
<1>9. RoutesMatch'
    BY <1>0, <1>1 DEF RoutesMatch, Known, Route
<1>10. Layered'
    <2>1. \A n \in Identities : Len(paths[n]) \in Nat
        BY <1>0, SeqFacts DEF RouteTypeOK
    <2>2. \A i \in 1..(Len(queue) - 1) : i + 1 \in 1..Len(queue) /\ queue[i + 1] \in Identities
        BY <1>1, <1>2, SeqFacts
    <2>3. ASSUME NEW i \in 1..(Len(queue) - 1), NEW j \in 1..(Len(queue) - 1), i <= j
          PROVE Len(paths[Tail(queue)[i]]) <= Len(paths[Tail(queue)[j]])
        <3>1. i + 1 \in 1..Len(queue) /\ j + 1 \in 1..Len(queue) /\ i + 1 <= j + 1
            BY <1>2, <2>3
        <3> QED BY <3>1, <1>0, <1>2 DEF Layered
    <2>4. ASSUME NEW b \in Identities, Known(b), NEW i \in 1..(Len(queue) - 1)
          PROVE Len(paths[b]) <= Len(paths[Tail(queue)[i]]) + 1
        BY <2>2, <2>4, <1>0, <1>2 DEF Layered
    <2>5. ASSUME NEW b \in Identities, Known(b) PROVE Len(paths[b]) <= Len(paths[h]) + 1
        BY <2>5, <1>0, <1>2 DEF Layered
    <2>6. ASSUME NEW i \in 1..(Len(queue) - 1)
          PROVE Len(paths[h]) <= Len(paths[Tail(queue)[i]])
        <3>1. 1 \in 1..Len(queue) /\ i + 1 \in 1..Len(queue) /\ 1 <= i + 1
            BY <1>2
        <3> QED BY <3>1, <1>0, <1>2 DEF Layered
    <2> QED BY <1>1, <1>2, <1>5, <2>3, <2>4, <2>5, <2>6 DEF Layered
<1>11. Relaxed'
    <2> SUFFICES ASSUME NEW a \in Identities, Known(a), ~Waiting(a)', NEW b \in adjacency(a)
                 PROVE \/ a = h /\ b \in adjacency(h)
                       \/ Known(b) /\ Len(paths[b]) <= Len(paths[a]) + 1
        BY <1>1, <1>5 DEF Relaxed, Known
    <2>1. CASE a = h
        BY <2>1
    <2>2. CASE a # h
        <3>1. ASSUME NEW i \in 1..Len(queue), queue[i] = a PROVE FALSE
            <4>1. i # 1 /\ i - 1 \in 1..(Len(queue) - 1) /\ (i - 1) + 1 = i
                BY <3>1, <2>2, <1>2
            <4>2. Tail(queue)[i - 1] = a
                BY <4>1, <3>1, <1>2
            <4> QED BY <4>1, <4>2, <1>1, <1>2 DEF Waiting
        <3>2. ~Waiting(a)
            BY <3>1 DEF Waiting
        <3> QED BY <3>2, <1>0, <1>1 DEF Relaxed
    <2> QED BY <2>1, <2>2
<1> QED BY <1>4, <1>6, <1>8, <1>9, <1>10, <1>11 DEF IInv

(* Skipping a neighbour that has a path keeps the invariant.               *)
LEMMA SkipStep == IInv /\ Skip => IInv'
<1> SUFFICES ASSUME IInv, Skip PROVE IInv'
    OBVIOUS
<1> DEFINE next == Least(todo)
<1>0. RouteTypeOK /\ PathsSound /\ Frontier /\ RoutesMatch /\ Layered /\ Relaxed
    BY DEF IInv
<1>1. /\ todo # {} /\ todo \subseteq Identities /\ Known(next)
      /\ todo' = todo \ {next}
      /\ UNCHANGED <<adverts, local, queue, current, paths, routes>>
    BY <1>0 DEF Skip, RouteTypeOK, Known
<1>2. next \in todo
    BY <1>1, LeastIsMember
<1> HIDE DEF next
<1>3. RouteTypeOK' /\ PathsSound' /\ RoutesMatch' /\ Layered'
    <2>1. RouteTypeOK'
        BY <1>0, <1>1 DEF RouteTypeOK
    <2>2. PathsSound'
        BY <1>0, <1>1 DEF PathsSound, Sound, Known, IsPath, Mutual
    <2>3. RoutesMatch'
        BY <1>0, <1>1 DEF RoutesMatch, Known, Route
    <2>4. Layered'
        BY <1>0, <1>1 DEF Layered, Known
    <2> QED BY <2>1, <2>2, <2>3, <2>4
<1>4. Frontier'
    BY <1>0, <1>1 DEF Frontier, Known, adjacency, advertised
<1>5. Relaxed'
    <2> SUFFICES ASSUME NEW a \in Identities, Known(a), ~Waiting(a), NEW b \in adjacency(a)
                 PROVE \/ a = current /\ b \in todo \ {next}
                       \/ Known(b) /\ Len(paths[b]) <= Len(paths[a]) + 1
        BY <1>1 DEF Relaxed, Known, Waiting, adjacency, advertised
    <2>1. CASE a = current /\ b = next
        <3>1. a # NoRoute
            BY NoRouteAssumption
        <3> QED BY <2>1, <3>1, <1>0, <1>1, <1>2 DEF Layered
    <2>2. CASE ~(a = current /\ b = next)
        BY <2>2, <1>0 DEF Relaxed
    <2> QED BY <2>1, <2>2
<1> QED BY <1>3, <1>4, <1>5 DEF IInv

(* Reaching a neighbour through the current node keeps it.                 *)
LEMMA FoundStep == IInv /\ Found => IInv'
<1> SUFFICES ASSUME IInv, Found PROVE IInv'
    OBVIOUS
<1>p. PICK next, c, path :
        next = Least(todo) /\ c = paths[current] /\ path = Append(c, next)
    OBVIOUS
<1>0. RouteTypeOK /\ PathsSound /\ Frontier /\ RoutesMatch /\ Layered /\ Relaxed
    BY DEF IInv
<1>1. /\ todo # {} /\ todo \subseteq Identities /\ ~Known(next)
      /\ todo' = todo \ {next}
      /\ paths' = [paths EXCEPT ![next] = path]
      /\ queue' = Append(queue, next)
      /\ routes' = IF next # local THEN [routes EXCEPT ![next] = Route(path)] ELSE routes
      /\ UNCHANGED <<adverts, local, current>>
    BY <1>0, <1>p DEF Found, RouteTypeOK, Known
<1>2. next \in todo /\ next \in Identities
    BY <1>1, <1>p, LeastIsMember
<1>3. /\ current \in Identities /\ Known(current) /\ next \in adjacency(current)
      /\ Mutual(current, next)
    <2>1. current \in Identities
        BY <1>0, <1>1 DEF RouteTypeOK
    <2>2. Known(current) /\ next \in adjacency(current)
        BY <1>0, <1>2, <2>1, NoRouteAssumption DEF Frontier
    <2> QED BY <2>1, <2>2, <1>0, AdjacencyIsMutual
<1>4. Sound(current, c) /\ c \in Seq(Identities) /\ c # << >>
    BY <1>0, <1>3, <1>p DEF PathsSound, RouteTypeOK, Known
<1>5. /\ Len(c) \in Nat /\ Len(c) >= 1 /\ path \in Seq(Identities) /\ path # << >>
      /\ Len(path) = Len(c) + 1 /\ path[Len(c) + 1] = next
      /\ \A i \in 1..Len(c) : path[i] = c[i]
    BY <1>2, <1>4, <1>p, SeqFacts
<1>6. /\ queue \in Seq(Identities) /\ Len(queue) \in Nat /\ Append(queue, next) \in Seq(Identities)
      /\ Len(Append(queue, next)) = Len(queue) + 1
      /\ \A i \in 1..Len(queue) : Append(queue, next)[i] = queue[i] /\ queue[i] \in Identities
      /\ Append(queue, next)[Len(queue) + 1] = next
    BY <1>0, <1>2, SeqFacts DEF RouteTypeOK
<1>7. next # local
    BY <1>0, <1>1 DEF Frontier
<1>8. paths \in [Identities -> Seq(Identities)] /\ routes \in [Identities -> RouteType \cup {NoRoute}]
    BY <1>0 DEF RouteTypeOK
<1>9. /\ \A n \in Identities : paths'[n] = IF n = next THEN path ELSE paths[n]
      /\ paths' \in [Identities -> Seq(Identities)]
    BY <1>1, <1>2, <1>5, <1>8
<1>10. /\ \A n \in Identities : Known(n)' <=> Known(n) \/ n = next
       /\ \A n \in Identities : Known(n) => paths'[n] = paths[n]
    BY <1>1, <1>5, <1>9 DEF Known
<1>11. RouteTypeOK'
    <2>1. Route(path) \in RouteType
        BY <1>5, RouteOfPath
    <2>2. routes' \in [Identities -> RouteType \cup {NoRoute}]
        BY <2>1, <1>1, <1>7, <1>8
    <2>3. /\ adverts' \in Tables /\ local' \in DOMAIN adverts' /\ current' \in Identities
          /\ todo' \subseteq Identities /\ current' # NoRoute
        BY <1>0, <1>1, <1>3, NoRouteAssumption DEF RouteTypeOK
    <2> QED BY <2>2, <2>3, <1>1, <1>6, <1>9 DEF RouteTypeOK
<1>12. PathsSound'
    <2>1. /\ \A a, b : Mutual(a, b)' <=> Mutual(a, b)
          /\ local' = local
        BY <1>1 DEF Mutual
    <2>2. ASSUME NEW n \in Identities, n # next, Known(n)' PROVE Sound(n, paths[n])'
        <3>1. Sound(n, paths[n]) /\ paths'[n] = paths[n] /\ paths[n] \in Seq(Identities)
            BY <2>2, <1>0, <1>8, <1>10 DEF PathsSound
        <3>2. \A i \in 1..Len(paths[n]) : paths[n][i] \in Identities
            BY <3>1, SeqFacts
        <3>3. IsPath(paths[n])'
            BY <3>1, <2>1 DEF IsPath, Sound
        <3> QED BY <3>1, <3>2, <3>3, <2>1, <1>10 DEF Sound
    <2>3. Sound(next, paths[next])'
        <3>1. paths'[next] = path
            BY <1>2, <1>9
        <3>2. path[1] = local /\ path[Len(path)] = next /\ Len(path) >= 1
            BY <1>4, <1>5 DEF Sound
        <3>3. \A i \in 1..Len(c) : c[i] \in Identities /\ Known(c[i]) /\ c[i] # next
            BY <1>1, <1>4, SeqFacts DEF Sound
        <3>4. ASSUME NEW i \in 1..Len(path), NEW j \in 1..Len(path), path[i] = path[j]
              PROVE i = j
            <4>1. CASE i \in 1..Len(c) /\ j \in 1..Len(c)
                BY <4>1, <3>4, <1>4, <1>5 DEF Sound
            <4>2. CASE i \notin 1..Len(c) /\ j \in 1..Len(c)
                <5>1. i = Len(c) + 1
                    BY <4>2, <1>5
                <5> QED BY <5>1, <4>2, <3>3, <3>4, <1>5
            <4>3. CASE i \in 1..Len(c) /\ j \notin 1..Len(c)
                <5>1. j = Len(c) + 1
                    BY <4>3, <1>5
                <5> QED BY <5>1, <4>3, <3>3, <3>4, <1>5
            <4>4. CASE i \notin 1..Len(c) /\ j \notin 1..Len(c)
                BY <4>4, <1>5
            <4> QED BY <4>1, <4>2, <4>3, <4>4
        <3>5. ASSUME NEW i \in 1..(Len(path) - 1) PROVE Mutual(path[i], path[i + 1])
            <4>1. CASE i \in 1..(Len(c) - 1)
                <5>1. i \in 1..Len(c) /\ i + 1 \in 1..Len(c)
                    BY <4>1, <1>5
                <5>2. Mutual(c[i], c[i + 1])
                    BY <4>1, <1>4 DEF Sound, IsPath
                <5> QED BY <5>1, <5>2, <1>5
            <4>2. CASE i = Len(c)
                <5>1. path[i] = current /\ path[i + 1] = next
                    BY <4>2, <1>4, <1>5 DEF Sound
                <5> QED BY <5>1, <1>3
            <4> QED BY <4>1, <4>2, <1>5
        <3>6. IsPath(paths[next])'
            BY <3>1, <3>5, <2>1 DEF IsPath
        <3>7. \A i \in 1..Len(path) : Known(path[i])'
            <4>1. ASSUME NEW i \in 1..Len(path) PROVE Known(path[i])'
                <5>1. CASE i \in 1..Len(c)
                    BY <5>1, <3>3, <1>5, <1>10
                <5>2. CASE i = Len(c) + 1
                    BY <5>2, <1>2, <1>5, <1>10
                <5> QED BY <5>1, <5>2, <1>5
            <4> QED BY <4>1
        <3> QED BY <3>1, <3>2, <3>4, <3>6, <3>7, <2>1 DEF Sound
    <2> QED BY <2>2, <2>3 DEF PathsSound
<1>13. Frontier'
    <2>1. Len(queue') = Len(queue) + 1
        BY <1>1, <1>6
    <2>2. ASSUME NEW i \in 1..(Len(queue) + 1) PROVE paths'[queue'[i]] # << >>
        <3>1. CASE i \in 1..Len(queue)
            <4>1. Known(queue[i]) /\ queue[i] \in Identities /\ queue'[i] = queue[i]
                BY <3>1, <1>0, <1>1, <1>6 DEF Frontier
            <4> QED BY <4>1, <1>10 DEF Known
        <3>2. CASE i = Len(queue) + 1
            <4>1. paths'[next] # << >> /\ queue'[i] = next
                BY <3>2, <1>1, <1>2, <1>5, <1>6, <1>9
            <4> QED BY <4>1
        <3> QED BY <3>1, <3>2, <1>6
    <2>3. local \in Identities /\ paths'[local] # << >> /\ paths'[current] # << >>
        <3>1. local \in Identities
            BY <1>0, TablesAssumption DEF RouteTypeOK
        <3> QED BY <3>1, <1>0, <1>3, <1>10 DEF Frontier, Known
    <2>4. todo' \subseteq adjacency(current)' /\ current' # NoRoute
        <3>1. adjacency(current)' = adjacency(current)
            BY <1>1 DEF adjacency, advertised
        <3> QED BY <3>1, <1>0, <1>1, <1>3, NoRouteAssumption DEF Frontier
    <2> QED BY <2>1, <2>2, <2>3, <2>4, <1>1 DEF Frontier, Known
<1>14. RoutesMatch'
    <2>1. ASSUME NEW n \in Identities, n # next
          PROVE routes'[n] = IF n # local /\ Known(n) THEN Route(paths[n]) ELSE NoRoute
        BY <2>1, <1>0, <1>1, <1>8 DEF RoutesMatch
    <2>2. routes'[next] = Route(path)
        BY <1>1, <1>2, <1>7, <1>8
    <2>3. ASSUME NEW n \in Identities
          PROVE routes'[n] = IF n # local /\ Known(n)' THEN Route(paths'[n]) ELSE NoRoute
        BY <2>1, <2>2, <1>7, <1>9, <1>10
    <2> QED BY <2>3, <1>1 DEF RoutesMatch, Route
<1>15. \A n \in Identities : Len(paths[n]) \in Nat
    BY <1>8, SeqFacts
<1>16. \A b \in Identities : Known(b)' => Len(paths'[b]) <= Len(c) + 1
    <2>1. \A b \in Identities : Known(b) => Len(paths[b]) <= Len(c) + 1
        BY <1>0, <1>3, <1>p, NoRouteAssumption DEF Layered
    <2>2. paths'[next] = path /\ Len(path) <= Len(c) + 1
        BY <1>2, <1>5, <1>9
    <2>3. ASSUME NEW b \in Identities, Known(b)' PROVE Len(paths'[b]) <= Len(c) + 1
        <3>1. CASE b = next
            BY <3>1, <2>2
        <3>2. CASE b # next
            BY <3>2, <2>1, <2>3, <1>10
        <3> QED BY <3>1, <3>2
    <2> QED BY <2>3
<1>17. Layered'
    <2>1. \A i \in 1..Len(queue) :
             /\ Known(queue[i]) /\ queue[i] \in Identities
             /\ paths'[queue[i]] = paths[queue[i]]
             /\ Len(c) <= Len(paths[queue[i]]) /\ Len(paths[queue[i]]) <= Len(c) + 1
        <3>1. \A i \in 1..Len(queue) : Len(c) <= Len(paths[queue[i]])
            BY <1>0, <1>3, <1>p, NoRouteAssumption DEF Layered
        <3>2. \A i \in 1..Len(queue) : Known(queue[i]) /\ queue[i] \in Identities
            BY <1>0, <1>6 DEF Frontier
        <3>3. \A i \in 1..Len(queue) : paths'[queue[i]] = paths[queue[i]]
            BY <3>2, <1>10
        <3>4. \A i \in 1..Len(queue) : Len(paths[queue[i]]) <= Len(c) + 1
            BY <3>2, <1>0, <1>3, <1>p, NoRouteAssumption DEF Layered
        <3> QED BY <3>1, <3>2, <3>3, <3>4
    <2>2. paths'[next] = path /\ paths'[current] = c /\ Len(path) = Len(c) + 1
        BY <1>2, <1>3, <1>5, <1>9, <1>10, <1>p
    <2>3. Len(queue') = Len(queue) + 1
        BY <1>1, <1>6
    <2>4. ASSUME NEW i \in 1..(Len(queue) + 1)
          PROVE /\ i \in 1..Len(queue) => queue'[i] = queue[i]
                /\ i \notin 1..Len(queue) => i = Len(queue) + 1 /\ queue'[i] = next
        BY <1>1, <1>6
    <2>5. ASSUME NEW i \in 1..(Len(queue) + 1)
          PROVE Len(paths'[queue'[i]]) \in Nat /\ Len(c) <= Len(paths'[queue'[i]])
                /\ Len(paths'[queue'[i]]) <= Len(c) + 1
        <3>1. CASE i \in 1..Len(queue)
            BY <3>1, <2>1, <2>4, <1>5, <1>15
        <3>2. CASE i \notin 1..Len(queue)
            BY <3>2, <2>2, <2>4, <1>5
        <3> QED BY <3>1, <3>2
    <2>6. ASSUME NEW i \in 1..(Len(queue) + 1), NEW j \in 1..(Len(queue) + 1), i <= j
          PROVE Len(paths'[queue'[i]]) <= Len(paths'[queue'[j]])
        <3>1. CASE j \in 1..Len(queue)
            <4>1. i \in 1..Len(queue)
                BY <3>1, <2>6, <1>6
            <4>2. Len(paths[queue[i]]) <= Len(paths[queue[j]])
                BY <4>1, <3>1, <2>6, <1>0 DEF Layered
            <4> QED BY <4>1, <4>2, <3>1, <2>1, <2>4
        <3>2. CASE j \notin 1..Len(queue)
            <4>1. Len(paths'[queue'[j]]) = Len(c) + 1
                BY <3>2, <2>2, <2>4
            <4> QED BY <4>1, <2>5
        <3> QED BY <3>1, <3>2
    <2>7. ASSUME NEW b \in Identities, Known(b)', NEW i \in 1..(Len(queue) + 1)
          PROVE Len(paths'[b]) <= Len(paths'[queue'[i]]) + 1
        <3>1. Len(paths'[b]) \in Nat
            BY <1>9, SeqFacts
        <3> QED BY <3>1, <2>5, <2>7, <1>5, <1>16
    <2>8. current' = current
        BY <1>1
    <2> QED BY <2>2, <2>3, <2>5, <2>6, <2>7, <2>8, <1>16 DEF Layered
<1>18. Relaxed'
    <2> SUFFICES ASSUME NEW a \in Identities, Known(a)', ~Waiting(a)', NEW b \in adjacency(a)
                 PROVE \/ a = current /\ b \in todo \ {next}
                       \/ paths'[b] # << >> /\ Len(paths'[b]) <= Len(paths'[a]) + 1
        BY <1>1 DEF Relaxed, Known, adjacency, advertised
    <2>1. b \in Identities
        BY <1>0, AdjacencyIsMutual
    <2>2. a # next /\ ~Waiting(a) /\ Known(a) /\ paths'[a] = paths[a]
        <3>1. Len(queue') = Len(queue) + 1 /\ queue'[Len(queue) + 1] = next
              /\ \A i \in 1..Len(queue) : queue'[i] = queue[i]
            BY <1>1, <1>6
        <3>2. Waiting(next)'
            BY <3>1, <1>6 DEF Waiting
        <3>3. a # next
            BY <3>2
        <3>4. Waiting(a) => Waiting(a)'
            <4> SUFFICES ASSUME NEW i \in 1..Len(queue), queue[i] = a PROVE Waiting(a)'
                BY DEF Waiting
            <4>1. i \in 1..Len(queue') /\ queue'[i] = a
                BY <3>1, <1>6
            <4> QED BY <4>1 DEF Waiting
        <3> QED BY <3>3, <3>4, <1>10
    <2>3. \/ a = current /\ b \in todo
          \/ Known(b) /\ Len(paths[b]) <= Len(paths[a]) + 1
        BY <2>2, <1>0 DEF Relaxed
    <2>4. CASE a = current /\ b = next
        BY <2>4, <1>2, <1>3, <1>5, <1>9, <1>10, <1>p
    <2>5. CASE Known(b) /\ Len(paths[b]) <= Len(paths[a]) + 1
        BY <2>1, <2>2, <2>5, <1>10 DEF Known
    <2> QED BY <2>3, <2>4, <2>5
<1> QED BY <1>11, <1>12, <1>13, <1>14, <1>17, <1>18 DEF IInv

(* The search keeps its invariant (router.go:43-60): every path found is a *)
(* simple path over mutual links, the queue is ordered by distance, and    *)
(* every expanded node has all its neighbours within one hop more.         *)
THEOREM Invariant == RouteSpec => []IInv
<1>1. IInv /\ [RouteNext]_routeVars => IInv'
    <2> SUFFICES ASSUME IInv, [RouteNext]_routeVars PROVE IInv'
        OBVIOUS
    <2>1. CASE UNCHANGED routeVars
        <3>1. RouteTypeOK' /\ RoutesMatch'
            BY <2>1 DEF routeVars, IInv, RouteTypeOK, RoutesMatch, Known, Route
        <3>2. PathsSound'
            <4>1. PathsSound /\ UNCHANGED <<adverts, local, paths>>
                BY <2>1 DEF routeVars, IInv
            <4> QED BY <4>1 DEF PathsSound, Sound, Known, IsPath, Mutual
        <3>3. Frontier'
            BY <2>1 DEF routeVars, IInv, Frontier, Known, adjacency, advertised
        <3>5. Layered'
            BY <2>1 DEF routeVars, IInv, Layered, Known
        <3>4. Relaxed'
            BY <2>1 DEF routeVars, IInv, Relaxed, Waiting, Known, adjacency, advertised
        <3> QED BY <3>1, <3>2, <3>3, <3>4, <3>5 DEF IInv
    <2> QED BY <2>1, DequeueStep, SkipStep, FoundStep DEF RouteNext
<1> QED BY InitIInv, <1>1, PTL DEF RouteSpec

(* Whatever the nodes advertise, every route of router.Compute leads over  *)
(* links that both ends advertise, from the node itself to the             *)
(* destination, through no node twice (router.go:17-18, 41-59).            *)
THEOREM RoutesAreUsable == RouteSpec => []RoutesUsable
<1>1. IInv => RoutesUsable
    <2> SUFFICES ASSUME IInv, NEW d \in Identities, routes[d] # NoRoute
                 PROVE LET p == routes[d].path
                       IN /\ d # local /\ Len(p) >= 2
                          /\ p[1] = local /\ p[Len(p)] = d
                          /\ \A i, j \in 1..Len(p) : p[i] = p[j] => i = j
                          /\ IsPath(p)
                          /\ routes[d].nextHop = p[2] /\ routes[d].hops = Len(p) - 1
        BY DEF RoutesUsable
    <2>1. d # local /\ Known(d) /\ routes[d] = Route(paths[d])
        BY DEF IInv, RoutesMatch
    <2>2. Sound(d, paths[d]) /\ Len(paths[d]) \in Nat
        BY <2>1, SeqFacts DEF IInv, PathsSound, RouteTypeOK
    <2>3. Len(paths[d]) >= 2
        BY <2>1, <2>2 DEF Sound
    <2> QED BY <2>1, <2>2, <2>3 DEF Sound, Route
<1> QED BY Invariant, <1>1, PTL

(* When Compute has returned, no mutual link leads from a reached node to  *)
(* one that is not reached, or is reached more than one hop further.       *)
LEMMA NoShortcutLeft == IInv => NoShortcut
<1> SUFFICES ASSUME IInv, Returned, NEW a \in Identities, NEW b \in Identities,
                    Mutual(a, b), Reached(a)
             PROVE  Reached(b) /\ Distance(b) <= Distance(a) + 1
    BY DEF NoShortcut
<1>1. RouteTypeOK /\ RoutesMatch /\ Relaxed /\ Frontier /\ PathsSound
    BY DEF IInv
<1>2. ASSUME NEW n \in Identities
      PROVE /\ Reached(n) <=> Known(n)
            /\ Reached(n) => Distance(n) = Len(paths[n]) - 1 /\ Len(paths[n]) \in Nat
    <2>1. Len(paths[n]) \in Nat /\ (Known(n) => Sound(n, paths[n]))
        BY <1>1, SeqFacts DEF RouteTypeOK, PathsSound
    <2>2. CASE n = local
        <3>1. Known(n)
            BY <2>2, <1>1 DEF Frontier
        <3>2. Len(paths[n]) \in 1..Len(paths[n]) /\ 1 \in 1..Len(paths[n])
              /\ paths[n][1] = paths[n][Len(paths[n])]
            BY <3>1, <2>1, <2>2 DEF Sound
        <3>3. Len(paths[n]) = 1
            BY <3>1, <3>2, <2>1 DEF Sound
        <3> QED BY <3>1, <3>3, <2>2 DEF Reached, Distance
    <2>3. CASE n # local /\ Known(n)
        <3>1. routes[n] = Route(paths[n])
            BY <2>3, <1>1 DEF RoutesMatch
        <3>2. routes[n].hops = Len(paths[n]) - 1
            BY <3>1 DEF Route
        <3>3. routes[n] # NoRoute
            <4>1. paths[n] \in Seq(Identities) /\ Len(paths[n]) >= 2
                BY <2>1, <2>3, <1>1 DEF Sound, RouteTypeOK
            <4> QED BY <3>1, <4>1, RouteOfPath
        <3> QED BY <3>2, <3>3, <2>1, <2>3 DEF Reached, Distance
    <2>4. CASE n # local /\ ~Known(n)
        BY <2>4, <1>1 DEF Reached, RoutesMatch
    <2> QED BY <2>2, <2>3, <2>4
<1>3. ~Waiting(a)
    BY DEF Returned, Waiting
<1>4. b \in adjacency(a)
    BY <1>1, AdjacencyIsMutual
<1>5. Known(b) /\ Len(paths[b]) <= Len(paths[a]) + 1
    BY <1>1, <1>2, <1>3, <1>4 DEF Relaxed, Returned
<1> QED BY <1>2, <1>5

(* Every path over mutual links, simple or not.                            *)
PathsTo(d) == {p \in Seq(Identities) : Len(p) >= 1 /\ p[1] = local /\ p[Len(p)] = d /\ IsPath(p)}

Shortest ==
    Returned => \A d \in Identities \ {local} : \A p \in PathsTo(d) :
        routes[d] # NoRoute /\ routes[d].hops <= Len(p) - 1

(* When router.Compute returns, there is a route to every destination that *)
(* a path over mutual links leads to, and no such path has fewer hops      *)
(* (router.go:17, 43-61: "Compute builds shortest paths using only         *)
(* bidirectional links").  The nodes of a path are reached one after the   *)
(* other: a first one that is not, or is too far, contradicts NoShortcut.  *)
THEOREM RoutesAreShortest == RouteSpec => []Shortest
<1>1. IInv => Shortest
    <2> SUFFICES ASSUME IInv, Returned, NEW d \in Identities \ {local}, NEW p \in PathsTo(d)
                 PROVE routes[d] # NoRoute /\ routes[d].hops <= Len(p) - 1
        BY DEF Shortest
    <2>1. /\ p \in Seq(Identities) /\ Len(p) \in Nat /\ Len(p) >= 1
          /\ p[1] = local /\ p[Len(p)] = d
          /\ \A i \in 1..(Len(p) - 1) : Mutual(p[i], p[i + 1])
          /\ \A i \in 1..Len(p) : p[i] \in Identities
        BY SeqFacts DEF PathsTo, IsPath
    <2> DEFINE Good(i) == Reached(p[i]) /\ Distance(p[i]) <= i - 1
               Bad == {i \in 1..Len(p) : ~Good(i)}
    <2>2. Bad = {}
        <3> SUFFICES ASSUME Bad # {} PROVE FALSE
            OBVIOUS
        <3>1. Bad \subseteq Nat
            OBVIOUS
        <3>2. PICK k \in Bad : \A j \in Bad : k <= j
            BY <3>1, LeastNatural
        <3>3. k \in 1..Len(p) /\ ~Good(k)
            OBVIOUS
        <3>4. k # 1
            <4>1. Good(1)
                BY <2>1 DEF Reached, Distance
            <4> QED BY <4>1, <3>3
        <3>5. k - 1 \in 1..(Len(p) - 1) /\ k - 1 \in 1..Len(p) /\ (k - 1) + 1 = k
            BY <3>3, <3>4, <2>1
        <3>6. k - 1 \notin Bad
            BY <3>2, <3>3, <3>5
        <3>7. Good(k - 1)
            BY <3>5, <3>6
        <3>8. Mutual(p[k - 1], p[k]) /\ p[k - 1] \in Identities /\ p[k] \in Identities
            <4>1. Mutual(p[k - 1], p[(k - 1) + 1])
                BY <3>5, <2>1
            <4> QED BY <4>1, <3>3, <3>5, <2>1
        <3>9. Reached(p[k]) /\ Distance(p[k]) <= Distance(p[k - 1]) + 1
            BY <3>7, <3>8, NoShortcutLeft DEF NoShortcut
        <3>10. Distance(p[k]) \in Int /\ Distance(p[k - 1]) \in Int
            <4>1. ASSUME NEW n \in Identities, Reached(n) PROVE Distance(n) \in Int
                <5>1. CASE n = local
                    BY <5>1 DEF Distance
                <5>2. CASE n # local
                    <6>1. routes[n] \in RouteType
                        BY <4>1, <5>2 DEF IInv, RouteTypeOK, Reached
                    <6> QED BY <6>1, <5>2 DEF Distance, RouteType
                <5> QED BY <5>1, <5>2
            <4> QED BY <4>1, <3>7, <3>8, <3>9
        <3>11. Distance(p[k]) <= k - 1
            BY <3>3, <3>7, <3>9, <3>10
        <3> QED BY <3>3, <3>9, <3>11
    <2>3. Good(Len(p))
        BY <2>1, <2>2
    <2> QED BY <2>1, <2>3 DEF Reached, Distance
<1> QED BY Invariant, <1>1, PTL

-----------------------------------------------------------------------------
(* ShortestFirst: of the shortest paths the search finds the first in the  *)
(* order of identities, because it expands nodes in the order of their     *)
(* paths and the neighbours of each in the order of identities.            *)

(* The order on paths: it is kept by going one node further...             *)
LEMMA BeforeAppend ==
    ASSUME NEW p \in Seq(Identities), NEW q \in Seq(Identities), NEW x \in Identities, NEW y \in Identities,
           Before(p, q)
    PROVE  Before(Append(p, x), Append(q, y))
<1> DEFINE u == Append(p, x)
           v == Append(q, y)
<1>1. /\ Len(p) \in Nat /\ Len(q) \in Nat
      /\ Len(u) = Len(p) + 1 /\ Len(v) = Len(q) + 1
      /\ \A i \in 1..Len(p) : u[i] = p[i]
      /\ \A i \in 1..Len(q) : v[i] = q[i]
    BY SeqFacts
<1> HIDE DEF u, v
<1>2. CASE Len(p) < Len(q)
    BY <1>1, <1>2 DEF Before
<1>3. CASE Len(p) = Len(q)
  <2>1. PICK i \in 1..Len(p) : p[i] < q[i] /\ \A j \in 1..(i - 1) : p[j] = q[j]
      BY <1>1, <1>3 DEF Before
  <2>2. i \in 1..Len(u) /\ u[i] < v[i]
      BY <1>1, <1>3, <2>1
  <2>3. \A j \in 1..(i - 1) : u[j] = v[j]
      BY <1>1, <1>3, <2>1
  <2> QED BY <1>1, <1>3, <2>2, <2>3 DEF Before
<1>4. Before(u, v)
    BY <1>1, <1>2, <1>3 DEF Before
<1> QED BY <1>4 DEF u, v

(* ...orders the ways on from one path by their last node...               *)
LEMMA BeforeLast ==
    ASSUME NEW p \in Seq(Identities), NEW x \in Identities, NEW y \in Identities, x < y
    PROVE  Before(Append(p, x), Append(p, y))
<1> DEFINE u == Append(p, x)
           v == Append(p, y)
           n == Len(p) + 1
<1>1. /\ Len(p) \in Nat /\ Len(u) = n /\ Len(v) = n /\ u[n] = x /\ v[n] = y
      /\ \A i \in 1..Len(p) : u[i] = p[i] /\ v[i] = p[i]
    BY SeqFacts
<1> HIDE DEF u, v
<1>2. n \in 1..Len(u) /\ u[n] < v[n] /\ \A j \in 1..(n - 1) : u[j] = v[j]
    BY <1>1
<1>3. Before(u, v)
    BY <1>1, <1>2 DEF Before
<1> QED BY <1>3 DEF u, v

(* ...and is an order.                                                     *)
LEMMA BeforeIsOrder ==
    ASSUME NEW p \in Seq(Identities), NEW q \in Seq(Identities), NEW r \in Seq(Identities), Before(p, q)
    PROVE  /\ ~Before(q, p) /\ p # q
           /\ Before(q, r) => Before(p, r)
<1>0. /\ Len(p) \in Nat /\ Len(q) \in Nat /\ Len(r) \in Nat
      /\ \A i \in 1..Len(p) : p[i] \in Nat
      /\ \A i \in 1..Len(q) : q[i] \in Nat
      /\ \A i \in 1..Len(r) : r[i] \in Nat
    BY SeqFacts, IdentitiesAssumption
<1>1. CASE Len(p) < Len(q)
  <2>1. ~Before(q, p) /\ p # q
      BY <1>0, <1>1 DEF Before
  <2>2. Before(q, r) => Len(q) <= Len(r)
      BY <1>0 DEF Before
  <2>3. Before(q, r) => Before(p, r)
      BY <1>0, <1>1, <2>2 DEF Before
  <2> QED BY <2>1, <2>3
<1>2. CASE Len(p) = Len(q)
  <2>1. PICK i \in 1..Len(p) : p[i] < q[i] /\ \A j \in 1..(i - 1) : p[j] = q[j]
      BY <1>0, <1>2 DEF Before
  <2>2. p # q
      BY <1>0, <1>2, <2>1
  <2>3. ASSUME NEW k \in 1..Len(q), q[k] < p[k], \A j \in 1..(k - 1) : q[j] = p[j]
        PROVE FALSE
    <3>1. CASE k < i
        BY <1>0, <1>2, <2>1, <2>3, <3>1
    <3>2. CASE i < k
        BY <1>0, <1>2, <2>1, <2>3, <3>2
    <3>3. CASE i = k
        BY <1>0, <1>2, <2>1, <2>3, <3>3
    <3> QED BY <1>0, <3>1, <3>2, <3>3
  <2>4. ~Before(q, p)
      BY <1>0, <1>2, <2>3 DEF Before
  <2>5. ASSUME Len(q) = Len(r), NEW k \in 1..Len(q), q[k] < r[k],
               \A j \in 1..(k - 1) : q[j] = r[j]
        PROVE Before(p, r)
    <3>1. CASE k < i
      <4>1. p[k] < r[k] /\ \A j \in 1..(k - 1) : p[j] = r[j]
          BY <1>0, <1>2, <2>1, <2>5, <3>1
      <4> QED BY <1>0, <1>2, <2>5, <4>1 DEF Before
    <3>2. CASE i <= k
      <4>1. p[i] < r[i]
        <5>1. q[i] <= r[i] /\ i \in 1..Len(q) /\ i \in 1..Len(r)
            BY <1>0, <1>2, <2>1, <2>5, <3>2
        <5> QED BY <1>0, <2>1, <5>1
      <4>2. \A j \in 1..(i - 1) : p[j] = r[j]
          BY <1>0, <1>2, <2>1, <2>5, <3>2
      <4> QED BY <1>0, <1>2, <2>1, <2>5, <4>1, <4>2 DEF Before
    <3> QED BY <1>0, <3>1, <3>2
  <2>6. Before(q, r) => Before(p, r)
    <3>1. CASE Len(q) < Len(r)
        BY <1>2, <3>1 DEF Before
    <3>2. CASE ~(Len(q) < Len(r))
        BY <3>2, <2>5 DEF Before
    <3> QED BY <3>1, <3>2
  <2> QED BY <2>2, <2>4, <2>6
<1> QED BY <1>1, <1>2 DEF Before

-----------------------------------------------------------------------------
(* What was found was found from the node being expanded, or from one      *)
(* expanded before it, whose path comes before.                            *)
Parent(b, k) ==
    /\ Known(k) /\ paths[b] = Append(paths[k], b)
    /\ k = current \/ Before(paths[k], paths[current])

Parents ==
    \A b \in Identities : Known(b) /\ b # local => current # NoRoute /\ \E k \in Identities : Parent(b, k)

(* The queue is in the order of the paths.                                 *)
Ordered ==
    /\ \A i, j \in 1..Len(queue) : i < j => Before(paths[queue[i]], paths[queue[j]])
    /\ current # NoRoute => \A i \in 1..Len(queue) : Before(paths[current], paths[queue[i]])

(* The inner loop goes through the neighbours in the order of identities.  *)
Ascending ==
    current # NoRoute =>
        \A b \in Identities : Known(b) /\ paths[b] = Append(paths[current], b) =>
            \A x \in todo : b < x

(* No path over a link from an expanded node comes before the path found.  *)
NotAfter(p, q) == p = q \/ Before(p, q)

Foremost ==
    \A a \in Identities : Known(a) /\ ~Waiting(a) =>
        \A b \in adjacency(a) :
            \/ a = current /\ b \in todo
            \/ Known(b) /\ NotAfter(paths[b], Append(paths[a], b))

FirstInv == IInv /\ Parents /\ Ordered /\ Ascending /\ Foremost

(* The path of a known node ends there, and that of the node itself is     *)
(* only itself.                                                            *)
LEMMA KnownFacts ==
    ASSUME IInv
    PROVE  /\ \A n \in Identities : /\ paths[n] \in Seq(Identities) /\ Len(paths[n]) \in Nat
                                    /\ Known(n) => Len(paths[n]) >= 1 /\ paths[n][Len(paths[n])] = n
           /\ local \in Identities /\ Known(local) /\ Len(paths[local]) = 1
           /\ current # NoRoute => current \in Identities /\ Known(current)
           /\ queue \in Seq(Identities) /\ Len(queue) \in Nat
           /\ \A i \in 1..Len(queue) : queue[i] \in Identities /\ Known(queue[i])
<1>1. RouteTypeOK /\ PathsSound /\ Frontier
    BY DEF IInv
<1>2. \A n \in Identities : paths[n] \in Seq(Identities) /\ Len(paths[n]) \in Nat
    BY <1>1, SeqFacts DEF RouteTypeOK
<1>3. \A n \in Identities : Known(n) => Len(paths[n]) >= 1 /\ paths[n][Len(paths[n])] = n
    BY <1>1 DEF PathsSound, Sound
<1>4. local \in Identities /\ Known(local)
    BY <1>1, TablesAssumption DEF RouteTypeOK, Frontier
<1>5. Len(paths[local]) = 1
  <2>1. Sound(local, paths[local])
      BY <1>1, <1>4 DEF PathsSound
  <2>2. 1 \in 1..Len(paths[local]) /\ Len(paths[local]) \in 1..Len(paths[local])
      BY <1>2, <1>3, <1>4
  <2> QED BY <2>1, <2>2 DEF Sound
<1>6. current # NoRoute => current \in Identities /\ Known(current)
    BY <1>1 DEF RouteTypeOK, Frontier
<1>7. /\ queue \in Seq(Identities) /\ Len(queue) \in Nat
      /\ \A i \in 1..Len(queue) : queue[i] \in Identities /\ Known(queue[i])
    BY <1>1, SeqFacts DEF RouteTypeOK, Frontier
<1> QED BY <1>2, <1>3, <1>4, <1>5, <1>6, <1>7

(* A node that is known was reached no later than over the node being      *)
(* expanded; if it was reached over another, its path comes before.        *)
LEMMA ReachedBefore ==
    ASSUME FirstInv, current # NoRoute, NEW b \in Identities, Known(b), NEW y \in Identities
    PROVE  \/ paths[b] = Append(paths[current], b)
           \/ Before(paths[b], Append(paths[current], y))
<1>0. IInv /\ Parents
    BY DEF FirstInv
<1>1. /\ paths[b] \in Seq(Identities) /\ paths[current] \in Seq(Identities) /\ Len(paths[current]) >= 1
      /\ Len(paths[current]) \in Nat
      /\ Len(Append(paths[current], y)) = Len(paths[current]) + 1
    BY <1>0, KnownFacts, SeqFacts
<1>2. CASE b = local
  <2>1. Len(paths[b]) = 1
      BY <1>0, <1>2, KnownFacts
  <2> QED BY <1>1, <2>1 DEF Before
<1>3. CASE b # local
  <2>1. PICK k \in Identities : Parent(b, k)
      BY <1>0, <1>3 DEF Parents
  <2>2. paths[k] \in Seq(Identities)
      BY <1>0, KnownFacts
  <2> QED BY <1>1, <2>1, <2>2, BeforeAppend DEF Parent
<1> QED BY <1>2, <1>3

(* Taking the next node: it is the first of those that wait, nothing has   *)
(* been found from it yet.                                                 *)
LEMMA DequeueFirst ==
    ASSUME FirstInv, Dequeue, IInv'
    PROVE  FirstInv'
<1> DEFINE h == Head(queue)
<1>0. IInv /\ Parents /\ Ordered /\ Ascending /\ Foremost /\ RouteTypeOK
    BY DEF FirstInv, IInv
<1>1. /\ todo = {} /\ queue \in Seq(Identities) /\ queue # << >>
      /\ current' = h /\ queue' = Tail(queue) /\ todo' = adjacency(h)
      /\ UNCHANGED <<adverts, local, paths, routes>>
    BY <1>0 DEF Dequeue, RouteTypeOK
<1>2. /\ h = queue[1] /\ h \in Identities /\ Known(h)
      /\ Len(queue) \in Nat /\ Len(queue) >= 1 /\ Len(Tail(queue)) = Len(queue) - 1
      /\ \A i \in 1..(Len(queue) - 1) :
           Tail(queue)[i] = queue[i + 1] /\ i + 1 \in 1..Len(queue)
    BY <1>0, <1>1, TailFacts, SeqFacts, KnownFacts
<1>3. h # NoRoute
    BY <1>2, NoRouteAssumption
<1> HIDE DEF h
<1>4. /\ \A n \in Identities : Known(n)' <=> Known(n)
      /\ \A n \in Identities : adjacency(n)' = adjacency(n)
    BY <1>1 DEF Known, adjacency, advertised
<1>5. current # NoRoute => current \in Identities /\ Before(paths[current], paths[h])
    BY <1>0, <1>2, KnownFacts DEF Ordered
<1>6. ASSUME NEW b \in Identities, Known(b), b # local
      PROVE \E k \in Identities : /\ Known(k) /\ paths[b] = Append(paths[k], b)
                                  /\ Before(paths[k], paths[h])
  <2>1. PICK k \in Identities : current # NoRoute /\ Parent(b, k)
      BY <1>0, <1>6 DEF Parents
  <2>2. paths[k] \in Seq(Identities) /\ paths[current] \in Seq(Identities) /\ paths[h] \in Seq(Identities)
      BY <1>0, <1>2, <1>5, <2>1, KnownFacts
  <2>3. Before(paths[k], paths[h])
      BY <1>5, <2>1, <2>2, BeforeIsOrder DEF Parent
  <2> QED BY <2>1, <2>3 DEF Parent
<1>7. Parents'
  <2> SUFFICES ASSUME NEW b \in Identities, Known(b), b # local
               PROVE h # NoRoute /\ \E k \in Identities : Parent(b, k)'
      BY <1>1, <1>4 DEF Parents
  <2>1. PICK k \in Identities : /\ Known(k) /\ paths[b] = Append(paths[k], b)
                                /\ Before(paths[k], paths[h])
      BY <1>6
  <2> QED BY <1>1, <1>3, <1>4, <2>1 DEF Parent
<1>8. Ordered'
  <2>1. ASSUME NEW i \in 1..(Len(queue) - 1), NEW j \in 1..(Len(queue) - 1), i < j
        PROVE Before(paths[Tail(queue)[i]], paths[Tail(queue)[j]])
    <3>1. i + 1 < j + 1
        BY <2>1
    <3> QED BY <1>0, <1>2, <3>1 DEF Ordered
  <2>2. ASSUME NEW i \in 1..(Len(queue) - 1)
        PROVE Before(paths[h], paths[Tail(queue)[i]])
    <3>1. 1 < i + 1 /\ 1 \in 1..Len(queue)
        BY <1>2
    <3> QED BY <1>0, <1>2, <3>1 DEF Ordered
  <2> QED BY <1>1, <1>2, <2>1, <2>2 DEF Ordered
<1>9. Ascending'
  <2> SUFFICES ASSUME NEW b \in Identities, Known(b), paths[b] = Append(paths[h], b) PROVE FALSE
      BY <1>1, <1>4 DEF Ascending
  <2>1. /\ paths[h] \in Seq(Identities) /\ Len(paths[h]) \in Nat /\ Len(paths[h]) >= 1
        /\ Len(paths[b]) = Len(paths[h]) + 1
      BY <1>0, <1>2, KnownFacts, SeqFacts
  <2>2. b # local
      BY <1>0, <2>1, KnownFacts
  <2>3. PICK k \in Identities : /\ Known(k) /\ paths[b] = Append(paths[k], b)
                                /\ Before(paths[k], paths[h])
      BY <1>6, <2>2
  <2>4. /\ paths[k] \in Seq(Identities) /\ Len(paths[k]) \in Nat /\ Len(paths[k]) >= 1
        /\ Len(paths[b]) = Len(paths[k]) + 1
        /\ \A i \in 1..Len(paths[k]) : paths[b][i] = paths[k][i]
      BY <1>0, <2>3, KnownFacts, SeqFacts
  <2>5. \A i \in 1..Len(paths[h]) : paths[b][i] = paths[h][i]
      BY <2>1, SeqFacts
  <2>6. Len(paths[k]) = Len(paths[h]) /\ Len(paths[h]) \in 1..Len(paths[h])
      BY <2>1, <2>4
  <2>7. k = h
      BY <1>0, <1>2, <2>3, <2>4, <2>5, <2>6, KnownFacts
  <2> QED BY <2>1, <2>3, <2>7, BeforeIsOrder
<1>10. Foremost'
    <2> SUFFICES ASSUME NEW a \in Identities, Known(a), ~Waiting(a)', NEW b \in adjacency(a), a # h
                 PROVE Known(b) /\ NotAfter(paths[b], Append(paths[a], b))
        BY <1>1, <1>4, SMTT(30) DEF Foremost, Known, NotAfter, Before
    <2>1. ASSUME NEW i \in 1..Len(queue), queue[i] = a PROVE FALSE
        <3>1. i # 1 /\ i - 1 \in 1..(Len(queue) - 1) /\ (i - 1) + 1 = i
            BY <2>1, <1>2
        <3>2. Tail(queue)[i - 1] = a
            BY <3>1, <2>1, <1>2
        <3> QED BY <3>1, <3>2, <1>1, <1>2 DEF Waiting
    <2>2. ~Waiting(a)
        BY <2>1 DEF Waiting
    <2> QED BY <2>2, <1>0, <1>1 DEF Foremost
<1> QED BY <1>7, <1>8, <1>9, <1>10 DEF FirstInv

(* Skipping a neighbour: its path is no later than the one over the node   *)
(* being expanded.                                                         *)
LEMMA SkipFirst ==
    ASSUME FirstInv, Skip, IInv'
    PROVE  FirstInv'
<1> DEFINE next == Least(todo)
<1>0. IInv /\ Parents /\ Ordered /\ Ascending /\ Foremost /\ RouteTypeOK /\ Frontier
    BY DEF FirstInv, IInv
<1>1. /\ todo # {} /\ todo \subseteq Identities /\ Known(next)
      /\ todo' = todo \ {next}
      /\ UNCHANGED <<adverts, local, queue, current, paths, routes>>
    BY <1>0 DEF Skip, RouteTypeOK, Known
<1>2. next \in todo /\ next \in Identities /\ current # NoRoute
    BY <1>0, <1>1, LeastIsMember DEF Frontier
<1> HIDE DEF next
<1>3. Parents' /\ Ordered' /\ Ascending'
  <2>1. Parents'
      BY <1>0, <1>1 DEF Parents, Parent, Known, Before
  <2>2. Ordered'
      BY <1>0, <1>1 DEF Ordered, Before
  <2>3. Ascending'
      BY <1>0, <1>1 DEF Ascending, Known
  <2> QED BY <2>1, <2>2, <2>3
<1>4. NotAfter(paths[next], Append(paths[current], next))
    BY <1>1, <1>2, ReachedBefore DEF NotAfter
<1>5. Foremost'
    <2> SUFFICES ASSUME NEW a \in Identities, Known(a), ~Waiting(a), NEW b \in adjacency(a)
                 PROVE \/ a = current /\ b \in todo \ {next}
                       \/ Known(b) /\ NotAfter(paths[b], Append(paths[a], b))
        BY <1>1 DEF Foremost, Known, Waiting, adjacency, advertised
    <2>1. CASE a = current /\ b = next
        BY <2>1, <1>1, <1>4
    <2>2. CASE ~(a = current /\ b = next)
        BY <2>2, <1>0 DEF Foremost
    <2> QED BY <2>1, <2>2
<1> QED BY <1>3, <1>5 DEF FirstInv

(* Finding a neighbour: its path comes after those that wait.              *)
LEMMA FoundFirst ==
    ASSUME FirstInv, Found, IInv'
    PROVE  FirstInv'
<1>p. PICK next, c, path :
        next = Least(todo) /\ c = paths[current] /\ path = Append(c, next)
    OBVIOUS
<1>0. IInv /\ Parents /\ Ordered /\ Ascending /\ Foremost /\ RouteTypeOK /\ Frontier
    BY DEF FirstInv, IInv
<1>1. /\ todo # {} /\ todo \subseteq Identities /\ ~Known(next)
      /\ todo' = todo \ {next}
      /\ paths' = [paths EXCEPT ![next] = path]
      /\ queue' = Append(queue, next)
      /\ UNCHANGED <<adverts, local, current>>
    BY <1>0, <1>p DEF Found, RouteTypeOK, Known
<1>2. /\ next \in todo /\ next \in Identities
      /\ \A x \in todo : next <= x
    BY <1>1, <1>p, LeastIsMember
<1>3. current \in Identities /\ Known(current) /\ current # NoRoute
    BY <1>0, <1>1, KnownFacts DEF Frontier
<1>4. /\ c \in Seq(Identities) /\ Len(c) \in Nat /\ Len(c) >= 1
      /\ path \in Seq(Identities) /\ path # << >> /\ Len(path) = Len(c) + 1
    BY <1>0, <1>2, <1>3, <1>p, KnownFacts, SeqFacts
<1>5. /\ queue \in Seq(Identities) /\ Len(queue) \in Nat
      /\ Len(queue') = Len(queue) + 1 /\ queue'[Len(queue) + 1] = next
      /\ \A i \in 1..Len(queue) : queue'[i] = queue[i] /\ queue[i] \in Identities /\ Known(queue[i])
    BY <1>0, <1>1, <1>2, SeqFacts, KnownFacts
<1>6. \A n \in Identities : paths'[n] = IF n = next THEN path ELSE paths[n]
    BY <1>0, <1>1, <1>2 DEF RouteTypeOK
<1>7. /\ \A n \in Identities : Known(n)' <=> Known(n) \/ n = next
      /\ \A n \in Identities : Known(n) => paths'[n] = paths[n]
      /\ paths'[current] = c /\ paths'[next] = path
    BY <1>1, <1>2, <1>3, <1>4, <1>6, <1>p DEF Known
<1>8. Parents'
  <2>1. ASSUME NEW b \in Identities, Known(b), b # local PROVE \E k \in Identities : Parent(b, k)'
    <3>1. PICK k \in Identities : Parent(b, k)
        BY <1>0, <2>1 DEF Parents
    <3>2. Known(k) /\ paths'[k] = paths[k] /\ paths'[b] = paths[b]
        BY <1>7, <2>1, <3>1 DEF Parent
    <3> QED BY <1>1, <1>7, <1>p, <3>1, <3>2 DEF Parent
  <2>2. Parent(next, current)'
      BY <1>1, <1>3, <1>7, <1>p DEF Parent
  <2> QED BY <1>1, <1>3, <1>7, <2>1, <2>2 DEF Parents
<1>9. \A i \in 1..Len(queue) : Before(paths[queue[i]], path)
  <2> SUFFICES ASSUME NEW i \in 1..Len(queue) PROVE Before(paths[queue[i]], path)
      OBVIOUS
  <2> DEFINE q == queue[i]
  <2>0. q \in Identities /\ Known(q)
      BY <1>5
  <2>1. CASE paths[q] = Append(c, q)
    <3>1. q < next
        BY <1>0, <1>2, <1>3, <1>p, <2>0, <2>1 DEF Ascending
    <3> QED BY <1>2, <1>4, <1>p, <2>0, <2>1, <3>1, BeforeLast
  <2>2. CASE Before(paths[q], Append(c, next))
      BY <1>p, <2>2
  <2> QED BY <1>2, <1>3, <1>p, <2>0, <2>1, <2>2, ReachedBefore
<1>10. Ordered'
  <2>1. \A i \in 1..Len(queue') : i \in 1..Len(queue) \/ i = Len(queue) + 1
      BY <1>5
  <2>2. \A i \in 1..Len(queue) : paths'[queue'[i]] = paths[queue[i]]
      BY <1>5, <1>7
  <2>3. ASSUME NEW i \in 1..Len(queue'), NEW j \in 1..Len(queue'), i < j
        PROVE Before(paths'[queue'[i]], paths'[queue'[j]])
    <3>1. i \in 1..Len(queue)
        BY <1>5, <2>3
    <3>2. CASE j \in 1..Len(queue)
        BY <1>0, <2>2, <2>3, <3>1, <3>2 DEF Ordered
    <3>3. CASE j = Len(queue) + 1
        BY <1>5, <1>7, <1>9, <2>2, <3>1, <3>3
    <3> QED BY <2>1, <3>2, <3>3
  <2>4. ASSUME NEW i \in 1..Len(queue') PROVE Before(c, paths'[queue'[i]])
    <3>1. CASE i \in 1..Len(queue)
        BY <1>0, <1>3, <1>p, <2>2, <3>1 DEF Ordered
    <3>2. CASE i = Len(queue) + 1
      <4>1. Len(c) < Len(path)
          BY <1>4
      <4> QED BY <1>5, <1>7, <3>2, <4>1 DEF Before
    <3> QED BY <2>1, <3>1, <3>2
  <2> QED BY <1>1, <1>7, <2>3, <2>4 DEF Ordered
<1>11. Ascending'
  <2> SUFFICES ASSUME NEW b \in Identities, Known(b)', paths'[b] = Append(c, b),
                      NEW x \in todo \ {next}
               PROVE b < x
      BY <1>1, <1>7 DEF Ascending
  <2>1. CASE b = next
    <3>1. next \in Nat /\ x \in Nat /\ next <= x /\ next # x
        BY <1>1, <1>2, IdentitiesAssumption
    <3> QED BY <2>1, <3>1
  <2>2. CASE b # next
      BY <1>0, <1>3, <1>7, <1>p, <2>2 DEF Ascending
  <2> QED BY <2>1, <2>2
<1>12. Foremost'
  <2> SUFFICES ASSUME NEW a \in Identities, Known(a)', ~Waiting(a)', NEW b \in adjacency(a)
               PROVE \/ a = current /\ b \in todo \ {next}
                     \/ Known(b)' /\ NotAfter(paths'[b], Append(paths'[a], b))
      BY <1>1 DEF Foremost, adjacency, advertised
  <2>1. b \in Identities
      BY <1>0, AdjacencyIsMutual
  <2>2. a # next /\ ~Waiting(a) /\ Known(a) /\ paths'[a] = paths[a]
    <3>2. Waiting(next)'
        BY <1>5 DEF Waiting
    <3>4. Waiting(a) => Waiting(a)'
      <4> SUFFICES ASSUME NEW i \in 1..Len(queue), queue[i] = a PROVE Waiting(a)'
          BY DEF Waiting
      <4>1. i \in 1..Len(queue') /\ queue'[i] = a
          BY <1>5
      <4> QED BY <4>1 DEF Waiting
    <3> QED BY <3>2, <3>4, <1>7
  <2>3. \/ a = current /\ b \in todo
        \/ Known(b) /\ NotAfter(paths[b], Append(paths[a], b))
      BY <2>2, <1>0 DEF Foremost
  <2>4. CASE a = current /\ b = next
      BY <2>4, <1>2, <1>7, <1>p DEF NotAfter
  <2>5. CASE Known(b) /\ NotAfter(paths[b], Append(paths[a], b))
      BY <2>1, <2>2, <2>5, <1>7
  <2> QED BY <2>3, <2>4, <2>5
<1> QED BY <1>8, <1>10, <1>11, <1>12 DEF FirstInv

(* The search keeps the order (router.go:38-60).                           *)
THEOREM FirstInvariant == RouteSpec => []FirstInv
<1>1. RouteInit => FirstInv
  <2> SUFFICES ASSUME RouteInit PROVE FirstInv
      OBVIOUS
  <2>0. IInv
      BY InitIInv
  <2>1. /\ current = NoRoute /\ Len(queue) = 1 /\ queue[1] = local /\ local \in Identities
        /\ \A n \in Identities : n # local => paths[n] = << >>
      BY TablesAssumption DEF RouteInit
  <2>2. Waiting(local)
      BY <2>1 DEF Waiting
  <2>3. Parents /\ Foremost
      BY <2>1, <2>2 DEF Parents, Foremost, Known
  <2>4. Ordered /\ Ascending
      BY <2>1 DEF Ordered, Ascending
  <2> QED BY <2>0, <2>3, <2>4 DEF FirstInv
<1>2. FirstInv /\ IInv' /\ UNCHANGED routeVars => FirstInv'
  <2> SUFFICES ASSUME FirstInv, UNCHANGED routeVars, IInv' PROVE FirstInv'
      OBVIOUS
  <2>0. /\ Parents /\ Ordered /\ Ascending /\ Foremost
        /\ UNCHANGED <<adverts, local, queue, current, todo, paths, routes>>
      BY DEF FirstInv, routeVars
  <2>1. Parents'
      BY <2>0 DEF Parents, Parent, Known
  <2>2. Ordered'
      BY <2>0 DEF Ordered
  <2>3. Ascending'
      BY <2>0 DEF Ascending, Known
  <2>4. Foremost'
      BY <2>0 DEF Foremost, Known, Waiting, adjacency, advertised
  <2> QED BY <2>1, <2>2, <2>3, <2>4 DEF FirstInv
<1>3. FirstInv /\ IInv' /\ [RouteNext]_routeVars => FirstInv'
    BY <1>2, DequeueFirst, SkipFirst, FoundFirst DEF RouteNext
<1> QED BY <1>1, <1>3, Invariant, PTL DEF RouteSpec

(* When Compute has returned, no path over mutual links comes before the   *)
(* one that was found: along a path each of its beginnings comes no        *)
(* earlier than the path found to its last node.                           *)
LEMMA FoundIsFirst ==
    ASSUME FirstInv, Returned, NEW d \in Identities, NEW p \in PathsTo(d)
    PROVE  Known(d) /\ NotAfter(paths[d], p)
<1>0. IInv /\ RouteTypeOK /\ Foremost
    BY DEF FirstInv, IInv
<1>1. /\ p \in Seq(Identities) /\ Len(p) \in Nat /\ Len(p) >= 1
      /\ p[1] = local /\ p[Len(p)] = d
      /\ \A i \in 1..(Len(p) - 1) : Mutual(p[i], p[i + 1])
      /\ \A i \in 1..Len(p) : p[i] \in Identities
    BY SeqFacts DEF PathsTo, IsPath
<1> DEFINE pre(i) == [j \in 1..i |-> p[j]]
           Good(i) == Known(p[i]) /\ NotAfter(paths[p[i]], pre(i))
           Bad == {i \in 1..Len(p) : ~Good(i)}
<1>2. ASSUME NEW i \in 1..Len(p)
      PROVE /\ pre(i) \in Seq(Identities) /\ Len(pre(i)) = i
            /\ \A j \in 1..i : pre(i)[j] = p[j]
  <2>1. i \in Nat /\ \A j \in 1..i : p[j] \in Identities
      BY <1>1
  <2>2. pre(i) \in [1..i -> Identities]
      BY <2>1
  <2>3. pre(i) \in Seq(Identities)
      BY <2>1, <2>2, SeqDef
  <2>4. Len(pre(i)) = i
      BY <2>1, <2>2, <2>3, LenProperties
  <2> QED BY <2>3, <2>4
<1>3. Good(1)
  <2>1. /\ Known(local) /\ Len(paths[local]) = 1 /\ paths[local][1] = local
        /\ paths[local] \in Seq(Identities)
      BY <1>0, KnownFacts
  <2>2. pre(1) \in Seq(Identities) /\ Len(pre(1)) = 1 /\ pre(1)[1] = local
      BY <1>1, <1>2
  <2> HIDE DEF pre
  <2>3. paths[local] = pre(1)
      BY <2>1, <2>2, SeqEqual
  <2> QED BY <1>1, <2>1, <2>3 DEF NotAfter
<1>4. ASSUME NEW k \in 2..Len(p), Good(k - 1) PROVE Good(k)
  <2> DEFINE a == p[k - 1]
             b == p[k]
             u == pre(k - 1)
  <2>1. k - 1 \in 1..Len(p) /\ k - 1 \in 1..(Len(p) - 1) /\ (k - 1) + 1 = k /\ k \in 1..Len(p)
      BY <1>1
  <2>2. a \in Identities /\ b \in Identities /\ Mutual(a, b)
    <3>1. Mutual(p[k - 1], p[(k - 1) + 1])
        BY <1>1, <2>1
    <3> QED BY <1>1, <2>1, <3>1
  <2>3. /\ u \in Seq(Identities) /\ Len(u) = k - 1 /\ \A j \in 1..(k - 1) : u[j] = p[j]
        /\ pre(k) \in Seq(Identities) /\ Len(pre(k)) = k /\ \A j \in 1..k : pre(k)[j] = p[j]
      BY <1>2, <2>1
  <2>4. Known(a) /\ NotAfter(paths[a], u)
      BY <1>4
  <2> HIDE DEF pre, u
  <2>5. pre(k) = Append(u, b)
    <3>1. /\ Append(u, b) \in Seq(Identities) /\ Len(Append(u, b)) = k
          /\ \A j \in 1..(k - 1) : Append(u, b)[j] = u[j]
          /\ Append(u, b)[k] = b
        BY <2>1, <2>2, <2>3, SeqFacts
    <3>2. \A j \in 1..k : pre(k)[j] = Append(u, b)[j]
        BY <2>1, <2>3, <3>1
    <3> QED BY <2>3, <3>1, <3>2, SeqEqual
  <2>6. ~Waiting(a) /\ todo = {} /\ b \in adjacency(a)
      BY <1>0, <2>2, AdjacencyIsMutual DEF Returned, Waiting
  <2>7. Known(b) /\ NotAfter(paths[b], Append(paths[a], b))
      BY <1>0, <2>2, <2>4, <2>6 DEF Foremost
  <2>8. /\ paths[a] \in Seq(Identities) /\ paths[b] \in Seq(Identities)
        /\ Append(paths[a], b) \in Seq(Identities) /\ Append(u, b) \in Seq(Identities)
      BY <1>0, <2>2, <2>3, KnownFacts, SeqFacts
  <2>9. NotAfter(Append(paths[a], b), Append(u, b))
      BY <2>2, <2>3, <2>4, <2>8, BeforeAppend DEF NotAfter
  <2>10. NotAfter(paths[b], Append(u, b))
      BY <2>7, <2>8, <2>9, BeforeIsOrder DEF NotAfter
  <2> QED BY <2>5, <2>7, <2>10
<1>5. Bad = {}
  <2> HIDE DEF Good
  <2> SUFFICES ASSUME Bad # {} PROVE FALSE
      OBVIOUS
  <2>0. Bad \subseteq Nat
      OBVIOUS
  <2>1. PICK k \in Bad : \A j \in Bad : k <= j
      BY <2>0, LeastNatural
  <2>2. k \in 2..Len(p) /\ k - 1 \in 1..Len(p) /\ ~Good(k)
      BY <1>1, <1>3, <2>1
  <2>3. k - 1 \notin Bad
      BY <2>1, <2>2
  <2> QED BY <1>4, <2>2, <2>3
<1>6. pre(Len(p)) = p
  <2>1. Len(p) \in 1..Len(p)
      BY <1>1
  <2>2. /\ pre(Len(p)) \in Seq(Identities) /\ Len(pre(Len(p))) = Len(p)
        /\ \A j \in 1..Len(p) : pre(Len(p))[j] = p[j]
      BY <1>2, <2>1
  <2> HIDE DEF pre
  <2> QED BY <1>1, <2>2, SeqEqual
<1>7. Good(Len(p))
    BY <1>1, <1>5
<1> HIDE DEF pre
<1> QED BY <1>1, <1>6, <1>7

(* The result of router.Compute for every table: a route to every node a   *)
(* simple path over mutual links leads to and to no other, and it is the   *)
(* first of the shortest paths in the order of identities (router.go:38-   *)
(* 61).  It is a function of the table, whatever the order in which the    *)
(* maps are iterated.                                                      *)
THEOREM RoutesAreFirst == RouteSpec => []ShortestFirst
<1>1. FirstInv => ShortestFirst
  <2> SUFFICES ASSUME FirstInv, Returned, NEW d \in Identities \ {local}
               PROVE /\ SimplePaths(d) = {} => routes[d] = NoRoute
                     /\ SimplePaths(d) # {} =>
                          /\ routes[d] # NoRoute
                          /\ \A p \in SimplePaths(d) :
                               p = routes[d].path \/ Before(routes[d].path, p)
      BY DEF ShortestFirst, FirstInv, IInv
  <2>0. IInv /\ RouteTypeOK /\ RoutesMatch /\ PathsSound
      BY DEF FirstInv, IInv
  <2> DEFINE D == DOMAIN adverts
  <2>1. D \subseteq Identities /\ IsFiniteSet(D) /\ Cardinality(D) \in Nat
      BY <2>0, TablesAssumption, FS_CardinalityType DEF RouteTypeOK
  <2>2. ASSUME NEW p \in SimplePaths(d) PROVE p \in PathsTo(d)
    <3>1. PICK k \in 2..Cardinality(D) : p \in [1..k -> D]
        BY DEF SimplePaths
    <3>2. k \in Nat /\ k >= 2 /\ p \in [1..k -> Identities]
        BY <2>1, <3>1
    <3>3. p \in Seq(Identities)
        BY <3>2, SeqDef
    <3>4. Len(p) = k
        BY <3>2, <3>3, LenProperties
    <3> QED BY <2>2, <3>2, <3>3, <3>4 DEF SimplePaths, PathsTo
  <2>3. ASSUME Known(d)
        PROVE routes[d].path = paths[d] /\ routes[d] # NoRoute /\ paths[d] \in SimplePaths(d)
    <3>1. routes[d] = Route(paths[d]) /\ Sound(d, paths[d])
        BY <2>0, <2>3 DEF RoutesMatch, PathsSound
    <3>2. paths[d] \in Seq(Identities) /\ Len(paths[d]) \in Nat /\ Len(paths[d]) >= 2
        BY <2>0, <3>1, KnownFacts DEF Sound
    <3>3. routes[d].path = paths[d] /\ routes[d] # NoRoute
        BY <3>1, <3>2, RouteOfPath DEF Route
    <3> DEFINE p == paths[d]
               k == Len(p)
    <3>4. ASSUME NEW i \in 1..k PROVE p[i] \in D
      <4>1. CASE i \in 1..(k - 1)
          BY <3>1, <4>1 DEF Sound, IsPath, Mutual
      <4>2. CASE i = k
        <5>1. k - 1 \in 1..(k - 1) /\ (k - 1) + 1 = k
            BY <3>2
        <5>2. Mutual(p[k - 1], p[(k - 1) + 1])
            BY <3>1, <5>1 DEF Sound, IsPath
        <5> QED BY <4>2, <5>1, <5>2 DEF Mutual
      <4> QED BY <3>2, <4>1, <4>2
    <3>5. p \in [1..k -> D]
        BY <3>2, <3>4, LenProperties
    <3>6. k <= Cardinality(D)
      <4>1. IsFiniteSet(1..k) /\ Cardinality(1..k) = k
          BY <3>2, FS_Interval, SMTT(30)
      <4>2. ~(Cardinality(D) < Cardinality(1..k))
          BY <2>1, <3>1, <3>5, <4>1, FS_PigeonHole DEF Sound
      <4> QED BY <2>1, <3>2, <4>1, <4>2
    <3>7. p \in UNION {[1..n -> D] : n \in 2..Cardinality(D)}
        BY <2>1, <3>2, <3>5, <3>6
    <3>8. p \in SimplePaths(d)
        BY <3>1, <3>7 DEF SimplePaths, Sound
    <3> QED BY <3>3, <3>8
  <2>4. ~Known(d) => routes[d] = NoRoute
      BY <2>0 DEF RoutesMatch
  <2>5. ASSUME NEW p \in SimplePaths(d) PROVE Known(d) /\ NotAfter(paths[d], p)
      BY <2>2, FoundIsFirst
  <2> QED BY <2>3, <2>4, <2>5 DEF NotAfter
<1> QED BY FirstInvariant, <1>1, PTL
==============================================================================
