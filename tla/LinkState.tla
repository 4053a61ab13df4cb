------------------------------ MODULE LinkState ------------------------------
(***************************************************************************)
(* Link-state topology of the overlay: how a node numbers, signs, stores   *)
(* and floods its advertisement (LSA) while connections come and go, and   *)
(* how its neighbours take it over (internal/overlay/node.go, peer.go).    *)
(*                                                                         *)
(* emitLocalLSA runs in any goroutine that registers or unregisters a peer *)
(* and in the maintenance ticker.  It takes no lock across its body, so    *)
(* its four parts are four steps: number (an atomic Add), read the peer    *)
(* map, store under topologyMu, broadcast.  handleLSA stores under         *)
(* topologyMu and broadcasts after it has released the lock: two steps of  *)
(* the connection's reader goroutine.                                      *)
(*                                                                         *)
(* Abstractions.  A broadcast (snapshot of the peer map, then one write    *)
(* per peer) is one step: a peer registered after the snapshot gets the    *)
(* table from sendAllLSAs, one removed after it refuses the write.  The    *)
(* frames of a connection keep their order among those about one origin;   *)
(* handleLSA treats different origins independently, so the order between  *)
(* origins (the map iteration order of sendAllLSAs) is left open.  Two     *)
(* connections of one pair at a time belong to module PeerLinks.  Time is  *)
(* the ghost expired[o]: every advertisement o signed up to that one is    *)
(* past its ExpiresUnix.  The newest one of a node never is, since         *)
(* config.go:433 makes the TTL at least twice the emission interval.       *)
(***************************************************************************)
EXTENDS Naturals, Sequences, FiniteSets

CONSTANTS
    Nodes,        \* node identities
    Workers,      \* goroutines of a node that can be inside emitLocalLSA at once
    None,         \* no advertisement, no peer
    Dials,        \* <<n, m>>: n dials m (configured peers, discovery)
    Budgets       \* bounds: how often the environment may act in a behaviour

Bounds == {"connects", "failures", "ticks", "restarts", "ageings"}

ASSUME NoneAssumption == None \notin Nodes
ASSUME DialsAssumption == Dials \subseteq Nodes \X Nodes
ASSUME BudgetsAssumption == Budgets \subseteq [Bounds -> Nat]

VARIABLES
    link,      \* link[n][m]: n's end of its connection with m
    cut,       \* pairs whose transport connection is broken
    wire,      \* wire[n][m][o]: LSA frames about o that n wrote and m has not read
    sequence,  \* lsaSequence of n's current process
    signed,    \* ghost: advertisements ever numbered under n's identity
    latest,    \* ghost: the advertisement of n with the highest stamp that exists
    lsas,      \* lsas[n][o]: the advertisement of o that n holds
    worker,    \* worker[n][w]: one goroutine inside emitLocalLSA
    reader,    \* reader[n][m]: LSA stored by m's reader at n, not yet flooded
    expired,   \* ghost: expired[o], see above
    budget     \* what is left of the bounds

linkVars == <<link, cut, wire>>
emitVars == <<sequence, signed, latest, worker>>
vars == <<link, cut, wire, sequence, signed, latest, lsas, worker, reader,
          expired, budget>>

-----------------------------------------------------------------------------
(* An advertisement.  stamp is a ghost: its place among all advertisements *)
(* ever signed under the origin's identity, in this process or an earlier  *)
(* one; sequence restarts with the process, stamp does not.                *)
LSA == [origin : Nodes, sequence : Nat, stamp : Nat, links : SUBSET Nodes]

ASSUME NoLSAAssumption == None \notin LSA

(* A goroutine in emitLocalLSA; "to" is the peer registerPeer will bring   *)
(* up to date with sendAllLSAs once the emission is out.                   *)
Idle == [pc |-> "idle", lsa |-> None, to |-> None]

Job == [pc : {"idle", "number", "sync"}, lsa : {None}, to : Nodes \cup {None}]
       \cup [pc : {"read", "store", "flood"}, lsa : LSA, to : Nodes \cup {None}]

Quiet == [o \in Nodes |-> << >>]

peers(n) == {m \in Nodes : link[n][m] = "up"}

Broken(n, m) == {n, m} \in cut

(* n's goroutine for the connection with m is in the read of p.run: it has *)
(* returned from registerPeer and from the handling of the last frame.     *)
Reading(n, m) ==
    /\ link[n][m] = "up"
    /\ reader[n][m] = None
    /\ \A w \in Workers : worker[n][w].to # m

(* p.send on every registered connection except one; a write on a broken   *)
(* connection is lost.                                                     *)
broadcast(n, lsa, except) ==
    [wire EXCEPT ![n] = [m \in Nodes |->
        IF m \in peers(n) \ {except} /\ ~Broken(n, m)
        THEN [wire[n][m] EXCEPT ![lsa.origin] = Append(@, lsa)] ELSE wire[n][m]]]

(* The start of a goroutine's call of emitLocalLSA.                        *)
Emitting(n, w, to) ==
    /\ worker[n][w] = Idle
    /\ worker' = [worker EXCEPT ![n][w] = [pc |-> "number", lsa |-> None, to |-> to]]

(* The same in a goroutine that closes the connection with m: what m's own *)
(* goroutine has yet to send on it is lost.                                *)
EmittingWithout(n, w, m) ==
    /\ worker[n][w] = Idle
    /\ worker' = [worker EXCEPT ![n] = [v \in Workers |->
         IF v = w THEN [pc |-> "number", lsa |-> None, to |-> None]
         ELSE IF worker[n][v].to = m THEN [worker[n][v] EXCEPT !.to = None]
         ELSE worker[n][v]]]

Spend(what) ==
    /\ budget[what] > 0
    /\ budget' = [budget EXCEPT ![what] = @ - 1]

-----------------------------------------------------------------------------
(* Start has emitted the first advertisement, no connection exists yet.    *)
Init ==
    LET first == [n \in Nodes |->
                    [origin |-> n, sequence |-> 1, stamp |-> 1, links |-> {}]]
    IN latest = first /\ lsas = [n \in Nodes |-> [o \in Nodes |->
                                   IF o = n THEN first[n] ELSE None]]
    /\ sequence = [n \in Nodes |-> 1]
    /\ signed = [n \in Nodes |-> 1]
    /\ link = [n \in Nodes |-> [m \in Nodes |-> "none"]]
    /\ cut = {}
    /\ wire = [n \in Nodes |-> [m \in Nodes |-> Quiet]]
    /\ worker = [n \in Nodes |-> [w \in Workers |-> Idle]]
    /\ reader = [n \in Nodes |-> [m \in Nodes |-> None]]
    /\ expired = [n \in Nodes |-> 0]
    /\ budget \in Budgets

(* establishPeer at both ends: TLS and HELLO have gone through, neither    *)
(* end has called registerPeer, and the reader of an earlier connection    *)
(* has returned.                                                           *)
establishPeer(n, m) ==
    /\ <<n, m>> \in Dials
    /\ n # m
    /\ link[n][m] = "none" /\ link[m][n] = "none"
    /\ reader[n][m] = None /\ reader[m][n] = None
    /\ Spend("connects")
    /\ link' = [link EXCEPT ![n][m] = "hello", ![m][n] = "hello"]
    /\ cut' = cut \ {{n, m}}
    /\ wire' = [wire EXCEPT ![n][m] = Quiet, ![m][n] = Quiet]
    /\ UNCHANGED <<emitVars, lsas, reader, expired>>

(* The transport fails; each end finds out on its own.                     *)
TransportFails(n, m) ==
    /\ link[n][m] # "none"
    /\ ~Broken(n, m)
    /\ Spend("failures")
    /\ cut' = cut \cup {{n, m}}
    /\ UNCHANGED <<link, wire, emitVars, lsas, reader, expired>>

(* The peer enters the map, then the same goroutine emits and brings the   *)
(* new peer up to date.                                                    *)
registerPeer(n, m, w) ==
    /\ link[n][m] = "hello"
    /\ link' = [link EXCEPT ![n][m] = "up"]
    /\ Emitting(n, w, m)
    /\ UNCHANGED <<cut, wire, sequence, signed, latest, lsas, reader, expired, budget>>

(* Faulty variant: the peer leaves the map without a new emission.         *)
unregisterPeerSilent(n, m, w) ==
    /\ link[n][m] = "up"
    /\ Broken(n, m)
    /\ worker[n][w] = Idle
    /\ link' = [link EXCEPT ![n][m] = "none"]
    /\ wire' = [wire EXCEPT ![m][n] = Quiet]
    /\ UNCHANGED <<cut, emitVars, lsas, reader, expired, budget>>

(* p.close, by the peer's own goroutine after a failed read or by any      *)
(* goroutine whose broadcast (a ping included) failed on it: unread frames *)
(* are gone, the peer leaves the map, the goroutine emits.                 *)
unregisterPeer(n, m, w) ==
    /\ link[n][m] = "up"
    /\ Broken(n, m)
    /\ link' = [link EXCEPT ![n][m] = "none"]
    /\ wire' = [wire EXCEPT ![m][n] = Quiet]
    /\ EmittingWithout(n, w, m)
    /\ UNCHANGED <<cut, sequence, signed, latest, lsas, reader, expired, budget>>

(* maintenanceLoop, lsaTicker.                                             *)
lsaTick(n, w) ==
    /\ Spend("ticks")
    /\ Emitting(n, w, None)
    /\ UNCHANGED <<linkVars, sequence, signed, latest, lsas, reader, expired>>

-----------------------------------------------------------------------------
(* Faulty variant: the number is derived from the entry held, not drawn    *)
(* from an atomic counter.                                                 *)
emitNumberFromHeld(n, w) ==
    /\ worker[n][w].pc = "number"
    /\ lsas[n][n] # None
    /\ sequence' = [sequence EXCEPT ![n] = lsas[n][n].sequence + 1]
    /\ signed' = [signed EXCEPT ![n] = lsas[n][n].stamp + 1]
    /\ worker' = [worker EXCEPT
         ![n][w].pc = "read",
         ![n][w].lsa = [origin |-> n, sequence |-> lsas[n][n].sequence + 1,
                        stamp |-> lsas[n][n].stamp + 1, links |-> {}]]
    /\ UNCHANGED <<linkVars, latest, lsas, reader, expired, budget>>

(* emitLocalLSA, 1: lsaSequence.Add(1), evaluated before peerIDs().        *)
emitNumber(n, w) ==
    /\ worker[n][w].pc = "number"
    /\ sequence' = [sequence EXCEPT ![n] = @ + 1]
    /\ signed' = [signed EXCEPT ![n] = @ + 1]
    /\ worker' = [worker EXCEPT
         ![n][w].pc = "read",
         ![n][w].lsa = [origin |-> n, sequence |-> sequence[n] + 1,
                        stamp |-> signed[n] + 1, links |-> {}]]
    /\ UNCHANGED <<linkVars, latest, lsas, reader, expired, budget>>

(* Faulty variant: the links are those of the entry held.                  *)
emitReadCached(n, w) ==
    /\ worker[n][w].pc = "read"
    /\ LET lsa == [worker[n][w].lsa EXCEPT !.links = lsas[n][n].links]
       IN /\ worker' = [worker EXCEPT ![n][w].pc = "store", ![n][w].lsa = lsa]
          /\ latest' = [latest EXCEPT ![n] = lsa]
    /\ UNCHANGED <<linkVars, sequence, signed, lsas, reader, expired, budget>>

(* emitLocalLSA, 2: peerIDs() under peersMu, NewLSA signs.                 *)
emitRead(n, w) ==
    /\ worker[n][w].pc = "read"
    /\ LET lsa == [worker[n][w].lsa EXCEPT !.links = peers(n)]
       IN /\ worker' = [worker EXCEPT ![n][w].pc = "store", ![n][w].lsa = lsa]
          /\ latest' = IF latest[n].stamp < lsa.stamp
                       THEN [latest EXCEPT ![n] = lsa] ELSE latest
    /\ UNCHANGED <<linkVars, sequence, signed, lsas, reader, expired, budget>>

(* emitLocalLSA, 3: the own entry is overwritten whatever it holds.        *)
emitStore(n, w) ==
    /\ worker[n][w].pc = "store"
    /\ lsas' = [lsas EXCEPT ![n][n] = worker[n][w].lsa]
    /\ worker' = [worker EXCEPT ![n][w].pc = "flood"]
    /\ UNCHANGED <<linkVars, sequence, signed, latest, reader, expired, budget>>

(* emitLocalLSA, 4: broadcast to every peer.                               *)
emitFlood(n, w) ==
    /\ worker[n][w].pc = "flood"
    /\ wire' = broadcast(n, worker[n][w].lsa, None)
    /\ worker' = [worker EXCEPT ![n][w] =
                    IF @.to = None THEN Idle ELSE [@ EXCEPT !.pc = "sync", !.lsa = None]]
    /\ UNCHANGED <<link, cut, sequence, signed, latest, lsas, reader, expired, budget>>

(* Faulty variant: the new peer gets the own advertisement only.           *)
sendOwnLSA(n, w) ==
    /\ worker[n][w].pc = "sync"
    /\ LET m == worker[n][w].to
       IN wire' = IF m = None \/ Broken(n, m) THEN wire
                  ELSE [wire EXCEPT ![n][m][n] = Append(@, lsas[n][n])]
    /\ worker' = [worker EXCEPT ![n][w] = Idle]
    /\ UNCHANGED <<link, cut, sequence, signed, latest, lsas, reader, expired, budget>>

(* sendAllLSAs: every advertisement held, on the new connection.           *)
sendAllLSAs(n, w) ==
    /\ worker[n][w].pc = "sync"
    /\ LET m == worker[n][w].to
       IN wire' = IF m = None \/ Broken(n, m) THEN wire
                  ELSE [wire EXCEPT ![n][m] = [o \in Nodes |->
                          IF lsas[n][o] = None THEN wire[n][m][o]
                          ELSE Append(wire[n][m][o], lsas[n][o])]]
    /\ worker' = [worker EXCEPT ![n][w] = Idle]
    /\ UNCHANGED <<link, cut, sequence, signed, latest, lsas, reader, expired, budget>>

-----------------------------------------------------------------------------
(* Faulty variant: the sequence numbers are not compared.                  *)
AcceptsAny(n, lsa) ==
    /\ lsa.stamp > expired[lsa.origin]
    /\ lsa.origin # n

(* handleLSA refuses an expired advertisement (Verify), its own, and one   *)
(* that is no newer by sequence number than what it holds.                 *)
Accepts(n, lsa) ==
    /\ lsa.stamp > expired[lsa.origin]
    /\ lsa.origin # n
    /\ lsas[n][lsa.origin] = None \/ lsas[n][lsa.origin].sequence < lsa.sequence

(* handleLSA up to the release of topologyMu, in the reader of peer m.     *)
handleLSA(n, m, o) ==
    /\ Reading(n, m)
    /\ wire[m][n][o] # << >>
    /\ LET lsa == Head(wire[m][n][o])
       IN /\ wire' = [wire EXCEPT ![m][n][o] = Tail(@)]
          /\ IF Accepts(n, lsa)
             THEN /\ lsas' = [lsas EXCEPT ![n][o] = lsa]
                  /\ reader' = [reader EXCEPT ![n][m] = lsa]
             ELSE UNCHANGED <<lsas, reader>>
    /\ UNCHANGED <<link, cut, emitVars, expired, budget>>

(* handleLSA, after the lock: broadcast to every peer but the source.      *)
floodOnward(n, m) ==
    /\ reader[n][m] # None
    /\ wire' = broadcast(n, reader[n][m], m)
    /\ reader' = [reader EXCEPT ![n][m] = None]
    /\ UNCHANGED <<link, cut, emitVars, lsas, expired, budget>>

(* Faulty variant: off by one, the entry about to expire goes too.         *)
KeptShort(n) ==
    [o \in Nodes |-> IF /\ o # n
                        /\ lsas[n][o] # None
                        /\ lsas[n][o].stamp <= expired[o] + 1
                     THEN None ELSE lsas[n][o]]

(* cleanTicker: expired entries of other nodes go.                         *)
Kept(n) ==
    [o \in Nodes |-> IF /\ o # n
                        /\ lsas[n][o] # None
                        /\ lsas[n][o].stamp <= expired[o]
                     THEN None ELSE lsas[n][o]]

cleanupExpired(n) ==
    /\ Kept(n) # lsas[n]
    /\ lsas' = [lsas EXCEPT ![n] = Kept(n)]
    /\ UNCHANGED <<linkVars, emitVars, reader, expired, budget>>

(* Time passes: all but the newest advertisement of o may have expired.    *)
Age(o) ==
    /\ \E k \in (expired[o] + 1)..(latest[o].stamp - 1) :
         expired' = [expired EXCEPT ![o] = k]
    /\ Spend("ageings")
    /\ UNCHANGED <<linkVars, emitVars, lsas, reader>>

(* The process of n ends and is started again: everything it held in       *)
(* memory is gone, lsaSequence included; Start emits.                      *)
Restart(n) ==
    /\ Spend("restarts")
    /\ link' = [link EXCEPT ![n] = [m \in Nodes |-> "none"]]
    /\ cut' = cut \cup {{n, m} : m \in {x \in Nodes : link[x][n] # "none"}}
    /\ wire' = [a \in Nodes |-> [b \in Nodes |-> IF b = n THEN Quiet ELSE wire[a][b]]]
    /\ sequence' = [sequence EXCEPT ![n] = 0]
    /\ lsas' = [lsas EXCEPT ![n] = [o \in Nodes |-> None]]
    /\ \E w \in Workers :
         worker' = [worker EXCEPT ![n] = [v \in Workers |->
                      IF v = w THEN [pc |-> "number", lsa |-> None, to |-> None]
                      ELSE Idle]]
    /\ reader' = [reader EXCEPT ![n] = [m \in Nodes |-> None]]
    /\ UNCHANGED <<signed, latest, expired>>

-----------------------------------------------------------------------------
Emission(n, w) ==
    \/ emitNumber(n, w)
    \/ emitRead(n, w)
    \/ emitStore(n, w)
    \/ emitFlood(n, w)
    \/ sendAllLSAs(n, w)

Next ==
    \/ \E n, m \in Nodes :
         \/ establishPeer(n, m)
         \/ TransportFails(n, m)
         \/ \E o \in Nodes : handleLSA(n, m, o)
         \/ floodOnward(n, m)
         \/ \E w \in Workers : registerPeer(n, m, w) \/ unregisterPeer(n, m, w)
    \/ \E n \in Nodes :
         \/ \E w \in Workers : lsaTick(n, w) \/ Emission(n, w)
         \/ cleanupExpired(n)
         \/ Age(n)
         \/ Restart(n)

Spec == Init /\ [][Next]_vars

(* Goroutines that can run do run, and TCP delivers what it was given: no  *)
(* fairness is asked of connecting, failing, ticking, ageing, restarting.  *)
Fairness ==
    /\ \A n \in Nodes, w \in Workers : WF_vars(Emission(n, w))
    /\ \A n, m \in Nodes :
         /\ \A o \in Nodes : WF_vars(handleLSA(n, m, o))
         /\ WF_vars(floodOnward(n, m))
         /\ WF_vars(\E w \in Workers : registerPeer(n, m, w))
         /\ WF_vars(\E w \in Workers : unregisterPeer(n, m, w))

FairSpec == Spec /\ Fairness

-----------------------------------------------------------------------------
TypeOK ==
    /\ link \in [Nodes -> [Nodes -> {"none", "hello", "up"}]]
    /\ cut \subseteq SUBSET Nodes
    /\ wire \in [Nodes -> [Nodes -> [Nodes -> Seq(LSA)]]]
    /\ sequence \in [Nodes -> Nat]
    /\ signed \in [Nodes -> Nat]
    /\ latest \in [Nodes -> LSA]
    /\ lsas \in [Nodes -> [Nodes -> LSA \cup {None}]]
    /\ worker \in [Nodes -> [Workers -> Job]]
    /\ reader \in [Nodes -> [Nodes -> LSA \cup {None}]]
    /\ expired \in [Nodes -> Nat]
    /\ budget \in [Bounds -> Nat]

-----------------------------------------------------------------------------
Frames(s) == {s[i] : i \in 1..Len(s)}

(* Advertisements that exist in signed form anywhere in the system.        *)
InExistence ==
    LET held == UNION {{lsas[n][m] : m \in Nodes} \cup {reader[n][m] : m \in Nodes} :
                         n \in Nodes}
        sent == UNION {UNION {UNION {Frames(wire[n][m][o]) : o \in Nodes} : m \in Nodes} :
                         n \in Nodes}
        jobs == UNION {{worker[n][w] : w \in Workers} : n \in Nodes}
        made == {j.lsa : j \in {x \in jobs : x.pc \in {"store", "flood"}}}
    IN (held \ {None}) \cup sent \cup made

(* The process of n is the first one under its identity.                   *)
NeverRestarted(n) == sequence[n] = signed[n]

(* n's goroutines hold no advertisement that its peers have yet to see.    *)
EmissionsOut(n) ==
    \A w \in Workers : worker[n][w].pc \in {"idle", "sync"}

(* A connection both ends have registered.                                 *)
Linked(n, m) == link[n][m] = "up" /\ link[m][n] = "up" /\ ~Broken(n, m)

(* Whenever no goroutine of a node is inside emitLocalLSA before its read  *)
(* of the peer map, the newest advertisement the node has signed lists     *)
(* exactly its registered peers (node.go:423-464): a change of the map is  *)
(* never left out, however many emissions overlap.  It rests on the number *)
(* being taken before the map is read.                                     *)
NewestAdvertisesPeers ==
    \A n \in Nodes :
        (\A w \in Workers : worker[n][w].pc \notin {"number", "read"})
        => /\ latest[n].stamp = signed[n]
           /\ latest[n].links = peers(n)

(* A neighbour whose connection has drained holds the newest advertisement *)
(* of the node, which lists the node's registered peers (node.go:395-520): *)
(* overlapping emissions, their reordering on the wire and the exchange at *)
(* registration never leave a neighbour with an older one, as long as the  *)
(* node's process is the first under its identity.                         *)
NeighboursCurrent ==
    TypeOK /\ \A n, m \in Nodes :
        (/\ Linked(n, m)
         /\ EmissionsOut(n)
         /\ wire[n][m][n] = << >>
         /\ NeverRestarted(n))
        => /\ lsas[m][n] = latest[n]
           /\ lsas[m][n].links = peers(n)

(* With restarts and expiry (node.go:66, 466-491, 549-573): a neighbour    *)
(* whose connection has drained holds the newest advertisement, or it      *)
(* still holds one of an earlier process whose number is not exceeded yet, *)
(* or it has dropped that one as expired after it had already refused the  *)
(* newest because of it, and waits for the next emission with nothing or a *)
(* lower number.  Nothing else can keep a node's advertisement out.        *)
StaleOnlyIfOutnumbered ==
    \A n, m \in Nodes :
        (Linked(n, m) /\ EmissionsOut(n) /\ wire[n][m][n] = << >>)
        => \/ lsas[m][n] = latest[n]
           \/ /\ lsas[m][n] # None
              /\ lsas[m][n].stamp <= signed[n] - sequence[n]
              /\ lsas[m][n].sequence >= latest[n].sequence
           \/ /\ lsas[m][n] = None \/ lsas[m][n].sequence < latest[n].sequence
              /\ expired[n] > 0
              /\ ~NeverRestarted(n)

(* What a node holds of a third node, its neighbour holds too or holds     *)
(* newer, once the node has flooded what it stored and their connection    *)
(* has drained (node.go:466-520): an advertisement stored while a peer is  *)
(* being registered reaches that peer by the flood or by sendAllLSAs.      *)
FloodComplete ==
    \A n, m \in Nodes : \A o \in Nodes \ {n, m} :
        (/\ Linked(n, m)
         /\ \A w \in Workers : worker[n][w].to # m
         /\ \A x \in Nodes : reader[n][x] = None
         /\ wire[n][m][o] = << >>
         /\ NeverRestarted(o)
         /\ lsas[n][o] # None
         /\ lsas[n][o].stamp > expired[o])
        => /\ lsas[m][o] # None
           /\ lsas[m][o].stamp >= lsas[n][o].stamp

(* Two advertisements of one process with the same sequence number are the *)
(* same advertisement (node.go:453): handleLSA drops the second one of     *)
(* equal number, so overlapping emissions must never share a number.       *)
NoEquivocation ==
    \A x, y \in InExistence :
        x.origin = y.origin /\ x.stamp = y.stamp => x = y

(* Once connections stop changing, every live connection ends up with the  *)
(* neighbour holding an advertisement of exactly the node's peers          *)
(* (node.go:395-520), and stays so.                                        *)
Converges ==
    <>[](\A n, m \in Nodes :
           link[n][m] = "up" /\ NeverRestarted(n)
           => lsas[m][n] # None /\ lsas[m][n].links = peers(n))
=============================================================================
