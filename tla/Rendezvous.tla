------------------------------- MODULE Rendezvous -------------------------------
(***************************************************************************)
(* A client and a published service meet at a rendezvous node              *)
(* (internal/overlay/rendezvous.go): openServiceDescriptor at the client,  *)
(* acceptIntroduction at the service, handleRendezvous between them.       *)
(*                                                                         *)
(* A party is the client or one run of acceptIntroduction: a client that   *)
(* gets no answer from an introduction point asks the next one with the    *)
(* same cookie, so the service may come more than once.  Each party has a  *)
(* circuit to the rendezvous node that comes in over the connection        *)
(* via[p]; the reader of that connection writes data into the pipe of the  *)
(* handler (circuit.go:251) and takes nothing else until the handler, or   *)
(* the goroutine that copies for it, has read.  A waiting handler does not *)
(* read.                                                                   *)
(*                                                                         *)
(* Abstractions.  A control message or a piece of data is one cell, CLOSE  *)
(* and DESTROY are one.  Circuits are in-order channels (module Circuit)   *)
(* that may be cut without either end knowing; building one either works   *)
(* or fails.  Other cookies are met only in that their parties sweep the   *)
(* map (Passer).  Signatures verify and clocks agree.  A service on the    *)
(* rendezvous node itself is one with a connection of its own.             *)
(***************************************************************************)
EXTENDS Naturals, Sequences, FiniteSets

CONSTANTS
    Client,     \* the client
    N,          \* number of introduction points in the descriptor
    Conns,      \* connections of the rendezvous node
    Paths,      \* by which connections the parties' circuits may come in
    None,       \* nobody
    Budgets     \* bounds: how often the environment may act

Points == 1..N      \* a run of acceptIntroduction for each
Parties == Points \union {Client}
Bounds == {"writes", "answers", "fails", "expiries", "passers", "cuts"}

ASSUME PartiesAssumption == N \in Nat /\ Client \notin Points /\ None \notin Parties
ASSUME PathsAssumption == Paths \subseteq [Parties -> Conns]
ASSUME BudgetsAssumption == Budgets \subseteq [Bounds -> Nat]

VARIABLES
    via,        \* the connection by which a party's circuit comes in
    cl,         \* where openServiceDescriptor is, and then its caller
    tried,      \* how many introduction points the client has asked, in their order
    service,    \* service[a]: a run of acceptIntroduction
    link,       \* link[k]: cells on connection k, to the rendezvous node
    toParty,    \* toParty[p]: cells to party p
    exit,       \* exit[p]: the circuit of p at the rendezvous node
    pipe,       \* pipe[p]: whether the handler's pipe is open
    handler,    \* handler[p]: the goroutine in handleRendezvous
    waiting,    \* the entry for the cookie: a party or None
    overdue,    \* its 90 seconds are over
    partner,    \* partner[p]: who p was paired with
    copying,    \* parties whose data proxyBoth is copying
    closes,     \* closes[p]: how often w.done was closed
    key,        \* the acknowledgement the client has accepted
    cut,        \* parties whose circuit was cut
    untold,     \* parties whose circuit was closed without a CLOSE to them
    late,       \* an entry has expired before both parties came
    budget      \* what is left of the bounds

endVars == <<cl, tried, service, key>>
meetVars == <<handler, waiting, overdue, partner, copying, closes, late>>
rendezvousVars == <<via, endVars, link, toParty, exit, pipe, meetVars, cut, untold, budget>>

-----------------------------------------------------------------------------
Spend(what) ==
    /\ budget[what] > 0
    /\ budget' = [budget EXCEPT ![what] = @ - 1]

Role(p) == IF p = Client THEN "client" ELSE "service"
Cell(p, what) == [from |-> p, what |-> what]

(* Written by party p on its circuit; a cell of a cut circuit is lost.     *)
Sent(p, what) ==
    IF p \in cut THEN link ELSE [link EXCEPT ![via[p]] = Append(@, Cell(p, what))]

(* Passed to party p by the pump of its circuit.                           *)
Up(p, cell) == IF p \in cut THEN toParty ELSE [toParty EXCEPT ![p] = Append(@, cell)]

MeetInit ==
    /\ via \in Paths
    /\ cl = "new" /\ tried = 0 /\ key = None
    /\ service = [a \in Points |-> [pc |-> "none", reading |-> FALSE, target |-> "none"]]
    /\ link = [k \in Conns |-> << >>] /\ toParty = [p \in Parties |-> << >>]
    /\ exit = [p \in Parties |-> "none"] /\ pipe = [p \in Parties |-> FALSE]
    /\ handler = [p \in Parties |-> "none"]
    /\ waiting = None /\ overdue = FALSE
    /\ partner = [p \in Parties |-> None] /\ copying = {}
    /\ closes = [p \in Parties |-> 0]
    /\ cut = {} /\ untold = {} /\ late = FALSE
    /\ budget \in Budgets

(* openInternalEndpoint, for a circuit that gets built: internalService    *)
(* starts a handler behind a pipe.                                         *)
openInternalEndpoint(p) ==
    /\ exit' = [exit EXCEPT ![p] = "open"]
    /\ pipe' = [pipe EXCEPT ![p] = TRUE]
    /\ handler' = [handler EXCEPT ![p] = "hello"]
    /\ UNCHANGED <<waiting, overdue, partner, copying, closes, late>>

-----------------------------------------------------------------------------
(* The client: openServiceDescriptor.                                      *)

(* A failure up to here leaves nothing behind.                             *)
clientHello ==
    /\ cl = "new"
    /\ openInternalEndpoint(Client)
    /\ link' = Sent(Client, "hello")
    /\ cl' = "introducing"
    /\ UNCHANGED <<via, tried, service, key, toParty, cut, untold, budget>>

(* The introduction point has forwarded the request; its answer reaches    *)
(* the client or is lost on the way.                                       *)
introduce(a) ==
    /\ cl = "introducing" /\ a = tried + 1
    /\ tried' = a
    /\ service' = [service EXCEPT ![a].pc = "requested"]
    /\ \/ cl' = "introduced" /\ UNCHANGED budget
       \/ Spend("fails") /\ UNCHANGED cl
    /\ UNCHANGED <<via, key, link, toParty, exit, pipe, meetVars, cut, untold>>

(* The introduction point refuses or is not reached.                       *)
introduceFails(a) ==
    /\ cl = "introducing" /\ a = tried + 1
    /\ Spend("fails")
    /\ tried' = a
    /\ UNCHANGED <<via, cl, service, key, link, toParty, exit, pipe, meetVars, cut, untold>>

(* All points have been tried: the deferred rvConn.Close.                  *)
notIntroduced ==
    /\ cl = "introducing" /\ tried = N
    /\ cl' = "failed"
    /\ link' = Sent(Client, "close")
    /\ UNCHANGED <<via, tried, service, key, toParty, exit, pipe, meetVars, cut, untold, budget>>

(* What the client is waiting for; anything else here is the end.          *)
verifyServiceAck(c) == c.what = "ack"

(* readControl of the service's acknowledgement, which has no deadline.    *)
readServiceAck ==
    /\ cl = "introduced" /\ toParty[Client] # << >>
    /\ toParty' = [toParty EXCEPT ![Client] = Tail(@)]
    /\ LET c == Head(toParty[Client])
       IN IF verifyServiceAck(c)
          THEN cl' = "open" /\ key' = c.from /\ UNCHANGED link
          ELSE cl' = "failed" /\ link' = Sent(Client, "close") /\ UNCHANGED key
    /\ UNCHANGED <<via, tried, service, exit, pipe, meetVars, cut, untold, budget>>

(* The caller of OpenService has a connection.                             *)
clientRead ==
    /\ cl = "open" /\ toParty[Client] # << >>
    /\ toParty' = [toParty EXCEPT ![Client] = Tail(@)]
    /\ cl' = IF Head(toParty[Client]).what = "close" THEN "eof" ELSE cl
    /\ UNCHANGED <<via, tried, service, key, link, exit, pipe, meetVars, cut, untold, budget>>

clientWrite ==
    /\ cl = "open"
    /\ Spend("writes")
    /\ link' = Sent(Client, "data")
    /\ UNCHANGED <<via, endVars, toParty, exit, pipe, meetVars, cut, untold>>

clientClose ==
    /\ cl \in {"open", "eof"}
    /\ cl' = "closed"
    /\ link' = Sent(Client, "close")
    /\ UNCHANGED <<via, tried, service, key, toParty, exit, pipe, meetVars, cut, untold, budget>>

-----------------------------------------------------------------------------
(* The service: acceptIntroduction.                                        *)

acceptIntroduction(a) ==
    /\ service[a].pc = "requested"
    /\ openInternalEndpoint(a)
    /\ link' = Sent(a, "hello")
    /\ service' = [service EXCEPT ![a].pc = "acknowledge"]
    /\ UNCHANGED <<via, cl, tried, key, toParty, cut, untold, budget>>

(* The request is too old, or there is no circuit.                         *)
acceptFails(a) ==
    /\ service[a].pc = "requested"
    /\ Spend("fails")
    /\ service' = [service EXCEPT ![a].pc = "ended"]
    /\ UNCHANGED <<via, cl, tried, key, link, toParty, exit, pipe, meetVars, cut, untold>>

writeServiceAck(a) ==
    /\ service[a].pc = "acknowledge"
    /\ link' = Sent(a, "ack")
    /\ service' = [service EXCEPT ![a].pc = "dial"]
    /\ UNCHANGED <<via, cl, tried, key, toParty, exit, pipe, meetVars, cut, untold, budget>>

(* proxyBoth(secure, target) runs while the circuit is read or the target  *)
(* has not ended.                                                          *)
dialServiceTarget(a) ==
    /\ service[a].pc = "dial"
    /\ \/ /\ service' = [service EXCEPT ![a] =
                            [pc |-> "proxy", reading |-> TRUE, target |-> "up"]]
          /\ UNCHANGED <<link, budget>>
       \/ /\ Spend("fails")
          /\ link' = Sent(a, "close")
          /\ service' = [service EXCEPT ![a].pc = "ended"]
    /\ UNCHANGED <<via, cl, tried, key, toParty, exit, pipe, meetVars, cut, untold>>

targetWrites(a) ==
    /\ service[a].target = "up"
    /\ Spend("answers")
    /\ link' = Sent(a, "data")
    /\ UNCHANGED <<via, endVars, toParty, exit, pipe, meetVars, cut, untold>>

(* The target closes its connection: by itself, or since proxyBoth has     *)
(* closed the other direction (CloseWrite).                                *)
targetEnds(a) ==
    /\ service[a].target = "up"
    /\ \/ ~service[a].reading /\ UNCHANGED budget
       \/ service[a].reading /\ Spend("answers")
    /\ service' = [service EXCEPT ![a].target = "ended"]
    /\ UNCHANGED <<via, cl, tried, key, link, toParty, exit, pipe, meetVars, cut, untold>>

(* The copy to the target ends with the circuit, or when the target no     *)
(* longer takes what is written.                                           *)
serviceRead(a) ==
    /\ service[a].reading /\ toParty[a] # << >>
    /\ toParty' = [toParty EXCEPT ![a] = Tail(@)]
    /\ service' = [service EXCEPT ![a].reading =
                      Head(toParty[a]).what # "close" /\ service[a].target = "up"]
    /\ UNCHANGED <<via, cl, tried, key, link, exit, pipe, meetVars, cut, untold, budget>>

(* proxyBoth returns: the deferred secure.Close and target.Close.          *)
acceptReturns(a) ==
    /\ service[a].pc = "proxy" /\ ~service[a].reading /\ service[a].target = "ended"
    /\ service' = [service EXCEPT ![a].pc = "ended"]
    /\ link' = Sent(a, "close")
    /\ UNCHANGED <<via, cl, tried, key, toParty, exit, pipe, meetVars, cut, untold, budget>>

-----------------------------------------------------------------------------
(* The rendezvous node.                                                    *)

(* Faulty variant: every entry is swept, whatever its age.                 *)
sweepsAll == waiting # None

(* The sweep at the start of handleRendezvous.                             *)
sweeps == waiting # None /\ overdue

(* What handleRendezvous finds for the cookie after the sweep.             *)
first == IF sweeps THEN None ELSE waiting

(* The sweep's effect on the channels and pipes, P being closed as well.   *)
closed(P) ==
    /\ pipe' = [p \in Parties |-> pipe[p] /\ ~(sweeps /\ p = waiting) /\ p \notin P]
    /\ closes' = IF sweeps THEN [closes EXCEPT ![waiting] = @ + 1] ELSE closes

(* Somebody is waited for: the first party.                                *)
waits(p) ==
    /\ first = None
    /\ waiting' = p /\ overdue' = FALSE
    /\ handler' = [handler EXCEPT ![p] = "waiting"]
    /\ closed({})
    /\ UNCHANGED <<partner, copying>>

(* A second party of the same role is turned away.                         *)
turnedAway(p) ==
    /\ first # None /\ Role(first) = Role(p)
    /\ handler' = [handler EXCEPT ![p] = "done"]
    /\ closed({p})
    /\ UNCHANGED <<waiting, overdue, partner, copying>>

(* Faulty variant: the entry stays in the map.                             *)
pairsKept(p) ==
    /\ first # None /\ Role(first) # Role(p)
    /\ UNCHANGED <<waiting, overdue>>
    /\ handler' = [handler EXCEPT ![p] = "proxy"]
    /\ partner' = [partner EXCEPT ![p] = first, ![first] = p]
    /\ copying' = copying \union {p, first}
    /\ closed({})

(* The other party has come: proxyBoth starts.                             *)
pairs(p) ==
    /\ first # None /\ Role(first) # Role(p)
    /\ waiting' = None /\ overdue' = FALSE
    /\ handler' = [handler EXCEPT ![p] = "proxy"]
    /\ partner' = [partner EXCEPT ![p] = first, ![first] = p]
    /\ copying' = copying \union {p, first}
    /\ closed({})

Arrived(k, p) ==
    /\ link[k] # << >> /\ Head(link[k]).from = p
    /\ link' = [link EXCEPT ![k] = Tail(@)]

(* handleRendezvous reads the greeting; the rest is under rvMu.            *)
handleRendezvous(k, p) ==
    /\ Arrived(k, p) /\ Head(link[k]).what = "hello"
    /\ exit[p] = "open" /\ pipe[p] /\ handler[p] = "hello"
    /\ waits(p) \/ turnedAway(p) \/ pairs(p)
    /\ UNCHANGED <<via, endVars, toParty, exit, late, cut, untold, budget>>

(* io.Copy from p to its partner takes what the reader of p's connection   *)
(* has; it ends when the partner's pipe is closed.                         *)
copies(k, p) ==
    /\ Arrived(k, p) /\ Head(link[k]).what # "close"
    /\ exit[p] = "open" /\ pipe[p] /\ p \in copying
    /\ IF pipe[partner[p]]
       THEN toParty' = Up(partner[p], Head(link[k])) /\ UNCHANGED copying
       ELSE copying' = copying \ {p} /\ UNCHANGED toParty
    /\ UNCHANGED <<via, endVars, exit, pipe, handler, waiting, overdue, partner, closes, late,
                   cut, untold, budget>>

(* The pipe is closed: the copy from p reads its end.  Pipes have no       *)
(* CloseWrite, so the partner is not told.                                 *)
copyEnds(p) ==
    /\ p \in copying /\ ~pipe[p]
    /\ copying' = copying \ {p}
    /\ UNCHANGED <<via, endVars, link, toParty, exit, pipe, handler, waiting, overdue, partner,
                   closes, late, cut, untold, budget>>

ProxyOver(p) ==
    /\ handler[p] = "proxy" /\ copying \intersect {p, partner[p]} = {}
    /\ handler' = [handler EXCEPT ![p] = "done"]
    /\ pipe' = [pipe EXCEPT ![p] = FALSE]
    /\ UNCHANGED <<via, endVars, link, toParty, exit, waiting, overdue, partner, copying, late, cut,
                   untold, budget>>

(* Faulty variant: the first party is not released.                        *)
proxyReturnsAlone(p) ==
    /\ ProxyOver(p)
    /\ UNCHANGED closes

(* proxyBoth returns, close(first.done), and the handler's pipe is closed. *)
proxyReturns(p) ==
    /\ ProxyOver(p)
    /\ closes' = [closes EXCEPT ![partner[p]] = @ + 1]

(* A waiting handler wakes up by w.done and its pipe is closed.            *)
waiterReturns(p) ==
    /\ handler[p] = "waiting" /\ closes[p] > 0
    /\ handler' = [handler EXCEPT ![p] = "done"]
    /\ pipe' = [pipe EXCEPT ![p] = FALSE]
    /\ UNCHANGED <<via, endVars, link, toParty, exit, waiting, overdue, partner, copying, closes,
                   late, cut, untold, budget>>

(* The pump behind the pipe sees its end: CLOSE, closeRelayCircuit.        *)
pumpEnds(p) ==
    /\ exit[p] = "open" /\ ~pipe[p]
    /\ exit' = [exit EXCEPT ![p] = "closed"]
    /\ toParty' = Up(p, Cell(p, "close"))
    /\ UNCHANGED <<via, endVars, link, pipe, meetVars, cut, untold, budget>>

(* Or the reader fails to write into the closed pipe before the pump: then *)
(* the circuit is closed and CLOSE is refused (circuit.go:252, 275).       *)
readerFails(k, p) ==
    /\ Arrived(k, p) /\ Head(link[k]).what # "close"
    /\ exit[p] = "open" /\ ~pipe[p]
    /\ exit' = [exit EXCEPT ![p] = "closed"]
    /\ untold' = untold \union {p}
    /\ UNCHANGED <<via, endVars, toParty, pipe, meetVars, cut, budget>>

(* The party's CLOSE, or a cell of a circuit that is gone.                 *)
readerCloses(k, p) ==
    /\ Arrived(k, p)
    /\ Head(link[k]).what = "close" \/ exit[p] # "open"
    /\ exit' = [exit EXCEPT ![p] = "closed"]
    /\ pipe' = [pipe EXCEPT ![p] = FALSE]
    /\ UNCHANGED <<via, endVars, toParty, meetVars, cut, untold, budget>>

-----------------------------------------------------------------------------
(* The environment.                                                        *)

Expire ==
    /\ waiting # None /\ ~overdue
    /\ Spend("expiries")
    /\ overdue' = TRUE /\ late' = TRUE
    /\ UNCHANGED <<via, endVars, link, toParty, exit, pipe, handler, waiting, partner, copying,
                   closes, cut, untold>>

(* A party with another cookie comes to the node, and sweeps.              *)
Passer ==
    /\ Spend("passers")
    /\ waiting' = first /\ overdue' = (overdue /\ ~sweeps)
    /\ closed({})
    /\ UNCHANGED <<via, endVars, link, toParty, exit, handler, partner, copying, late, cut, untold>>

(* A sequence of cells without those of party p, the others in their       *)
(* order: the positions that stay are met in increasing order.             *)
Without(cells, p) ==
    LET keep == {i \in 1..Len(cells) : cells[i].from # p}
        n == Cardinality(keep)
    IN {[j \in 1..n |-> cells[at[j]]] :
           at \in {f \in [1..n -> keep] : \A i, j \in 1..n : i < j => f[i] < f[j]}}

Cut(p) ==
    /\ exit[p] = "open" /\ p \notin cut
    /\ Spend("cuts")
    /\ cut' = cut \union {p}
    /\ toParty' = [toParty EXCEPT ![p] = << >>]
    /\ \E rest \in Without(link[via[p]], p) : link' = [link EXCEPT ![via[p]] = rest]
    /\ UNCHANGED <<via, endVars, exit, pipe, meetVars, untold>>

-----------------------------------------------------------------------------
ClientNext ==
    \/ clientHello \/ notIntroduced \/ readServiceAck
    \/ clientRead \/ clientWrite \/ clientClose
    \/ \E a \in Points : introduce(a) \/ introduceFails(a)

ServiceNext ==
    \E a \in Points :
        \/ acceptIntroduction(a) \/ acceptFails(a) \/ writeServiceAck(a)
        \/ dialServiceTarget(a) \/ targetWrites(a) \/ targetEnds(a)
        \/ serviceRead(a) \/ acceptReturns(a)

Reader(k) ==
    \E p \in Parties :
        handleRendezvous(k, p) \/ copies(k, p) \/ readerFails(k, p) \/ readerCloses(k, p)

NodeNext ==
    \/ \E k \in Conns : Reader(k)
    \/ \E p \in Parties :
        copyEnds(p) \/ proxyReturns(p) \/ waiterReturns(p) \/ pumpEnds(p)

MeetNext ==
    \/ ClientNext \/ ServiceNext \/ NodeNext
    \/ Expire \/ Passer \/ \E p \in Parties : Cut(p)

MeetSpec == MeetInit /\ [][MeetNext]_rendezvousVars

(* The goroutines of the three nodes go on, a client that has a connection *)
(* reads it, and a target whose input has ended closes.  Nothing is        *)
(* assumed of time, of other rendezvous and of the callers' closing.       *)
MeetFairness ==
    /\ WF_rendezvousVars(readServiceAck) /\ WF_rendezvousVars(clientRead) /\ WF_rendezvousVars(notIntroduced)
    /\ \A a \in Points :
        /\ WF_rendezvousVars(acceptIntroduction(a)) /\ WF_rendezvousVars(writeServiceAck(a))
        /\ WF_rendezvousVars(dialServiceTarget(a)) /\ WF_rendezvousVars(serviceRead(a))
        /\ WF_rendezvousVars(acceptReturns(a))
        /\ WF_rendezvousVars(~service[a].reading /\ targetEnds(a))
    /\ \A k \in Conns : WF_rendezvousVars(Reader(k))
    /\ \A p \in Parties :
        /\ WF_rendezvousVars(copyEnds(p)) /\ WF_rendezvousVars(proxyReturns(p))
        /\ WF_rendezvousVars(waiterReturns(p)) /\ WF_rendezvousVars(pumpEnds(p))

MeetFairSpec == MeetSpec /\ MeetFairness

-----------------------------------------------------------------------------
ServiceRun ==
    [pc : {"none", "requested", "acknowledge", "dial", "proxy", "ended"},
     reading : BOOLEAN, target : {"none", "up", "ended"}]

MeetTypeOK ==
    /\ via \in [Parties -> Conns]
    /\ cl \in {"new", "introducing", "introduced", "open", "eof", "failed", "closed"}
    /\ tried \in 0..N
    /\ service \in [Points -> ServiceRun]
    /\ exit \in [Parties -> {"none", "open", "closed"}]
    /\ pipe \in [Parties -> BOOLEAN]
    /\ handler \in [Parties -> {"none", "hello", "waiting", "proxy", "done"}]
    /\ waiting \in Parties \union {None} /\ partner \in [Parties -> Parties \union {None}]
    /\ copying \subseteq Parties /\ untold \subseteq Parties /\ cut \subseteq Parties
    /\ overdue \in BOOLEAN /\ late \in BOOLEAN
    /\ key \in Points \union {None}

(* w.done is closed at most once: closing it again, by the sweep and by    *)
(* the end of proxyBoth (rendezvous.go:264, 283), would end the process.   *)
DoneOnce == \A p \in Parties : closes[p] <= 1

(* A party is paired with one other, of the other role, and then nobody    *)
(* finds it in the map.                                                    *)
Pairing ==
    /\ \A p \in Parties : partner[p] # None =>
        /\ partner[partner[p]] = p /\ Role(partner[p]) # Role(p)
        /\ waiting # p
    /\ waiting # None =>
        /\ handler[waiting] = "waiting" /\ closes[waiting] = 0
        /\ pipe[waiting] \/ exit[waiting] = "closed"

(* The keys of a connection that OpenService has returned are those of the *)
(* run of acceptIntroduction at its other end, whose target is reached     *)
(* unless dialling it failed: never of a second run that came for the same *)
(* request.                                                                *)
SameSession ==
    key # None => partner[Client] = key /\ service[key].pc \notin {"none", "requested"}

(* Two parties meet with each other or with nobody (handleRendezvous),     *)
(* whatever number of times the service comes, and however the end of a    *)
(* wait, the sweep and the other party's arrival fall together.            *)
Meeting == MeetTypeOK /\ DoneOnce /\ Pairing /\ SameSession

(* The reader of connection k holds data of a party that waits: it takes   *)
(* nothing more until the other party comes or the entry is swept.         *)
Jammed(k) ==
    /\ link[k] # << >>
    /\ LET p == Head(link[k]).from
       IN /\ Head(link[k]).what # "close" /\ handler[p] = "waiting" /\ pipe[p]
          /\ exit[p] = "open" /\ p \notin copying

(* What p has sent is stuck behind data of another party, which waits.     *)
Behind(p) ==
    /\ Jammed(via[p]) /\ Head(link[via[p]]).from # p
    /\ \E i \in DOMAIN link[via[p]] : link[via[p]][i].from = p

(* A client that has been told its introduction was forwarded, and whose   *)
(* service came to the rendezvous, gets a connection or an error           *)
(* (openServiceDescriptor reads without a deadline).  It may wait for ever *)
(* only if a circuit was cut, the entry expired before both were there, or *)
(* its greeting, or the acknowledgement of the run it is paired with, is   *)
(* stuck on a connection behind data of a run that waits.                  *)
Meets ==
    (<>[](cl = "introduced" /\ \E a \in Points : service[a].pc \in {"dial", "proxy"}))
        => <>[](cut # {} \/ late \/ Behind(Client)
                \/ (partner[Client] # None /\ Behind(partner[Client])))

(* The node has ended the client's direction and goes on copying for a,    *)
(* which has sent nothing more: neither is told, since pipes cannot be     *)
(* closed in one direction.                                                *)
Mute(a) ==
    a \in copying /\ \A i \in DOMAIN link[via[a]] : link[via[a]][i].from # a

(* Once the client has gone, a run of acceptIntroduction that came for it  *)
(* ends and lets go of the target, as soon as the target writes something  *)
(* (Mute is the case where it does not).  The other exceptions: it waits   *)
(* in the map for a client that was served already or has given up, and no *)
(* rendezvous sweeps it; its circuit was closed without a CLOSE; a circuit *)
(* was cut; the client's CLOSE, or what the run itself has sent, is stuck  *)
(* behind data of a run that waits.                                        *)
Released ==
    \A a \in Points :
        (<>[](cl \in {"failed", "closed"} /\ service[a].pc \notin {"none", "ended"}))
            => <>[](\/ waiting = a \/ a \in untold \/ cut # {}
                   \/ Mute(a) \/ Behind(Client) \/ Behind(a))
=============================================================================
