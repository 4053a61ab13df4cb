------------------------------- MODULE Directory -------------------------------
(***************************************************************************)
(* Publication and lookup of a service descriptor: the publisher loop and  *)
(* the way it is woken, revisions that survive restarts, the replicas, and *)
(* a client that looks the descriptor up, tries it and looks again         *)
(* (internal/overlay/directory.go, OpenService in rendezvous.go).          *)
(*                                                                         *)
(* The service's node runs one directoryLoop and one goroutine per         *)
(* introduction point, which changes introSessions under its lock and      *)
(* calls wakeDirectoryPublisher afterwards.  wake is a channel of capacity *)
(* one that drops what does not fit.  Packets are lost or reordered; a PUT *)
(* may also arrive more than once, since it is sent anew after a write that*)
(* failed (sendPacketWithRetry); what relays see twice they drop.  A       *)
(* request has a random ID: what is on the way for an earlier one finds no *)
(* channel, changes nothing and is left out.  A node's table of descriptors*)
(* is at once what it answers as a replica and its cache as a client.      *)
(*                                                                         *)
(* Abstractions.  One service.  A descriptor is its revision and its       *)
(* introduction points; signatures verify.  Time is the ghost expired:     *)
(* descriptors up to that revision are past their expiry.  The clock value *)
(* that the first revision starts from is 0.                               *)
(***************************************************************************)
EXTENDS Naturals, Sequences, FiniteSets, FiniteSetsExt

CONSTANTS
    Points,        \* introduction points
    Replicas,      \* the nodes closest to the service's identity
    Server,        \* the service's node; may be a replica
    Client,        \* the node that looks the service up; may be a replica
    None,          \* no descriptor, no revision file
    MaxRevision,   \* bound: the highest revision
    Budgets        \* bounds: how often the environment may act; from "revisions"
                   \* on the revision file cannot be saved

Bounds == {"changes", "restarts", "expiries", "lookups", "puts", "churn", "failures",
           "revisions"}
Nodes == Replicas \cup {Server, Client}
Descriptor == [revision : 1..MaxRevision, points : (SUBSET Points) \ {{}}]

ASSUME NoneAssumption == None \notin Descriptor /\ None \notin Nat
ASSUME ClientAssumption == Client # Server
ASSUME ReplicasAssumption == IsFiniteSet(Replicas)
ASSUME MaxRevisionAssumption == MaxRevision \in Nat
ASSUME BudgetsAssumption ==
    \A b \in Budgets : b \in [Bounds -> Nat] /\ b["revisions"] <= MaxRevision

VARIABLES
    intros,     \* keys of introSessions
    waking,     \* points whose goroutine has changed introSessions, not woken yet
    wake,       \* the channel holds a signal
    timer,      \* "off": wakeC is nil; "running"; "ready"
    publisher,  \* directoryLoop: where it is and the descriptor it works on
    revision,   \* the service's counter
    file,       \* what the revision file holds
    unsaved,    \* the last attempt failed on the revision file
    issued,     \* ghost: descriptors in the order they were published
    puts,       \* <<node, descriptor>> that were sent
    held,       \* held[n]: n.directory.descriptors
    expired,    \* ghost, see above
    open,       \* OpenService at the client
    gets,       \* nodes to which the pending request is on the way
    replies,    \* <<node, descriptor>>: answers to it on the way
    budget      \* what is left of the bounds

wakeVars == <<intros, waking, wake, timer>>
publishVars == <<publisher, revision, file, unsaved, issued>>
lookupVars == <<open, gets, replies>>
vars == <<intros, waking, wake, timer, publisher, revision, file, unsaved, issued,
          puts, held, expired, open, gets, replies, budget>>

-----------------------------------------------------------------------------
Spend(what) ==
    /\ budget[what] > 0
    /\ budget' = [budget EXCEPT ![what] = @ - 1]

Idle == [pc |-> "select", points |-> {}, revision |-> 0]

(* directoryLoop publishes once before its first select.                   *)
Starting == [pc |-> "read", points |-> {}, revision |-> 0]

(* A call of OpenService at its attempt a, with nothing asked or found.    *)
Call(pc, a) == [pc |-> pc, attempt |-> a, asked |-> {}, answered |-> {},
                best |-> None, floor |-> 0]

Init ==
    /\ intros = {} /\ waking = {} /\ wake = FALSE /\ timer = "off"
    /\ publisher = Starting
    /\ revision = 0 /\ file = None /\ unsaved = FALSE
    /\ issued = << >>
    /\ puts = {}
    /\ held = [n \in Nodes |-> None]
    /\ expired = 0
    /\ open = Call("idle", 0)
    /\ gets = {} /\ replies = {}
    /\ budget \in Budgets

-----------------------------------------------------------------------------
(* maintainIntro adds or removes its session.                              *)
sessionChanges(p) ==
    /\ p \notin waking
    /\ Spend("changes")
    /\ intros' = IF p \in intros THEN intros \ {p} ELSE intros \cup {p}
    /\ waking' = waking \cup {p}
    /\ UNCHANGED <<wake, timer, publishVars, puts, held, expired, lookupVars>>

(* Faulty variant: the publisher is woken by the first session only.       *)
wakeDirectoryPublisherOnce(p) ==
    /\ p \in waking
    /\ waking' = waking \ {p}
    /\ wake' = (wake \/ issued = << >>)
    /\ UNCHANGED <<intros, timer, publishVars, puts, held, expired, lookupVars, budget>>

(* The same goroutine, afterwards.                                         *)
wakeDirectoryPublisher(p) ==
    /\ p \in waking
    /\ waking' = waking \ {p}
    /\ wake' = TRUE
    /\ UNCHANGED <<intros, timer, publishVars, puts, held, expired, lookupVars, budget>>

(* Advertisements and peers that come and go wake it too, without bound    *)
(* where there is churn at all.                                            *)
topologyChanges ==
    /\ budget["churn"] > 0
    /\ ~wake
    /\ wake' = TRUE
    /\ UNCHANGED <<intros, waking, timer, publishVars, puts, held, expired,
                   lookupVars, budget>>

(* Faulty variant: every signal starts the delay again.                    *)
takeWakeRestarting ==
    /\ publisher.pc = "select"
    /\ wake
    /\ wake' = FALSE
    /\ timer' = "running"
    /\ UNCHANGED <<intros, waking, publishVars, puts, held, expired, lookupVars, budget>>

(* directoryLoop: the first signal starts the delay, others join it.       *)
takeWake ==
    /\ publisher.pc = "select"
    /\ wake
    /\ wake' = FALSE
    /\ timer' = IF timer = "off" THEN "running" ELSE timer
    /\ UNCHANGED <<intros, waking, publishVars, puts, held, expired, lookupVars, budget>>

timerElapses ==
    /\ timer = "running"
    /\ timer' = "ready"
    /\ UNCHANGED <<intros, waking, wake, publishVars, puts, held, expired, lookupVars, budget>>

timerFires ==
    /\ publisher.pc = "select"
    /\ timer = "ready"
    /\ timer' = "off"
    /\ publisher' = Starting
    /\ UNCHANGED <<intros, waking, wake, revision, file, unsaved, issued, puts, held,
                   expired, lookupVars, budget>>

(* The periodic publication.                                               *)
tick ==
    /\ publisher.pc = "select"
    /\ publisher' = Starting
    /\ UNCHANGED <<wakeVars, revision, file, unsaved, issued, puts, held, expired,
                   lookupVars, budget>>

(* publishDescriptor, activeIntros: without one nothing is published.      *)
activeIntros ==
    /\ publisher.pc = "read"
    /\ publisher' = IF intros = {} THEN Idle
                    ELSE [publisher EXCEPT !.pc = "number", !.points = intros]
    /\ UNCHANGED <<wakeVars, revision, file, unsaved, issued, puts, held, expired,
                   lookupVars, budget>>

(* Faulty variant: the descriptor goes out although the file is not saved. *)
nextDescriptorRevisionUnchecked ==
    /\ publisher.pc = "number"
    /\ revision < budget["revisions"]
    /\ revision' = revision + 1
    /\ file' \in {file, revision + 1}
    /\ unsaved' = FALSE
    /\ publisher' = [publisher EXCEPT !.pc = "send", !.revision = revision + 1]
    /\ UNCHANGED <<wakeVars, issued, puts, held, expired, lookupVars, budget>>

(* The number is drawn and saved; if it cannot be saved, nothing goes out  *)
(* and the number is not used again.                                       *)
nextDescriptorRevision ==
    /\ publisher.pc = "number"
    /\ \/ /\ revision < budget["revisions"]
          /\ revision' = revision + 1
          /\ file' = revision + 1
          /\ unsaved' = FALSE
          /\ publisher' = [publisher EXCEPT !.pc = "send", !.revision = revision + 1]
          /\ UNCHANGED budget
       \/ /\ IF revision < budget["revisions"]
             THEN revision' = revision + 1 /\ Spend("failures")
             ELSE UNCHANGED <<revision, budget>>
          /\ unsaved' = TRUE
          /\ publisher' = Idle
          /\ UNCHANGED file
    /\ UNCHANGED <<wakeVars, issued, puts, held, expired, lookupVars>>

(* The table of node n after storeDescriptor(d).                           *)
Stored(n, d) ==
    IF d.revision > expired /\ (held[n] = None \/ held[n].revision < d.revision)
    THEN [held EXCEPT ![n] = d] ELSE held

(* The descriptor is made, stored and sent; some replicas may be out of reach for  *)
(* the three seconds each is given.                                        *)
sendDescriptor ==
    /\ publisher.pc = "send"
    /\ LET d == [revision |-> publisher.revision, points |-> publisher.points]
       IN /\ issued' = Append(issued, d)
          /\ \E reached \in SUBSET (Replicas \ {Server}) :
               /\ Cardinality(reached) <= budget["puts"]
               /\ puts' = puts \cup {<<n, d>> : n \in reached}
               /\ budget' = [budget EXCEPT !["puts"] = @ - Cardinality(reached)]
          /\ held' = Stored(Server, d)
    /\ publisher' = Idle
    /\ UNCHANGED <<wakeVars, revision, file, unsaved, expired, lookupVars>>

(* loadDescriptorRevision.                                                 *)
Loaded == IF file = None THEN 0 ELSE file

(* The service's node ends at any point and is started again.              *)
Restart ==
    /\ Spend("restarts")
    /\ intros' = {} /\ waking' = {} /\ wake' = FALSE /\ timer' = "off"
    /\ publisher' = Starting
    /\ revision' = Loaded
    /\ unsaved' = FALSE
    /\ held' = [held EXCEPT ![Server] = None]
    /\ open' = [open EXCEPT !.floor = 0]
    /\ UNCHANGED <<file, issued, puts, expired, gets, replies>>

-----------------------------------------------------------------------------
(* handleDirectoryPacket, a descriptor arrives; it may arrive once more.   *)
handlePut(n, d) ==
    /\ held' = Stored(n, d)
    /\ UNCHANGED <<wakeVars, publishVars, puts, expired, lookupVars, budget>>

cleanDescriptors(n) ==
    /\ held[n] # None /\ held[n].revision <= expired
    /\ held' = [held EXCEPT ![n] = None]
    /\ UNCHANGED <<wakeVars, publishVars, puts, expired, lookupVars, budget>>

(* handleDirectoryPacket, a request arrives: the table as it is.           *)
handleGet(n) ==
    /\ n \in gets
    /\ gets' = gets \ {n}
    /\ replies' = replies \cup {<<n, held[n]>>}
    /\ UNCHANGED <<wakeVars, publishVars, puts, held, expired, open, budget>>

Expire ==
    /\ issued # << >>
    /\ \E r \in (expired + 1)..issued[Len(issued)].revision : expired' = r
    /\ Spend("expiries")
    /\ UNCHANGED <<wakeVars, publishVars, puts, held, lookupVars>>

-----------------------------------------------------------------------------
(* OpenService at the client.                                              *)

Cached == held[Client] # None /\ held[Client].revision > expired

(* Another attempt follows, or the call fails.                             *)
Retried == Call(IF open.attempt = 0 THEN "idle" ELSE "failed", open.attempt + 1)

(* The highest revision that one of the asked nodes holds.                 *)
Highest(asked) ==
    Max({0} \cup {held[n].revision : n \in {m \in asked : held[m] # None}})

(* The cache answers; only the first attempt looks at it.                  *)
lookupCached ==
    /\ open.pc = "idle" /\ open.attempt = 0
    /\ Cached
    /\ Spend("lookups")
    /\ open' = [open EXCEPT !.pc = "found", !.best = held[Client]]
    /\ UNCHANGED <<wakeVars, publishVars, puts, held, expired, gets, replies>>

(* Requests go to the replicas that can be reached; there may be none.     *)
lookupAsks ==
    /\ open.pc = "idle"
    /\ ~(open.attempt = 0 /\ Cached)
    /\ IF open.attempt = 0 THEN Spend("lookups") ELSE UNCHANGED budget
    /\ \E asked \in SUBSET (Replicas \ {Client}) :
         /\ gets' = asked
         /\ open' = IF asked = {} THEN Retried
                    ELSE [open EXCEPT !.pc = "asking", !.asked = asked, !.answered = {},
                                      !.best = None, !.floor = Highest(asked)]
    /\ UNCHANGED <<wakeVars, publishVars, puts, held, expired, replies>>

(* returnBest: what was found is stored at the client and returned.  The   *)
(* request's channel is removed.                                           *)
Returning(answered, best) ==
    /\ IF best = None
       THEN open' = Retried /\ UNCHANGED held
       ELSE /\ open' = [open EXCEPT !.pc = "found", !.answered = answered, !.best = best]
            /\ held' = Stored(Client, best)
    /\ gets' = {} /\ replies' = {}

(* Faulty variant: the last answer counts.                                 *)
BetterLast(d) == IF d # None /\ d.revision > expired THEN d ELSE open.best

(* The best of what has been found and the answer d.                       *)
Better(d) ==
    IF /\ d # None
       /\ d.revision > expired
       /\ open.best = None \/ d.revision > open.best.revision
    THEN d ELSE open.best

(* An answer to the pending request arrives.                               *)
receive(n, d) ==
    /\ open.pc = "asking"
    /\ LET answered == open.answered \cup {n}
       IN IF answered = open.asked THEN Returning(answered, Better(d))
          ELSE /\ open' = [open EXCEPT !.answered = answered, !.best = Better(d)]
               /\ replies' = replies \ {<<n, d>>}
               /\ UNCHANGED <<held, gets>>
    /\ UNCHANGED <<wakeVars, publishVars, puts, expired, budget>>

(* The settling time after the first find, or the timeout, is over; or the *)
(* caller's context ends and what was found is dropped.                    *)
lookupTimeout ==
    /\ open.pc = "asking"
    /\ \E best \in {open.best, None} : Returning(open.answered, best)
    /\ UNCHANGED <<wakeVars, publishVars, puts, expired, budget>>

(* The descriptor serves, or it does not and leaves the client's table.    *)
openServiceDescriptor ==
    /\ open.pc = "found"
    /\ \/ open' = Call("open", open.attempt) /\ UNCHANGED held
       \/ open' = Retried /\ held' = [held EXCEPT ![Client] = None]
    /\ UNCHANGED <<wakeVars, publishVars, puts, expired, gets, replies, budget>>

-----------------------------------------------------------------------------
Publish == activeIntros \/ nextDescriptorRevision \/ sendDescriptor

Lookup ==
    \/ lookupCached \/ lookupAsks \/ lookupTimeout \/ openServiceDescriptor
    \/ \E r \in replies : receive(r[1], r[2])

Next ==
    \/ \E p \in Points : sessionChanges(p) \/ wakeDirectoryPublisher(p)
    \/ topologyChanges \/ takeWake \/ timerElapses \/ timerFires \/ tick
    \/ Publish
    \/ Restart
    \/ \E n \in Nodes : cleanDescriptors(n)
    \/ \E p \in puts : handlePut(p[1], p[2])
    \/ \E n \in Nodes : handleGet(n)
    \/ Expire
    \/ Lookup

Spec == Init /\ [][Next]_vars

(* The loop runs, timers elapse, and a case of the select that stays ready *)
(* is chosen in the end (select chooses among the ready cases at random).  *)
Fairness ==
    /\ WF_vars(takeWake)
    /\ WF_vars(timerElapses)
    /\ WF_vars(timerFires)
    /\ WF_vars(Publish)
    /\ \A p \in Points : WF_vars(wakeDirectoryPublisher(p))

FairSpec == Spec /\ Fairness

-----------------------------------------------------------------------------
TypeOK ==
    /\ intros \subseteq Points /\ waking \subseteq Points
    /\ wake \in BOOLEAN /\ timer \in {"off", "running", "ready"}
    /\ publisher \in [pc : {"select", "read", "number", "send"},
                      points : SUBSET Points, revision : 0..MaxRevision]
    /\ revision \in 0..MaxRevision
    /\ file \in (1..MaxRevision) \cup {None}
    /\ unsaved \in BOOLEAN
    /\ issued \in Seq(Descriptor)
    /\ puts \subseteq Nodes \X Descriptor
    /\ held \in [Nodes -> Descriptor \cup {None}]
    /\ expired \in 0..MaxRevision
    /\ open \in [pc : {"idle", "asking", "found", "open", "failed"}, attempt : 0..2,
                 asked : SUBSET Replicas, answered : SUBSET Replicas,
                 best : Descriptor \cup {None}, floor : 0..MaxRevision]
    /\ gets \subseteq Nodes
    /\ replies \subseteq Nodes \X (Descriptor \cup {None})
    /\ budget \in [Bounds -> Nat]

-----------------------------------------------------------------------------
(* Descriptors go out with ever higher revisions, whatever was lost by a   *)
(* restart or a revision file that could not be saved (directory.go:88-149,*)
(* "keeps revisions monotonic across later restarts"): replicas drop what  *)
(* is no higher than what they hold.                                       *)
RevisionsIncrease ==
    \A i, j \in 1..Len(issued) : i < j => issued[i].revision < issued[j].revision

(* A change of the introduction points is never left unpublished           *)
(* (directory.go:161-210): when the loop is in its select with no signal,  *)
(* no delay running and no goroutine about to wake it, the last descriptor *)
(* names the current points, unless there are none or the last attempt     *)
(* failed on the revision file.                                            *)
NoLostWakeup ==
    (/\ publisher.pc = "select"
     /\ ~wake /\ timer = "off" /\ waking = {})
    => \/ intros = {}
       \/ unsaved
       \/ issued # << >> /\ issued[Len(issued)].points = intros

(* A lookup that has heard all the replicas it asked returns a descriptor  *)
(* at least as new as any that one of them held when it asked and that is  *)
(* still valid, unless the service's node restarted meanwhile              *)
(* (directory.go:332-408; docs/protocol.md:243, "Higher revisions          *)
(* supersede lower revisions"), with packets reordered and descriptors     *)
(* published meanwhile.                                                    *)
LookupNewest ==
    /\ TypeOK
    /\ (/\ open.pc = "found"
        /\ open.asked # {} /\ open.answered = open.asked
        /\ open.floor > expired)
       => open.best.revision >= open.floor

(* directory.go:182-184: "frequent LSAs must not postpone publication      *)
(* forever".  Once the delay runs a publication starts, however many       *)
(* signals arrive.                                                         *)
ChurnPublishes == (timer # "off") ~> (publisher.pc = "read")
================================================================================
