----------------------------- MODULE Introduction -----------------------------
(***************************************************************************)
(* One published service and one of its introduction points: how the       *)
(* service keeps a registration there, how the registration is replaced,   *)
(* expires and ends, and how a client's introduction is forwarded over it  *)
(* (internal/overlay/rendezvous.go).                                       *)
(*                                                                         *)
(* At the service's node one goroutine, maintainIntro, opens one circuit   *)
(* after the other.  At the introduction point each circuit has a handler, *)
(* handleIntroRegister, and each client one, handleIntroduce; they share   *)
(* the map of registrations.  Registrations of different services do not   *)
(* meet, nor do the sessions of one service at different points.           *)
(*                                                                         *)
(* Abstractions.  A circuit is two in-order channels that end with "eof"   *)
(* when the other side closes.  It can also be cut: no node on the path    *)
(* tells the ends (circuit.go, node.go:423), what is written afterwards is *)
(* lost or blocks the writer for good, as the pump between the handler's   *)
(* pipe and the circuit has returned (circuit.go:401-406).  Circuits are   *)
(* numbered in the order they are opened.  Signatures verify.              *)
(***************************************************************************)
EXTENDS Naturals, Sequences, FiniteSets

CONSTANTS
    MaxCircuits,   \* bound: circuits opened in a behaviour
    Requests,      \* clients' introductions
    NoCircuit,     \* no circuit
    IntroBudgets   \* bounds: how often the environment may act

IntroBounds == {"cuts", "stops", "expiries"}
Circuits == 1..MaxCircuits

ASSUME MaxCircuitsAssumption == MaxCircuits \in Nat
ASSUME NoCircuitAssumption == NoCircuit \notin Nat
ASSUME RequestsAssumption == "ack" \notin Requests /\ "nack" \notin Requests /\ "eof" \notin Requests
ASSUME IntroBudgetsAssumption == IntroBudgets \subseteq [IntroBounds -> Nat]

VARIABLES
    opened,         \* how many circuits have been opened
    current,        \* the circuit maintainIntro is working with
    session,        \* introSessions[dst]: what the service publishes
    toService,      \* toService[c]: written by the introduction point, not read
    toPoint,        \* toPoint[c]: written by the service, not read
    cutOff,         \* circuits that are dead without an end knowing
    registrar,      \* registrar[c]: handleIntroRegister
    shut,           \* circuits whose pipe at the introduction point is closed
    registration,   \* registrations[service]
    displaced,      \* displaced[c]: old, which the handler of c has yet to close
    outdated,       \* circuits whose registration is past its expiry
    intro,          \* intro[r]: handleIntroduce
    accepted,       \* requests that reached acceptIntroduction
    published,      \* ghost: a descriptor that names the point has been out
    left            \* what is left of the bounds

serviceVars == <<opened, current, session, published>>
pointVars == <<registrar, shut, registration, displaced>>
introVars == <<opened, current, session, toService, toPoint, cutOff, registrar, shut,
               registration, displaced, outdated, intro, accepted, published, left>>

-----------------------------------------------------------------------------
IntroSpend(what) ==
    /\ left[what] > 0
    /\ left' = [left EXCEPT ![what] = @ - 1]

(* The channel to the service after a write, lost if the circuit is cut.   *)
Written(c, m) ==
    IF c \in cutOff THEN toService ELSE [toService EXCEPT ![c] = Append(@, m)]

IntroInit ==
    /\ opened = 0
    /\ current = NoCircuit
    /\ session = NoCircuit
    /\ toService = [c \in Circuits |-> << >>]
    /\ toPoint = [c \in Circuits |-> << >>]
    /\ cutOff = {}
    /\ registrar = [c \in Circuits |-> "none"]
    /\ shut = {}
    /\ registration = NoCircuit
    /\ displaced = [c \in Circuits |-> NoCircuit]
    /\ outdated = {}
    /\ intro = [r \in Requests |-> [pc |-> "new", on |-> NoCircuit, early |-> FALSE]]
    /\ accepted = {}
    /\ published = FALSE
    /\ left \in IntroBudgets

-----------------------------------------------------------------------------
(* The service: maintainIntro.                                             *)

(* OpenCircuitStream succeeds and the registration is written.             *)
openCircuit ==
    /\ current = NoCircuit
    /\ opened < MaxCircuits
    /\ opened' = opened + 1
    /\ current' = opened + 1
    /\ toPoint' = [toPoint EXCEPT ![opened + 1] = <<"register">>]
    /\ registrar' = [registrar EXCEPT ![opened + 1] = "reading"]
    /\ UNCHANGED <<session, published, toService, cutOff, shut, registration, displaced,
                   outdated, intro, accepted, left>>

(* The acknowledgement is read: the session exists, the publisher is woken *)
(* and the descriptor names the introduction point.                        *)
readAck ==
    /\ current # NoCircuit /\ session = NoCircuit
    /\ toService[current] # << >> /\ Head(toService[current]) = "ack"
    /\ session' = current
    /\ published' = TRUE
    /\ toService' = [toService EXCEPT ![current] = Tail(@)]
    /\ UNCHANGED <<opened, current, toPoint, cutOff, pointVars, outdated, intro,
                   accepted, left>>

(* What the circuit carries to the other end when the service closes it.   *)
Closed(c) == IF c \in cutOff THEN toPoint ELSE [toPoint EXCEPT ![c] = Append(@, "eof")]

(* Faulty variant: maintainIntro goes on waiting.                          *)
readAckFailsIgnored ==
    /\ current # NoCircuit /\ session = NoCircuit
    /\ toService[current] # << >> /\ Head(toService[current]) # "ack"
    /\ toService' = [toService EXCEPT ![current] = Tail(@)]
    /\ UNCHANGED <<serviceVars, toPoint, cutOff, pointVars, outdated, intro, accepted, left>>

(* Anything else in its place is an error, an introduction too: the        *)
(* circuit is closed and another one opened after the backoff.             *)
readAckFails ==
    /\ current # NoCircuit /\ session = NoCircuit
    /\ toService[current] # << >> /\ Head(toService[current]) # "ack"
    /\ current' = NoCircuit
    /\ toService' = [toService EXCEPT ![current] = << >>]
    /\ toPoint' = Closed(current)
    /\ UNCHANGED <<opened, session, published, cutOff, pointVars, outdated, intro, accepted,
                   left>>

(* readIntroductions hands a request over.                                 *)
readIntroduction ==
    /\ session # NoCircuit
    /\ toService[session] # << >> /\ Head(toService[session]) \in Requests
    /\ accepted' = accepted \cup {Head(toService[session])}
    /\ toService' = [toService EXCEPT ![session] = Tail(@)]
    /\ UNCHANGED <<serviceVars, toPoint, cutOff, pointVars, outdated, intro, left>>

(* readIntroductions returns: the session goes, the publisher is woken.    *)
sessionEnds ==
    /\ session # NoCircuit
    /\ toService[session] # << >> /\ Head(toService[session]) \notin Requests
    /\ session' = NoCircuit
    /\ current' = NoCircuit
    /\ toService' = [toService EXCEPT ![session] = << >>]
    /\ toPoint' = Closed(session)
    /\ UNCHANGED <<opened, published, cutOff, pointVars, outdated, intro, accepted, left>>

(* The node of the service stops and is started again.  Stop destroys its  *)
(* circuits, a crash does not; what was on its way may be lost.            *)
RestartService ==
    /\ current # NoCircuit
    /\ IntroSpend("stops")
    /\ current' = NoCircuit
    /\ session' = NoCircuit
    /\ toService' = [toService EXCEPT ![current] = << >>]
    /\ cutOff' = cutOff \cup {current}
    /\ toPoint' \in {toPoint, Closed(current), [toPoint EXCEPT ![current] = << >>]}
    /\ UNCHANGED <<opened, published, pointVars, outdated, intro, accepted>>

-----------------------------------------------------------------------------
(* The introduction point: handleIntroRegister.                            *)

(* The registration enters the map.  The one it replaces is closed only    *)
(* after the map has been unlocked.                                        *)
register(c) ==
    /\ registrar[c] = "reading"
    /\ toPoint[c] # << >> /\ Head(toPoint[c]) = "register"
    /\ c \notin outdated
    /\ toPoint' = [toPoint EXCEPT ![c] = Tail(@)]
    /\ registrar' = [registrar EXCEPT ![c] = "registered"]
    /\ displaced' = [displaced EXCEPT ![c] = registration]
    /\ registration' = c
    /\ UNCHANGED <<serviceVars, toService, cutOff, shut, outdated, intro, accepted, left>>

(* old.conn.Close: the service reads the end of that circuit.              *)
closeDisplaced(c) ==
    /\ displaced[c] # NoCircuit
    /\ displaced' = [displaced EXCEPT ![c] = NoCircuit]
    /\ shut' = shut \cup {displaced[c]}
    /\ toService' = Written(displaced[c], "eof")
    /\ UNCHANGED <<serviceVars, toPoint, cutOff, registrar, registration, outdated, intro,
                   accepted, left>>

(* verifyIntroRegistration refuses a message that has expired on its way.  *)
refuse(c) ==
    /\ registrar[c] = "reading"
    /\ toPoint[c] # << >> /\ Head(toPoint[c]) = "register"
    /\ c \in outdated
    /\ toPoint' = [toPoint EXCEPT ![c] = Tail(@)]
    /\ registrar' = [registrar EXCEPT ![c] = "done"]
    /\ shut' = shut \cup {c}
    /\ toService' = Written(c, "nack")
    /\ UNCHANGED <<serviceVars, cutOff, registration, displaced, outdated, intro, accepted,
                   left>>

(* The end of circuit c has arrived at the introduction point: the relay   *)
(* circuit is closed, and the handler's pipe with it.                      *)
endArrives(c) ==
    /\ c \notin shut
    /\ toPoint[c] # << >> /\ Head(toPoint[c]) = "eof"
    /\ shut' = shut \cup {c}
    /\ UNCHANGED <<serviceVars, toService, toPoint, cutOff, registrar, registration,
                   displaced, outdated, intro, accepted, left>>

(* The acknowledgement is written.                                         *)
writeAck(c) ==
    /\ registrar[c] = "registered" /\ displaced[c] = NoCircuit
    /\ c \notin shut
    /\ toService' = Written(c, "ack")
    /\ registrar' = [registrar EXCEPT ![c] = "waiting"]
    /\ UNCHANGED <<serviceVars, toPoint, cutOff, shut, registration, displaced, outdated,
                   intro, accepted, left>>

(* It cannot be written: the handler returns at once, the registration     *)
(* stays in the map.                                                       *)
writeAckFails(c) ==
    /\ registrar[c] = "registered" /\ displaced[c] = NoCircuit
    /\ c \in shut
    /\ registrar' = [registrar EXCEPT ![c] = "done"]
    /\ UNCHANGED <<serviceVars, toService, toPoint, cutOff, shut, registration, displaced,
                   outdated, intro, accepted, left>>

(* On a cut circuit the write may block for good.                          *)
writeAckBlocks(c) ==
    /\ registrar[c] = "registered" /\ displaced[c] = NoCircuit
    /\ c \in cutOff \ shut
    /\ registrar' = [registrar EXCEPT ![c] = "blocked"]
    /\ UNCHANGED <<serviceVars, toService, toPoint, cutOff, shut, registration, displaced,
                   outdated, intro, accepted, left>>

(* Faulty variant: the map entry is deleted without comparing it.          *)
AfterEndAlways(c) == NoCircuit

(* What is left in the map when the handler of c ends.                     *)
AfterEnd(c) == IF registration = c THEN NoCircuit ELSE registration

(* The handler's read returns: its pipe is closed.                         *)
handlerEnds(c) ==
    /\ registrar[c] = "waiting"
    /\ c \in shut
    /\ registration' = AfterEnd(c)
    /\ registrar' = [registrar EXCEPT ![c] = "done"]
    /\ UNCHANGED <<serviceVars, toService, toPoint, cutOff, shut, displaced, outdated, intro,
                   accepted, left>>

(* The write that was blocked fails.                                       *)
writeAckReleased(c) ==
    /\ registrar[c] = "blocked"
    /\ c \in shut
    /\ registrar' = [registrar EXCEPT ![c] = "done"]
    /\ UNCHANGED <<serviceVars, toService, toPoint, cutOff, shut, registration, displaced,
                   outdated, intro, accepted, left>>

-----------------------------------------------------------------------------
(* The introduction point: handleIntroduce.                                *)

(* A client that has a descriptor asks.  The look at the map; an expired   *)
(* registration is deleted, its circuit is not closed.                     *)
lookup(r) ==
    /\ intro[r].pc = "new"
    /\ published
    /\ IF registration = NoCircuit \/ registration \in outdated
       THEN /\ registration' = NoCircuit
            /\ intro' = [intro EXCEPT ![r].pc = "refused"]
       ELSE /\ intro' = [intro EXCEPT ![r] =
                  [pc |-> "forward", on |-> registration, early |-> FALSE]]
            /\ UNCHANGED registration
    /\ UNCHANGED <<serviceVars, toService, toPoint, cutOff, registrar, shut, displaced,
                   outdated, accepted, left>>

(* reg.mu is free.                                                         *)
Unlocked(c) == \A r \in Requests : ~(intro[r].pc = "blocked" /\ intro[r].on = c)

(* Faulty variant: a failed write is acknowledged to the client.           *)
forwardUnchecked(r) ==
    /\ intro[r].pc = "forward"
    /\ Unlocked(intro[r].on)
    /\ toService' = IF intro[r].on \in shut THEN toService ELSE Written(intro[r].on, r)
    /\ intro' = [intro EXCEPT ![r].pc = "acknowledged"]
    /\ UNCHANGED <<serviceVars, toPoint, cutOff, pointVars, outdated, accepted, left>>

(* The request is written on the registration's circuit and acknowledged   *)
(* to the client, or the pipe is closed and the client gets an error.      *)
(* early is a ghost: the handler has not written its acknowledgement yet.  *)
forward(r) ==
    /\ intro[r].pc = "forward"
    /\ Unlocked(intro[r].on)
    /\ IF intro[r].on \in shut
       THEN intro' = [intro EXCEPT ![r].pc = "unavailable"] /\ UNCHANGED toService
       ELSE /\ intro' = [intro EXCEPT ![r] =
                  [pc |-> "acknowledged", on |-> @.on, early |-> registrar[@.on] = "registered"]]
            /\ toService' = Written(intro[r].on, r)
    /\ UNCHANGED <<serviceVars, toPoint, cutOff, pointVars, outdated, accepted, left>>

(* On a cut circuit the write may block, with reg.mu held.                 *)
forwardBlocks(r) ==
    /\ intro[r].pc = "forward"
    /\ Unlocked(intro[r].on)
    /\ intro[r].on \in cutOff \ shut
    /\ intro' = [intro EXCEPT ![r].pc = "blocked"]
    /\ UNCHANGED <<serviceVars, toService, toPoint, cutOff, pointVars, outdated, accepted, left>>

(* Until the pipe is closed.                                               *)
forwardReleased(r) ==
    /\ intro[r].pc = "blocked"
    /\ intro[r].on \in shut
    /\ intro' = [intro EXCEPT ![r].pc = "unavailable"]
    /\ UNCHANGED <<serviceVars, toService, toPoint, cutOff, pointVars, outdated, accepted, left>>

-----------------------------------------------------------------------------
(* The environment.                                                        *)

CutCircuit(c) ==
    /\ c <= opened
    /\ c \notin cutOff
    /\ IntroSpend("cuts")
    /\ cutOff' = cutOff \cup {c}
    /\ toPoint' \in {toPoint, [toPoint EXCEPT ![c] = << >>]}
    /\ toService' \in {toService, [toService EXCEPT ![c] = << >>]}
    /\ UNCHANGED <<serviceVars, pointVars, outdated, intro, accepted>>

(* Five minutes after the registration of c was made.                      *)
ExpireRegistration(c) ==
    /\ c <= opened
    /\ c \notin outdated
    /\ IntroSpend("expiries")
    /\ outdated' = outdated \cup {c}
    /\ UNCHANGED <<serviceVars, toService, toPoint, cutOff, pointVars, intro, accepted>>

Service == openCircuit \/ readAck \/ readAckFails \/ readIntroduction \/ sessionEnds

Handler(c) ==
    \/ register(c) \/ closeDisplaced(c) \/ refuse(c) \/ endArrives(c)
    \/ writeAck(c) \/ writeAckFails(c) \/ writeAckBlocks(c)
    \/ handlerEnds(c) \/ writeAckReleased(c)

Introduce(r) == lookup(r) \/ forward(r) \/ forwardBlocks(r) \/ forwardReleased(r)

IntroNext ==
    \/ Service
    \/ RestartService
    \/ \E c \in Circuits : Handler(c) \/ CutCircuit(c) \/ ExpireRegistration(c)
    \/ \E r \in Requests : Introduce(r)

IntroSpec == IntroInit /\ [][IntroNext]_introVars

(* maintainIntro never gives up, handlers run, circuits deliver.  Nothing  *)
(* is asked of clients, of failures or of time.                            *)
IntroFairness == WF_introVars(Service) /\ \A c \in Circuits : WF_introVars(Handler(c))

IntroFairSpec == IntroSpec /\ IntroFairness

-----------------------------------------------------------------------------
Message == {"ack", "nack", "eof"} \cup Requests

IntroTypeOK ==
    /\ opened \in 0..MaxCircuits
    /\ current \in Circuits \cup {NoCircuit}
    /\ session \in {NoCircuit, current}
    /\ published \in BOOLEAN
    /\ toService \in [Circuits -> Seq(Message)]
    /\ toPoint \in [Circuits -> Seq({"register", "eof"})]
    /\ cutOff \subseteq Circuits /\ shut \subseteq Circuits /\ outdated \subseteq Circuits
    /\ registrar \in [Circuits -> {"none", "reading", "registered", "waiting", "blocked", "done"}]
    /\ registration \in Circuits \cup {NoCircuit}
    /\ displaced \in [Circuits -> Circuits \cup {NoCircuit}]
    /\ intro \in [Requests -> [pc : {"new", "refused", "forward", "acknowledged",
                                     "unavailable", "blocked"},
                                on : Circuits \cup {NoCircuit}, early : BOOLEAN]]
    /\ accepted \subseteq Requests
    /\ left \in [IntroBounds -> Nat]

-----------------------------------------------------------------------------
Elements(s) == {s[i] : i \in 1..Len(s)}
Pending(c) == Elements(toService[c])

(* A circuit in use whose end is not on its way to the service.            *)
Serving(c) == session = c /\ c \notin cutOff /\ "eof" \notin Pending(c)

(* A later registration has taken the place of c's, and its handler is     *)
(* about to close c.                                                       *)
Displaced(c) == \E d \in Circuits : displaced[d] = c

(* While a session's circuit works and its registration has not expired,   *)
(* the introduction point has that very registration, or has just put      *)
(* another in its place and is about to close the circuit                  *)
(* (rendezvous.go:165-194, 327-377): handlers of earlier circuits that     *)
(* register late or end late never take it away without the service being  *)
(* told by the end of its circuit.                                         *)
SessionRegistered ==
    /\ IntroTypeOK
    /\ \A c \in Circuits :
          Serving(c) /\ c \notin outdated => registration = c \/ Displaced(c)

(* An introduction that is acknowledged to the client has reached the      *)
(* service, or waits on the circuit that it reads now, unless that circuit *)
(* was cut or carries one that was forwarded before the registration had   *)
(* been acknowledged (rendezvous.go:195-243, 378-387): replacing or ending *)
(* a registration never swallows one.                                      *)
DeliveredAfterAck ==
    \A r \in Requests :
        (/\ intro[r].pc = "acknowledged"
         /\ intro[r].on \notin cutOff
         /\ ~ \E q \in Requests : intro[q].early /\ intro[q].on = intro[r].on)
        => r \in accepted \/ (current = intro[r].on /\ r \in Pending(intro[r].on))

(* The service always gets back to a session, or is left with a circuit    *)
(* that is cut without its knowing (rendezvous.go:327-377), as long as the *)
(* bound on circuits is not used up.                                       *)
Recovers == <>[](session # NoCircuit \/ current \in cutOff \/ opened = MaxCircuits)

================================================================================
