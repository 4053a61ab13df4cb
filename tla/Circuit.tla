-------------------------------- MODULE Circuit --------------------------------
(***************************************************************************)
(* One onion circuit: it is built hop by hop, carries a stream between the *)
(* client and a service at the last hop, and is torn down from either end, *)
(* with timeouts and lost connections on the way                           *)
(* (internal/overlay/circuit.go).                                          *)
(*                                                                         *)
(* Node 0 is the client, nodes 1..Hops the relays of the path, link i the  *)
(* connection of nodes i - 1 and i, which keeps its order.  A node handles *)
(* the cells of each of its two links in the reader of that connection;    *)
(* extendCircuit waits in a goroutine of its own, and so does the pump     *)
(* from the service.  A reverse cell gets its number under rc.mu and is    *)
(* written after the lock is released: two steps, in which the goroutines  *)
(* of a relay may overtake each other.                                     *)
(*                                                                         *)
(* Abstractions.  A layer is its sequence number: keys match, and a layer  *)
(* opens where the number does.  IDs are fresh, so a link carries one      *)
(* circuit.  closeRelayCircuit is one step.  A lost connection takes some  *)
(* of what is in it along, and what is written to it later; no node closes *)
(* a circuit for that reason (node.go:423), and the circuit never uses the *)
(* connection that replaces it, since it holds the old one.                *)
(***************************************************************************)
EXTENDS Naturals, Sequences

CONSTANTS
    Hops,       \* length of the path
    Capacity,   \* of cc.responses
    NoCell,     \* no cell
    Budgets     \* bounds: how often the callers and the environment may act

Bounds == {"writes", "answers", "ends", "cuts", "stops"}
Relays == 1..Hops
Goroutines == {"in", "out", "extend", "pump"}

(* Cells with their layers and relay payload, what waits in cc.responses,   *)
(* and what a relay keeps of a circuit.                                    *)
Commands == {"none", "extend", "extended", "open", "openOK", "openError", "data", "close"}
Cells == [kind : {"create", "created", "relay", "destroy"}, layers : Seq(Nat),
          cmd : Commands, n : Nat]
Responses == [cmd : Commands \union {"created", "error"}, n : Nat]
RelayCircuits == [state : {"none", "open", "closed"}, fwdSeq : Nat, revSeq : Nat,
                  outgoing : BOOLEAN, relayOut : BOOLEAN,
                  extension : {"none", "waiting", "answered", "linking", "linked", "abandoned"}]

ASSUME HopsAssumption == Hops \in Nat \ {0}
ASSUME NoCellAssumption == NoCell \notin Cells
ASSUME CapacityAssumption == Capacity \in Nat \ {0}
ASSUME BudgetsAssumption == Budgets \subseteq [Bounds -> Nat]

VARIABLES
    pc,          \* the caller at the client: buildCircuit, OpenCircuitStream, circuitConn
    hops,        \* len(cc.hops)
    sendSeq,     \* sendSeq[j] of hop j at the client
    recvSeq,     \* recvSeq[j]
    registered,  \* cc is in the map of clients and cc.done is open
    responses,   \* cc.responses
    eof,         \* what ended the client's reading
    relay,       \* relay[i]: the relayCircuit
    sending,     \* sending[i][g]: numbered by goroutine g of relay i, not written
    app,         \* the connection to the service at the last relay
    pump,        \* the goroutine that reads from the service
    down,        \* down[i]: cells on link i away from the client
    up,          \* up[i]: cells on link i towards the client
    cut,         \* lost links
    written,     \* how many pieces of data the client has written
    received,    \* those that reached the service
    answered,    \* how many the service has written
    got,         \* those the client has read
    budget       \* what is left of the bounds

clientVars == <<pc, hops, sendSeq, recvSeq, registered, responses, eof, written, got>>
exitVars == <<app, pump, received, answered>>
circuitVars == <<pc, hops, sendSeq, recvSeq, registered, responses, eof, relay, sending, app,
                pump, down, up, cut, written, received, answered, got, budget>>

-----------------------------------------------------------------------------
Spend(what) ==
    /\ budget[what] > 0
    /\ budget' = [budget EXCEPT ![what] = @ - 1]

(* n numbers data; 0 otherwise.                                            *)
Relay(layers, cmd, n) == [kind |-> "relay", layers |-> layers, cmd |-> cmd, n |-> n]
Control(kind) == [kind |-> kind, layers |-> << >>, cmd |-> "none", n |-> 0]
Response(cmd, n) == [cmd |-> cmd, n |-> n]

Sent(channel, i, cell) ==
    IF i \in cut THEN channel ELSE [channel EXCEPT ![i] = Append(@, cell)]

Taken(channel, i) == [channel EXCEPT ![i] = Tail(@)]

(* cc.closeLocal: only the first call does anything.                       *)
closeLocal(channel, send) ==
    IF registered /\ send THEN Sent(channel, 1, Control("destroy")) ELSE channel

NewRelay == [state |-> "none", fwdSeq |-> 0, revSeq |-> 0, outgoing |-> FALSE,
             relayOut |-> FALSE, extension |-> "none"]

CircuitInit ==
    /\ pc = "new" /\ hops = 0 /\ registered = FALSE
    /\ sendSeq = [j \in Relays |-> 0] /\ recvSeq = [j \in Relays |-> 0]
    /\ responses = << >> /\ eof = "none"
    /\ relay = [i \in Relays |-> NewRelay]
    /\ sending = [i \in Relays |-> [g \in Goroutines |-> NoCell]]
    /\ app = "none" /\ pump = "none"
    /\ down = [i \in Relays |-> << >>] /\ up = [i \in Relays |-> << >>]
    /\ cut = {}
    /\ written = 0 /\ answered = 0 /\ received = << >> /\ got = << >>
    /\ budget \in Budgets

-----------------------------------------------------------------------------
(* The client.                                                             *)

(* sendRelay with h hops: one layer per hop, each hop's number advances.   *)
Wrapped(h, cmd, n) == Relay([j \in 1..h |-> sendSeq[j]], cmd, n)

(* Faulty variant: only the last hop counts.                               *)
AdvancedLast(seq, h) == [seq EXCEPT ![h] = @ + 1]

Advanced(seq, h) == [j \in Relays |-> IF j <= h THEN seq[j] + 1 ELSE seq[j]]

buildCircuit ==
    /\ pc = "new"
    /\ pc' = "created"
    /\ registered' = TRUE
    /\ down' = Sent(down, 1, Control("create"))
    /\ UNCHANGED <<hops, sendSeq, recvSeq, responses, eof, written, got, relay, sending,
                   exitVars, up, cut, budget>>

(* cc.wait is for the response that pc names.                              *)
Waiting == pc \in {"created", "extended", "openOK"}

(* A response is taken.  If it is the one: the hop is added and the next   *)
(* one asked for, or the service; or the stream is open.  Others are       *)
(* passed over.                                                            *)
waitAnswered ==
    /\ Waiting /\ responses # << >>
    /\ Head(responses).cmd \notin {"openError", "error"}
    /\ responses' = Tail(responses)
    /\ IF Head(responses).cmd # pc THEN UNCHANGED <<pc, hops, sendSeq, down>>
       ELSE IF pc = "openOK"
       THEN /\ pc' = IF registered THEN "stream" ELSE "stopped"
            /\ UNCHANGED <<hops, sendSeq, down>>
       ELSE /\ hops' = hops + 1
            /\ pc' = IF hops + 1 < Hops THEN "extended" ELSE "openOK"
            /\ sendSeq' = Advanced(sendSeq, hops + 1)
            /\ down' = Sent(down, 1, Wrapped(hops + 1,
                                 IF hops + 1 < Hops THEN "extend" ELSE "open", 0))
    /\ UNCHANGED <<recvSeq, registered, eof, written, got, relay, sending, exitVars,
                   up, cut, budget>>

(* cc.wait gives up: an error, the timer or the end of the context, or the *)
(* circuit is gone.                                                        *)
WaitReturns ==
    /\ Waiting
    /\ \/ UNCHANGED responses
       \/ /\ responses # << >> /\ Head(responses).cmd \in {"openError", "error"}
          /\ responses' = Tail(responses)
    /\ pc' = "failed"
    /\ UNCHANGED <<hops, sendSeq, recvSeq, eof, written, got, relay, sending, exitVars,
                   up, cut, budget>>

(* Faulty variant: the caller returns without closing.                     *)
waitFailsOpen ==
    /\ WaitReturns
    /\ UNCHANGED <<down, registered>>

waitFails ==
    /\ WaitReturns
    /\ down' = closeLocal(down, TRUE)
    /\ registered' = FALSE

(* circuitConn.Write.                                                      *)
Write ==
    /\ pc = "stream"
    /\ Spend("writes")
    /\ written' = written + 1
    /\ sendSeq' = Advanced(sendSeq, hops)
    /\ down' = Sent(down, 1, Wrapped(hops, "data", written + 1))
    /\ UNCHANGED <<pc, hops, recvSeq, registered, responses, eof, got, relay, sending,
                   exitVars, up, cut>>

(* circuitConn.Read, until it returns an error; with cc.done and a         *)
(* response ready the select may take either.                              *)
Read ==
    /\ pc \in {"stream", "stopped"} /\ eof = "none"
    /\ \/ /\ responses # << >>
          /\ LET r == Head(responses)
             IN /\ got' = IF r.cmd = "data" THEN Append(got, r.n) ELSE got
                /\ eof' = IF r.cmd \in {"close", "error", "openError"} THEN r.cmd ELSE eof
          /\ responses' = Tail(responses)
       \/ /\ ~registered
          /\ eof' = "done"
          /\ UNCHANGED <<got, responses>>
    /\ UNCHANGED <<pc, hops, sendSeq, recvSeq, registered, written, relay, sending,
                   exitVars, down, up, cut, budget>>

(* circuitConn.Close.                                                      *)
Close ==
    /\ pc = "stream"
    /\ pc' = "closed"
    /\ sendSeq' = Advanced(sendSeq, hops)
    /\ down' = closeLocal(Sent(down, 1, Wrapped(hops, "close", 0)), TRUE)
    /\ registered' = FALSE
    /\ UNCHANGED <<hops, recvSeq, responses, eof, written, got, relay, sending, exitVars,
                   up, cut, budget>>

(* closeCircuits when the client's node stops; the caller is told by       *)
(* cc.done.  What it writes afterwards goes to connections that are being  *)
(* closed, and is left out.                                                *)
closeCircuits ==
    /\ registered /\ Spend("stops")
    /\ pc' = IF pc = "stream" THEN "stopped" ELSE pc
    /\ down' = closeLocal(down, TRUE)
    /\ registered' = FALSE
    /\ UNCHANGED <<hops, sendSeq, recvSeq, responses, eof, written, got, relay, sending,
                   exitVars, up, cut>>

(* Responses are queued with and without a default in the select.          *)
QueueOrDrop(r) ==
    responses' = IF Len(responses) < Capacity THEN Append(responses, r) ELSE responses

Queue(r) == Len(responses) < Capacity /\ responses' = Append(responses, r)

(* handleCircuitCell at the client, CREATED.                               *)
handleCreated ==
    /\ up[1] # << >> /\ Head(up[1]).kind = "created"
    /\ up' = Taken(up, 1)
    /\ IF registered THEN QueueOrDrop(Response("created", 0)) ELSE UNCHANGED responses
    /\ UNCHANGED <<pc, hops, sendSeq, recvSeq, registered, eof, written, got, relay,
                   sending, exitVars, down, cut, budget>>

(* A reverse cell opens if it has one layer per hop, each with the number  *)
(* that is due.                                                            *)
Opens(cell) ==
    /\ Len(cell.layers) = hops
    /\ \A j \in 1..hops : cell.layers[j] = recvSeq[j]

(* handleReverse: the response is queued, for which the reader waits until *)
(* the circuit is closed; a cell that does not open closes it, without a   *)
(* word to the relays.                                                     *)
handleReverse ==
    /\ up[1] # << >> /\ Head(up[1]).kind = "relay"
    /\ up' = Taken(up, 1)
    /\ LET cell == Head(up[1])
       IN IF ~registered THEN UNCHANGED <<recvSeq, registered, responses>>
          ELSE IF Opens(cell)
          THEN /\ Queue(Response(cell.cmd, cell.n))
               /\ recvSeq' = Advanced(recvSeq, hops)
               /\ UNCHANGED registered
          ELSE /\ registered' = FALSE
               /\ QueueOrDrop(Response("error", 0))
               /\ UNCHANGED recvSeq
    /\ UNCHANGED <<pc, hops, sendSeq, eof, written, got, relay, sending, exitVars, down,
                   cut, budget>>

-----------------------------------------------------------------------------
(* A relay.                                                                *)

(* Faulty variant: the next relay is not told.                             *)
closeRelaySilently(i, rest) ==
    /\ relay' = [relay EXCEPT ![i] = [@ EXCEPT !.state = "closed", !.relayOut = FALSE]]
    /\ app' = IF i = Hops /\ app = "open" THEN "closed" ELSE app
    /\ down' = rest

(* closeRelayCircuit of an open circuit; rest: what is left on the links.  *)
(* Only the next relay is told.                                            *)
closeRelayCircuit(i, rest) ==
    /\ relay' = [relay EXCEPT ![i] = [@ EXCEPT !.state = "closed", !.relayOut = FALSE]]
    /\ app' = IF i = Hops /\ app = "open" THEN "closed" ELSE app
    /\ down' = IF relay[i].outgoing THEN Sent(rest, i + 1, Control("destroy")) ELSE rest

(* sendRelayReverse and handleCircuitReverse up to the unlock: the circuit,*)
(* which is rc by now, counts the cell, and goroutine g has it to write.   *)
Numbered(i, g, rc, layers, cmd, n) ==
    /\ relay' = [relay EXCEPT ![i] = [rc EXCEPT !.revSeq = @ + 1]]
    /\ sending' = [sending EXCEPT ![i][g] = Relay(<<rc.revSeq>> \o layers, cmd, n)]

(* The reader of the connection to the previous node takes a cell.         *)
Arrives(i, kind) ==
    /\ down[i] # << >> /\ Head(down[i]).kind = kind
    /\ sending[i]["in"] = NoCell

handleCircuitCreate(i) ==
    /\ Arrives(i, "create")
    /\ relay' = [relay EXCEPT ![i].state = "open"]
    /\ down' = Taken(down, i)
    /\ up' = Sent(up, i, Control("created"))
    /\ UNCHANGED <<clientVars, sending, exitVars, cut, budget>>

(* handleCircuitForward: its layer opens.                                  *)
LayerOpens(i) ==
    /\ Arrives(i, "relay")
    /\ relay[i].state = "open"
    /\ Head(Head(down[i]).layers) = relay[i].fwdSeq

Counted(i) == [relay[i] EXCEPT !.fwdSeq = @ + 1]

forwardRejected(i) ==
    /\ Arrives(i, "relay") /\ ~LayerOpens(i)
    /\ IF relay[i].state = "open"
       THEN closeRelayCircuit(i, Taken(down, i))
       ELSE down' = Taken(down, i) /\ UNCHANGED <<relay, app>>
    /\ UNCHANGED <<clientVars, sending, pump, received, answered, up, cut, budget>>

forwardOn(i) ==
    /\ LayerOpens(i) /\ relay[i].outgoing
    /\ relay' = [relay EXCEPT ![i] = Counted(i)]
    /\ down' = Sent(Taken(down, i), i + 1, [Head(down[i]) EXCEPT !.layers = Tail(@)])
    /\ UNCHANGED <<clientVars, sending, exitVars, up, cut, budget>>

(* The command is for this relay, the last one so far.                     *)
Commanded(i, cmd) == LayerOpens(i) /\ ~relay[i].outgoing /\ Head(down[i]).cmd = cmd

(* The next hop is unavailable, or the circuit waits for its CREATED.      *)
extendCircuit(i) ==
    /\ Commanded(i, "extend")
    /\ \/ /\ i + 1 \in cut
          /\ Numbered(i, "in", Counted(i), << >>, "openError", 0)
          /\ down' = Taken(down, i)
       \/ /\ relay' = [relay EXCEPT ![i] = [Counted(i) EXCEPT !.extension = "waiting"]]
          /\ down' = Sent(Taken(down, i), i + 1, Control("create"))
          /\ UNCHANGED sending
    /\ UNCHANGED <<clientVars, exitVars, up, cut, budget>>

(* The service is refused, or dialled.                                     *)
openCircuitTarget(i) ==
    /\ Commanded(i, "open")
    /\ \/ Numbered(i, "in", Counted(i), << >>, "openError", 0) /\ UNCHANGED app
       \/ Numbered(i, "in", Counted(i), << >>, "openOK", 0) /\ app' = "open"
    /\ down' = Taken(down, i)
    /\ UNCHANGED <<clientVars, pump, received, answered, up, cut, budget>>

(* Writing to a service that has gone fails, or is lost.                   *)
relayData(i) ==
    /\ Commanded(i, "data")
    /\ \/ /\ relay' = [relay EXCEPT ![i] = Counted(i)]
          /\ received' = IF app = "open" THEN Append(received, Head(down[i]).n)
                                         ELSE received
          /\ down' = Taken(down, i)
          /\ UNCHANGED app
       \/ app = "ended" /\ closeRelayCircuit(i, Taken(down, i)) /\ UNCHANGED received
    /\ UNCHANGED <<clientVars, sending, pump, answered, up, cut, budget>>

relayClose(i) ==
    /\ Commanded(i, "close")
    /\ closeRelayCircuit(i, Taken(down, i))
    /\ UNCHANGED <<clientVars, sending, pump, received, answered, up, cut, budget>>

(* DESTROY, which only comes from the previous node.                       *)
destroyCircuitByKey(i) ==
    /\ Arrives(i, "destroy")
    /\ IF relay[i].state = "open"
       THEN closeRelayCircuit(i, Taken(down, i))
       ELSE down' = Taken(down, i) /\ UNCHANGED <<relay, app>>
    /\ UNCHANGED <<clientVars, sending, pump, received, answered, up, cut, budget>>

(* The reader of the connection to the next node: CREATED counts while it  *)
(* is waited for.                                                          *)
handleCircuitCreated(i) ==
    /\ i < Hops /\ up[i + 1] # << >> /\ Head(up[i + 1]).kind = "created"
    /\ sending[i]["out"] = NoCell
    /\ relay' = IF relay[i].extension = "waiting"
                THEN [relay EXCEPT ![i].extension = "answered"] ELSE relay
    /\ up' = Taken(up, i + 1)
    /\ UNCHANGED <<clientVars, sending, exitVars, down, cut, budget>>

handleCircuitReverse(i) ==
    /\ i < Hops /\ up[i + 1] # << >> /\ Head(up[i + 1]).kind = "relay"
    /\ sending[i]["out"] = NoCell
    /\ LET cell == Head(up[i + 1])
       IN IF relay[i].relayOut /\ relay[i].state = "open"
          THEN Numbered(i, "out", relay[i], cell.layers, cell.cmd, cell.n)
          ELSE UNCHANGED <<relay, sending>>
    /\ up' = Taken(up, i + 1)
    /\ UNCHANGED <<clientVars, exitVars, down, cut, budget>>

(* The goroutine of extendCircuit.  CREATED is there: a circuit closed in  *)
(* the meantime forgets the new hop.                                       *)
extendAnswered(i) ==
    /\ relay[i].extension = "answered"
    /\ relay' = [relay EXCEPT ![i] =
                    IF @.state = "closed" THEN [@ EXCEPT !.extension = "abandoned"]
                    ELSE [@ EXCEPT !.extension = "linking", !.outgoing = TRUE]]
    /\ UNCHANGED <<clientVars, sending, exitVars, down, up, cut, budget>>

extendLinked(i) ==
    /\ relay[i].extension = "linking"
    /\ LET rc == [relay[i] EXCEPT !.extension = "linked", !.relayOut = TRUE]
       IN IF rc.state = "open" THEN Numbered(i, "extend", rc, << >>, "extended", 0)
          ELSE relay' = [relay EXCEPT ![i] = rc] /\ UNCHANGED sending
    /\ UNCHANGED <<clientVars, exitVars, down, up, cut, budget>>

(* The timer; the select may take it although CREATED is there.            *)
extendTimesOut(i) ==
    /\ relay[i].extension \in {"waiting", "answered"}
    /\ LET rc == [relay[i] EXCEPT !.extension = "abandoned"]
       IN IF rc.state = "open" THEN Numbered(i, "extend", rc, << >>, "openError", 0)
          ELSE relay' = [relay EXCEPT ![i] = rc] /\ UNCHANGED sending
    /\ UNCHANGED <<clientVars, exitVars, down, up, cut, budget>>

(* p.sendCircuit of a numbered cell.                                       *)
Written(i, g) ==
    /\ up' = Sent(up, i, sending[i][g])
    /\ sending' = [sending EXCEPT ![i][g] = NoCell]

writeReverse(i, g) ==
    /\ sending[i][g] # NoCell
    /\ g # "pump" /\ ~(g = "in" /\ sending[i][g].cmd = "openOK")
    /\ Written(i, g)
    /\ UNCHANGED <<clientVars, relay, exitVars, down, cut, budget>>

(* After OPEN_OK the pump starts; an error ends the circuit.               *)
writeOpenOK(i) ==
    /\ sending[i]["in"] # NoCell /\ sending[i]["in"].cmd = "openOK"
    /\ Written(i, "in")
    /\ \/ pump' = "running" /\ UNCHANGED <<relay, app, down>>
       \/ i \in cut /\ closeRelayCircuit(i, down) /\ UNCHANGED pump
    /\ UNCHANGED <<clientVars, received, answered, cut, budget>>

-----------------------------------------------------------------------------
(* The service and the pump at the last relay.                             *)

(* The service writes, and the pump has read it.                           *)
pumpReads ==
    /\ pump = "running" /\ app = "open" /\ sending[Hops]["pump"] = NoCell
    /\ Spend("answers")
    /\ answered' = answered + 1
    /\ Numbered(Hops, "pump", relay[Hops], << >>, "data", answered + 1)
    /\ UNCHANGED <<clientVars, app, pump, received, down, up, cut>>

serviceEnds ==
    /\ app = "open"
    /\ Spend("ends")
    /\ app' = "ended"
    /\ UNCHANGED <<clientVars, relay, sending, pump, received, answered, down, up, cut>>

(* Faulty variant: no CLOSE cell.                                          *)
pumpEndsSilently ==
    /\ pump = "running" /\ app # "open" /\ sending[Hops]["pump"] = NoCell
    /\ pump' = "ended"
    /\ IF relay[Hops].state = "open" THEN closeRelayCircuit(Hops, down)
       ELSE UNCHANGED <<relay, app, down>>
    /\ UNCHANGED <<clientVars, sending, received, answered, up, cut, budget>>

(* conn.Read fails: CLOSE for the client, unless the circuit is closed.    *)
pumpEnds ==
    /\ pump = "running" /\ app # "open" /\ sending[Hops]["pump"] = NoCell
    /\ IF relay[Hops].state = "open"
       THEN /\ Numbered(Hops, "pump", relay[Hops], << >>, "close", 0)
            /\ UNCHANGED pump
       ELSE pump' = "ended" /\ UNCHANGED <<relay, sending>>
    /\ UNCHANGED <<clientVars, app, received, answered, down, up, cut, budget>>

(* After CLOSE the circuit is closed; data that cannot be written ends     *)
(* only the pump.                                                          *)
pumpWrites ==
    /\ sending[Hops]["pump"] # NoCell
    /\ Written(Hops, "pump")
    /\ IF sending[Hops]["pump"].cmd = "close"
       THEN /\ pump' = "ended"
            /\ IF relay[Hops].state = "open" THEN closeRelayCircuit(Hops, down)
               ELSE UNCHANGED <<relay, app, down>>
       ELSE /\ pump' \in {"running"} \union (IF Hops \in cut THEN {"ended"} ELSE {})
            /\ UNCHANGED <<relay, app, down>>
    /\ UNCHANGED <<clientVars, received, answered, cut, budget>>

-----------------------------------------------------------------------------
(* Link i is lost, with some of the last cells.                            *)
Cut(i) ==
    /\ i \notin cut
    /\ Spend("cuts")
    /\ cut' = cut \union {i}
    /\ \E k \in 0..Len(down[i]) : down' = [down EXCEPT ![i] = SubSeq(@, 1, k)]
    /\ \E k \in 0..Len(up[i]) : up' = [up EXCEPT ![i] = SubSeq(@, 1, k)]
    /\ UNCHANGED <<clientVars, relay, sending, exitVars>>

ClientReader == handleCreated \/ handleReverse

ReaderIn(i) ==
    \/ handleCircuitCreate(i) \/ forwardRejected(i) \/ forwardOn(i)
    \/ extendCircuit(i) \/ openCircuitTarget(i) \/ relayData(i) \/ relayClose(i)
    \/ destroyCircuitByKey(i) \/ writeReverse(i, "in") \/ writeOpenOK(i)

ReaderOut(i) == handleCircuitCreated(i) \/ handleCircuitReverse(i) \/ writeReverse(i, "out")

Extension(i) == extendAnswered(i) \/ extendLinked(i) \/ writeReverse(i, "extend")

Pump == pumpEnds \/ pumpWrites

CircuitNext ==
    \/ buildCircuit \/ waitAnswered \/ waitFails \/ Write \/ Read \/ Close
    \/ closeCircuits
    \/ ClientReader \/ Pump \/ pumpReads \/ serviceEnds
    \/ \E i \in Relays : ReaderIn(i) \/ ReaderOut(i) \/ Extension(i)
                         \/ extendTimesOut(i) \/ Cut(i)

CircuitSpec == CircuitInit /\ [][CircuitNext]_circuitVars

(* Goroutines run, timers fire, a caller that has a stream keeps reading;  *)
(* nothing has to be written, closed, or lost.                             *)
CircuitFairness ==
    /\ WF_circuitVars(waitAnswered) /\ WF_circuitVars(waitFails) /\ WF_circuitVars(Read)
    /\ WF_circuitVars(ClientReader) /\ WF_circuitVars(Pump)
    /\ \A i \in Relays : /\ WF_circuitVars(ReaderIn(i)) /\ WF_circuitVars(ReaderOut(i))
                         /\ WF_circuitVars(Extension(i)) /\ WF_circuitVars(extendTimesOut(i))

CircuitFairSpec == CircuitSpec /\ CircuitFairness

-----------------------------------------------------------------------------
(* The values each variable can have.                                      *)
CircuitTypeOK ==
    /\ pc \in {"new", "created", "extended", "openOK", "stream", "stopped",
              "failed", "closed"}
    /\ hops \in 0..Hops
    /\ sendSeq \in [Relays -> Nat] /\ recvSeq \in [Relays -> Nat]
    /\ registered \in BOOLEAN
    /\ responses \in Seq(Responses) /\ Len(responses) <= Capacity
    /\ eof \in {"none", "close", "error", "openError", "done"}
    /\ relay \in [Relays -> RelayCircuits]
    /\ sending \in [Relays -> [Goroutines -> Cells \union {NoCell}]]
    /\ app \in {"none", "open", "ended", "closed"}
    /\ pump \in {"none", "running", "ended"}
    /\ down \in [Relays -> Seq(Cells)] /\ up \in [Relays -> Seq(Cells)]
    /\ cut \subseteq Relays
    /\ written \in Nat /\ answered \in Nat
    /\ received \in Seq(Nat) /\ got \in Seq(Nat)
    /\ budget \in [Bounds -> Nat]

(* Between nodes that keep to the protocol no cell is ever out of          *)
(* sequence, although reverse cells are numbered under the lock and        *)
(* written without it and hops are added while cells travel: the next cell *)
(* of a relay opens, has exactly the layers of the hops that follow, and   *)
(* the client opens every reverse cell (openCircuitLayer) and never has to *)
(* pass over a response (cc.wait).                                         *)
InSequence ==
    /\ CircuitTypeOK
    /\ \A i \in Relays :
          down[i] # << >> /\ Head(down[i]).kind = "relay" /\ relay[i].state = "open" =>
             LET layers == Head(down[i]).layers
             IN Head(layers) = relay[i].fwdSeq /\ (Len(layers) > 1 <=> relay[i].outgoing)
    /\ up[1] # << >> /\ Head(up[1]).kind = "relay" /\ registered => Opens(Head(up[1]))
    /\ Waiting /\ responses # << >> => Head(responses).cmd \in {pc, "openError"}

(* Nobody is left to close relay i: a connection on the way is lost, or a  *)
(* relay before it timed out or was closed while it extended (333, 346).   *)
CutOff(i) ==
    \/ \E k \in 1..i : k \in cut
    \/ \E k \in 1..(i - 1) : relay[k].extension = "abandoned"

Destroyed(i) == \E k \in DOMAIN down[i] : down[i][k].kind = "destroy"

(* An open circuit of a relay has somebody who will close it: the client,  *)
(* the relay before it, or a DESTROY on its way; except where it is cut    *)
(* off.                                                                    *)
Owned ==
    \A i \in Relays : relay[i].state = "open" =>
        \/ CutOff(i) \/ Destroyed(i)
        \/ i = 1 /\ registered
        \/ i > 1 /\ relay[i - 1].outgoing /\ relay[i - 1].state = "open"
        \/ i > 1 /\ relay[i - 1].extension \in {"waiting", "answered"}

Counting(s) == \A k \in DOMAIN s : s[k] = k

(* Data arrives in order, without gaps; whoever sees the stream end has    *)
(* all that was written before: a client that reads CLOSE, and a service   *)
(* whose connection is closed by the client's Close (the CLOSE and DESTROY *)
(* of circuitConn.Close do not overtake the data).  The io.EOF of a client *)
(* that stops promises nothing.                                            *)
StreamIntact ==
    /\ Counting(received) /\ Len(received) <= written
    /\ Counting(got) /\ Len(got) <= answered
    /\ app = "closed" => Len(received) = written
    /\ eof = "close" => Len(got) = answered

(* After the client has given the circuit up, closed it or stopped, every  *)
(* relay forgets it, unless it is cut off.                                 *)
TornDown ==
    pc \in {"failed", "closed", "stopped"} ~>
        \A i \in Relays : relay[i].state = "open" => CutOff(i)

(* A client that reads learns that the service has ended the stream,       *)
(* unless a connection is lost, or data for the service came after its end *)
(* (then the circuit may be closed before the pump can send CLOSE:         *)
(* circuit.go:252, 413).                                                   *)
EndReaches ==
    app = "ended" /\ pc = "stream" ~>
        eof # "none" \/ pc # "stream" \/ cut # {} \/ Len(received) < written
================================================================================
