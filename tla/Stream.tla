------------------------------- MODULE Stream -------------------------------
(***************************************************************************)
(* End-to-end streams over the forwarding plane (internal/overlay/         *)
(* stream.go): one stream from an initiator to a service of an acceptor.   *)
(*                                                                         *)
(*   OPEN ->   the acceptor dials its service, registers the stream and    *)
(*   <- ACK    answers; the initiator registers its own end and sends      *)
(*   READY ->  upon which the acceptor starts to read from its service.    *)
(*                                                                         *)
(* A chunk is <<writer, incarnation, sequence number>>.  The incarnation   *)
(* stands for the session keys: the acceptor derives new ones for every    *)
(* OPEN it accepts, numbered here in that order, and a packet sealed with  *)
(* the keys of one incarnation cannot be opened with those of another.     *)
(*                                                                         *)
(* Not modelled: a stream to the node itself, which is a plain proxy, and  *)
(* signatures that do not verify, since both ends are honest and in time.  *)
(***************************************************************************)
EXTENDS Forwarding

CONSTANTS A,         \* the initiator
          B,         \* the acceptor
          MaxChunks, \* bound: MaxChunks[e], chunks the application of e writes
          MaxStreams, \* bound: streams the acceptor registers
          QueueCap   \* capacity of a stream's incoming queue (128)

Ends == {A, B}
(* Where openWithConn is; "registered" once the stream is in its map.       *)
Progress == {"idle", "waiting", "failed", "registered", "opened"}
Other(e) == CHOOSE o \in Ends : o # e

ASSUME EndsAssumption == A # B /\ Ends \subseteq Nodes
ASSUME BoundsAssumption ==
  MaxChunks \in [Ends -> Nat] /\ MaxStreams \in Nat /\ QueueCap \in Nat

(* Incarnation 0 is that of no stream.                                      *)
Incarnations == 0 .. MaxStreams

VARIABLES opener,   \* progress of openWithConn
          result,   \* the pending channel: at most one ACK or ERROR
          opening,  \* OPEN packets whose handleOpen goroutine runs at B
          s,        \* s[e]: the entry of e's stream map
          sent,     \* history: sent[e][i], chunks e has sealed with keys i
          got       \* history: got[e][i], chunks e has written locally under keys i

streamVars == <<opener, result, opening, s, sent, got>>
vars == <<fwdVars, streamVars>>

NoStream == [open |-> FALSE, inc |-> 0, pump |-> "off", want |-> 0, incoming |-> <<>>]

newStream(inc) == [NoStream EXCEPT !.open = TRUE, !.inc = inc]

Packets ==
  [kind : PacketKinds, src : Ends, dst : Ends, inc : Incarnations \cup 0 .. MaxFaults,
   seq : 0 .. MaxChunks[A] + MaxChunks[B], try : 0 .. MaxFaults, ttl : 0 .. MaxHops]

(* The type invariant. *)
TypeOK ==
  /\ net.up \subseteq Links /\ net.breaks \in 0 .. MaxFaults
  /\ \A h \in Hops : \A i \in DOMAIN net.chan[h] : net.chan[h][i] \in Packets
  /\ \A n \in Nodes : work[n] \subseteq Packets /\ seen[n] \subseteq Packets
  /\ opener \in Progress
  /\ Len(result) <= 1
  /\ opening \subseteq Packets
  /\ \A e \in Ends :
       /\ s[e].open \in BOOLEAN /\ s[e].inc \in Incarnations
       /\ s[e].pump \in {"off", "on", "failing", "ended"}
       /\ Len(s[e].incoming) <= QueueCap

Init ==
  /\ FwdInit
  /\ opener = "idle" /\ result = <<>> /\ opening = {}
  /\ s = [e \in Ends |-> NoStream]
  /\ sent = [e \in Ends |-> [i \in Incarnations |-> <<>>]]
  /\ got = [e \in Ends |-> [i \in Incarnations |-> <<>>]]

-----------------------------------------------------------------------------
(* Closing an end on the network state w: CLOSE, not retried, when the peer *)
(* is to be told; the queued data is dropped and the map entry removed.     *)

removed(e) == [s EXCEPT ![e].open = FALSE, ![e].pump = "ended", ![e].incoming = <<>>]

closeLocal(w, e, notify) ==
  /\ s' = removed(e)
  /\ IF notify
       THEN \E o \in sendPacket(w, e, newPacket("close", e, Other(e), s[e].inc, 0)) :
              net' = o.net /\ faults' = faults \cup LossOf(o)
       ELSE net' = w /\ UNCHANGED faults

(* openWithConn up to the wait: the route check, the pending entry, OPEN.   *)
Open ==
  /\ opener = "idle"
  /\ \/ /\ routes[A][B] = NoHop
        /\ opener' = "failed"
        /\ UNCHANGED <<net, faults>>
     \/ /\ routes[A][B] # NoHop
        /\ \E o \in sendPacket(net, A, newPacket("open", A, B, 0, 0)) :
             /\ net' = o.net
             /\ opener' = IF o.ok THEN "waiting" ELSE "failed"
             /\ faults' = faults \cup LossOf(o)
  /\ UNCHANGED <<routes, flaps, seen, work, result, opening, s, sent, got>>

(* The wait ends without an answer: timer, context.                         *)
OpenTimeout ==
  /\ opener = "waiting"
  /\ opener' = "failed" /\ result' = <<>>
  /\ faults' = faults \cup {"timeout"}
  /\ UNCHANGED <<net, routes, flaps, seen, work, opening, s, sent, got>>

(* The wait ends with an answer.  ERROR fails the call; ACK gives the keys  *)
(* and registers the stream.                                                *)
OpenError ==
  /\ opener = "waiting" /\ result # <<>> /\ Head(result).kind = "error"
  /\ opener' = "failed" /\ result' = <<>>
  /\ UNCHANGED <<fwdVars, opening, s, sent, got>>

OpenAcked ==
  /\ opener = "waiting" /\ result # <<>> /\ Head(result).kind = "ack"
  /\ opener' = "registered" /\ result' = <<>>
  /\ s' = [s EXCEPT ![A] = newStream(Head(result).inc)]
  /\ UNCHANGED <<fwdVars, opening, sent, got>>

(* READY, then the pump; if READY cannot be sent the stream is closed.      *)
SendReady ==
  /\ opener = "registered" /\ opener' = "opened"
  /\ \E o \in sendPacket(net, A, newPacket("ready", A, B, 0, 0)) :
       /\ net' = o.net
       /\ faults' = faults \cup LossOf(o)
       /\ s' = IF o.ok THEN [s EXCEPT ![A].pump = "on"] ELSE removed(A)
  /\ UNCHANGED <<routes, flaps, seen, work, result, opening, sent, got>>

(* pumpLoop reads a chunk, seals it and sends it; a failed send closes the  *)
(* stream without telling the peer.                                         *)
Pump(e) ==
  LET inc == s[e].inc
      seq == Len(sent[e][inc])
  IN  /\ s[e].open /\ s[e].pump = "on" /\ seq < MaxChunks[e]
      /\ sent' = [sent EXCEPT ![e][inc] = Append(@, <<e, inc, seq>>)]
      /\ \E o \in sendPacket(net, e, newPacket("data", e, Other(e), inc, seq)) :
           /\ net' = o.net
           /\ faults' = faults \cup LossOf(o)
           /\ s' = IF o.ok THEN s ELSE [s EXCEPT ![e].pump = "failing"]
      /\ UNCHANGED <<routes, flaps, seen, work, opener, result, opening, got>>

PumpFailed(e) ==
  /\ s[e].open /\ s[e].pump = "failing"
  /\ closeLocal(net, e, FALSE)
  /\ UNCHANGED <<routes, flaps, seen, work, opener, result, opening, sent, got>>

(* The local endpoint ends: the pump closes the stream and tells the peer.  *)
PumpEOFSilent(e) ==
  /\ s[e].open /\ s[e].pump = "on"
  /\ closeLocal(net, e, FALSE)
  /\ UNCHANGED <<routes, flaps, seen, work, opener, result, opening, sent, got>>

PumpEOF(e) ==
  /\ s[e].open /\ s[e].pump = "on"
  /\ closeLocal(net, e, TRUE)
  /\ UNCHANGED <<routes, flaps, seen, work, opener, result, opening, sent, got>>

(* receiveLoop takes one packet: a wrong sequence number or wrong keys, or  *)
(* a failed local write, close the stream and tell the peer.                *)
AcceptableUnordered(e, p) == p.inc = s[e].inc

Acceptable(e, p) == p.seq = s[e].want /\ p.inc = s[e].inc

Receive(e) ==
  LET p == Head(s[e].incoming) IN
  /\ s[e].open /\ s[e].incoming # <<>>
  /\ \/ /\ Acceptable(e, p)
        /\ s' = [s EXCEPT ![e].want = @ + 1, ![e].incoming = Tail(@)]
        /\ got' = [got EXCEPT ![e][s[e].inc] = Append(@, <<p.src, p.inc, p.seq>>)]
        /\ UNCHANGED <<net, faults>>
     \/ /\ closeLocal(net, e, TRUE)
        /\ UNCHANGED got
  /\ UNCHANGED <<routes, flaps, seen, work, opener, result, opening, sent>>

-----------------------------------------------------------------------------
(* handleLocalPacket: packet p for node n, read from the network as w.      *)

Answer(p) ==
  /\ p.kind \in {"ack", "error"}
  /\ result' = IF opener = "waiting" /\ result = <<>> THEN <<p>> ELSE result
  /\ UNCHANGED <<faults, opening, s>>

OpenArrives(p) ==
  /\ p.kind = "open"
  /\ opening' = opening \cup {p}
  /\ UNCHANGED <<faults, result, s>>

ReadyArrives(n, p) ==
  /\ p.kind = "ready"
  /\ s' = IF s[n].open /\ s[n].pump = "off" THEN [s EXCEPT ![n].pump = "on"] ELSE s
  /\ UNCHANGED <<faults, result, opening>>

(* Data waits in the reader while the stream's queue is full.               *)
deliver(n, p) ==
  /\ p.kind = "data"
  /\ s[n].open => Len(s[n].incoming) < QueueCap
  /\ s' = IF s[n].open THEN [s EXCEPT ![n].incoming = Append(@, p)] ELSE s
  /\ UNCHANGED <<faults, result, opening>>

CloseArrives(n, p) ==
  /\ p.kind = "close"
  /\ s' = IF s[n].open THEN removed(n) ELSE s
  /\ UNCHANGED <<faults, result, opening>>

handleLocalPacket(n, p) ==
  \/ Answer(p) \/ OpenArrives(p) \/ ReadyArrives(n, p) \/ deliver(n, p) \/ CloseArrives(n, p)

(* The reader of n's connection with m handles the next frame.              *)
HandleHere(m, n) ==
  /\ Readable(m, n) /\ Incoming(m, n).dst = n
  /\ handleLocalPacket(n, Incoming(m, n))
  /\ net' = Read(m, n)
  /\ UNCHANGED <<routes, flaps, seen, work, opener, sent, got>>

HandleRelay(m, n) ==
  /\ Readable(m, n) /\ Incoming(m, n).dst # n
  /\ relay(n, Incoming(m, n), Read(m, n))
  /\ UNCHANGED <<routes, flaps, streamVars>>

(* handleOpen at B: refuses (no such service, not allowed, target down, a   *)
(* stream of that ID registered), or dials and registers the stream.        *)
refusal(p) == newPacket("error", B, A, p.try, 0)
acceptance == newPacket("ack", B, A, s[B].inc + 1, 0)

Refuse(p) ==
  /\ work' = [work EXCEPT ![B] = @ \cup {refusal(p)}]
  /\ UNCHANGED s

AcceptPumping(p) ==
  /\ ~s[B].open /\ s[B].inc < MaxStreams
  /\ work' = [work EXCEPT ![B] = @ \cup {acceptance}]
  /\ s' = [s EXCEPT ![B] = [newStream(s[B].inc + 1) EXCEPT !.pump = "on"]]

Accept(p) ==
  /\ ~s[B].open /\ s[B].inc < MaxStreams
  /\ work' = [work EXCEPT ![B] = @ \cup {acceptance}]
  /\ s' = [s EXCEPT ![B] = newStream(s[B].inc + 1)]

HandleOpen(p) ==
  /\ opening' = opening \ {p}
  /\ Refuse(p) \/ Accept(p)
  /\ UNCHANGED <<net, routes, flaps, seen, faults, opener, result, sent, got>>

(* A worker's attempt, and its deadline: an ACK that cannot be sent closes  *)
(* the stream it announces.                                                 *)
Retry(n, p) ==
  /\ sendPacketWithRetry(n, p)
  /\ UNCHANGED <<routes, flaps, seen, streamVars>>

GiveUp(n, p) ==
  /\ deadlinePassed(n, p)
  /\ s' = IF n = B /\ p.src = B /\ p.kind = "ack" /\ s[B].open /\ s[B].inc = p.inc
            THEN removed(B) ELSE s
  /\ UNCHANGED <<routes, flaps, seen, opener, result, opening, sent, got>>

-----------------------------------------------------------------------------
EndStep(e) == Pump(e) \/ PumpFailed(e) \/ PumpEOF(e) \/ Receive(e)

ConnStep(m, n) == HandleHere(m, n) \/ HandleRelay(m, n)

Next ==
  \/ Open \/ OpenTimeout \/ OpenError \/ OpenAcked \/ SendReady
  \/ \E e \in Ends : EndStep(e)
  \/ \E m, n \in Nodes : ConnStep(m, n)
  \/ \E p \in opening : HandleOpen(p)
  \/ \E n \in Nodes : \E p \in work[n] : Retry(n, p) \/ GiveUp(n, p)
  \/ \E m, n \in Nodes : Lose(m, n) /\ UNCHANGED streamVars
  \/ \E l \in Links : Reconnect(l) /\ UNCHANGED streamVars
  \/ \E n \in Nodes, d \in Ends : recomputeRoutes(n, d) /\ UNCHANGED streamVars

Spec == Init /\ [][Next]_vars

(* Goroutines run: readers, workers and the stream's own loops.  That       *)
(* receiveLoop goes on assumes a local application that keeps reading:      *)
(* writeAll has no deadline.  Applications, failures, reconnections, route  *)
(* changes and the opener's timer owe nothing.                              *)
Fairness ==
  /\ WF_vars(OpenError \/ OpenAcked \/ SendReady)
  /\ \A e \in Ends : WF_vars(Receive(e)) /\ WF_vars(PumpFailed(e))
  /\ \A m, n \in Nodes : WF_vars(ConnStep(m, n))
  /\ WF_vars(\E p \in opening : HandleOpen(p))
  /\ \A n \in Nodes : WF_vars(\E p \in work[n] : Retry(n, p) \/ GiveUp(n, p))

FairSpec == Spec /\ Fairness

-----------------------------------------------------------------------------
(* The stream as the two applications see it, from the moment the initiator *)
(* has the acceptor's keys: its chunks, and the acceptor's under those keys.*)

Bound == opener \in {"registered", "opened"}
EndOpen(e) == s[e].open /\ s[e].inc = s[A].inc
EndClosed(e) == Bound /\ ~EndOpen(e)

Chunks == Ends \X Incarnations \X (0 .. MaxChunks[A] + MaxChunks[B])

App == INSTANCE Channel WITH
  Ends <- Ends,
  Chunks <- Chunks,
  sent <- [e \in Ends |-> IF Bound THEN sent[e][s[A].inc] ELSE <<>>],
  got <- [e \in Ends |-> IF Bound THEN got[e][s[A].inc] ELSE <<>>],
  closed <- [e \in Ends |-> EndClosed(e)]

(* A stream implements a channel: each application is given exactly what    *)
(* the other wrote, in order, with no gap and no repetition, whatever is    *)
(* lost, retried with a fresh packet ID, or takes another route, and        *)
(* whatever becomes of a second stream opened by a duplicated OPEN          *)
(* (receiveLoop's sequence and key checks).                                 *)
ChannelSpec == App!Spec

InFlight == UNION {{net.chan[h][i] : i \in DOMAIN net.chan[h]} : h \in Hops}

(* No data comes to the initiator before its stream exists: the acceptor    *)
(* reads from its service only after READY, which the initiator sends once  *)
(* it has registered the stream (handleLocalPacket, startPump).             *)
DataFindsStream ==
  (\E p \in InFlight : p.kind = "data" /\ p.dst = A) => Bound

(* Without a failure or a route change CLOSE comes last: when the reader    *)
(* that will handle it has it before it, none of the sender's data is still *)
(* on its way, although relays pass CLOSE to a worker and data not          *)
(* (handlePacket).                                                          *)
CloseLast ==
  faults = {} /\ flaps = 0 =>
    \A m, n \in Nodes :
      Readable(m, n) /\ Incoming(m, n).kind = "close" /\ Incoming(m, n).dst = n =>
        \A p \in InFlight : ~(p.kind = "data" /\ p.dst = n)

(* A call that failed leaves no stream behind at the acceptor unless the    *)
(* opener's timer fired, or a failed connection lost or duplicated a packet *)
(* (openWithConn and handleOpen: a refusal registers nothing).              *)
FailedCleanly ==
  opener = "failed" /\ s[B].open => faults # {}

(* The handshake: types, no early data, no stream left by a clean failure   *)
(* (openWithConn, handleOpen).                                              *)
Handshake == TypeOK /\ DataFindsStream /\ FailedCleanly

(* Once one end has closed, the other closes too, unless a packet was lost  *)
(* or duplicated: CLOSE is sent once and its retries are the relays'.       *)
CloseReaches ==
  \A e \in Ends : EndClosed(e) ~> (EndClosed(Other(e)) \/ faults # {})
=============================================================================
