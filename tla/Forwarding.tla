----------------------------- MODULE Forwarding -----------------------------
(***************************************************************************)
(* Packet forwarding (internal/overlay/node.go, peer.go, stream.go):       *)
(* a packet goes hop by hop along the next hops the nodes know, over FIFO  *)
(* peer connections.  Data packets are relayed by the reader of the        *)
(* connection they came from and dropped when the send fails; stream       *)
(* control packets are relayed by a worker of their own that retries.      *)
(*                                                                         *)
(* Connections.  net.chan[<<m, n>>] holds the frames written by m and not  *)
(* yet read by n.  A connection fails during a write: the writer gets an   *)
(* error and does not know whether the frame reached the peer.  What was   *)
(* in flight is then read or lost, and the pair may connect again.         *)
(*                                                                         *)
(* Packet identity.  A packet is identified by its content and try, which  *)
(* stands for the packet ID: 0 at first, then the number of the connection *)
(* failure after which a fresh ID was drawn, so that no two agree.  The    *)
(* code draws a fresh ID after every failed attempt; the model does when   *)
(* the attempt may have reached the peer, since an ID nobody has seen      *)
(* cannot be told apart.                                                   *)
(***************************************************************************)
EXTENDS Naturals, Sequences, FiniteSets

CONSTANTS Nodes,      \* the nodes of the overlay
          Links,      \* pairs of neighbours, as sets of two nodes
          NoHop,      \* "no route" in a routing table
          Routes0,    \* the routing tables at the start
          MaxHops,    \* routing.max_hops, the TTL of a new packet
          MaxFaults   \* bound: connection failures and routing changes together

ASSUME NoHopAssumption == NoHop \notin Nodes
ASSUME LinksAssumption == \A l \in Links : l \subseteq Nodes /\ Cardinality(l) = 2
ASSUME HopsAssumption == MaxHops \in Nat /\ MaxFaults \in Nat

Hops == {h \in Nodes \X Nodes : {h[1], h[2]} \in Links}

VARIABLES net,      \* up: the live connections, chan: frames in flight, breaks: failures so far
          routes,   \* routes[n][d]: the next hop n uses towards d, or NoHop
          flaps,    \* routing changes so far
          seen,     \* seen[n]: the identities n has relayed
          work,     \* work[n]: packets a goroutine of n sends with retries
          faults    \* history: what has gone wrong so far

fwdVars == <<net, routes, flaps, seen, work, faults>>

PacketKinds == {"open", "ack", "error", "ready", "data", "close"}

newPacket(kind, src, dst, inc, seq) ==
  [kind |-> kind, src |-> src, dst |-> dst, inc |-> inc, seq |-> seq,
   try |-> 0, ttl |-> MaxHops]

isAnyPacket(p) == p.kind \in PacketKinds

isStreamControlPacket(p) == p.kind \in {"open", "ack", "error", "ready", "close"}

PacketID(p) == [p EXCEPT !.ttl = 0]

FwdInit ==
  /\ net = [up |-> Links, chan |-> [h \in Hops |-> <<>>], breaks |-> 0]
  /\ routes = Routes0 /\ flaps = 0
  /\ seen = [n \in Nodes |-> {}]
  /\ work = [n \in Nodes |-> {}]
  /\ faults = {}

-----------------------------------------------------------------------------
(* One attempt of node n to send packet p on the network state w.  An error *)
(* leaves open whether the frame reached the next hop.                      *)

Linked(w, n, p) ==
  LET h == routes[n][p.dst] IN h # NoHop /\ {n, h} \in w.up

sendPacket(w, n, p) ==
  LET hop == <<n, routes[n][p.dst]>>
      written == [w EXCEPT !.chan[hop] = Append(@, p)]
      broken(x) == [x EXCEPT !.up = @ \ {{hop[1], hop[2]}}, !.breaks = @ + 1]
  IN  IF ~Linked(w, n, p)
        THEN {[ok |-> FALSE, net |-> w, reached |-> FALSE]}
        ELSE {[ok |-> TRUE, net |-> written, reached |-> TRUE]}
             \cup (IF w.breaks + flaps = MaxFaults THEN {}
                   ELSE {[ok |-> FALSE, net |-> broken(written), reached |-> TRUE],
                         [ok |-> FALSE, net |-> broken(w), reached |-> FALSE]})

(* What an attempt adds to the history when the packet is not sent again.   *)
LossOf(o) == IF o.ok THEN {} ELSE {"lost"}

(* The retry loop of one worker: until an attempt succeeds or the deadline  *)
(* passes; a retry after a failed attempt has a fresh packet ID.            *)
sendPacketWithRetry(n, p) ==
  \E o \in sendPacket(net, n, p) :
    /\ net' = o.net
    /\ \/ /\ o.ok
          /\ work' = [work EXCEPT ![n] = @ \ {p}]
          /\ UNCHANGED faults
       \/ /\ ~o.ok /\ o.reached
          /\ work' = [work EXCEPT ![n] = (@ \ {p}) \cup {[p EXCEPT !.try = o.net.breaks]}]
          /\ faults' = faults \cup {"duplicate"}
       \/ /\ ~o.ok /\ ~o.reached
          /\ UNCHANGED <<work, faults>>

deadlinePassed(n, p) ==
  \E o \in sendPacket(net, n, p) :
    /\ ~o.ok
    /\ net' = o.net
    /\ work' = [work EXCEPT ![n] = @ \ {p}]
    /\ faults' = faults \cup {"lost"}

(* A frame read from m by n that is not for n: TTL, duplicate check, then a *)
(* worker for a control packet and a single attempt for any other.          *)
relayDrop(n, p) == p.ttl <= 1 \/ PacketID(p) \in seen[n]

relay(n, p, w) ==
  LET q == [p EXCEPT !.ttl = @ - 1] IN
  IF relayDrop(n, p)
    THEN net' = w /\ faults' = faults \cup {"lost"} /\ UNCHANGED <<seen, work>>
    ELSE /\ seen' = [seen EXCEPT ![n] = @ \cup {PacketID(p)}]
         /\ IF isStreamControlPacket(p)
              THEN /\ work' = [work EXCEPT ![n] = @ \cup {q}]
                   /\ net' = w
                   /\ UNCHANGED faults
              ELSE \E o \in sendPacket(w, n, q) :
                     /\ net' = o.net
                     /\ faults' = faults \cup LossOf(o)
                     /\ UNCHANGED work

(* The network after n has read the oldest frame from m.                    *)
Read(m, n) == [net EXCEPT !.chan[<<m, n>>] = Tail(@)]
Incoming(m, n) == Head(net.chan[<<m, n>>])
Readable(m, n) == <<m, n>> \in Hops /\ net.chan[<<m, n>>] # <<>>

-----------------------------------------------------------------------------
(* What was in flight on a failed connection is lost.                       *)
Lose(m, n) ==
  /\ <<m, n>> \in Hops /\ {m, n} \notin net.up
  /\ net.chan[<<m, n>>] # <<>>
  /\ net' = [net EXCEPT !.chan[<<m, n>>] = <<>>]
  /\ faults' = faults \cup {"lost"}
  /\ UNCHANGED <<routes, flaps, seen, work>>

(* The pair connects again once the old connection's frames are gone.       *)
Reconnect(l) ==
  /\ l \notin net.up
  /\ \A m, n \in l : m # n => net.chan[<<m, n>>] = <<>>
  /\ net' = [net EXCEPT !.up = @ \cup {l}]
  /\ UNCHANGED <<routes, flaps, seen, work, faults>>

(* A new link state changes n's next hop towards d: to a neighbour, which   *)
(* may be one that sends it back, or to none.                               *)
recomputeRoutes(n, d) ==
  /\ net.breaks + flaps < MaxFaults /\ n # d
  /\ flaps' = flaps + 1
  /\ \E h \in {x \in Nodes : <<n, x>> \in Hops} \cup {NoHop} :
       h # routes[n][d] /\ routes' = [routes EXCEPT ![n][d] = h]
  /\ UNCHANGED <<net, seen, work, faults>>
=============================================================================
