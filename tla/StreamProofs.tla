---------------------------- MODULE StreamProofs -----------------------------
(***************************************************************************)
(* Proofs about Stream: for every overlay, every initial routing, any      *)
(* number of chunks, streams, connection failures and routing changes, the *)
(* two applications see a Channel.  The second part is about what holds as *)
(* long as nothing is lost or duplicated: the handshake has one packet at  *)
(* a time, and a CLOSE stays behind the data.                              *)
(***************************************************************************)
EXTENDS Stream, TLAPS

-----------------------------------------------------------------------------
(* A packet that may be on its way: its data was sealed, its READY follows *)
(* the binding of the stream, its ACK names keys of the acceptor, and its  *)
(* ID was drawn at a failure that has happened.                            *)
Good ==
  {p \in Packets :
     /\ p.dst = Other(p.src) /\ p.try <= net.breaks
     /\ p.kind = "data" => p.inc \in Incarnations /\ p.seq < Len(sent[p.src][p.inc])
     /\ p.kind = "ready" => Bound
     /\ p.kind = "ack" => p.inc \in 1 .. s[B].inc}

DataFor(G, e) == {p \in G : p.kind = "data" /\ p.dst = e}

Nets(G) == [up : SUBSET Links, chan : [Hops -> Seq(G)], breaks : Nat]

StreamT ==
  [open : BOOLEAN, inc : Incarnations, pump : {"off", "on", "failing", "ended"},
   want : Nat, incoming : Seq(Packets)]

(* Every packet on its way, waiting or queued is good.                     *)
PacketsGood ==
  /\ net \in Nets(Good) /\ flaps \in Nat /\ net.breaks + flaps <= MaxFaults
  /\ work \in [Nodes -> SUBSET Good] /\ seen \in [Nodes -> SUBSET Packets]
  /\ opening \subseteq Good
  /\ result \in Seq(Good) /\ Len(result) <= 1
  /\ \A e \in Ends : s[e].incoming \in Seq(DataFor(Good, e)) /\ Len(s[e].incoming) <= QueueCap

(* What was sealed and what was written locally is numbered without gaps,  *)
(* and nothing is written that was not sealed.                             *)
Histories ==
  /\ sent \in [Ends -> [Incarnations -> Seq(Chunks)]]
  /\ got \in [Ends -> [Incarnations -> Seq(Chunks)]]
  /\ \A e \in Ends, i \in Incarnations :
       /\ Len(sent[e][i]) <= MaxChunks[e]
       /\ \A n \in 1 .. Len(sent[e][i]) : sent[e][i][n] = <<e, i, n - 1>>
       /\ Len(got[e][i]) <= Len(sent[Other(e)][i])
       /\ \A n \in 1 .. Len(got[e][i]) : got[e][i][n] = <<Other(e), i, n - 1>>

(* An open end expects the next chunk of its keys; the initiator's keys    *)
(* are the acceptor's, it uses no other, and before it has them nobody     *)
(* sends.                                                                  *)
Keys ==
  /\ opener \in Progress
  /\ s \in [Ends -> StreamT]
  /\ \A e \in Ends : s[e].open => s[e].want = Len(got[e][s[e].inc])
  /\ s[A].inc <= s[B].inc
  /\ \A i \in Incarnations : i # s[A].inc => sent[A][i] = << >>
  /\ ~Bound => /\ ~s[A].open /\ s[B].pump \in {"off", "ended"}
               /\ \A e \in Ends, i \in Incarnations : sent[e][i] = << >>

StreamInv == PacketsGood /\ Histories /\ Keys

-----------------------------------------------------------------------------
(* Facts about sequences and ends, in the form the steps below use them.   *)
LEMMA OtherFacts == Other(A) = B /\ Other(B) = A /\ \A e \in Ends : Other(e) \in Ends /\ Other(e) # e
    BY EndsAssumption DEF Other, Ends

(* Sequences over a set are sequences over a larger one. *)
LEMMA SeqMonotone ==
  ASSUME NEW S, NEW T, S \subseteq T, NEW q \in Seq(S)
  PROVE  q \in Seq(T)
<1>1. /\ Len(q) \in Nat /\ q = [i \in 1 .. Len(q) |-> q[i]]
      /\ \A i \in 1 .. Len(q) : q[i] \in S
    OBVIOUS
<1>2. [i \in 1 .. Len(q) |-> q[i]] \in [1 .. Len(q) -> T]
    BY <1>1
<1>3. [1 .. Len(q) -> T] \subseteq Seq(T)
    BY <1>1
<1> QED BY <1>1, <1>2, <1>3

(* A network that carries good packets carries them when more packets are good. *)
LEMMA NetsMonotone ==
  ASSUME NEW G, NEW H, G \subseteq H, NEW w \in Nets(G)
  PROVE  w \in Nets(H)
<1>1. w.chan \in [Hops -> Seq(G)]
    BY DEF Nets
<1>2. w.chan \in [Hops -> Seq(H)]
    BY <1>1, SeqMonotone
<1>3. w = [up |-> w.up, chan |-> w.chan, breaks |-> w.breaks] /\ w.up \in SUBSET Links /\ w.breaks \in Nat
    BY DEF Nets
<1> QED BY <1>2, <1>3 DEF Nets

(* How the updates of the network and of a stream read field by field.     *)
LEMMA NetFields ==
  ASSUME NEW G, NEW w \in Nets(G)
  PROVE  w.up \in SUBSET Links /\ w.chan \in [Hops -> Seq(G)] /\ w.breaks \in Nat
    BY DEF Nets

(* Changing which connections are up changes nothing about what they carry. *)
LEMMA NetUp ==
  ASSUME NEW G, NEW w \in Nets(G), NEW u \in SUBSET Links
  PROVE  /\ [w EXCEPT !.up = u] \in Nets(G)
         /\ [w EXCEPT !.up = u].breaks = w.breaks
<1>1. [w EXCEPT !.up = u] = [up |-> u, chan |-> w.chan, breaks |-> w.breaks]
    BY DEF Nets
<1> QED BY <1>1, NetFields DEF Nets

(* A connection may carry any sequence of good packets. *)
LEMMA NetChan ==
  ASSUME NEW G, NEW w \in Nets(G), NEW h \in Hops, NEW q \in Seq(G)
  PROVE  /\ [w EXCEPT !.chan[h] = q] \in Nets(G)
         /\ [w EXCEPT !.chan[h] = q].breaks = w.breaks
<1>1. PICK c : c = [w.chan EXCEPT ![h] = q]
    OBVIOUS
<1>2. [w EXCEPT !.chan[h] = q] = [w EXCEPT !.chan = c]
    BY <1>1 DEF Nets
<1>3. [w EXCEPT !.chan = c] = [up |-> w.up, chan |-> c, breaks |-> w.breaks]
    BY DEF Nets
<1>4. c \in [Hops -> Seq(G)]
    BY <1>1, NetFields
<1> QED BY <1>2, <1>3, <1>4, NetFields DEF Nets

-----------------------------------------------------------------------------
(* One attempt to send: what it may do to the network.                     *)
LEMMA SendFacts ==
  ASSUME NEW G, NEW w \in Nets(G), flaps \in Nat, w.breaks + flaps <= MaxFaults,
         NEW n \in Nodes, NEW p \in G, NEW o \in sendPacket(w, n, p)
  PROVE  /\ o.net \in Nets(G) /\ o.ok \in BOOLEAN /\ o.reached \in BOOLEAN
         /\ w.breaks <= o.net.breaks /\ o.net.breaks + flaps <= MaxFaults
         /\ ~o.ok /\ o.reached => o.net.breaks = w.breaks + 1
<1> DEFINE d == routes[n][p.dst]
           hop == <<n, d>>
           written == [w EXCEPT !.chan[hop] = Append(@, p)]
           broken(x) == [x EXCEPT !.up = @ \ {{hop[1], hop[2]}}, !.breaks = @ + 1]
<1>0. w.up \in SUBSET Links /\ w.chan \in [Hops -> Seq(G)] /\ w.breaks \in Nat
    BY DEF Nets
<1>a. /\ w.breaks <= w.breaks + 1
      /\ w.breaks + flaps # MaxFaults => w.breaks + 1 + flaps <= MaxFaults
    BY <1>0, HopsAssumption
<1>1. CASE ~Linked(w, n, p)
    <2>1. o = [ok |-> FALSE, net |-> w, reached |-> FALSE]
        BY <1>1 DEF sendPacket
    <2> QED BY <2>1, <1>0
<1>2. CASE Linked(w, n, p)
    <2>1. hop \in Hops
        <3>1. {n, d} \in Links
            BY <1>2, <1>0 DEF Linked
        <3> QED BY <3>1, LinksAssumption DEF Hops
    <2>2. written \in Nets(G) /\ written.breaks = w.breaks
        <3>1. PICK q : q = Append(w.chan[hop], p)
            OBVIOUS
        <3>2. q \in Seq(G)
            BY <2>1, <1>0, <3>1
        <3>3. written = [w EXCEPT !.chan[hop] = q]
            BY <3>1
        <3> HIDE DEF written, hop
        <3> QED BY <2>1, <3>2, <3>3, NetChan
    <2>3. ASSUME NEW x \in Nets(G), x.breaks = w.breaks
          PROVE  broken(x) \in Nets(G) /\ broken(x).breaks = w.breaks + 1
        <3>1. PICK u : u = x.up \ {{hop[1], hop[2]}}
            OBVIOUS
        <3>2. PICK b : b = x.breaks + 1
            OBVIOUS
        <3>3. u \in SUBSET Links /\ b \in Nat /\ b = w.breaks + 1
            BY <3>1, <3>2, <2>3, NetFields
        <3>4. PICK v : v = [x EXCEPT !.up = u]
            OBVIOUS
        <3>5. broken(x) = [v EXCEPT !.breaks = b]
            BY <3>1, <3>2, <3>4
        <3>6. v = [up |-> u, chan |-> x.chan, breaks |-> x.breaks]
            BY <3>4 DEF Nets
        <3>7. [v EXCEPT !.breaks = b] = [up |-> u, chan |-> x.chan, breaks |-> b]
            BY <3>6
        <3> HIDE DEF broken
        <3> QED BY <3>3, <3>5, <3>7, NetFields DEF Nets
    <2>4. \/ o = [ok |-> TRUE, net |-> written, reached |-> TRUE]
          \/ /\ w.breaks + flaps # MaxFaults
             /\ \/ o = [ok |-> FALSE, net |-> broken(written), reached |-> TRUE]
                \/ o = [ok |-> FALSE, net |-> broken(w), reached |-> FALSE]
        BY <1>2 DEF sendPacket
    <2> HIDE DEF written, broken, hop
    <2>5. CASE o = [ok |-> TRUE, net |-> written, reached |-> TRUE]
        BY <2>2, <2>5, <1>0
    <2>6. ASSUME w.breaks + flaps # MaxFaults, NEW x \in Nets(G), x.breaks = w.breaks, NEW r \in BOOLEAN,
                 o = [ok |-> FALSE, net |-> broken(x), reached |-> r]
          PROVE  /\ o.net \in Nets(G) /\ o.ok \in BOOLEAN /\ o.reached \in BOOLEAN
                 /\ w.breaks <= o.net.breaks /\ o.net.breaks + flaps <= MaxFaults
                 /\ ~o.ok /\ o.reached => o.net.breaks = w.breaks + 1
        <3>1. /\ o.net = broken(x) /\ o.ok = FALSE /\ o.reached = r
              /\ broken(x) \in Nets(G) /\ broken(x).breaks = w.breaks + 1
            BY <2>3, <2>6
        <3>2. w.breaks <= w.breaks + 1 /\ w.breaks + 1 + flaps <= MaxFaults
            BY <2>6, <1>a
        <3> QED BY <3>1, <3>2
    <2> QED BY <2>2, <2>4, <2>5, <2>6
<1> QED BY <1>1, <1>2

-----------------------------------------------------------------------------
(* Packets stay good: what was sealed stays sealed, a bound stream stays   *)
(* bound, and keys and failures are only added.                            *)
Grows ==
  /\ \A e \in Ends, i \in Incarnations :
       Len(sent'[e][i]) \in Nat /\ Len(sent[e][i]) <= Len(sent'[e][i])
  /\ Bound => Bound'
  /\ s'[B].inc \in Nat /\ s[B].inc <= s'[B].inc
  /\ net'.breaks \in Nat /\ net.breaks <= net'.breaks

(* While histories only grow, a packet that was good stays good. *)
LEMMA GoodGrows ==
  ASSUME StreamInv, Grows
  PROVE  Good \subseteq Good'
<1> SUFFICES ASSUME NEW p \in Good PROVE p \in Good'
    OBVIOUS
<1>0. B \in Ends
    BY DEF Ends
<1>1. p \in Packets /\ p.dst = Other(p.src) /\ p.try <= net.breaks /\ p.try \in Nat /\ p.src \in Ends
    BY DEF Good, Packets
<1>2. p.try <= net'.breaks
    BY <1>1 DEF Grows, StreamInv, PacketsGood, Nets
<1>3. ASSUME p.kind = "data"
      PROVE  p.inc \in Incarnations /\ p.seq < Len(sent'[p.src][p.inc])
    <2>1. p.inc \in Incarnations /\ p.seq < Len(sent[p.src][p.inc]) /\ p.seq \in Nat
        BY <1>3 DEF Good, Packets
    <2>2. Len(sent[p.src][p.inc]) \in Nat
        BY <2>1, <1>1 DEF StreamInv, Histories
    <2> QED BY <2>1, <2>2, <1>1 DEF Grows
<1>4. ASSUME p.kind = "ready" PROVE Bound'
    BY <1>4 DEF Good, Grows
<1>5. ASSUME p.kind = "ack" PROVE p.inc \in 1 .. s'[B].inc
    <2>1. p.inc \in 1 .. s[B].inc /\ s[B].inc \in Nat
        BY <1>5, <1>0 DEF Good, StreamInv, Keys, StreamT, Incarnations
    <2> QED BY <2>1 DEF Grows
<1> QED BY <1>1, <1>2, <1>3, <1>4, <1>5 DEF Good

(* What was good and is kept is good after the step.                       *)
LEMMA PacketsKept ==
  ASSUME PacketsGood, NEW G, Good \subseteq G
  PROVE  /\ net \in Nets(G) /\ work \in [Nodes -> SUBSET G]
         /\ opening \subseteq G /\ result \in Seq(G)
         /\ \A e \in Ends : s[e].incoming \in Seq(DataFor(G, e))
<1>1. net \in Nets(G)
    BY NetsMonotone DEF PacketsGood
<1>2. work \in [Nodes -> SUBSET G] /\ opening \subseteq G
    BY DEF PacketsGood
<1>3. result \in Seq(G)
    BY SeqMonotone DEF PacketsGood
<1>4. ASSUME NEW e \in Ends PROVE s[e].incoming \in Seq(DataFor(G, e))
    <2>1. DataFor(Good, e) \subseteq DataFor(G, e)
        BY DEF DataFor
    <2> QED BY <2>1, SeqMonotone DEF PacketsGood
<1> QED BY <1>1, <1>2, <1>3, <1>4

-----------------------------------------------------------------------------
(* What the applications see of a step that writes and delivers nothing:   *)
(* the ends that are closed after it have closed.                          *)
LEMMA EmptyBefore ==
  ASSUME StreamInv, ~Bound, NEW e \in Ends, NEW i \in Incarnations
  PROVE  sent[e][i] = << >> /\ got[e][i] = << >>
<1>1. Other(e) \in Ends
    BY OtherFacts
<1>2. sent[e][i] = << >> /\ sent[Other(e)][i] = << >>
    BY <1>1 DEF StreamInv, Keys
<1>3. got[e][i] \in Seq(Chunks) /\ Len(got[e][i]) <= Len(sent[Other(e)][i])
    BY DEF StreamInv, Histories
<1>4. Len(got[e][i]) = 0
    BY <1>2, <1>3
<1> QED BY <1>2, <1>3, <1>4

(* A step that only closes ends of the present stream is a step of the channel. *)
LEMMA CloseStep ==
  ASSUME StreamInv, s'[A].inc \in Incarnations, s[A].inc \in Incarnations,
         Bound => /\ Bound' /\ s'[A].inc = s[A].inc
                  /\ \A e \in Ends :
                       /\ sent'[e][s[A].inc] = sent[e][s[A].inc]
                       /\ got'[e][s[A].inc] = got[e][s[A].inc]
                       /\ EndOpen(e)' => EndOpen(e),
         ~Bound => UNCHANGED <<sent, got>>
  PROVE  App!Next
<1> DEFINE E == {e \in Ends : EndClosed(e)'}
<1>1. [e \in Ends |-> EndClosed(e)'] = [e \in Ends |-> [f \in Ends |-> EndClosed(f)][e] \/ e \in E]
    <2>1. ASSUME NEW e \in Ends PROVE EndClosed(e) => EndClosed(e)'
        BY DEF EndClosed
    <2>2. ASSUME NEW e \in Ends PROVE EndClosed(e)' = ([f \in Ends |-> EndClosed(f)][e] \/ e \in E)
        <3>1. [f \in Ends |-> EndClosed(f)][e] = EndClosed(e)
            OBVIOUS
        <3>2. EndClosed(e)' \in BOOLEAN /\ EndClosed(e) \in BOOLEAN
            BY DEF EndClosed, Bound
        <3>3. (e \in E) <=> EndClosed(e)'
            OBVIOUS
        <3> QED BY <2>1, <3>1, <3>2, <3>3
    <2> QED BY <2>2, Zenon
<1>2. ASSUME NEW e \in Ends
      PROVE  /\ (IF Bound' THEN sent'[e][s'[A].inc] ELSE <<>>) = (IF Bound THEN sent[e][s[A].inc] ELSE <<>>)
             /\ (IF Bound' THEN got'[e][s'[A].inc] ELSE <<>>) = (IF Bound THEN got[e][s[A].inc] ELSE <<>>)
    <2>1. CASE Bound
        BY <2>1
    <2>2. CASE ~Bound
        BY <2>2, EmptyBefore
    <2> QED BY <2>1, <2>2
<1>3. App!Close(E)
    BY <1>1, <1>2 DEF App!Close
<1> QED BY <1>3 DEF App!Next

(* A step of the network, of an opener that does not succeed, or one that  *)
(* only closes ends or starts the pump of a bound stream.                  *)
Quiet ==
  /\ opener' \in Progress /\ (Bound' <=> Bound)
  /\ UNCHANGED <<sent, got>>
  /\ s' \in [Ends -> StreamT]
  /\ \A e \in Ends :
       /\ s'[e].inc = s[e].inc /\ s'[e].want = s[e].want
       /\ s'[e].open => s[e].open
       /\ s'[e].pump \in {s[e].pump, "ended"} \/ Bound

(* Names and types of the two ends. *)
LEMMA EndsFacts ==
  ASSUME StreamInv
  PROVE  /\ A \in Ends /\ B \in Ends /\ A \in Nodes /\ B \in Nodes /\ Ends = {A, B}
         /\ \A e \in Ends : s[e] \in StreamT /\ s[e].inc \in Incarnations /\ s[e].inc \in Nat
<1>1. A \in Ends /\ B \in Ends /\ A \in Nodes /\ B \in Nodes /\ Ends = {A, B}
    BY EndsAssumption DEF Ends
<1>2. ASSUME NEW e \in Ends PROVE s[e] \in StreamT /\ s[e].inc \in Incarnations /\ s[e].inc \in Nat
    BY DEF StreamInv, Keys, StreamT, Incarnations
<1> QED BY <1>1, <1>2

(* A step that moves no data under the present keys keeps the histories, and the
   channel stutters or closes. *)
LEMMA QuietStep ==
  ASSUME StreamInv, Quiet
  PROVE  Histories' /\ Keys' /\ App!Next
<1>0. /\ A \in Ends /\ B \in Ends
      /\ \A e \in Ends : s[e].inc \in Incarnations
    BY EndsFacts
<1>1. Histories'
    BY DEF StreamInv, Histories, Quiet
<1>2. Keys'
    <2>1. opener' \in Progress /\ s' \in [Ends -> StreamT]
        BY DEF Quiet
    <2>2. ASSUME NEW e \in Ends, s'[e].open PROVE s'[e].want = Len(got'[e][s'[e].inc])
        BY <2>2 DEF Quiet, StreamInv, Keys
    <2>3. s'[A].inc <= s'[B].inc
        BY <1>0 DEF Quiet, StreamInv, Keys
    <2>4. \A i \in Incarnations : i # s'[A].inc => sent'[A][i] = << >>
        BY <1>0 DEF Quiet, StreamInv, Keys
    <2>5. ASSUME ~Bound'
          PROVE  /\ ~s'[A].open /\ s'[B].pump \in {"off", "ended"}
                 /\ \A e \in Ends, i \in Incarnations : sent'[e][i] = << >>
        BY <1>0, <2>5 DEF Quiet, StreamInv, Keys
    <2> QED BY <2>1, <2>2, <2>3, <2>4, <2>5 DEF Keys
<1>3. App!Next
    <2>1. s'[A].inc = s[A].inc /\ s[A].inc \in Incarnations
        BY <1>0 DEF Quiet
    <2>2. ASSUME Bound
          PROVE  /\ Bound'
                 /\ \A e \in Ends :
                      /\ sent'[e][s[A].inc] = sent[e][s[A].inc]
                      /\ got'[e][s[A].inc] = got[e][s[A].inc]
                      /\ EndOpen(e)' => EndOpen(e)
        BY <2>1, <2>2 DEF Quiet, EndOpen
    <2>3. UNCHANGED <<sent, got>>
        BY DEF Quiet
    <2> QED BY <2>1, <2>2, <2>3, CloseStep
<1> QED BY <1>1, <1>2, <1>3

(* Packets are good after a quiet step that counts failures upwards.       *)
LEMMA QuietGrows ==
  ASSUME StreamInv, Quiet, net'.breaks \in Nat, net.breaks <= net'.breaks
  PROVE  Good \subseteq Good'
<1>1. s'[B].inc \in Nat /\ s[B].inc <= s'[B].inc
    BY EndsFacts DEF Quiet
<1>2. \A e \in Ends, i \in Incarnations :
        Len(sent'[e][i]) \in Nat /\ Len(sent[e][i]) <= Len(sent'[e][i])
    BY DEF Quiet, StreamInv, Histories
<1> QED BY <1>1, <1>2, GoodGrows DEF Grows, Quiet

-----------------------------------------------------------------------------
(* New packets, and an attempt to send one.                                *)
LEMMA NewPacket ==
  ASSUME NEW k \in PacketKinds, NEW e \in Ends, NEW i \in Incarnations \cup 0 .. MaxFaults,
         NEW q \in 0 .. MaxChunks[A] + MaxChunks[B]
  PROVE  /\ newPacket(k, e, Other(e), i, q) \in Packets
         /\ newPacket(k, e, Other(e), i, q) =
              [kind |-> k, src |-> e, dst |-> Other(e), inc |-> i, seq |-> q, try |-> 0, ttl |-> MaxHops]
<1>1. 0 \in 0 .. MaxFaults /\ MaxHops \in 0 .. MaxHops /\ Other(e) \in Ends
    BY HopsAssumption, OtherFacts
<1> QED BY <1>1 DEF newPacket, Packets

(* A control packet carries the number 0. *)
LEMMA NoSeq == 0 \in 0 .. MaxChunks[A] + MaxChunks[B]
<1>1. MaxChunks[A] \in Nat /\ MaxChunks[B] \in Nat
    BY BoundsAssumption DEF Ends
<1> QED BY <1>1

(* Sending a packet, successfully or not, puts nothing but that packet into the
   network, and a failure that reached somebody counts as a break. *)
LEMMA SendGood ==
  ASSUME StreamInv, NEW w \in Nets(Good), w.breaks = net.breaks,
         NEW n \in Nodes, NEW p \in Packets, NEW o \in sendPacket(w, n, p)
  PROVE  /\ o.ok \in BOOLEAN /\ o.reached \in BOOLEAN
         /\ o.net.breaks \in Nat /\ net.breaks <= o.net.breaks /\ o.net.breaks + flaps <= MaxFaults
         /\ ~o.ok /\ o.reached => o.net.breaks = net.breaks + 1
         /\ \A G : Good \subseteq G /\ p \in G => o.net \in Nets(G)
<1>1. flaps \in Nat /\ w.breaks + flaps <= MaxFaults
    BY DEF StreamInv, PacketsGood
<1>2. Good \subseteq Packets
    BY DEF Good
<1>3. w \in Nets(Packets)
    BY <1>2, NetsMonotone
<1>4. /\ o.ok \in BOOLEAN /\ o.reached \in BOOLEAN /\ o.net \in Nets(Packets)
      /\ net.breaks <= o.net.breaks /\ o.net.breaks + flaps <= MaxFaults
      /\ ~o.ok /\ o.reached => o.net.breaks = net.breaks + 1
    BY <1>1, <1>3, SendFacts
<1>5. o.net.breaks \in Nat
    BY <1>4, NetFields
<1>6. ASSUME NEW G, Good \subseteq G, p \in G PROVE o.net \in Nets(G)
    <2>1. w \in Nets(G)
        BY <1>6, NetsMonotone
    <2> QED BY <2>1, <1>1, <1>6, SendFacts
<1> QED BY <1>4, <1>5, <1>6

(* The fields of a stream whose end is closed.                             *)
LEMMA RemovedFacts ==
  ASSUME StreamInv, NEW e \in Ends
  PROVE  /\ removed(e) \in [Ends -> StreamT]
         /\ removed(e)[e].open = FALSE /\ removed(e)[e].inc = s[e].inc
         /\ removed(e)[e].pump = "ended" /\ removed(e)[e].want = s[e].want
         /\ removed(e)[e].incoming = << >>
         /\ \A d \in Ends \ {e} : removed(e)[d] = s[d]
<1>1. s \in [Ends -> StreamT]
    BY DEF StreamInv, Keys
<1>2. PICK a : a = [s EXCEPT ![e].open = FALSE]
    OBVIOUS
<1>3. PICK b : b = [a EXCEPT ![e].pump = "ended"]
    OBVIOUS
<1>4. removed(e) = [b EXCEPT ![e].incoming = << >>]
    BY <1>2, <1>3 DEF removed
<1>5. a \in [Ends -> StreamT]
    BY <1>1, <1>2 DEF StreamT
<1>6. b \in [Ends -> StreamT]
    BY <1>3, <1>5 DEF StreamT
<1>7. removed(e) \in [Ends -> StreamT]
    <2>0. << >> \in Seq(Packets)
        OBVIOUS
    <2>1. PICK x \in Seq(Packets) : x = << >>
        BY <2>0
    <2>2. [b EXCEPT ![e].incoming = x] \in [Ends -> StreamT]
        BY <1>6 DEF StreamT
    <2> QED BY <2>1, <2>2, <1>4
<1>8. /\ a[e].inc = s[e].inc /\ a[e].want = s[e].want /\ a[e].open = FALSE
      /\ \A d \in Ends \ {e} : a[d] = s[d]
    BY <1>1, <1>2 DEF StreamT
<1>9. /\ b[e].inc = s[e].inc /\ b[e].want = s[e].want /\ b[e].open = FALSE /\ b[e].pump = "ended"
      /\ \A d \in Ends \ {e} : b[d] = s[d]
    BY <1>3, <1>5, <1>8 DEF StreamT
<1>10. /\ removed(e)[e].open = FALSE /\ removed(e)[e].inc = s[e].inc
       /\ removed(e)[e].pump = "ended" /\ removed(e)[e].want = s[e].want
       /\ removed(e)[e].incoming = << >>
       /\ \A d \in Ends \ {e} : removed(e)[d] = s[d]
    BY <1>4, <1>6, <1>9 DEF StreamT
<1> QED BY <1>7, <1>10

(* Removing an end from the stream map moves no data. *)
LEMMA RemovedIsQuiet ==
  ASSUME StreamInv, NEW e \in Ends, s' = removed(e), UNCHANGED <<opener, sent, got>>
  PROVE  /\ Quiet
         /\ \A d \in Ends : s'[d].incoming = s[d].incoming \/ s'[d].incoming = << >>
<1>1. /\ s' \in [Ends -> StreamT]
      /\ s'[e].open = FALSE /\ s'[e].inc = s[e].inc
      /\ s'[e].pump = "ended" /\ s'[e].want = s[e].want /\ s'[e].incoming = << >>
      /\ \A d \in Ends \ {e} : s'[d] = s[d]
    BY RemovedFacts
<1>2. opener \in Progress
    BY DEF StreamInv, Keys
<1> QED BY <1>1, <1>2 DEF Quiet, Bound

(* The queues of a step that only empties queues.                          *)
LEMMA IncomingKept ==
  ASSUME StreamInv, NEW G, Good \subseteq G, NEW t,
         \A d \in Ends : t[d].incoming = s[d].incoming \/ t[d].incoming = << >>
  PROVE  \A d \in Ends : t[d].incoming \in Seq(DataFor(G, d)) /\ Len(t[d].incoming) <= QueueCap
<1> SUFFICES ASSUME NEW d \in Ends
             PROVE  t[d].incoming \in Seq(DataFor(G, d)) /\ Len(t[d].incoming) <= QueueCap
    OBVIOUS
<1>1. s[d].incoming \in Seq(DataFor(G, d)) /\ Len(s[d].incoming) <= QueueCap
    BY PacketsKept DEF StreamInv, PacketsGood
<1>2. << >> \in Seq(DataFor(G, d)) /\ Len(<< >>) <= QueueCap
    BY BoundsAssumption
<1> QED BY <1>1, <1>2

(* A quiet step whose packets are those there were, and those of P.        *)
LEMMA QuietInv ==
  ASSUME StreamInv, Quiet, NEW P, Good \subseteq Good' => P \subseteq Good',
         net'.breaks \in Nat, net.breaks <= net'.breaks, flaps' \in Nat, net'.breaks + flaps' <= MaxFaults,
         \A G : Good \subseteq G /\ P \subseteq G =>
           /\ net' \in Nets(G) /\ work' \in [Nodes -> SUBSET G]
           /\ opening' \subseteq G /\ result' \in Seq(G)
           /\ \A d \in Ends : s'[d].incoming \in Seq(DataFor(G, d)) /\ Len(s'[d].incoming) <= QueueCap,
         seen' \in [Nodes -> SUBSET Packets], Len(result') <= 1
  PROVE  StreamInv' /\ App!Next
<1>1. Good \subseteq Good' /\ P \subseteq Good'
    BY QuietGrows
<1>2. /\ net' \in Nets(Good') /\ work' \in [Nodes -> SUBSET Good']
      /\ opening' \subseteq Good' /\ result' \in Seq(Good')
      /\ \A d \in Ends : s'[d].incoming \in Seq(DataFor(Good', d)) /\ Len(s'[d].incoming) <= QueueCap
    BY <1>1
<1>3. PacketsGood'
    BY <1>2 DEF PacketsGood, DataFor
<1> QED BY <1>3, QuietStep DEF StreamInv

(* A step that leaves the streams and their histories alone is quiet.      *)
LEMMA StillIsQuiet ==
  ASSUME StreamInv, UNCHANGED <<s, sent, got>>, opener' \in Progress, Bound' <=> Bound
  PROVE  Quiet
    BY DEF StreamInv, Keys, Quiet

-----------------------------------------------------------------------------
(* The actions, one lemma each: a step from a state of the invariant leads *)
(* to one, and is a step of the channel.                                   *)
LEMMA CloseLocalStep ==
  ASSUME StreamInv, NEW e \in Ends, NEW notify \in BOOLEAN, closeLocal(net, e, notify),
         UNCHANGED <<routes, flaps, seen, work, opener, result, opening, sent, got>>
  PROVE  StreamInv' /\ App!Next
<1> DEFINE p == newPacket("close", e, Other(e), s[e].inc, 0)
<1>1. /\ Quiet
      /\ \A d \in Ends : s'[d].incoming = s[d].incoming \/ s'[d].incoming = << >>
    BY RemovedIsQuiet DEF closeLocal
<1>2. /\ p \in Packets /\ p.kind = "close" /\ p.dst = Other(p.src) /\ p.try = 0
    BY NewPacket, NoSeq, EndsFacts DEF PacketKinds
<1>3. /\ net \in Nets(Good) /\ net.breaks \in Nat /\ e \in Nodes
      /\ flaps \in Nat /\ net.breaks + flaps <= MaxFaults
    BY NetFields, EndsFacts DEF StreamInv, PacketsGood
<1> HIDE DEF p
<1>4. /\ net'.breaks \in Nat /\ net.breaks <= net'.breaks /\ net'.breaks + flaps <= MaxFaults
      /\ \A G : Good \subseteq G /\ p \in G => net' \in Nets(G)
    <2>1. CASE notify
        <3>1. PICK o \in sendPacket(net, e, p) : net' = o.net
            BY <2>1 DEF closeLocal, p
        <3> QED BY <3>1, <1>2, <1>3, SendGood
    <2>2. CASE ~notify
        <3>1. net' = net
            BY <2>2 DEF closeLocal
        <3> QED BY <3>1, <1>3, NetsMonotone
    <2> QED BY <2>1, <2>2
<1>5. Good \subseteq Good' => {p} \subseteq Good'
    BY <1>2, <1>4 DEF Good
<1>6. ASSUME NEW G, Good \subseteq G, {p} \subseteq G
      PROVE  /\ net' \in Nets(G) /\ work' \in [Nodes -> SUBSET G]
             /\ opening' \subseteq G /\ result' \in Seq(G)
             /\ \A d \in Ends : s'[d].incoming \in Seq(DataFor(G, d)) /\ Len(s'[d].incoming) <= QueueCap
    <2>1. net' \in Nets(G)
        BY <1>4, <1>6
    <2>2. work' \in [Nodes -> SUBSET G] /\ opening' \subseteq G /\ result' \in Seq(G)
        BY <1>6, PacketsKept DEF StreamInv
    <2>3. \A d \in Ends : s'[d].incoming \in Seq(DataFor(G, d)) /\ Len(s'[d].incoming) <= QueueCap
        BY <1>1, <1>6, IncomingKept
    <2> QED BY <2>1, <2>2, <2>3
<1>7. seen' \in [Nodes -> SUBSET Packets] /\ Len(result') <= 1 /\ flaps' = flaps
    BY DEF StreamInv, PacketsGood
<1> QED BY <1>1, <1>3, <1>4, <1>5, <1>6, <1>7, QuietInv

(* openWithConn keeps the invariant; the channel stutters. *)
LEMMA OpenStep ==
  ASSUME StreamInv, Open
  PROVE  StreamInv' /\ App!Next
<1> DEFINE p == newPacket("open", A, B, 0, 0)
<1>1. Quiet
    <2>1. opener = "idle" /\ opener' \in {"waiting", "failed"} /\ UNCHANGED <<s, sent, got>>
        BY DEF Open
    <2> QED BY <2>1, StillIsQuiet DEF Bound, Progress
<1>2. /\ p \in Packets /\ p.kind = "open" /\ p.dst = Other(p.src) /\ p.try = 0
    <2>1. 0 \in 0 .. MaxFaults
        BY HopsAssumption
    <2> QED BY <2>1, NewPacket, NoSeq, EndsFacts, OtherFacts DEF PacketKinds
<1>3. /\ net \in Nets(Good) /\ net.breaks \in Nat /\ A \in Nodes
      /\ flaps \in Nat /\ net.breaks + flaps <= MaxFaults
    BY NetFields, EndsFacts DEF StreamInv, PacketsGood
<1> HIDE DEF p
<1>4. /\ net'.breaks \in Nat /\ net.breaks <= net'.breaks /\ net'.breaks + flaps <= MaxFaults
      /\ \A G : Good \subseteq G /\ p \in G => net' \in Nets(G)
    <2>1. net' = net \/ \E o \in sendPacket(net, A, p) : net' = o.net
        BY DEF Open, p
    <2>2. CASE net' = net
        BY <2>2, <1>3, NetsMonotone
    <2>3. CASE \E o \in sendPacket(net, A, p) : net' = o.net
        BY <2>3, <1>2, <1>3, SendGood
    <2> QED BY <2>1, <2>2, <2>3
<1>5. Good \subseteq Good' => {p} \subseteq Good'
    BY <1>2, <1>4 DEF Good
<1>6. UNCHANGED <<routes, flaps, seen, work, result, opening, s, sent, got>>
    BY DEF Open
<1>7. ASSUME NEW G, Good \subseteq G, {p} \subseteq G
      PROVE  /\ net' \in Nets(G) /\ work' \in [Nodes -> SUBSET G]
             /\ opening' \subseteq G /\ result' \in Seq(G)
             /\ \A d \in Ends : s'[d].incoming \in Seq(DataFor(G, d)) /\ Len(s'[d].incoming) <= QueueCap
    <2>1. net' \in Nets(G)
        BY <1>4, <1>7
    <2>2. work' \in [Nodes -> SUBSET G] /\ opening' \subseteq G /\ result' \in Seq(G)
        BY <1>6, <1>7, PacketsKept DEF StreamInv
    <2>3. \A d \in Ends : s'[d].incoming \in Seq(DataFor(G, d)) /\ Len(s'[d].incoming) <= QueueCap
        BY <1>6, <1>7, IncomingKept
    <2> QED BY <2>1, <2>2, <2>3
<1>8. seen' \in [Nodes -> SUBSET Packets] /\ Len(result') <= 1 /\ flaps' = flaps
    BY <1>6 DEF StreamInv, PacketsGood
<1> QED BY <1>1, <1>3, <1>4, <1>5, <1>7, <1>8, QuietInv

(* An opener that gives up keeps the invariant; the channel stutters or closes. *)
LEMMA OpenFailsStep ==
  ASSUME StreamInv, OpenTimeout \/ OpenError
  PROVE  StreamInv' /\ App!Next
<1>1. /\ opener = "waiting" /\ opener' = "failed" /\ result' = << >>
      /\ UNCHANGED <<net, flaps, seen, work, opening, s, sent, got>>
    BY DEF OpenTimeout, OpenError, fwdVars
<1>2. Quiet
    BY <1>1, StillIsQuiet DEF Bound, Progress
<1>3. /\ net'.breaks \in Nat /\ net.breaks <= net'.breaks /\ flaps' \in Nat /\ net'.breaks + flaps' <= MaxFaults
      /\ seen' \in [Nodes -> SUBSET Packets] /\ Len(result') <= 1
    BY <1>1, NetFields DEF StreamInv, PacketsGood
<1>4. ASSUME NEW G, Good \subseteq G
      PROVE  /\ net' \in Nets(G) /\ work' \in [Nodes -> SUBSET G]
             /\ opening' \subseteq G /\ result' \in Seq(G)
             /\ \A d \in Ends : s'[d].incoming \in Seq(DataFor(G, d)) /\ Len(s'[d].incoming) <= QueueCap
    <2>1. net' \in Nets(G) /\ work' \in [Nodes -> SUBSET G] /\ opening' \subseteq G
        BY <1>1, <1>4, PacketsKept DEF StreamInv
    <2>2. \A d \in Ends : s'[d].incoming \in Seq(DataFor(G, d)) /\ Len(s'[d].incoming) <= QueueCap
        BY <1>1, <1>4, IncomingKept
    <2>3. result' \in Seq(G)
        BY <1>1
    <2> QED BY <2>1, <2>2, <2>3
<1>5. {} \subseteq Good' /\ \A G : {} \subseteq G
    OBVIOUS
<1> QED BY <1>2, <1>3, <1>4, <1>5, QuietInv

(* Steps of the network alone.                                             *)
LEMMA NetworkStep ==
  ASSUME StreamInv, UNCHANGED streamVars, NEW P, Good \subseteq Good' => P \subseteq Good',
         net'.breaks \in Nat, net.breaks <= net'.breaks, flaps' \in Nat, net'.breaks + flaps' <= MaxFaults,
         \A G : Good \subseteq G /\ P \subseteq G => net' \in Nets(G) /\ work' \in [Nodes -> SUBSET G],
         seen' \in [Nodes -> SUBSET Packets]
  PROVE  StreamInv' /\ App!Next
<1>1. UNCHANGED <<opener, result, opening, s, sent, got>>
    BY DEF streamVars
<1>2. Quiet
    <2>1. opener \in Progress
        BY DEF StreamInv, Keys
    <2> QED BY <1>1, <2>1, StillIsQuiet DEF Bound
<1>3. Len(result') <= 1
    BY <1>1 DEF StreamInv, PacketsGood
<1>4. ASSUME NEW G, Good \subseteq G, P \subseteq G
      PROVE  /\ opening' \subseteq G /\ result' \in Seq(G)
             /\ \A d \in Ends : s'[d].incoming \in Seq(DataFor(G, d)) /\ Len(s'[d].incoming) <= QueueCap
    <2>1. opening' \subseteq G /\ result' \in Seq(G)
        BY <1>1, <1>4, PacketsKept DEF StreamInv
    <2>2. \A d \in Ends : s'[d].incoming \in Seq(DataFor(G, d)) /\ Len(s'[d].incoming) <= QueueCap
        BY <1>1, <1>4, IncomingKept
    <2> QED BY <2>1, <2>2
<1> QED BY <1>2, <1>3, <1>4, QuietInv

(* What the invariant says of the network, in one place. *)
LEMMA NetFacts ==
  ASSUME StreamInv
  PROVE  /\ net \in Nets(Good) /\ net.breaks \in Nat /\ flaps \in Nat /\ net.breaks + flaps <= MaxFaults
         /\ work \in [Nodes -> SUBSET Good] /\ seen \in [Nodes -> SUBSET Packets]
         /\ Good \subseteq Packets
    BY NetFields DEF StreamInv, PacketsGood, Good

(* A reader takes a good packet and leaves good packets behind it. *)
LEMMA ReadFacts ==
  ASSUME StreamInv, NEW m \in Nodes, NEW n \in Nodes, Readable(m, n)
  PROVE  /\ Incoming(m, n) \in Good
         /\ Read(m, n) \in Nets(Good) /\ Read(m, n).breaks = net.breaks
<1>1. PICK h \in Hops : h = <<m, n>> /\ net.chan[h] # << >>
    BY DEF Readable
<1>2. net.chan[h] \in Seq(Good)
    BY NetFacts, NetFields
<1>3. PICK q \in Seq(Good) : q = Tail(net.chan[h])
    <2>1. Tail(net.chan[h]) \in Seq(Good)
        BY <1>1, <1>2
    <2> QED BY <2>1
<1>4. Read(m, n) = [net EXCEPT !.chan[h] = q]
    BY <1>1, <1>3 DEF Read
<1>5. Incoming(m, n) \in Good
    BY <1>1, <1>2 DEF Incoming
<1> QED BY <1>4, <1>5, NetFacts, NetChan

(* A connection that breaks with what it carries keeps the invariant. *)
LEMMA LoseStep ==
  ASSUME StreamInv, NEW m \in Nodes, NEW n \in Nodes, Lose(m, n), UNCHANGED streamVars
  PROVE  StreamInv' /\ App!Next
<1>1. PICK h \in Hops : h = <<m, n>>
    BY DEF Lose
<1>2. net' = [net EXCEPT !.chan[h] = << >>] /\ UNCHANGED <<flaps, seen, work>>
    BY <1>1 DEF Lose
<1>3. ASSUME NEW G, Good \subseteq G
      PROVE  net' \in Nets(G) /\ net'.breaks = net.breaks /\ work' \in [Nodes -> SUBSET G]
    <2>1. PICK q \in Seq(G) : q = << >>
        <3>1. << >> \in Seq(G)
            OBVIOUS
        <3> QED BY <3>1
    <2>2. net \in Nets(G) /\ work \in [Nodes -> SUBSET G]
        BY <1>3, PacketsKept DEF StreamInv
    <2>3. net' = [net EXCEPT !.chan[h] = q]
        BY <1>2, <2>1
    <2>4. net' \in Nets(G) /\ net'.breaks = net.breaks
        BY <2>2, <2>3, NetChan
    <2> QED BY <1>2, <2>2, <2>4
<1>4. /\ net'.breaks \in Nat /\ net.breaks <= net'.breaks /\ flaps' \in Nat
      /\ net'.breaks + flaps' <= MaxFaults /\ seen' \in [Nodes -> SUBSET Packets]
    <2>1. net'.breaks = net.breaks
        BY <1>3
    <2> QED BY <1>2, <2>1, NetFacts
<1>5. {} \subseteq Good' /\ \A G : {} \subseteq G
    OBVIOUS
<1> QED BY <1>3, <1>4, <1>5, NetworkStep

(* A new connection keeps the invariant. *)
LEMMA ReconnectStep ==
  ASSUME StreamInv, NEW l \in Links, Reconnect(l), UNCHANGED streamVars
  PROVE  StreamInv' /\ App!Next
<1>1. PICK u : u = net.up \cup {l}
    OBVIOUS
<1>2. net' = [net EXCEPT !.up = u] /\ UNCHANGED <<flaps, seen, work>>
    BY <1>1 DEF Reconnect
<1>3. u \in SUBSET Links
    BY <1>1, NetFacts, NetFields
<1>4. ASSUME NEW G, Good \subseteq G
      PROVE  net' \in Nets(G) /\ net'.breaks = net.breaks /\ work' \in [Nodes -> SUBSET G]
    <2>1. net \in Nets(G) /\ work \in [Nodes -> SUBSET G]
        BY <1>4, PacketsKept DEF StreamInv
    <2> QED BY <1>2, <1>3, <2>1, NetUp
<1>5. net'.breaks = net.breaks
    BY <1>4
<1>6. {} \subseteq Good' /\ \A G : {} \subseteq G
    OBVIOUS
<1> QED BY <1>2, <1>4, <1>5, <1>6, NetFacts, NetworkStep

(* A change of routes keeps the invariant. *)
LEMMA RecomputeStep ==
  ASSUME StreamInv, NEW n \in Nodes, NEW d \in Ends, recomputeRoutes(n, d), UNCHANGED streamVars
  PROVE  StreamInv' /\ App!Next
<1>1. net.breaks + flaps < MaxFaults /\ flaps' = flaps + 1 /\ UNCHANGED <<net, seen, work>>
    BY DEF recomputeRoutes
<1>2. flaps' \in Nat /\ net'.breaks + flaps' <= MaxFaults
    BY <1>1, NetFacts, HopsAssumption
<1>3. ASSUME NEW G, Good \subseteq G
      PROVE  net' \in Nets(G) /\ work' \in [Nodes -> SUBSET G]
    BY <1>1, <1>3, PacketsKept DEF StreamInv
<1>4. {} \subseteq Good' /\ \A G : {} \subseteq G
    OBVIOUS
<1>5. net'.breaks \in Nat /\ net.breaks <= net'.breaks /\ seen' \in [Nodes -> SUBSET Packets]
    BY <1>1, NetFacts
<1> QED BY <1>2, <1>3, <1>4, <1>5, NetworkStep

(* A relay passes on the packet it read, with a lower TTL.                 *)
LEMMA RelayStep ==
  ASSUME StreamInv, NEW m \in Nodes, NEW n \in Nodes, HandleRelay(m, n)
  PROVE  StreamInv' /\ App!Next
<1> DEFINE p == Incoming(m, n)
           w == Read(m, n)
           q == [p EXCEPT !.ttl = @ - 1]
<1>1. Readable(m, n) /\ relay(n, p, w) /\ UNCHANGED <<flaps, streamVars>>
    BY DEF HandleRelay
<1>2. p \in Good /\ w \in Nets(Good) /\ w.breaks = net.breaks
    BY <1>1, ReadFacts
<1>3. PacketID(p) \in Packets
    <2>1. 0 \in 0 .. MaxHops /\ p \in Packets
        BY <1>2, HopsAssumption, NetFacts
    <2> HIDE DEF p
    <2> QED BY <2>1 DEF PacketID, Packets
<1>4. ASSUME ~relayDrop(n, p) PROVE q \in Packets /\ q \in Good
    <2>1. p \in Packets /\ p.ttl \in 0 .. MaxHops /\ ~(p.ttl <= 1)
        BY <1>2, <1>4, NetFacts DEF relayDrop, Packets
    <2>2. p.ttl - 1 \in 0 .. MaxHops
        BY <2>1, HopsAssumption
    <2> HIDE DEF p
    <2>3. q \in Packets
        BY <2>1, <2>2 DEF Packets
    <2>4. /\ q.kind = p.kind /\ q.src = p.src /\ q.dst = p.dst /\ q.inc = p.inc
          /\ q.seq = p.seq /\ q.try = p.try
        BY <2>1 DEF Packets
    <2> HIDE DEF q
    <2> QED BY <2>3, <2>4, <1>2 DEF Good
<1> HIDE DEF p, w, q
<1>5. /\ net'.breaks \in Nat /\ net.breaks <= net'.breaks /\ net'.breaks + flaps <= MaxFaults
      /\ seen' \in [Nodes -> SUBSET Packets]
      /\ \A G : Good \subseteq G => net' \in Nets(G) /\ work' \in [Nodes -> SUBSET G]
    <2>1. CASE relayDrop(n, p)
        <3>1. net' = w /\ UNCHANGED <<seen, work>>
            BY <1>1, <2>1 DEF relay
        <3> QED BY <3>1, <1>2, NetFacts, NetsMonotone
    <2>2. CASE ~relayDrop(n, p)
        <3>1. seen' = [seen EXCEPT ![n] = @ \cup {PacketID(p)}]
            BY <1>1, <2>2 DEF relay
        <3>2. seen' \in [Nodes -> SUBSET Packets]
            BY <3>1, <1>3, NetFacts
        <3>3. CASE isStreamControlPacket(p)
            <4>1. work' = [work EXCEPT ![n] = @ \cup {q}] /\ net' = w
                BY <1>1, <2>2, <3>3 DEF relay, q
            <4>2. work' \in [Nodes -> SUBSET Good]
                BY <4>1, <1>4, <2>2, NetFacts
            <4> QED BY <4>1, <4>2, <3>2, <1>2, NetFacts, NetsMonotone
        <3>4. CASE ~isStreamControlPacket(p)
            <4>1. PICK o \in sendPacket(w, n, q) : net' = o.net /\ work' = work
                BY <1>1, <2>2, <3>4 DEF relay, q
            <4>2. /\ o.net.breaks \in Nat /\ net.breaks <= o.net.breaks /\ o.net.breaks + flaps <= MaxFaults
                  /\ \A G : Good \subseteq G /\ q \in G => o.net \in Nets(G)
                BY <1>2, <1>4, <2>2, SendGood
            <4> QED BY <4>1, <4>2, <3>2, <1>4, <2>2, NetFacts
        <3> QED BY <3>3, <3>4
    <2> QED BY <2>1, <2>2
<1>6. {} \subseteq Good' /\ \A G : {} \subseteq G
    OBVIOUS
<1>7. UNCHANGED streamVars /\ flaps' \in Nat /\ net'.breaks + flaps' <= MaxFaults
    BY <1>1, <1>5, NetFacts
<1> QED BY <1>5, <1>6, <1>7, NetworkStep

(* A worker tries again with a fresh packet ID.                            *)
LEMMA RetryStep ==
  ASSUME StreamInv, NEW n \in Nodes, NEW p \in work[n], Retry(n, p)
  PROVE  StreamInv' /\ App!Next
<1>1. /\ p \in Good /\ p \in Packets /\ net \in Nets(Good)
      /\ work \in [Nodes -> SUBSET Good] /\ seen \in [Nodes -> SUBSET Packets]
      /\ flaps \in Nat
    BY NetFacts
<1>2. PICK o \in sendPacket(net, n, p) :
        /\ net' = o.net
        /\ \/ work' = [work EXCEPT ![n] = @ \ {p}]
           \/ work' = [work EXCEPT ![n] = (@ \ {p}) \cup {[p EXCEPT !.try = o.net.breaks]}]
           \/ work' = work
    BY DEF Retry, sendPacketWithRetry
<1>3. UNCHANGED <<flaps, seen, streamVars>>
    BY DEF Retry
<1>4. PICK q : q = [p EXCEPT !.try = o.net.breaks]
    OBVIOUS
<1>5. /\ o.net.breaks \in Nat /\ net.breaks <= o.net.breaks /\ o.net.breaks + flaps <= MaxFaults
      /\ \A G : Good \subseteq G /\ p \in G => o.net \in Nets(G)
    BY <1>1, SendGood
<1>6. o.net.breaks \in 0 .. MaxFaults
    BY <1>5, <1>1, HopsAssumption
<1>7. /\ q \in Packets /\ q.kind = p.kind /\ q.src = p.src /\ q.dst = p.dst /\ q.inc = p.inc
      /\ q.seq = p.seq /\ q.try = o.net.breaks
    BY <1>1, <1>4, <1>6 DEF Packets
<1>8. ASSUME Good \subseteq Good' PROVE {q} \subseteq Good'
    <2>1. p \in Good' /\ q.try <= net'.breaks
        BY <1>1, <1>2, <1>5, <1>7, <1>8
    <2> QED BY <2>1, <1>7 DEF Good
<1>9. ASSUME NEW G, Good \subseteq G, {q} \subseteq G
      PROVE  net' \in Nets(G) /\ work' \in [Nodes -> SUBSET G]
    BY <1>1, <1>2, <1>4, <1>5, <1>9
<1> QED BY <1>1, <1>2, <1>3, <1>5, <1>8, <1>9, NetworkStep

(* A worker gives up; the stream its ACK announces is closed.              *)
LEMMA GiveUpStep ==
  ASSUME StreamInv, NEW n \in Nodes, NEW p \in work[n], GiveUp(n, p)
  PROVE  StreamInv' /\ App!Next
<1>1. /\ p \in Good /\ p \in Packets /\ net \in Nets(Good)
      /\ work \in [Nodes -> SUBSET Good] /\ seen \in [Nodes -> SUBSET Packets]
      /\ flaps \in Nat
    BY NetFacts
<1>2. PICK o \in sendPacket(net, n, p) : net' = o.net /\ work' = [work EXCEPT ![n] = @ \ {p}]
    BY DEF GiveUp, deadlinePassed
<1>3. UNCHANGED <<flaps, seen, opener, result, opening, sent, got>> /\ (s' = s \/ s' = removed(B))
    BY DEF GiveUp
<1>4. Quiet /\ \A d \in Ends : s'[d].incoming = s[d].incoming \/ s'[d].incoming = << >>
    <2>1. CASE s' = s
        <3>1. opener \in Progress
            BY DEF StreamInv, Keys
        <3> QED BY <1>3, <2>1, <3>1, StillIsQuiet DEF Bound
    <2>2. CASE s' = removed(B)
        BY <1>3, <2>2, EndsFacts, RemovedIsQuiet
    <2> QED BY <1>3, <2>1, <2>2
<1>5. /\ o.net.breaks \in Nat /\ net.breaks <= o.net.breaks /\ o.net.breaks + flaps <= MaxFaults
      /\ \A G : Good \subseteq G /\ p \in G => o.net \in Nets(G)
    BY <1>1, SendGood
<1>6. ASSUME NEW G, Good \subseteq G
      PROVE  /\ net' \in Nets(G) /\ work' \in [Nodes -> SUBSET G]
             /\ opening' \subseteq G /\ result' \in Seq(G)
             /\ \A d \in Ends : s'[d].incoming \in Seq(DataFor(G, d)) /\ Len(s'[d].incoming) <= QueueCap
    <2>1. net' \in Nets(G) /\ work' \in [Nodes -> SUBSET G]
        BY <1>1, <1>2, <1>5, <1>6
    <2>2. opening' \subseteq G /\ result' \in Seq(G)
        BY <1>3, <1>6, PacketsKept DEF StreamInv
    <2>3. \A d \in Ends : s'[d].incoming \in Seq(DataFor(G, d)) /\ Len(s'[d].incoming) <= QueueCap
        BY <1>4, <1>6, IncomingKept
    <2> QED BY <2>1, <2>2, <2>3
<1>7. {} \subseteq Good' /\ \A G : {} \subseteq G
    OBVIOUS
<1>8. Len(result') <= 1
    BY <1>3 DEF StreamInv, PacketsGood
<1> QED BY <1>1, <1>2, <1>3, <1>4, <1>5, <1>6, <1>7, <1>8, QuietInv

(* The packet is for the node that read it.                                *)
LEMMA HandleHereStep ==
  ASSUME StreamInv, NEW m \in Nodes, NEW n \in Nodes, HandleHere(m, n)
  PROVE  StreamInv' /\ App!Next
<1> DEFINE p == Incoming(m, n)
<1>1. /\ Readable(m, n) /\ p.dst = n /\ handleLocalPacket(n, p) /\ net' = Read(m, n)
      /\ UNCHANGED <<flaps, seen, work, opener, sent, got>>
    BY DEF HandleHere
<1>2. p \in Good /\ net' \in Nets(Good) /\ net'.breaks = net.breaks
    BY <1>1, ReadFacts
<1>3. p \in Packets /\ n \in Ends
    BY <1>1, <1>2, NetFacts DEF Packets
<1> HIDE DEF p
<1>4. s \in [Ends -> StreamT] /\ opener \in Progress
    BY DEF StreamInv, Keys
<1>5. /\ result \in Seq(Good) /\ Len(result) <= 1 /\ opening \subseteq Good
      /\ \A d \in Ends : s[d].incoming \in Seq(DataFor(Good, d)) /\ Len(s[d].incoming) <= QueueCap
    BY DEF StreamInv, PacketsGood
<1>6. /\ Quiet
      /\ opening' \subseteq Good /\ result' \in Seq(Good) /\ Len(result') <= 1
      /\ \A d \in Ends : s'[d].incoming \in Seq(DataFor(Good, d)) /\ Len(s'[d].incoming) <= QueueCap
    <2>1. CASE Answer(p)
        <3>1. UNCHANGED <<opening, s>> /\ (result' = result \/ result' = <<p>>)
            BY <2>1 DEF Answer
        <3>2. Quiet
            BY <1>1, <1>4, <3>1, StillIsQuiet DEF Bound
        <3>3. <<p>> \in Seq(Good) /\ Len(<<p>>) <= 1
            BY <1>2
        <3> QED BY <3>1, <3>2, <3>3, <1>5
    <2>2. CASE OpenArrives(p)
        <3>1. UNCHANGED <<result, s>> /\ opening' = opening \cup {p}
            BY <2>2 DEF OpenArrives
        <3>2. Quiet
            BY <1>1, <1>4, <3>1, StillIsQuiet DEF Bound
        <3> QED BY <3>1, <3>2, <1>2, <1>5
    <2>3. CASE ReadyArrives(n, p)
        <3>1. UNCHANGED <<result, opening>> /\ (s' = s \/ s' = [s EXCEPT ![n].pump = "on"]) /\ Bound
            BY <2>3, <1>2 DEF ReadyArrives, Good
        <3>2. /\ s' \in [Ends -> StreamT]
              /\ \A d \in Ends : /\ s'[d].inc = s[d].inc /\ s'[d].want = s[d].want
                                /\ s'[d].open = s[d].open /\ s'[d].incoming = s[d].incoming
            <4>1. CASE s' = s
                BY <4>1, <1>4
            <4>2. CASE s' = [s EXCEPT ![n].pump = "on"]
                <5>1. s' \in [Ends -> StreamT]
                    BY <4>2, <1>3, <1>4 DEF StreamT
                <5>2. \A d \in Ends : /\ s'[d].inc = s[d].inc /\ s'[d].want = s[d].want
                                    /\ s'[d].open = s[d].open /\ s'[d].incoming = s[d].incoming
                    BY <4>2, <1>3, <1>4 DEF StreamT
                <5> QED BY <5>1, <5>2
            <4> QED BY <3>1, <4>1, <4>2
        <3>3. Quiet
            BY <3>1, <3>2, <1>1, <1>4 DEF Quiet, Bound
        <3> QED BY <3>1, <3>2, <3>3, <1>5
    <2>4. CASE deliver(n, p)
        <3>1. p \in DataFor(Good, n)
            BY <2>4, <1>1, <1>2 DEF deliver, DataFor
        <3>2. /\ UNCHANGED <<result, opening>>
              /\ \/ s' = s
                 \/ s' = [s EXCEPT ![n].incoming = Append(@, p)] /\ Len(s[n].incoming) < QueueCap
            BY <2>4 DEF deliver
        <3>3. CASE s' = s
            <4>1. Quiet
                BY <1>1, <1>4, <3>3, StillIsQuiet DEF Bound
            <4> QED BY <3>2, <3>3, <4>1, <1>5
        <3>4. CASE s' = [s EXCEPT ![n].incoming = Append(@, p)] /\ Len(s[n].incoming) < QueueCap
            <4>1. PICK q : q = Append(s[n].incoming, p)
                OBVIOUS
            <4>2. q \in Seq(DataFor(Good, n)) /\ Len(q) <= QueueCap
                BY <3>1, <3>4, <4>1, <1>3, <1>5, BoundsAssumption
            <4>3. q \in Seq(Packets)
                BY <4>2, SeqMonotone DEF DataFor, Good
            <4>4. s' = [s EXCEPT ![n].incoming = q]
                BY <3>4, <4>1
            <4>5. /\ s' \in [Ends -> StreamT]
                  /\ \A d \in Ends : /\ s'[d].inc = s[d].inc /\ s'[d].want = s[d].want
                                    /\ s'[d].open = s[d].open /\ s'[d].pump = s[d].pump
                                    /\ s'[d].incoming = IF d = n THEN q ELSE s[d].incoming
                BY <4>3, <4>4, <1>3, <1>4 DEF StreamT
            <4>6. Quiet
                BY <4>5, <1>1, <1>4 DEF Quiet, Bound
            <4>7. \A d \in Ends : s'[d].incoming \in Seq(DataFor(Good, d)) /\ Len(s'[d].incoming) <= QueueCap
                BY <4>2, <4>5, <1>5
            <4> QED BY <3>2, <4>6, <4>7, <1>5
        <3> QED BY <3>2, <3>3, <3>4
    <2>5. CASE CloseArrives(n, p)
        <3>1. UNCHANGED <<result, opening>> /\ (s' = s \/ s' = removed(n))
            BY <2>5 DEF CloseArrives
        <3>2. Quiet /\ \A d \in Ends : s'[d].incoming = s[d].incoming \/ s'[d].incoming = << >>
            <4>1. CASE s' = s
                BY <4>1, <1>1, <1>4, StillIsQuiet DEF Bound
            <4>2. CASE s' = removed(n)
                BY <4>2, <1>1, <1>3, RemovedIsQuiet
            <4> QED BY <3>1, <4>1, <4>2
        <3>3. \A d \in Ends : s'[d].incoming \in Seq(DataFor(Good, d)) /\ Len(s'[d].incoming) <= QueueCap
            BY <3>2, IncomingKept
        <3> QED BY <3>1, <3>2, <3>3, <1>5
    <2> QED BY <1>1, <2>1, <2>2, <2>3, <2>4, <2>5 DEF handleLocalPacket
<1>7. ASSUME NEW G, Good \subseteq G
      PROVE  /\ net' \in Nets(G) /\ work' \in [Nodes -> SUBSET G]
             /\ opening' \subseteq G /\ result' \in Seq(G)
             /\ \A d \in Ends : s'[d].incoming \in Seq(DataFor(G, d)) /\ Len(s'[d].incoming) <= QueueCap
    <2>1. net' \in Nets(G) /\ result' \in Seq(G)
        BY <1>2, <1>6, <1>7, NetsMonotone, SeqMonotone
    <2>2. work' \in [Nodes -> SUBSET G] /\ opening' \subseteq G
        BY <1>1, <1>6, <1>7, NetFacts
    <2>3. ASSUME NEW d \in Ends PROVE s'[d].incoming \in Seq(DataFor(G, d)) /\ Len(s'[d].incoming) <= QueueCap
        <3>1. DataFor(Good, d) \subseteq DataFor(G, d)
            BY <1>7 DEF DataFor
        <3> QED BY <3>1, <1>6, SeqMonotone
    <2> QED BY <2>1, <2>2, <2>3
<1>8. {} \subseteq Good' /\ \A G : {} \subseteq G
    OBVIOUS
<1>9. /\ net'.breaks \in Nat /\ net.breaks <= net'.breaks /\ flaps' \in Nat
      /\ net'.breaks + flaps' <= MaxFaults /\ seen' \in [Nodes -> SUBSET Packets]
    BY <1>1, <1>2, NetFacts
<1> QED BY <1>6, <1>7, <1>8, <1>9, QuietInv

(* A new stream, field by field.                                           *)
LEMMA NewStream ==
  ASSUME NEW i \in Incarnations
  PROVE  newStream(i) = [open |-> TRUE, inc |-> i, pump |-> "off", want |-> 0, incoming |-> << >>]
<1>1. PICK a : a = [NoStream EXCEPT !.open = TRUE]
    OBVIOUS
<1>2. a = [open |-> TRUE, inc |-> 0, pump |-> "off", want |-> 0, incoming |-> << >>]
    BY <1>1 DEF NoStream
<1>3. newStream(i) = [a EXCEPT !.inc = i]
    BY <1>1 DEF newStream
<1> QED BY <1>2, <1>3

(* Nobody has sealed or written anything under keys not yet derived.       *)
LEMMA FreshKeys ==
  ASSUME StreamInv, NEW i \in Incarnations, s[A].inc < i
  PROVE  got[B][i] = << >>
<1>1. /\ A \in Ends /\ B \in Ends /\ Other(B) = A /\ s[A].inc \in Nat /\ i \in Nat
    BY EndsFacts, OtherFacts DEF Incarnations
<1>2. sent[A][i] = << >>
    BY <1>1 DEF StreamInv, Keys
<1>3. got[B][i] \in Seq(Chunks) /\ Len(got[B][i]) <= Len(sent[A][i])
    BY <1>1 DEF StreamInv, Histories
<1>4. Len(got[B][i]) = 0
    BY <1>2, <1>3
<1> QED BY <1>3, <1>4

(* handleOpen for an OPEN that is refused keeps the invariant. *)
LEMMA RefuseStep ==
  ASSUME StreamInv, NEW p \in opening, HandleOpen(p), Refuse(p)
  PROVE  StreamInv' /\ App!Next
<1>1. /\ work' = [work EXCEPT ![B] = @ \cup {refusal(p)}] /\ s' = s /\ opening' = opening \ {p}
      /\ UNCHANGED <<net, flaps, seen, opener, result, sent, got>>
    BY DEF HandleOpen, Refuse
<1>2. p.try \in 0 .. MaxFaults /\ B \in Nodes /\ A \in Ends /\ B \in Ends /\ Other(B) = A
    BY EndsFacts, OtherFacts DEF StreamInv, PacketsGood, Good, Packets
<1>3. PICK q : q = refusal(p)
    OBVIOUS
<1>4. q \in Packets /\ q.kind = "error" /\ q.dst = Other(q.src) /\ q.try = 0
    BY <1>2, <1>3, NewPacket, NoSeq DEF refusal, PacketKinds
<1>5. Good \subseteq Good' => {q} \subseteq Good'
    <2>1. q.try <= net'.breaks
        BY <1>1, <1>4, NetFacts
    <2> QED BY <1>4, <2>1 DEF Good
<1>6. Quiet
    <2>1. opener \in Progress
        BY DEF StreamInv, Keys
    <2> QED BY <1>1, <2>1, StillIsQuiet DEF Bound
<1>7. ASSUME NEW G, Good \subseteq G, {q} \subseteq G
      PROVE  /\ net' \in Nets(G) /\ work' \in [Nodes -> SUBSET G]
             /\ opening' \subseteq G /\ result' \in Seq(G)
             /\ \A d \in Ends : s'[d].incoming \in Seq(DataFor(G, d)) /\ Len(s'[d].incoming) <= QueueCap
    <2>1. net' \in Nets(G) /\ opening' \subseteq G /\ result' \in Seq(G)
        BY <1>1, <1>7, PacketsKept DEF StreamInv
    <2>2. work' \in [Nodes -> SUBSET G]
        BY <1>1, <1>2, <1>3, <1>7, NetFacts
    <2>3. \A d \in Ends : s'[d].incoming \in Seq(DataFor(G, d)) /\ Len(s'[d].incoming) <= QueueCap
        BY <1>1, <1>7, IncomingKept
    <2> QED BY <2>1, <2>2, <2>3
<1>8. /\ net'.breaks \in Nat /\ net.breaks <= net'.breaks /\ flaps' \in Nat
      /\ net'.breaks + flaps' <= MaxFaults /\ seen' \in [Nodes -> SUBSET Packets]
      /\ Len(result') <= 1
    BY <1>1, NetFacts DEF StreamInv, PacketsGood
<1> QED BY <1>5, <1>6, <1>7, <1>8, QuietInv

(* The acceptor derives keys nobody has used: the stream it registers is   *)
(* not the one the initiator is bound to.                                  *)
LEMMA AcceptStep ==
  ASSUME StreamInv, NEW p \in opening, HandleOpen(p), Accept(p)
  PROVE  StreamInv' /\ App!Next
<1> DEFINE i == s[B].inc + 1
<1>1. /\ work' = [work EXCEPT ![B] = @ \cup {acceptance}] /\ opening' = opening \ {p}
      /\ ~s[B].open /\ s[B].inc < MaxStreams /\ s' = [s EXCEPT ![B] = newStream(i)]
      /\ UNCHANGED <<net, flaps, seen, opener, result, sent, got>>
    BY DEF HandleOpen, Accept
<1>2. /\ A \in Ends /\ B \in Ends /\ A # B /\ Other(B) = A /\ B \in Nodes /\ Ends = {A, B}
      /\ s[A].inc \in Nat /\ s[B].inc \in Nat /\ s[A].inc \in Incarnations
    BY EndsFacts, OtherFacts, EndsAssumption
<1>3. i \in Incarnations /\ i \in 1 .. i /\ s[B].inc <= i /\ s[A].inc < i /\ s[A].inc <= i /\ i \in Nat
    <2>1. s[A].inc <= s[B].inc
        BY DEF StreamInv, Keys
    <2> QED BY <1>1, <1>2, <2>1, BoundsAssumption DEF Incarnations
<1> HIDE DEF i
<1>4. s \in [Ends -> StreamT]
    BY DEF StreamInv, Keys
<1>5. /\ s'[B] = [open |-> TRUE, inc |-> i, pump |-> "off", want |-> 0, incoming |-> << >>]
      /\ s'[A] = s[A]
    BY <1>1, <1>2, <1>3, <1>4, NewStream
<1>6. s' \in [Ends -> StreamT]
    <2>1. << >> \in Seq(Packets)
        OBVIOUS
    <2>2. s'[B] \in StreamT
        BY <1>5, <1>3, <2>1 DEF StreamT
    <2> QED BY <1>1, <1>4, <1>5, <2>2
<1>7. Good \subseteq Good'
    <2>1. \A e \in Ends, j \in Incarnations :
            Len(sent'[e][j]) \in Nat /\ Len(sent[e][j]) <= Len(sent'[e][j])
        BY <1>1 DEF StreamInv, Histories
    <2>2. /\ s'[B].inc \in Nat /\ s[B].inc <= s'[B].inc
          /\ net'.breaks \in Nat /\ net.breaks <= net'.breaks /\ Bound' = Bound
        BY <1>1, <1>3, <1>5, NetFacts DEF Bound
    <2> QED BY <2>1, <2>2, GoodGrows DEF Grows
<1>8. acceptance \in Good'
    <2>1. PICK q : q = acceptance
        OBVIOUS
    <2>2. q \in Packets /\ q.kind = "ack" /\ q.dst = Other(q.src) /\ q.try = 0 /\ q.inc = i
        BY <1>2, <1>3, <2>1, NewPacket, NoSeq DEF acceptance, PacketKinds, i
    <2>3. q.try <= net'.breaks /\ q.inc \in 1 .. s'[B].inc
        BY <1>1, <1>3, <1>5, <2>2, NetFacts
    <2> QED BY <2>1, <2>2, <2>3 DEF Good
<1>9. PacketsGood'
    <2>1. net' \in Nets(Good') /\ opening' \subseteq Good' /\ result' \in Seq(Good')
        BY <1>1, <1>7, PacketsKept DEF StreamInv
    <2>2. work' \in [Nodes -> SUBSET Good']
        BY <1>1, <1>2, <1>7, <1>8, NetFacts
    <2>3. \A d \in Ends : s'[d].incoming = s[d].incoming \/ s'[d].incoming = << >>
        BY <1>2, <1>5
    <2>4. \A d \in Ends : s'[d].incoming \in Seq(DataFor(Good', d)) /\ Len(s'[d].incoming) <= QueueCap
        BY <1>7, <2>3, IncomingKept
    <2>5. /\ flaps' \in Nat /\ net'.breaks + flaps' <= MaxFaults /\ seen' \in [Nodes -> SUBSET Packets]
          /\ Len(result') <= 1
        BY <1>1, NetFacts DEF StreamInv, PacketsGood
    <2> QED BY <2>1, <2>2, <2>4, <2>5 DEF PacketsGood, DataFor
<1>10. Histories'
    BY <1>1 DEF StreamInv, Histories
<1>11. Keys'
    <2>1. opener' \in Progress /\ Bound' = Bound
        BY <1>1 DEF StreamInv, Keys, Bound
    <2>2. \A e \in Ends : s'[e].open => s'[e].want = Len(got'[e][s'[e].inc])
        <3>1. s'[B].want = Len(got'[B][s'[B].inc])
            BY <1>1, <1>3, <1>5, FreshKeys
        <3>2. s'[A].open => s'[A].want = Len(got'[A][s'[A].inc])
            BY <1>1, <1>2, <1>5 DEF StreamInv, Keys
        <3> QED BY <3>1, <3>2, <1>2
    <2>3. s'[A].inc <= s'[B].inc
        BY <1>3, <1>5
    <2>4. \A j \in Incarnations : j # s'[A].inc => sent'[A][j] = << >>
        BY <1>1, <1>5 DEF StreamInv, Keys
    <2>5. ASSUME ~Bound'
          PROVE  /\ ~s'[A].open /\ s'[B].pump \in {"off", "ended"}
                 /\ \A e \in Ends, j \in Incarnations : sent'[e][j] = << >>
        BY <1>1, <1>5, <2>1, <2>5 DEF StreamInv, Keys
    <2> QED BY <1>6, <2>1, <2>2, <2>3, <2>4, <2>5 DEF Keys
<1>12. App!Next
    <2>1. s'[A].inc = s[A].inc /\ s'[A].inc \in Incarnations /\ UNCHANGED <<sent, got>>
        BY <1>1, <1>2, <1>5
    <2>2. ASSUME NEW e \in Ends PROVE EndOpen(e)' => EndOpen(e)
        <3>1. CASE e = A
            BY <3>1, <1>5 DEF EndOpen
        <3>2. CASE e = B
            <4>1. s'[B].inc # s'[A].inc
                BY <1>2, <1>3, <1>5
            <4> QED BY <3>2, <4>1 DEF EndOpen
        <3> QED BY <3>1, <3>2, <1>2
    <2>3. Bound => Bound'
        BY <1>1 DEF Bound
    <2> QED BY <1>2, <2>1, <2>2, <2>3, CloseStep
<1> QED BY <1>9, <1>10, <1>11, <1>12 DEF StreamInv

(* The initiator is bound to the keys of the ACK it took: until then       *)
(* nothing was sealed, so the channel starts empty.                        *)
LEMMA AckedStep ==
  ASSUME StreamInv, OpenAcked
  PROVE  StreamInv' /\ App!Next
<1> DEFINE i == Head(result).inc
<1>1. /\ opener = "waiting" /\ result # << >> /\ Head(result).kind = "ack"
      /\ opener' = "registered" /\ result' = << >>
      /\ UNCHANGED <<net, flaps, seen, work, opening, sent, got>>
    BY DEF OpenAcked, fwdVars
<1>2. /\ A \in Ends /\ B \in Ends /\ A # B /\ Other(A) = B /\ A \in Nodes /\ Ends = {A, B}
      /\ s[B].inc \in Nat /\ s[A].inc \in Incarnations /\ s[B].inc \in Incarnations
    BY EndsFacts, OtherFacts, EndsAssumption
<1>3. i \in Incarnations /\ i \in Nat /\ i <= s[B].inc
    <2>1. Head(result) \in Good
        BY <1>1 DEF StreamInv, PacketsGood
    <2>2. i \in 1 .. s[B].inc
        BY <1>1, <2>1 DEF Good
    <2> QED BY <1>2, <2>2, BoundsAssumption DEF Incarnations
<1>4. s' = [s EXCEPT ![A] = newStream(i)]
    BY DEF OpenAcked
<1> HIDE DEF i
<1>5. net.breaks \in Nat /\ net \in Nets(Good)
    BY NetFacts DEF StreamInv, PacketsGood
<1>6. s \in [Ends -> StreamT]
    BY DEF StreamInv, Keys
<1>7. PICK r : r = newStream(i)
    OBVIOUS
<1>8. r = [open |-> TRUE, inc |-> i, pump |-> "off", want |-> 0, incoming |-> << >>]
    BY <1>3, <1>7, NewStream
<1>9. s'[A] = r /\ s'[B] = s[B] /\ s' \in [Ends -> StreamT]
    <2>1. << >> \in Seq(Packets)
        OBVIOUS
    <2>2. r \in StreamT
        BY <1>3, <1>8, <2>1 DEF StreamT
    <2> QED BY <1>4, <1>2, <1>6, <1>7, <2>2
<1>10. Bound' /\ ~Bound
    BY <1>1 DEF Bound
<1>11. \A e \in Ends, j \in Incarnations : sent[e][j] = << >> /\ got[e][j] = << >>
    BY <1>10, EmptyBefore
<1>12. Good \subseteq Good'
    <2>1. \A e \in Ends, j \in Incarnations :
            Len(sent'[e][j]) \in Nat /\ Len(sent[e][j]) <= Len(sent'[e][j])
        BY <1>1, <1>11
    <2>2. /\ s'[B].inc \in Nat /\ s[B].inc <= s'[B].inc
          /\ net'.breaks \in Nat /\ net.breaks <= net'.breaks
        BY <1>1, <1>2, <1>5, <1>9
    <2> QED BY <2>1, <2>2, <1>10, GoodGrows DEF Grows
<1>13. PacketsGood'
    <2>1. net' \in Nets(Good')
        BY <1>1, <1>5, <1>12, NetsMonotone
    <2>2. work' \in [Nodes -> SUBSET Good'] /\ opening' \subseteq Good' /\ result' \in Seq(Good')
        <3>1. work' \in [Nodes -> SUBSET Good'] /\ opening' \subseteq Good'
            BY <1>1, <1>12, PacketsKept DEF StreamInv
        <3>2. result' \in Seq(Good')
            BY <1>1
        <3> QED BY <3>1, <3>2
    <2>3. \A d \in Ends : s'[d].incoming = s[d].incoming \/ s'[d].incoming = << >>
        BY <1>2, <1>8, <1>9
    <2>4. \A d \in Ends : s'[d].incoming \in Seq(DataFor(Good', d)) /\ Len(s'[d].incoming) <= QueueCap
        BY <1>12, <2>3, IncomingKept
    <2>5. /\ flaps' \in Nat /\ net'.breaks + flaps' <= MaxFaults /\ seen' \in [Nodes -> SUBSET Packets]
          /\ Len(result') <= 1
        BY <1>1 DEF StreamInv, PacketsGood
    <2> QED BY <2>1, <2>2, <2>4, <2>5 DEF PacketsGood, DataFor
<1>14. Histories'
    BY <1>1 DEF StreamInv, Histories
<1>15. Keys'
    <2>1. \A e \in Ends : s'[e].open => s'[e].want = Len(got'[e][s'[e].inc])
        <3>1. s'[A].want = Len(got'[A][s'[A].inc])
            BY <1>1, <1>2, <1>3, <1>8, <1>9, <1>11
        <3>2. s'[B].open => s'[B].want = Len(got'[B][s'[B].inc])
            BY <1>1, <1>2, <1>9 DEF StreamInv, Keys
        <3> QED BY <3>1, <3>2, <1>2
    <2>2. s'[A].inc <= s'[B].inc
        BY <1>3, <1>8, <1>9
    <2>3. \A j \in Incarnations : sent'[A][j] = << >>
        BY <1>1, <1>2, <1>11
    <2>4. opener' \in Progress
        BY <1>1 DEF Progress
    <2> QED BY <1>9, <1>10, <2>1, <2>2, <2>3, <2>4 DEF Keys
<1>16. App!Next
    <2>1. s'[A].inc \in Incarnations
        BY <1>3, <1>8, <1>9
    <2> QED BY <2>1, <1>1, <1>2, <1>10, CloseStep
<1> QED BY <1>13, <1>14, <1>15, <1>16 DEF StreamInv

(* READY is sent under keys the initiator already has: the channel stutters *)
(* or, when it cannot be sent, closes.                                      *)
LEMMA ReadyStep ==
  ASSUME StreamInv, SendReady
  PROVE  StreamInv' /\ App!Next
<1> DEFINE p == newPacket("ready", A, B, 0, 0)
<1>1. /\ opener = "registered" /\ opener' = "opened" /\ Bound /\ Bound'
      /\ UNCHANGED <<flaps, seen, work, result, opening, sent, got>>
    BY DEF SendReady, Bound
<1>2. PICK o \in sendPacket(net, A, p) :
        /\ net' = o.net
        /\ s' = IF o.ok THEN [s EXCEPT ![A].pump = "on"] ELSE removed(A)
    BY DEF SendReady
<1>3. /\ net \in Nets(Good) /\ net.breaks \in Nat /\ A \in Nodes /\ A \in Ends
      /\ flaps \in Nat /\ net.breaks + flaps <= MaxFaults
    BY NetFields, EndsFacts DEF StreamInv, PacketsGood
<1>4. p \in Packets /\ p.kind = "ready" /\ p.dst = Other(p.src) /\ p.try = 0
    <2>1. 0 \in 0 .. MaxFaults
        BY HopsAssumption
    <2> QED BY <2>1, NewPacket, NoSeq, EndsFacts, OtherFacts DEF PacketKinds
<1> HIDE DEF p
<1>5. /\ s' \in [Ends -> StreamT]
      /\ \A e \in Ends :
           /\ s'[e].inc = s[e].inc /\ s'[e].want = s[e].want /\ (s'[e].open => s[e].open)
           /\ s'[e].incoming = s[e].incoming \/ s'[e].incoming = << >>
    <2>1. CASE s' = removed(A)
        BY <2>1, <1>3, RemovedFacts
    <2>2. CASE s' = [s EXCEPT ![A].pump = "on"]
        <3>1. s \in [Ends -> StreamT]
            BY DEF StreamInv, Keys
        <3> QED BY <2>2, <3>1, <1>3 DEF StreamT
    <2> QED BY <1>2, <2>1, <2>2
<1>6. Quiet
    <2>1. opener' \in Progress
        BY <1>1 DEF Progress
    <2> QED BY <1>1, <1>5, <2>1 DEF Quiet
<1>7. /\ net'.breaks \in Nat /\ net.breaks <= net'.breaks /\ net'.breaks + flaps <= MaxFaults
      /\ \A G : Good \subseteq G /\ p \in G => net' \in Nets(G)
    BY <1>2, <1>3, <1>4, SendGood
<1>8. Good \subseteq Good' => {p} \subseteq Good'
    BY <1>1, <1>4, <1>7 DEF Good
<1>9. ASSUME NEW G, Good \subseteq G, {p} \subseteq G
      PROVE  /\ net' \in Nets(G) /\ work' \in [Nodes -> SUBSET G]
             /\ opening' \subseteq G /\ result' \in Seq(G)
             /\ \A d \in Ends : s'[d].incoming \in Seq(DataFor(G, d)) /\ Len(s'[d].incoming) <= QueueCap
    <2>1. net' \in Nets(G)
        BY <1>7, <1>9
    <2>2. work' \in [Nodes -> SUBSET G] /\ opening' \subseteq G /\ result' \in Seq(G)
        BY <1>1, <1>9, PacketsKept DEF StreamInv
    <2>3. \A d \in Ends : s'[d].incoming \in Seq(DataFor(G, d)) /\ Len(s'[d].incoming) <= QueueCap
        BY <1>5, <1>9, IncomingKept
    <2> QED BY <2>1, <2>2, <2>3
<1>10. seen' \in [Nodes -> SUBSET Packets] /\ Len(result') <= 1 /\ flaps' = flaps
    BY <1>1 DEF StreamInv, PacketsGood
<1> QED BY <1>3, <1>6, <1>7, <1>8, <1>9, <1>10, QuietInv

(* A chunk read from the application is sealed: a Write if it is sealed    *)
(* with the initiator's keys.                                              *)
LEMMA PumpStep ==
  ASSUME StreamInv, NEW e \in Ends, Pump(e)
  PROVE  StreamInv' /\ App!Next
<1> DEFINE inc == s[e].inc
           seq == Len(sent[e][inc])
           v == <<e, inc, seq>>
           p == newPacket("data", e, Other(e), inc, seq)
<1>1. /\ s[e].open /\ s[e].pump = "on" /\ seq < MaxChunks[e]
      /\ sent' = [sent EXCEPT ![e][inc] = Append(@, v)]
      /\ UNCHANGED <<flaps, seen, work, opener, result, opening, got>>
    BY DEF Pump
<1>2. PICK o \in sendPacket(net, e, p) :
        /\ net' = o.net /\ (s' = s \/ s' = [s EXCEPT ![e].pump = "failing"])
    BY DEF Pump
<1>3. /\ A \in Ends /\ B \in Ends /\ A # B /\ e \in Nodes /\ Ends = {A, B} /\ Other(e) \in Ends
      /\ inc \in Incarnations /\ s[A].inc \in Incarnations /\ s[B].inc \in Nat /\ inc \in Nat
    BY EndsFacts, OtherFacts, EndsAssumption
<1>4. /\ sent \in [Ends -> [Incarnations -> Seq(Chunks)]] /\ seq \in Nat
      /\ MaxChunks[e] \in Nat /\ MaxChunks[A] \in Nat /\ MaxChunks[B] \in Nat
    BY <1>3, BoundsAssumption DEF StreamInv, Histories
<1>5. seq \in 0 .. MaxChunks[A] + MaxChunks[B] /\ seq + 1 <= MaxChunks[e]
    <2> HIDE DEF seq
    <2>1. e = A \/ e = B
        BY <1>3
    <2>2. seq <= MaxChunks[A] + MaxChunks[B]
        BY <2>1, <1>1, <1>4
    <2> QED BY <2>2, <1>1, <1>4
<1>6. p \in Packets /\ p.kind = "data" /\ p.src = e /\ p.dst = Other(p.src) /\ p.try = 0 /\ p.inc = inc /\ p.seq = seq
    BY <1>3, <1>5, NewPacket DEF PacketKinds
<1>7. Bound
    BY <1>1, <1>3 DEF StreamInv, Keys
<1>8. v \in Chunks
    BY <1>3, <1>5 DEF Chunks
<1> HIDE DEF p, seq, v
<1>9. /\ sent' \in [Ends -> [Incarnations -> Seq(Chunks)]]
      /\ sent'[e][inc] = Append(sent[e][inc], v)
      /\ \A d \in Ends, j \in Incarnations : d # e \/ j # inc => sent'[d][j] = sent[d][j]
    <2>1. PICK q : q = Append(sent[e][inc], v)
        OBVIOUS
    <2>2. q \in Seq(Chunks)
        BY <2>1, <1>3, <1>4, <1>8
    <2>3. sent' = [sent EXCEPT ![e][inc] = q]
        BY <2>1, <1>1
    <2> HIDE DEF inc
    <2>4. sent'[e][inc] = q /\ \A d \in Ends, j \in Incarnations : d # e \/ j # inc => sent'[d][j] = sent[d][j]
        BY <2>3, <1>3, <1>4
    <2>5. sent' \in [Ends -> [Incarnations -> Seq(Chunks)]]
        BY <2>2, <2>3, <1>3, <1>4
    <2> QED BY <2>1, <2>4, <2>5
<1>10. Len(sent[e][inc]) = seq /\ Len(sent'[e][inc]) = seq + 1
    BY <1>3, <1>4, <1>8, <1>9 DEF seq
<1>11. /\ s' \in [Ends -> StreamT]
       /\ \A d \in Ends : /\ s'[d].inc = s[d].inc /\ s'[d].want = s[d].want
                         /\ s'[d].open = s[d].open /\ s'[d].incoming = s[d].incoming
    <2>1. s \in [Ends -> StreamT]
        BY DEF StreamInv, Keys
    <2>2. CASE s' = s
        BY <2>1, <2>2
    <2>3. CASE s' = [s EXCEPT ![e].pump = "failing"]
        <3>1. s' \in [Ends -> StreamT]
            BY <2>1, <2>3 DEF StreamT
        <3>2. \A d \in Ends : /\ s'[d].inc = s[d].inc /\ s'[d].want = s[d].want
                            /\ s'[d].open = s[d].open /\ s'[d].incoming = s[d].incoming
            BY <2>1, <2>3 DEF StreamT
        <3> QED BY <3>1, <3>2
    <2> QED BY <1>2, <2>2, <2>3
<1>12. /\ o.net.breaks \in Nat /\ net.breaks <= o.net.breaks /\ o.net.breaks + flaps <= MaxFaults
       /\ \A G : Good \subseteq G /\ p \in G => o.net \in Nets(G)
    BY <1>3, <1>6, NetFacts, SendGood
<1>13. Good \subseteq Good'
    <2>1. ASSUME NEW d \in Ends, NEW j \in Incarnations
          PROVE  Len(sent'[d][j]) \in Nat /\ Len(sent[d][j]) <= Len(sent'[d][j])
        <3>1. Len(sent[d][j]) \in Nat
            BY <1>4
        <3>2. CASE d = e /\ j = inc
            BY <3>2, <1>4, <1>10
        <3>3. CASE ~(d = e /\ j = inc)
            BY <3>1, <3>3, <1>9
        <3> QED BY <3>2, <3>3
    <2>2. s'[B].inc \in Nat /\ s[B].inc <= s'[B].inc /\ net'.breaks \in Nat /\ net.breaks <= net'.breaks
        BY <1>2, <1>3, <1>11, <1>12
    <2>3. Bound'
        BY <1>1, <1>7 DEF Bound
    <2> QED BY <2>1, <2>2, <2>3, GoodGrows DEF Grows
<1>14. p \in Good'
    <2>1. p.try <= net'.breaks /\ p.seq < Len(sent'[p.src][p.inc])
        BY <1>2, <1>4, <1>6, <1>10, <1>12
    <2> QED BY <2>1, <1>3, <1>6 DEF Good
<1>15. PacketsGood'
    <2>1. net' \in Nets(Good')
        BY <1>2, <1>12, <1>13, <1>14
    <2>2. work' \in [Nodes -> SUBSET Good'] /\ opening' \subseteq Good' /\ result' \in Seq(Good')
        BY <1>1, <1>13, PacketsKept DEF StreamInv
    <2>3. \A d \in Ends : s'[d].incoming \in Seq(DataFor(Good', d)) /\ Len(s'[d].incoming) <= QueueCap
        BY <1>11, <1>13, IncomingKept
    <2>4. /\ flaps' \in Nat /\ net'.breaks + flaps' <= MaxFaults /\ seen' \in [Nodes -> SUBSET Packets]
          /\ Len(result') <= 1
        BY <1>1, <1>2, <1>12, NetFacts DEF StreamInv, PacketsGood
    <2> QED BY <2>1, <2>2, <2>3, <2>4 DEF PacketsGood, DataFor
<1>16. Histories'
    <2>1. got' \in [Ends -> [Incarnations -> Seq(Chunks)]]
        BY <1>1 DEF StreamInv, Histories
    <2>2. ASSUME NEW d \in Ends, NEW j \in Incarnations
          PROVE  /\ Len(sent'[d][j]) <= MaxChunks[d]
                 /\ \A n \in 1 .. Len(sent'[d][j]) : sent'[d][j][n] = <<d, j, n - 1>>
        <3>1. CASE d = e /\ j = inc
            <4>1. ASSUME NEW n \in 1 .. Len(sent'[e][inc]) PROVE sent'[e][inc][n] = <<e, inc, n - 1>>
                <5>1. sent[e][inc] \in Seq(Chunks) /\ n \in 1 .. seq + 1 /\ n \in Nat
                    BY <1>3, <1>4, <1>10
                <5>2. CASE n = seq + 1
                    <6>1. sent'[e][inc][n] = v /\ n - 1 = seq
                        BY <5>1, <5>2, <1>4, <1>9, <1>10
                    <6> QED BY <6>1 DEF v
                <5>3. CASE n # seq + 1
                    <6>1. n \in 1 .. seq
                        BY <5>1, <5>3, <1>4
                    <6>2. sent'[e][inc][n] = sent[e][inc][n]
                        BY <5>1, <6>1, <1>9, <1>10
                    <6> QED BY <6>1, <6>2, <1>3, <1>10 DEF StreamInv, Histories
                <5> QED BY <5>2, <5>3
            <4> QED BY <3>1, <4>1, <1>5, <1>10
        <3>2. CASE ~(d = e /\ j = inc)
            BY <3>2, <1>9 DEF StreamInv, Histories
        <3> QED BY <3>1, <3>2
    <2>3. ASSUME NEW d \in Ends, NEW j \in Incarnations
          PROVE  /\ Len(got'[d][j]) <= Len(sent'[Other(d)][j])
                 /\ \A n \in 1 .. Len(got'[d][j]) : got'[d][j][n] = <<Other(d), j, n - 1>>
        <3>1. /\ Other(d) \in Ends /\ Len(got[d][j]) \in Nat /\ Len(got[d][j]) <= Len(sent[Other(d)][j])
              /\ Len(sent[Other(d)][j]) \in Nat
              /\ \A n \in 1 .. Len(got[d][j]) : got[d][j][n] = <<Other(d), j, n - 1>>
            BY OtherFacts DEF StreamInv, Histories
        <3>2. Len(sent'[Other(d)][j]) \in Nat /\ Len(sent[Other(d)][j]) <= Len(sent'[Other(d)][j])
            <4>1. CASE Other(d) = e /\ j = inc
                BY <4>1, <1>4, <1>10
            <4>2. CASE ~(Other(d) = e /\ j = inc)
                BY <4>2, <3>1, <1>9
            <4> QED BY <4>1, <4>2
        <3> QED BY <3>1, <3>2, <1>1
    <2> QED BY <2>1, <2>2, <2>3, <1>9 DEF Histories
<1>17. Keys'
    <2>1. opener' \in Progress /\ Bound'
        BY <1>1, <1>7 DEF StreamInv, Keys, Bound
    <2>2. ASSUME NEW d \in Ends, s'[d].open PROVE s'[d].want = Len(got'[d][s'[d].inc])
        BY <2>2, <1>1, <1>11 DEF StreamInv, Keys
    <2>3. s'[A].inc <= s'[B].inc
        BY <1>3, <1>11 DEF StreamInv, Keys
    <2>4. ASSUME NEW j \in Incarnations, j # s'[A].inc PROVE sent'[A][j] = << >>
        <3>1. j # s[A].inc /\ sent[A][j] = << >>
            BY <2>4, <1>3, <1>11 DEF StreamInv, Keys
        <3>2. A # e \/ j # inc
            BY <3>1
        <3> QED BY <3>1, <3>2, <1>3, <1>9
    <2> QED BY <1>11, <2>1, <2>2, <2>3, <2>4 DEF Keys
<1>18. App!Next
    <2>1. s'[A].inc = s[A].inc /\ Bound'
        BY <1>1, <1>3, <1>7, <1>11 DEF Bound
    <2>2. ASSUME NEW d \in Ends PROVE EndOpen(d)' <=> EndOpen(d)
        BY <1>3, <1>11 DEF EndOpen
    <2>3. CASE inc # s[A].inc
        <3>1. \A d \in Ends : sent'[d][s[A].inc] = sent[d][s[A].inc]
            BY <2>3, <1>3, <1>9
        <3> QED BY <3>1, <2>1, <2>2, <1>1, <1>3, <1>7, CloseStep
    <2>4. CASE inc = s[A].inc
        <3>1. EndOpen(e) /\ ~EndClosed(e)
            BY <2>4, <1>1 DEF EndOpen, EndClosed
        <3>2. [d \in Ends |-> IF Bound' THEN sent'[d][s'[A].inc] ELSE << >>]
              = [[d \in Ends |-> IF Bound THEN sent[d][s[A].inc] ELSE << >>] EXCEPT ![e] = Append(@, v)]
            BY <2>1, <2>4, <1>3, <1>7, <1>9
        <3>3. UNCHANGED [d \in Ends |-> IF Bound THEN got[d][s[A].inc] ELSE << >>]
            BY <2>1, <1>1, <1>7
        <3>4. UNCHANGED [d \in Ends |-> EndClosed(d)]
            BY <2>1, <2>2, <1>7 DEF EndClosed
        <3>5. ~[d \in Ends |-> EndClosed(d)][e]
            BY <3>1
        <3>6. App!Write(e)
            BY <3>2, <3>3, <3>4, <3>5, <1>8 DEF App!Write
        <3> QED BY <3>6 DEF App!Next
    <2> QED BY <2>3, <2>4
<1> QED BY <1>15, <1>16, <1>17, <1>18 DEF StreamInv

(* A chunk taken from the queue is the next one the other end sealed: a    *)
(* Deliver.                                                                *)
Take(e) ==
  LET p == Head(s[e].incoming) IN
  /\ s[e].open /\ s[e].incoming # << >> /\ Acceptable(e, p)
  /\ s' = [s EXCEPT ![e].want = @ + 1, ![e].incoming = Tail(@)]
  /\ got' = [got EXCEPT ![e][s[e].inc] = Append(@, <<p.src, p.inc, p.seq>>)]
  /\ UNCHANGED <<net, flaps, seen, work, opener, result, opening, sent>>

(* An end whose reader takes a packet for the stream keeps the invariant. *)
LEMMA TakeStep ==
  ASSUME StreamInv, NEW e \in Ends, Take(e)
  PROVE  StreamInv' /\ App!Next
<1> DEFINE p == Head(s[e].incoming)
           inc == s[e].inc
           n == Len(got[e][inc])
           v == <<p.src, p.inc, p.seq>>
<1>1. /\ A \in Ends /\ B \in Ends /\ A # B /\ Ends = {A, B} /\ Other(e) \in Ends /\ Other(e) # e
      /\ Other(A) = B /\ Other(B) = A
      /\ inc \in Incarnations /\ s[A].inc \in Incarnations /\ s \in [Ends -> StreamT]
    BY EndsFacts, OtherFacts, EndsAssumption DEF StreamInv, Keys
<1>a. s[e].open /\ s[e].incoming # << >> /\ UNCHANGED <<net, flaps, seen, work, opener, result, opening, sent>>
    BY DEF Take
<1>2. /\ s[e].incoming \in Seq(DataFor(Good, e)) /\ Len(s[e].incoming) <= QueueCap
      /\ s[e].want = n
    BY <1>a DEF StreamInv, PacketsGood, Keys
<1>3. p \in DataFor(Good, e)
    BY <1>2, <1>a
<1>4. /\ p \in Packets /\ p.dst = e /\ p.dst = Other(p.src) /\ p.src \in Ends
      /\ p.seq < Len(sent[p.src][p.inc]) /\ p.inc = inc /\ p.seq = n
    BY <1>2, <1>3 DEF DataFor, Good, Packets, Acceptable, Take
<1>5. p.src = Other(e)
    BY <1>1, <1>4
<1>6. /\ sent \in [Ends -> [Incarnations -> Seq(Chunks)]] /\ got \in [Ends -> [Incarnations -> Seq(Chunks)]]
      /\ n \in Nat /\ Len(sent[Other(e)][inc]) \in Nat
    BY <1>1, SMTT(30) DEF StreamInv, Histories
<1>7. v = <<Other(e), inc, n>> /\ v \in Chunks
    BY <1>1, <1>4, <1>5 DEF Chunks, Packets
<1>8. n < Len(sent[Other(e)][inc])
    BY <1>4, <1>5
<1>9. got' = [got EXCEPT ![e][inc] = Append(@, v)]
    BY DEF Take
<1>b. Len(got[e][inc]) = n
    OBVIOUS
<1> HIDE DEF p, v, n
<1>10. /\ got' \in [Ends -> [Incarnations -> Seq(Chunks)]]
       /\ got'[e][inc] = Append(got[e][inc], v)
       /\ \A d \in Ends, j \in Incarnations : d # e \/ j # inc => got'[d][j] = got[d][j]
    <2>1. PICK q : q = Append(got[e][inc], v)
        OBVIOUS
    <2>2. q \in Seq(Chunks)
        BY <2>1, <1>1, <1>6, <1>7
    <2>3. got' = [got EXCEPT ![e][inc] = q]
        BY <2>1, <1>9
    <2> HIDE DEF inc
    <2>4. got'[e][inc] = q /\ \A d \in Ends, j \in Incarnations : d # e \/ j # inc => got'[d][j] = got[d][j]
        BY <2>3, <1>1, <1>6
    <2>5. got' \in [Ends -> [Incarnations -> Seq(Chunks)]]
        BY <2>2, <2>3, <1>1, <1>6
    <2> QED BY <2>1, <2>4, <2>5
<1>11. Len(got'[e][inc]) = n + 1
    <2>1. got[e][inc] \in Seq(Chunks) /\ v \in Chunks
        BY <1>1, <1>6, <1>7
    <2>2. Len(Append(got[e][inc], v)) = Len(got[e][inc]) + 1
        BY <2>1
    <2> QED BY <2>2, <1>10, <1>b
<1>12. /\ s' \in [Ends -> StreamT]
       /\ s'[e].want = n + 1 /\ s'[e].incoming = Tail(s[e].incoming)
       /\ s'[e].inc = s[e].inc /\ s'[e].open = s[e].open /\ s'[e].pump = s[e].pump
       /\ \A d \in Ends \ {e} : s'[d] = s[d]
    <2>1. PICK q : q = Tail(s[e].incoming)
        OBVIOUS
    <2>2. q \in Seq(Packets)
        <3>1. q \in Seq(DataFor(Good, e))
            BY <2>1, <1>2, <1>a
        <3> QED BY <3>1, SeqMonotone DEF DataFor, Good
    <2>3. PICK x \in Nat : x = n + 1
        BY <1>6
    <2>4. PICK a : a = [s EXCEPT ![e].want = x]
        OBVIOUS
    <2>5. /\ a \in [Ends -> StreamT] /\ a[e].want = x /\ a[e].incoming = s[e].incoming
          /\ a[e].inc = s[e].inc /\ a[e].open = s[e].open /\ a[e].pump = s[e].pump
          /\ \A d \in Ends \ {e} : a[d] = s[d]
        BY <2>4, <1>1 DEF StreamT
    <2>6. s' = [a EXCEPT ![e].incoming = q]
        <3>1. s' = [s EXCEPT ![e].want = x, ![e].incoming = q]
            BY <2>1, <2>3, <1>2 DEF Take
        <3> QED BY <3>1, <2>4
    <2>7. s' \in [Ends -> StreamT]
        BY <2>2, <2>5, <2>6, ZenonT(30) DEF StreamT
    <2>8. /\ s'[e].want = x /\ s'[e].incoming = q
          /\ s'[e].inc = s[e].inc /\ s'[e].open = s[e].open /\ s'[e].pump = s[e].pump
          /\ \A d \in Ends \ {e} : s'[d] = s[d]
        BY <2>5, <2>6 DEF StreamT
    <2> QED BY <2>1, <2>3, <2>7, <2>8
<1>13. Bound /\ inc = s[A].inc
    <2>1. sent[Other(e)][inc] # << >>
        BY <1>6, <1>8
    <2>2. Bound
        BY <2>1, <1>1 DEF StreamInv, Keys
    <2>3. CASE e = A
        BY <2>2, <2>3
    <2>4. CASE e = B
        BY <2>1, <2>2, <2>4, <1>1 DEF StreamInv, Keys
    <2> QED BY <2>3, <2>4, <1>1
<1>14. Bound'
    BY <1>13, <1>a DEF Bound
<1>15. \A d \in Ends : s'[d].inc = s[d].inc /\ s'[d].open = s[d].open
    BY <1>12
<1>16. Good \subseteq Good'
    <2>1. \A d \in Ends, j \in Incarnations :
            Len(sent'[d][j]) \in Nat /\ Len(sent[d][j]) <= Len(sent'[d][j])
        BY <1>6, <1>a
    <2>2. s'[B].inc \in Nat /\ s[B].inc <= s'[B].inc /\ net'.breaks \in Nat /\ net.breaks <= net'.breaks
        BY <1>1, <1>15, <1>a, EndsFacts, NetFacts
    <2> QED BY <2>1, <2>2, <1>14, GoodGrows DEF Grows
<1>17. PacketsGood'
    <2>1. /\ net' \in Nets(Good') /\ work' \in [Nodes -> SUBSET Good']
          /\ opening' \subseteq Good' /\ result' \in Seq(Good')
        BY <1>16, <1>a, PacketsKept DEF StreamInv
    <2>2. ASSUME NEW d \in Ends PROVE s'[d].incoming \in Seq(DataFor(Good', d)) /\ Len(s'[d].incoming) <= QueueCap
        <3>1. s[d].incoming \in Seq(DataFor(Good', d)) /\ Len(s[d].incoming) <= QueueCap
            BY <1>16, PacketsKept DEF StreamInv, PacketsGood
        <3>2. CASE d = e
            <4>1. Tail(s[d].incoming) \in Seq(DataFor(Good', d)) /\ Len(Tail(s[d].incoming)) = Len(s[d].incoming) - 1
                BY <3>1, <3>2, <1>a
            <4>2. Len(s[d].incoming) - 1 <= QueueCap
                BY <3>1, BoundsAssumption
            <4> QED BY <4>1, <4>2, <3>2, <1>12
        <3>3. CASE d # e
            BY <3>1, <3>3, <1>12
        <3> QED BY <3>2, <3>3
    <2>3. /\ flaps' \in Nat /\ net'.breaks + flaps' <= MaxFaults /\ seen' \in [Nodes -> SUBSET Packets]
          /\ Len(result') <= 1
        BY <1>a, NetFacts DEF StreamInv, PacketsGood
    <2> QED BY <2>1, <2>2, <2>3 DEF PacketsGood, DataFor
<1>18. Histories'
    <2>1. ASSUME NEW d \in Ends, NEW j \in Incarnations
          PROVE  /\ Len(got'[d][j]) <= Len(sent[Other(d)][j])
                 /\ \A k \in 1 .. Len(got'[d][j]) : got'[d][j][k] = <<Other(d), j, k - 1>>
        <3>1. CASE d = e /\ j = inc
            <4>1. ASSUME NEW k \in 1 .. Len(got'[e][inc]) PROVE got'[e][inc][k] = <<Other(e), inc, k - 1>>
                <5>1. got[e][inc] \in Seq(Chunks) /\ k \in 1 .. n + 1 /\ k \in Nat
                    BY <1>1, <1>6, <1>11
                <5>2. CASE k = n + 1
                    <6>1. got'[e][inc][k] = v /\ k - 1 = n
                        BY <5>1, <5>2, <1>6, <1>10, <1>b, SMTT(30)
                    <6> QED BY <6>1, <1>7
                <5>3. CASE k # n + 1
                    <6>1. k \in 1 .. n
                        BY <5>1, <5>3, <1>6
                    <6>2. got'[e][inc][k] = got[e][inc][k]
                        BY <5>1, <6>1, <1>10, <1>b
                    <6> QED BY <6>1, <6>2, <1>1, <1>b DEF StreamInv, Histories
                <5> QED BY <5>2, <5>3
            <4>2. n + 1 <= Len(sent[Other(e)][inc])
                BY <1>6, <1>8
            <4> QED BY <3>1, <4>1, <4>2, <1>11
        <3>2. CASE ~(d = e /\ j = inc)
            <4>1. got'[d][j] = got[d][j]
                BY <3>2, <1>10
            <4> QED BY <4>1 DEF StreamInv, Histories
        <3> QED BY <3>1, <3>2
    <2>2. \A d \in Ends, j \in Incarnations :
            /\ Len(sent'[d][j]) <= MaxChunks[d]
            /\ \A k \in 1 .. Len(sent'[d][j]) : sent'[d][j][k] = <<d, j, k - 1>>
        BY <1>a DEF StreamInv, Histories
    <2> QED BY <2>1, <2>2, <1>6, <1>10, <1>a DEF Histories
<1>19. Keys'
    <2>1. ASSUME NEW d \in Ends, s'[d].open PROVE s'[d].want = Len(got'[d][s'[d].inc])
        <3>1. CASE d = e
            BY <3>1, <1>11, <1>12
        <3>2. CASE d # e
            <4>1. got'[d][s[d].inc] = got[d][s[d].inc]
                BY <3>2, <1>10, EndsFacts
            <4> QED BY <4>1, <3>2, <2>1, <1>12 DEF StreamInv, Keys
        <3> QED BY <3>1, <3>2
    <2>2. s'[A].inc <= s'[B].inc /\ \A j \in Incarnations : j # s'[A].inc => sent'[A][j] = << >>
        BY <1>1, <1>15, <1>a DEF StreamInv, Keys
    <2>3. opener' \in Progress
        BY <1>a DEF StreamInv, Keys
    <2> QED BY <1>12, <1>14, <2>1, <2>2, <2>3 DEF Keys
<1>20. App!Next
    <2>1. s'[A].inc = s[A].inc
        BY <1>1, <1>15
    <2>2. \A d \in Ends : EndOpen(d)' <=> EndOpen(d)
        BY <1>15, <2>1 DEF EndOpen
    <2> DEFINE S == [d \in Ends |-> IF Bound THEN sent[d][s[A].inc] ELSE << >>]
               T == [d \in Ends |-> IF Bound THEN got[d][s[A].inc] ELSE << >>]
               C == [d \in Ends |-> EndClosed(d)]
    <2>3. ~C[e]
        BY <1>13, <1>a DEF EndOpen, EndClosed
    <2>4. S[Other(e)] = sent[Other(e)][inc] /\ T[e] = got[e][inc]
        BY <1>1, <1>13
    <2>5. Len(T[e]) < Len(S[Other(e)]) /\ S[Other(e)][Len(T[e]) + 1] = v
        <3>1. n + 1 \in 1 .. Len(sent[Other(e)][inc]) /\ n + 1 - 1 = n
            BY <1>6, <1>8
        <3>2. sent[Other(e)][inc][n + 1] = <<Other(e), inc, n>>
            <4>1. \A d \in Ends, j \in Incarnations : \A k \in 1 .. Len(sent[d][j]) : sent[d][j][k] = <<d, j, k - 1>>
                BY DEF StreamInv, Histories
            <4>2. PICK k \in 1 .. Len(sent[Other(e)][inc]) : k = n + 1
                BY <3>1
            <4>3. sent[Other(e)][inc][k] = <<Other(e), inc, k - 1>>
                BY <4>1, <1>1
            <4>4. k - 1 = n
                BY <4>2, <1>6
            <4> QED BY <4>2, <4>3, <4>4
        <3> QED BY <3>2, <2>4, <1>7, <1>8, <1>b
    <2>6. T' = [T EXCEPT ![e] = Append(@, v)]
        BY <2>1, <1>1, <1>10, <1>13, <1>14, ZenonT(30)
    <2>7. UNCHANGED <<S, C>>
        BY <2>1, <2>2, <1>13, <1>14, <1>a DEF EndClosed
    <2>8. Other(e) \in Ends \ {e}
        BY <1>1
    <2>9. T' = [T EXCEPT ![e] = Append(@, S[Other(e)][Len(T[e]) + 1])]
        BY <2>5, <2>6
    <2>10. App!Deliver(e)
        BY <2>3, <2>5, <2>7, <2>8, <2>9 DEF App!Deliver
    <2> QED BY <2>10 DEF App!Next
<1> QED BY <1>17, <1>18, <1>19, <1>20 DEF StreamInv

(* A chunk written to the local application is the channel's delivery. *)
LEMMA ReceiveStep ==
  ASSUME StreamInv, NEW e \in Ends, Receive(e)
  PROVE  StreamInv' /\ App!Next
<1>1. CASE Take(e)
    BY <1>1, TakeStep
<1>2. CASE closeLocal(net, e, TRUE) /\ UNCHANGED got
    <2>1. UNCHANGED <<routes, flaps, seen, work, opener, result, opening, sent, got>>
        BY <1>2 DEF Receive
    <2> QED BY <1>2, <2>1, CloseLocalStep
<1> QED BY <1>1, <1>2 DEF Receive, Take

-----------------------------------------------------------------------------
(* The invariant holds at the start, where the channel is empty too.       *)
LEMMA StreamStarts == Init => StreamInv /\ App!Init
<1> SUFFICES ASSUME Init PROVE StreamInv /\ App!Init
    OBVIOUS
<1>1. /\ net = [up |-> Links, chan |-> [h \in Hops |-> <<>>], breaks |-> 0] /\ flaps = 0
      /\ seen = [n \in Nodes |-> {}] /\ work = [n \in Nodes |-> {}]
      /\ opener = "idle" /\ result = << >> /\ opening = {}
      /\ s = [e \in Ends |-> NoStream]
      /\ sent = [e \in Ends |-> [i \in Incarnations |-> << >>]]
      /\ got = [e \in Ends |-> [i \in Incarnations |-> << >>]]
    BY DEF Init, FwdInit
<1>2. A \in Ends /\ B \in Ends /\ 0 \in Incarnations
    BY BoundsAssumption DEF Ends, Incarnations
<1>3. /\ ~Bound
      /\ \A e \in Ends : s[e] = NoStream
      /\ \A e \in Ends, i \in Incarnations : sent[e][i] = << >> /\ got[e][i] = << >>
    BY <1>1 DEF Bound
<1>4. PacketsGood
    <2>1. net \in Nets(Good)
        <3>1. << >> \in Seq(Good) /\ 0 \in Nat
            OBVIOUS
        <3>2. [h \in Hops |-> <<>>] \in [Hops -> Seq(Good)]
            BY <3>1
        <3> QED BY <1>1, <3>1, <3>2 DEF Nets
    <2>2. net.breaks = 0 /\ flaps \in Nat /\ net.breaks + flaps <= MaxFaults
        BY <1>1, HopsAssumption
    <2>3. work \in [Nodes -> SUBSET Good] /\ seen \in [Nodes -> SUBSET Packets] /\ opening \subseteq Good
        BY <1>1
    <2>4. result \in Seq(Good) /\ Len(result) <= 1
        BY <1>1
    <2>5. ASSUME NEW e \in Ends PROVE s[e].incoming \in Seq(DataFor(Good, e)) /\ Len(s[e].incoming) <= QueueCap
        <3>1. s[e].incoming = << >>
            BY <1>3 DEF NoStream
        <3> QED BY <3>1, BoundsAssumption
    <2> QED BY <2>1, <2>2, <2>3, <2>4, <2>5 DEF PacketsGood
<1>5. Histories
    <2>1. \A e \in Ends, i \in Incarnations :
            /\ Len(sent[e][i]) = 0 /\ Len(got[e][i]) = 0 /\ MaxChunks[e] \in Nat /\ Other(e) \in Ends
        BY <1>3, BoundsAssumption, OtherFacts
    <2>2. /\ sent \in [Ends -> [Incarnations -> Seq(Chunks)]]
          /\ got \in [Ends -> [Incarnations -> Seq(Chunks)]]
        <3>1. << >> \in Seq(Chunks)
            OBVIOUS
        <3> QED BY <1>1, <3>1
    <2>3. \A e \in Ends, i \in Incarnations :
            /\ Len(sent[e][i]) <= MaxChunks[e]
            /\ \A n \in 1 .. Len(sent[e][i]) : sent[e][i][n] = <<e, i, n - 1>>
            /\ Len(got[e][i]) <= Len(sent[Other(e)][i])
            /\ \A n \in 1 .. Len(got[e][i]) : got[e][i][n] = <<Other(e), i, n - 1>>
        BY <2>1
    <2> QED BY <2>2, <2>3 DEF Histories
<1>6. Keys
    <2>1. << >> \in Seq(Packets)
        OBVIOUS
    <2>2. NoStream \in StreamT /\ ~NoStream.open /\ NoStream.inc = 0 /\ NoStream.pump = "off"
        BY <1>2, <2>1 DEF NoStream, StreamT
    <2>3. s \in [Ends -> StreamT]
        BY <1>1, <2>2
    <2> QED BY <1>1, <1>2, <1>3, <2>2, <2>3 DEF Keys, Progress
<1>7. App!Init
    <2>1. \A e \in Ends : EndClosed(e) = FALSE
        BY <1>3 DEF EndClosed
    <2> QED BY <1>3, <2>1 DEF App!Init
<1> QED BY <1>4, <1>5, <1>6, <1>7 DEF StreamInv

(* Every step keeps the invariant and is a step of the channel or none.    *)
LEMMA StreamSteps == StreamInv /\ [Next]_vars => StreamInv' /\ [App!Next]_App!vars
<1> SUFFICES ASSUME StreamInv, [Next]_vars PROVE StreamInv' /\ [App!Next]_App!vars
    OBVIOUS
<1>1. CASE Open
    BY <1>1, OpenStep
<1>2. CASE OpenTimeout \/ OpenError
    BY <1>2, OpenFailsStep
<1>3. CASE OpenAcked
    BY <1>3, AckedStep
<1>12. CASE SendReady
    BY <1>12, ReadyStep
<1>4. ASSUME NEW e \in Ends, EndStep(e) PROVE StreamInv' /\ App!Next
    <2>1. CASE Pump(e)
        BY <2>1, PumpStep
    <2>2. CASE PumpFailed(e)
        <3>1. /\ closeLocal(net, e, FALSE)
              /\ UNCHANGED <<routes, flaps, seen, work, opener, result, opening, sent, got>>
            BY <2>2 DEF PumpFailed
        <3> QED BY <3>1, CloseLocalStep
    <2>3. CASE PumpEOF(e)
        <3>1. /\ closeLocal(net, e, TRUE)
              /\ UNCHANGED <<routes, flaps, seen, work, opener, result, opening, sent, got>>
            BY <2>3 DEF PumpEOF
        <3> QED BY <3>1, CloseLocalStep
    <2>4. CASE Receive(e)
        BY <2>4, ReceiveStep
    <2> QED BY <1>4, <2>1, <2>2, <2>3, <2>4 DEF EndStep
<1>5. ASSUME NEW m \in Nodes, NEW n \in Nodes, ConnStep(m, n) PROVE StreamInv' /\ App!Next
    BY <1>5, HandleHereStep, RelayStep DEF ConnStep
<1>6. ASSUME NEW p \in opening, HandleOpen(p) PROVE StreamInv' /\ App!Next
    <2>1. Refuse(p) \/ Accept(p)
        BY <1>6 DEF HandleOpen
    <2> QED BY <1>6, <2>1, RefuseStep, AcceptStep
<1>7. ASSUME NEW n \in Nodes, NEW p \in work[n], Retry(n, p) \/ GiveUp(n, p) PROVE StreamInv' /\ App!Next
    BY <1>7, RetryStep, GiveUpStep
<1>8. ASSUME NEW m \in Nodes, NEW n \in Nodes, Lose(m, n), UNCHANGED streamVars PROVE StreamInv' /\ App!Next
    BY <1>8, LoseStep
<1>9. ASSUME NEW l \in Links, Reconnect(l), UNCHANGED streamVars PROVE StreamInv' /\ App!Next
    BY <1>9, ReconnectStep
<1>10. ASSUME NEW n \in Nodes, NEW d \in Ends, recomputeRoutes(n, d), UNCHANGED streamVars
       PROVE  StreamInv' /\ App!Next
    BY <1>10, RecomputeStep
<1>11. CASE UNCHANGED vars
    <2>1. UNCHANGED <<net, flaps, seen, work, opener, result, opening, s, sent, got>>
        BY <1>11 DEF vars, fwdVars, streamVars
    <2>2. StreamInv'
        BY <2>1 DEF StreamInv, PacketsGood, Good, Histories, Keys, Bound, DataFor
    <2>3. UNCHANGED App!vars
        BY <2>1 DEF App!vars, Bound, EndClosed, EndOpen
    <2> QED BY <2>2, <2>3
<1> QED BY <1>1, <1>2, <1>3, <1>4, <1>5, <1>6, <1>7, <1>8, <1>9, <1>10, <1>11, <1>12 DEF Next

(* The stream implements the channel (ChannelSpec).                        *)
THEOREM StreamIsChannel == Spec => ChannelSpec
<1>1. Init => StreamInv /\ App!Init
    BY StreamStarts
<1>2. StreamInv /\ [Next]_vars => StreamInv' /\ [App!Next]_App!vars
    BY StreamSteps
<1> QED BY <1>1, <1>2, PTL DEF Spec, ChannelSpec, App!Spec

(* Types, and no data before the initiator's stream exists: the parts of   *)
(* Handshake that hold whatever is lost or duplicated (startPump upon      *)
(* READY, openWithConn).                                                   *)
LEMMA TypesAndOrder == StreamInv => TypeOK /\ DataFindsStream
<1> SUFFICES ASSUME StreamInv PROVE TypeOK /\ DataFindsStream
    OBVIOUS
<1>1. /\ net.up \in SUBSET Links /\ net.chan \in [Hops -> Seq(Good)] /\ net.breaks \in Nat
      /\ flaps \in Nat /\ net.breaks + flaps <= MaxFaults
      /\ work \in [Nodes -> SUBSET Good] /\ seen \in [Nodes -> SUBSET Packets] /\ Good \subseteq Packets
    BY NetFacts, NetFields
<1>2. net.breaks \in 0 .. MaxFaults
    BY <1>1, HopsAssumption
<1>3. \A h \in Hops : \A i \in DOMAIN net.chan[h] : net.chan[h][i] \in Good
    BY <1>1
<1>4. TypeOK
    <2>1. \A h \in Hops : \A i \in DOMAIN net.chan[h] : net.chan[h][i] \in Packets
        BY <1>1, <1>3
    <2>2. \A n \in Nodes : work[n] \subseteq Packets /\ seen[n] \subseteq Packets
        BY <1>1
    <2>3. /\ opener \in Progress /\ Len(result) <= 1 /\ opening \subseteq Packets
        BY <1>1 DEF StreamInv, PacketsGood, Keys
    <2>4. \A e \in Ends :
            /\ s[e].open \in BOOLEAN /\ s[e].inc \in Incarnations
            /\ s[e].pump \in {"off", "on", "failing", "ended"}
            /\ Len(s[e].incoming) <= QueueCap
        BY DEF StreamInv, PacketsGood, Keys, StreamT
    <2> QED BY <1>1, <1>2, <2>1, <2>2, <2>3, <2>4 DEF TypeOK
<1>5. DataFindsStream
    <2> SUFFICES ASSUME NEW p \in InFlight, p.kind = "data", p.dst = A PROVE Bound
        BY DEF DataFindsStream
    <2>1. p \in Good
        BY <1>3 DEF InFlight
    <2>2. /\ p.src \in Ends /\ p.inc \in Incarnations /\ p.seq \in Nat /\ p.seq < Len(sent[p.src][p.inc])
        BY <2>1 DEF Good, Packets
    <2>3. sent[p.src][p.inc] # << >>
        BY <2>2
    <2> QED BY <2>2, <2>3 DEF StreamInv, Keys
<1> QED BY <1>4, <1>5

-----------------------------------------------------------------------------
(* The handshake without faults.  As long as nothing has gone wrong there  *)
(* is at most one packet of the handshake, wherever it is, and until B has *)
(* accepted it is an OPEN or a refusal.                                    *)
Hand(p) == p.kind \in {"open", "ack", "error"}
Early(p) == p.kind \in {"open", "error"}

NoHandIn(c) == \A h \in Hops : \A i \in 1 .. Len(c[h]) : ~Hand(c[h][i])
LoneIn(c) ==
  \A h, g \in Hops : \A i \in 1 .. Len(c[h]), j \in 1 .. Len(c[g]) :
    Hand(c[h][i]) /\ Hand(c[g][j]) => h = g /\ i = j
NoEarlyIn(c) == \A h \in Hops : \A i \in 1 .. Len(c[h]) : ~Early(c[h][i])

NoHandAt(w) == \A n \in Nodes : \A p \in w[n] : ~Hand(p)
LoneAt(w) ==
  \A n, m \in Nodes : \A p \in w[n], q \in w[m] : Hand(p) /\ Hand(q) => n = m /\ p = q
NoEarlyAt(w) == \A n \in Nodes : \A p \in w[n] : ~Early(p)

OneHand ==
  /\ LoneIn(net.chan) /\ LoneAt(work) /\ \A p, q \in opening : p = q
  /\ NoHandIn(net.chan) \/ (NoHandAt(work) /\ opening = {} /\ result = << >>)
  /\ NoHandAt(work) \/ (opening = {} /\ result = << >>)
  /\ opening = {} \/ result = << >>
  /\ opener # "waiting" =>
       NoHandIn(net.chan) /\ NoHandAt(work) /\ opening = {} /\ result = << >>
  /\ s[B].inc # 0 =>
       /\ NoEarlyIn(net.chan) /\ NoEarlyAt(work) /\ opening = {}
       /\ result # << >> => ~Early(result[1])
  /\ opener \in {"idle", "failed"} => s[B].inc = 0
  /\ s[B].open => s[B].inc # 0

(* Data is never handed to a worker.                                       *)
NoDataAt(w) == \A n \in Nodes : \A p \in w[n] : p.kind # "data"

(* CLOSE is the last packet of an end: while the end is open, or before it *)
(* was, there is none.                                                     *)
ClosesOf(e, p) == p.kind = "close" /\ p.src = e
DataOf(e, p) == p.kind = "data" /\ p.src = e
NoClose(e, c, w) ==
  /\ \A h \in Hops : \A i \in 1 .. Len(c[h]) : ~ClosesOf(e, c[h][i])
  /\ \A n \in Nodes : \A p \in w[n] : ~ClosesOf(e, p)

Parting ==
  /\ ~Bound \/ s[A].open => NoClose(A, net.chan, work)
  /\ s[B].inc = 0 \/ s[B].open => NoClose(B, net.chan, work)

(* Without routing changes the packets of an end take one line: pos[t] is  *)
(* the node that sends those with TTL t, and no packet has got further     *)
(* than low.                                                               *)
Seated(e, pos, low, c, w) ==
  LET d == Other(e) IN
  /\ pos[MaxHops] = e
  /\ \A k \in low .. MaxHops : pos[k] # d
  /\ \A k \in low + 1 .. MaxHops : pos[k - 1] = routes[pos[k]][d]
  /\ \A h \in Hops : \A i \in 1 .. Len(c[h]) :
       c[h][i].src = e =>
         c[h][i].ttl >= low /\ h = <<pos[c[h][i].ttl], routes[pos[c[h][i].ttl]][d]>>
  /\ \A n \in Nodes : \A p \in w[n] : p.src = e => p.ttl >= low /\ n = pos[p.ttl]

InLine(e, c, w) ==
  \E pos \in [0 .. MaxHops -> Nodes], low \in 0 .. MaxHops : Seated(e, pos, low, c, w)

(* Data of an end is ahead of its CLOSE: further down the line, or in      *)
(* front of it in the same connection.                                     *)
Ahead(e, c, w) ==
  \A g \in Hops : \A j \in 1 .. Len(c[g]) :
    DataOf(e, c[g][j]) =>
      /\ \A h \in Hops : \A i \in 1 .. Len(c[h]) :
           ClosesOf(e, c[h][i]) =>
             \/ c[g][j].ttl < c[h][i].ttl
             \/ c[g][j].ttl = c[h][i].ttl /\ g = h /\ j < i
      /\ \A n \in Nodes : \A p \in w[n] : ClosesOf(e, p) => c[g][j].ttl <= p.ttl

Ordered(e, c, w) == InLine(e, c, w) /\ Ahead(e, c, w)

InOrder == flaps = 0 => \A e \in Ends : Ordered(e, net.chan, work)

Clean == NoDataAt(work) /\ OneHand /\ Parting /\ InOrder

CleanInv == StreamInv /\ (faults = {} => Clean)

-----------------------------------------------------------------------------
(* Channels and workers, and what reading, writing, handing over and       *)
(* finishing do to them.                                                   *)
Chans == [Hops -> Seq(Packets)]
Works == [Nodes -> SUBSET Packets]

TakenFrom(c, g) == [c EXCEPT ![g] = Tail(@)]
WrittenTo(c, g, p) == [c EXCEPT ![g] = Append(@, p)]
Handed(w, n, p) == [w EXCEPT ![n] = @ \cup {p}]
Finished(w, n, p) == [w EXCEPT ![n] = @ \ {p}]

(* Reading moves what is behind the first frame forward by one.            *)
LEMMA ReadShift ==
  ASSUME NEW c \in Chans, NEW g \in Hops, c[g] # << >>, NEW d, d = TakenFrom(c, g)
  PROVE  /\ d \in Chans /\ 1 \in 1 .. Len(c[g]) /\ Head(c[g]) = c[g][1]
         /\ \A h \in Hops : \A i \in 1 .. Len(d[h]) :
              LET k == IF h = g THEN i + 1 ELSE i
              IN  k \in 1 .. Len(c[h]) /\ d[h][i] = c[h][k]
<1>1. c[g] \in Seq(Packets) /\ Len(c[g]) \in Nat /\ Len(c[g]) >= 1
    BY DEF Chans
<1>2. /\ Tail(c[g]) \in Seq(Packets) /\ Len(Tail(c[g])) = Len(c[g]) - 1
      /\ \A i \in 1 .. Len(Tail(c[g])) : Tail(c[g])[i] = c[g][i + 1]
    BY <1>1
<1>3. d \in Chans /\ d[g] = Tail(c[g]) /\ \A h \in Hops : h # g => d[h] = c[h]
    BY <1>2 DEF Chans, TakenFrom
<1>4. 1 \in 1 .. Len(c[g]) /\ Head(c[g]) = c[g][1]
    BY <1>1
<1>5. ASSUME NEW i \in 1 .. Len(d[g]) PROVE i + 1 \in 1 .. Len(c[g]) /\ d[g][i] = c[g][i + 1]
    <2>1. i \in 1 .. Len(Tail(c[g])) /\ i \in 1 .. (Len(c[g]) - 1)
        BY <1>2, <1>3
    <2> QED BY <1>1, <1>2, <1>3, <2>1
<1> QED BY <1>3, <1>4, <1>5

(* Writing adds a last frame.                                              *)
LEMMA WriteLast ==
  ASSUME NEW c \in Chans, NEW g \in Hops, NEW p \in Packets, NEW d, d = WrittenTo(c, g, p)
  PROVE  /\ d \in Chans /\ Len(c[g]) \in Nat
         /\ \A h \in Hops : \A i \in 1 .. Len(d[h]) :
              \/ i \in 1 .. Len(c[h]) /\ d[h][i] = c[h][i]
              \/ h = g /\ i = Len(c[g]) + 1 /\ d[h][i] = p
<1>1. c[g] \in Seq(Packets) /\ Len(c[g]) \in Nat
    BY DEF Chans
<1>2. /\ Append(c[g], p) \in Seq(Packets) /\ Len(Append(c[g], p)) = Len(c[g]) + 1
      /\ \A i \in 1 .. Len(c[g]) : Append(c[g], p)[i] = c[g][i]
      /\ Append(c[g], p)[Len(c[g]) + 1] = p
    BY <1>1
<1>3. d \in Chans /\ d[g] = Append(c[g], p) /\ \A h \in Hops : h # g => d[h] = c[h]
    BY <1>2 DEF Chans, WrittenTo
<1>4. ASSUME NEW i \in 1 .. Len(d[g])
      PROVE  \/ i \in 1 .. Len(c[g]) /\ d[g][i] = c[g][i]
             \/ i = Len(c[g]) + 1 /\ d[g][i] = p
    BY <1>1, <1>2, <1>3
<1> QED BY <1>1, <1>3, <1>4

(* A worker that is added or done.                                         *)
LEMMA AddWork ==
  ASSUME NEW w \in Works, NEW n \in Nodes, NEW p \in Packets, NEW v, v = Handed(w, n, p)
  PROVE  /\ v \in Works
         /\ \A m \in Nodes : \A q \in v[m] : q \in w[m] \/ (m = n /\ q = p)
    BY DEF Works, Handed

(* A worker that is done leaves the others.                                *)
LEMMA EndWork ==
  ASSUME NEW w \in Works, NEW n \in Nodes, NEW p \in w[n], NEW v, v = Finished(w, n, p)
  PROVE  /\ v \in Works
         /\ \A m \in Nodes : \A q \in v[m] : q \in w[m] /\ ~(m = n /\ q = p)
    BY DEF Works, Finished

-----------------------------------------------------------------------------
(* The packets of the handshake under these four operations.               *)
LEMMA HandRead ==
  ASSUME NEW c \in Chans, NEW g \in Hops, c[g] # << >>, NEW d, d = TakenFrom(c, g), LoneIn(c)
  PROVE  /\ d \in Chans /\ LoneIn(d)
         /\ NoHandIn(c) => NoHandIn(d)
         /\ NoEarlyIn(c) => NoEarlyIn(d)
         /\ NoHandIn(c) => ~Hand(Head(c[g]))
         /\ NoEarlyIn(c) => ~Early(Head(c[g]))
         /\ Hand(Head(c[g])) => NoHandIn(d)
<1>1. /\ d \in Chans /\ 1 \in 1 .. Len(c[g]) /\ Head(c[g]) = c[g][1]
      /\ \A h \in Hops : \A i \in 1 .. Len(d[h]) :
           LET k == IF h = g THEN i + 1 ELSE i
           IN  k \in 1 .. Len(c[h]) /\ d[h][i] = c[h][k]
    BY ReadShift
<1>2. LoneIn(d)
    <2> SUFFICES ASSUME NEW h \in Hops, NEW e \in Hops, NEW i \in 1 .. Len(d[h]), NEW j \in 1 .. Len(d[e]),
                        Hand(d[h][i]), Hand(d[e][j])
                 PROVE  h = e /\ i = j
        BY DEF LoneIn
    <2>1. PICK k \in 1 .. Len(c[h]) : d[h][i] = c[h][k] /\ k = IF h = g THEN i + 1 ELSE i
        BY <1>1
    <2>2. PICK l \in 1 .. Len(c[e]) : d[e][j] = c[e][l] /\ l = IF e = g THEN j + 1 ELSE j
        BY <1>1
    <2>3. h = e /\ k = l
        BY <2>1, <2>2 DEF LoneIn
    <2> QED BY <2>1, <2>2, <2>3
<1>3. ASSUME Hand(Head(c[g])) PROVE NoHandIn(d)
    <2> SUFFICES ASSUME NEW h \in Hops, NEW i \in 1 .. Len(d[h]), Hand(d[h][i]) PROVE FALSE
        BY DEF NoHandIn
    <2>1. PICK k \in 1 .. Len(c[h]) : d[h][i] = c[h][k] /\ k = IF h = g THEN i + 1 ELSE i
        BY <1>1
    <2>2. h = g /\ k = 1
        BY <1>1, <1>3, <2>1 DEF LoneIn
    <2> QED BY <2>1, <2>2
<1>4. /\ NoHandIn(c) => NoHandIn(d) /\ ~Hand(Head(c[g]))
      /\ NoEarlyIn(c) => NoEarlyIn(d) /\ ~Early(Head(c[g]))
    BY <1>1 DEF NoHandIn, NoEarlyIn
<1> QED BY <1>1, <1>2, <1>3, <1>4

(* A frame of the handshake may be written where none is in flight.        *)
LEMMA HandWrite ==
  ASSUME NEW c \in Chans, NEW g \in Hops, NEW p \in Packets, NEW d, d = WrittenTo(c, g, p), LoneIn(c)
  PROVE  /\ d \in Chans
         /\ ~Hand(p) \/ NoHandIn(c) => LoneIn(d)
         /\ NoHandIn(c) /\ ~Hand(p) => NoHandIn(d)
         /\ NoEarlyIn(c) /\ ~Early(p) => NoEarlyIn(d)
<1>1. /\ d \in Chans /\ Len(c[g]) \in Nat
      /\ \A h \in Hops : \A i \in 1 .. Len(d[h]) :
           \/ i \in 1 .. Len(c[h]) /\ d[h][i] = c[h][i]
           \/ h = g /\ i = Len(c[g]) + 1 /\ d[h][i] = p
    BY WriteLast
<1>2. ASSUME ~Hand(p) PROVE LoneIn(d)
    <2>1. \A h \in Hops : \A i \in 1 .. Len(d[h]) :
            Hand(d[h][i]) => i \in 1 .. Len(c[h]) /\ d[h][i] = c[h][i]
        BY <1>1, <1>2
    <2> QED BY <2>1 DEF LoneIn
<1>3. ASSUME NoHandIn(c) PROVE LoneIn(d)
    BY <1>1, <1>3 DEF LoneIn, NoHandIn
<1>4. /\ NoHandIn(c) /\ ~Hand(p) => NoHandIn(d)
      /\ NoEarlyIn(c) /\ ~Early(p) => NoEarlyIn(d)
    BY <1>1 DEF NoHandIn, NoEarlyIn
<1> QED BY <1>1, <1>2, <1>3, <1>4

(* A packet of the handshake may be handed to a worker when none has one.  *)
LEMMA HandAdd ==
  ASSUME NEW w \in Works, NEW n \in Nodes, NEW p \in Packets, NEW v, v = Handed(w, n, p), LoneAt(w)
  PROVE  /\ v \in Works
         /\ ~Hand(p) \/ NoHandAt(w) => LoneAt(v)
         /\ NoHandAt(w) /\ ~Hand(p) => NoHandAt(v)
         /\ NoEarlyAt(w) /\ ~Early(p) => NoEarlyAt(v)
<1>1. /\ v \in Works
      /\ \A m \in Nodes : \A q \in v[m] : q \in w[m] \/ (m = n /\ q = p)
    BY AddWork
<1>2. ASSUME ~Hand(p) PROVE LoneAt(v)
    BY <1>1, <1>2 DEF LoneAt
<1>3. ASSUME NoHandAt(w) PROVE LoneAt(v)
    BY <1>1, <1>3 DEF LoneAt, NoHandAt
<1>4. /\ NoHandAt(w) /\ ~Hand(p) => NoHandAt(v)
      /\ NoEarlyAt(w) /\ ~Early(p) => NoEarlyAt(v)
    BY <1>1 DEF NoHandAt, NoEarlyAt
<1> QED BY <1>1, <1>2, <1>3, <1>4

(* When the worker with the packet of the handshake is done none has one.  *)
LEMMA HandEnd ==
  ASSUME NEW w \in Works, NEW n \in Nodes, NEW p \in w[n], NEW v, v = Finished(w, n, p), LoneAt(w)
  PROVE  /\ v \in Works /\ LoneAt(v)
         /\ NoHandAt(w) => NoHandAt(v) /\ ~Hand(p)
         /\ NoEarlyAt(w) => NoEarlyAt(v) /\ ~Early(p)
         /\ Hand(p) => NoHandAt(v)
<1>1. /\ v \in Works
      /\ \A m \in Nodes : \A q \in v[m] : q \in w[m] /\ ~(m = n /\ q = p)
    BY EndWork
<1>2. LoneAt(v)
    BY <1>1 DEF LoneAt
<1>3. Hand(p) => NoHandAt(v)
    BY <1>1 DEF LoneAt, NoHandAt
<1>4. NoHandAt(w) => NoHandAt(v) /\ ~Hand(p)
    BY <1>1 DEF NoHandAt
<1>5. NoEarlyAt(w) => NoEarlyAt(v) /\ ~Early(p)
    BY <1>1 DEF NoEarlyAt
<1> QED BY <1>1, <1>2, <1>3, <1>4, <1>5

-----------------------------------------------------------------------------
(* CLOSE, and the order of an end's packets, under the same operations.    *)
LEMMA CloseKept ==
  ASSUME NEW e, NEW c \in Chans, NEW w \in Works, NoClose(e, c, w)
  PROVE  /\ \A g \in Hops : c[g] # << >> =>
              NoClose(e, TakenFrom(c, g), w) /\ ~ClosesOf(e, Head(c[g]))
         /\ \A g \in Hops, p \in Packets : ~ClosesOf(e, p) => NoClose(e, WrittenTo(c, g, p), w)
         /\ \A n \in Nodes, p \in Packets : ~ClosesOf(e, p) => NoClose(e, c, Handed(w, n, p))
         /\ \A n \in Nodes : \A p \in w[n] : NoClose(e, c, Finished(w, n, p)) /\ ~ClosesOf(e, p)
<1>1. ASSUME NEW g \in Hops, c[g] # << >>
      PROVE  NoClose(e, TakenFrom(c, g), w) /\ ~ClosesOf(e, Head(c[g]))
    <2>1. PICK d : d = TakenFrom(c, g)
        OBVIOUS
    <2>2. /\ 1 \in 1 .. Len(c[g]) /\ Head(c[g]) = c[g][1]
          /\ \A h \in Hops : \A i \in 1 .. Len(d[h]) :
               LET k == IF h = g THEN i + 1 ELSE i
               IN  k \in 1 .. Len(c[h]) /\ d[h][i] = c[h][k]
        BY <1>1, <2>1, ReadShift
    <2> QED BY <2>1, <2>2 DEF NoClose
<1>2. ASSUME NEW g \in Hops, NEW p \in Packets, ~ClosesOf(e, p)
      PROVE  NoClose(e, WrittenTo(c, g, p), w)
    <2>1. PICK d : d = WrittenTo(c, g, p)
        OBVIOUS
    <2>2. \A h \in Hops : \A i \in 1 .. Len(d[h]) :
            \/ i \in 1 .. Len(c[h]) /\ d[h][i] = c[h][i]
            \/ h = g /\ i = Len(c[g]) + 1 /\ d[h][i] = p
        BY <2>1, WriteLast
    <2>3. \A h \in Hops : \A i \in 1 .. Len(d[h]) : ~ClosesOf(e, d[h][i])
        BY <1>2, <2>2 DEF NoClose
    <2> QED BY <2>1, <2>3 DEF NoClose
<1>3. ASSUME NEW n \in Nodes, NEW p \in Packets, ~ClosesOf(e, p)
      PROVE  NoClose(e, c, Handed(w, n, p))
    <2>1. PICK v : v = Handed(w, n, p)
        OBVIOUS
    <2>2. \A m \in Nodes : \A q \in v[m] : q \in w[m] \/ (m = n /\ q = p)
        BY <2>1, AddWork
    <2> QED BY <1>3, <2>1, <2>2 DEF NoClose
<1>4. ASSUME NEW n \in Nodes, NEW p \in w[n]
      PROVE  NoClose(e, c, Finished(w, n, p)) /\ ~ClosesOf(e, p)
    <2>1. PICK v : v = Finished(w, n, p)
        OBVIOUS
    <2>2. \A m \in Nodes : \A q \in v[m] : q \in w[m] /\ ~(m = n /\ q = p)
        BY <2>1, EndWork
    <2> QED BY <2>1, <2>2 DEF NoClose
<1> QED BY <1>1, <1>2, <1>3, <1>4

(* The line: a packet that is written or handed over where the line says   *)
(* leaves the others in their places.                                      *)
LEMMA SeatedKept ==
  ASSUME NEW e \in Ends, NEW pos \in [0 .. MaxHops -> Nodes], NEW low \in 0 .. MaxHops,
         NEW c \in Chans, NEW w \in Works, Seated(e, pos, low, c, w)
  PROVE  /\ \A g \in Hops : c[g] # << >> => Seated(e, pos, low, TakenFrom(c, g), w)
         /\ \A g \in Hops, p \in Packets :
              (p.src = e => p.ttl >= low /\ g = <<pos[p.ttl], routes[pos[p.ttl]][Other(e)]>>)
                => Seated(e, pos, low, WrittenTo(c, g, p), w)
         /\ \A n \in Nodes, p \in Packets :
              (p.src = e => p.ttl >= low /\ n = pos[p.ttl]) => Seated(e, pos, low, c, Handed(w, n, p))
         /\ \A n \in Nodes : \A p \in w[n] : Seated(e, pos, low, c, Finished(w, n, p))
<1>1. ASSUME NEW g \in Hops, c[g] # << >> PROVE Seated(e, pos, low, TakenFrom(c, g), w)
    <2>1. PICK d : d = TakenFrom(c, g)
        OBVIOUS
    <2>2. \A h \in Hops : \A i \in 1 .. Len(d[h]) :
            LET k == IF h = g THEN i + 1 ELSE i
            IN  k \in 1 .. Len(c[h]) /\ d[h][i] = c[h][k]
        BY <1>1, <2>1, ReadShift
    <2>3. ASSUME NEW h \in Hops, NEW i \in 1 .. Len(d[h]), d[h][i].src = e
          PROVE  d[h][i].ttl >= low /\ h = <<pos[d[h][i].ttl], routes[pos[d[h][i].ttl]][Other(e)]>>
        <3>1. PICK k \in 1 .. Len(c[h]) : d[h][i] = c[h][k]
            BY <2>2
        <3> QED BY <2>3, <3>1 DEF Seated
    <2> QED BY <2>1, <2>3 DEF Seated
<1>2. ASSUME NEW g \in Hops, NEW p \in Packets,
             p.src = e => p.ttl >= low /\ g = <<pos[p.ttl], routes[pos[p.ttl]][Other(e)]>>
      PROVE  Seated(e, pos, low, WrittenTo(c, g, p), w)
    <2>1. PICK d : d = WrittenTo(c, g, p)
        OBVIOUS
    <2>2. \A h \in Hops : \A i \in 1 .. Len(d[h]) :
            \/ i \in 1 .. Len(c[h]) /\ d[h][i] = c[h][i]
            \/ h = g /\ i = Len(c[g]) + 1 /\ d[h][i] = p
        BY <2>1, WriteLast
    <2>3. ASSUME NEW h \in Hops, NEW i \in 1 .. Len(d[h]), d[h][i].src = e
          PROVE  d[h][i].ttl >= low /\ h = <<pos[d[h][i].ttl], routes[pos[d[h][i].ttl]][Other(e)]>>
        <3>1. CASE i \in 1 .. Len(c[h]) /\ d[h][i] = c[h][i]
            BY <2>3, <3>1 DEF Seated
        <3>2. CASE h = g /\ d[h][i] = p
            BY <1>2, <2>3, <3>2
        <3> QED BY <2>2, <3>1, <3>2
    <2> QED BY <2>1, <2>3 DEF Seated
<1>3. ASSUME NEW n \in Nodes, NEW p \in Packets, p.src = e => p.ttl >= low /\ n = pos[p.ttl]
      PROVE  Seated(e, pos, low, c, Handed(w, n, p))
    <2>1. PICK v : v = Handed(w, n, p)
        OBVIOUS
    <2>2. \A m \in Nodes : \A q \in v[m] : q \in w[m] \/ (m = n /\ q = p)
        BY <2>1, AddWork
    <2>3. \A m \in Nodes : \A q \in v[m] : q.src = e => q.ttl >= low /\ m = pos[q.ttl]
        BY <1>3, <2>2 DEF Seated
    <2> QED BY <2>1, <2>3 DEF Seated
<1>4. ASSUME NEW n \in Nodes, NEW p \in w[n] PROVE Seated(e, pos, low, c, Finished(w, n, p))
    <2>1. PICK v : v = Finished(w, n, p)
        OBVIOUS
    <2>2. \A m \in Nodes : \A q \in v[m] : q \in w[m] /\ ~(m = n /\ q = p)
        BY <2>1, EndWork
    <2> QED BY <2>1, <2>2 DEF Seated
<1> QED BY <1>1, <1>2, <1>3, <1>4

(* Types of the packets in channels.                                       *)
LEMMA InChans ==
  ASSUME NEW c \in Chans, NEW h \in Hops, NEW i \in 1 .. Len(c[h])
  PROVE  /\ c[h][i] \in Packets /\ c[h][i].ttl \in 0 .. MaxHops /\ c[h][i].ttl \in Nat
         /\ i \in Nat /\ Len(c[h]) \in Nat
<1>1. c[h] \in Seq(Packets)
    BY DEF Chans
<1>2. c[h][i] \in Packets /\ i \in Nat /\ Len(c[h]) \in Nat
    BY <1>1
<1> QED BY <1>2, HopsAssumption DEF Packets

(* Data stays ahead of CLOSE.                                              *)
LEMMA AheadKept ==
  ASSUME NEW e \in Ends, NEW c \in Chans, NEW w \in Works, Ahead(e, c, w)
  PROVE  /\ \A g \in Hops : c[g] # << >> => Ahead(e, TakenFrom(c, g), w)
         /\ \A g \in Hops, p \in Packets :
              /\ DataOf(e, p) =>
                   /\ \A h \in Hops : \A i \in 1 .. Len(c[h]) : ClosesOf(e, c[h][i]) => p.ttl < c[h][i].ttl
                   /\ \A n \in Nodes : \A q \in w[n] : ClosesOf(e, q) => p.ttl <= q.ttl
              /\ ClosesOf(e, p) =>
                   \A h \in Hops : \A j \in 1 .. Len(c[h]) : DataOf(e, c[h][j]) =>
                     c[h][j].ttl < p.ttl \/ (c[h][j].ttl = p.ttl /\ h = g)
              => Ahead(e, WrittenTo(c, g, p), w)
         /\ \A n \in Nodes, p \in Packets :
              (ClosesOf(e, p) =>
                 \A h \in Hops : \A j \in 1 .. Len(c[h]) : DataOf(e, c[h][j]) => c[h][j].ttl <= p.ttl)
              => Ahead(e, c, Handed(w, n, p))
         /\ \A n \in Nodes : \A p \in w[n] : Ahead(e, c, Finished(w, n, p))
<1>1. ASSUME NEW g \in Hops, c[g] # << >> PROVE Ahead(e, TakenFrom(c, g), w)
    <2>1. PICK d : d = TakenFrom(c, g)
        OBVIOUS
    <2>2. \A h \in Hops : \A i \in 1 .. Len(d[h]) :
            LET k == IF h = g THEN i + 1 ELSE i
            IN  k \in 1 .. Len(c[h]) /\ d[h][i] = c[h][k]
        BY <1>1, <2>1, ReadShift
    <2>3. ASSUME NEW x \in Hops, NEW j \in 1 .. Len(d[x]), DataOf(e, d[x][j])
          PROVE  /\ \A h \in Hops : \A i \in 1 .. Len(d[h]) :
                      ClosesOf(e, d[h][i]) =>
                        \/ d[x][j].ttl < d[h][i].ttl
                        \/ d[x][j].ttl = d[h][i].ttl /\ x = h /\ j < i
                 /\ \A n \in Nodes : \A p \in w[n] : ClosesOf(e, p) => d[x][j].ttl <= p.ttl
        <3>1. PICK k \in 1 .. Len(c[x]) : d[x][j] = c[x][k] /\ k = IF x = g THEN j + 1 ELSE j
            BY <2>2
        <3>2. ASSUME NEW h \in Hops, NEW i \in 1 .. Len(d[h]), ClosesOf(e, d[h][i])
              PROVE  \/ d[x][j].ttl < d[h][i].ttl
                     \/ d[x][j].ttl = d[h][i].ttl /\ x = h /\ j < i
            <4>1. PICK l \in 1 .. Len(c[h]) : d[h][i] = c[h][l] /\ l = IF h = g THEN i + 1 ELSE i
                BY <2>2
            <4>2. \/ c[x][k].ttl < c[h][l].ttl
                  \/ c[x][k].ttl = c[h][l].ttl /\ x = h /\ k < l
                <5>1. DataOf(e, c[x][k]) /\ ClosesOf(e, c[h][l])
                    BY <2>3, <3>1, <3>2, <4>1
                <5> QED BY <5>1 DEF Ahead
            <4> QED BY <3>1, <4>1, <4>2
        <3>3. \A n \in Nodes : \A p \in w[n] : ClosesOf(e, p) => d[x][j].ttl <= p.ttl
            BY <2>3, <3>1 DEF Ahead
        <3> QED BY <3>2, <3>3
    <2> QED BY <2>1, <2>3 DEF Ahead
<1>2. ASSUME NEW g \in Hops, NEW p \in Packets,
             DataOf(e, p) =>
               /\ \A h \in Hops : \A i \in 1 .. Len(c[h]) : ClosesOf(e, c[h][i]) => p.ttl < c[h][i].ttl
               /\ \A n \in Nodes : \A q \in w[n] : ClosesOf(e, q) => p.ttl <= q.ttl,
             ClosesOf(e, p) =>
               \A h \in Hops : \A j \in 1 .. Len(c[h]) : DataOf(e, c[h][j]) =>
                 c[h][j].ttl < p.ttl \/ (c[h][j].ttl = p.ttl /\ h = g)
      PROVE  Ahead(e, WrittenTo(c, g, p), w)
    <2>1. PICK d : d = WrittenTo(c, g, p)
        OBVIOUS
    <2>2. \A h \in Hops : \A i \in 1 .. Len(d[h]) :
            \/ i \in 1 .. Len(c[h]) /\ d[h][i] = c[h][i]
            \/ h = g /\ i = Len(c[g]) + 1 /\ d[h][i] = p
        BY <2>1, WriteLast
    <2>3. ASSUME NEW x \in Hops, NEW j \in 1 .. Len(d[x]), DataOf(e, d[x][j]),
                 NEW h \in Hops, NEW i \in 1 .. Len(d[h]), ClosesOf(e, d[h][i])
          PROVE  \/ d[x][j].ttl < d[h][i].ttl
                 \/ d[x][j].ttl = d[h][i].ttl /\ x = h /\ j < i
        <3>1. CASE j \in 1 .. Len(c[x]) /\ d[x][j] = c[x][j]
            <4>1. CASE i \in 1 .. Len(c[h]) /\ d[h][i] = c[h][i]
                BY <2>3, <3>1, <4>1 DEF Ahead
            <4>2. CASE h = g /\ i = Len(c[g]) + 1 /\ d[h][i] = p
                <5>1. c[x][j].ttl < p.ttl \/ (c[x][j].ttl = p.ttl /\ x = g)
                    BY <1>2, <2>3, <3>1, <4>2
                <5>2. x = g => j < i
                    BY <3>1, <4>2, InChans
                <5> QED BY <3>1, <4>2, <5>1, <5>2
            <4> QED BY <2>2, <4>1, <4>2
        <3>2. CASE d[x][j] = p
            <4>1. d[h][i] # p
                BY <2>3, <3>2 DEF DataOf, ClosesOf
            <4>2. i \in 1 .. Len(c[h]) /\ d[h][i] = c[h][i]
                BY <2>2, <4>1
            <4> QED BY <1>2, <2>3, <3>2, <4>2
        <3> QED BY <2>2, <3>1, <3>2
    <2>4. ASSUME NEW x \in Hops, NEW j \in 1 .. Len(d[x]), DataOf(e, d[x][j]),
                 NEW n \in Nodes, NEW q \in w[n], ClosesOf(e, q)
          PROVE  d[x][j].ttl <= q.ttl
        BY <1>2, <2>2, <2>4 DEF Ahead
    <2> QED BY <2>1, <2>3, <2>4 DEF Ahead
<1>3. ASSUME NEW n \in Nodes, NEW p \in Packets,
             ClosesOf(e, p) =>
               \A h \in Hops : \A j \in 1 .. Len(c[h]) : DataOf(e, c[h][j]) => c[h][j].ttl <= p.ttl
      PROVE  Ahead(e, c, Handed(w, n, p))
    <2>1. PICK v : v = Handed(w, n, p)
        OBVIOUS
    <2>2. \A m \in Nodes : \A q \in v[m] : q \in w[m] \/ (m = n /\ q = p)
        BY <2>1, AddWork
    <2> QED BY <1>3, <2>1, <2>2 DEF Ahead
<1>4. ASSUME NEW n \in Nodes, NEW p \in w[n] PROVE Ahead(e, c, Finished(w, n, p))
    <2>1. PICK v : v = Finished(w, n, p)
        OBVIOUS
    <2>2. \A m \in Nodes : \A q \in v[m] : q \in w[m] /\ ~(m = n /\ q = p)
        BY <2>1, EndWork
    <2> QED BY <2>1, <2>2 DEF Ahead
<1> QED BY <1>1, <1>2, <1>3, <1>4

(* Where a packet goes next is on the line, which may grow by that node.   *)
LEMMA LineGrows ==
  ASSUME NEW e \in Ends, NEW pos \in [0 .. MaxHops -> Nodes], NEW low \in 0 .. MaxHops,
         NEW c \in Chans, NEW w \in Works, Seated(e, pos, low, c, w),
         NEW h \in Hops, NEW i \in 1 .. Len(c[h]), c[h][i].src = e,
         NEW t \in Nat, t + 1 = c[h][i].ttl, NEW n \in Nodes, h[2] = n, n # Other(e)
  PROVE  \E q \in [0 .. MaxHops -> Nodes], l \in 0 .. MaxHops :
           Seated(e, q, l, c, w) /\ l <= t /\ q[t] = n
<1>0. /\ MaxHops \in Nat /\ low \in Nat /\ low <= MaxHops
      /\ t + 1 \in 0 .. MaxHops /\ t \in 0 .. MaxHops /\ t + 1 <= MaxHops
    BY HopsAssumption, InChans
<1>1. t + 1 >= low /\ h = <<pos[t + 1], routes[pos[t + 1]][Other(e)]>>
    BY DEF Seated
<1>2. n = routes[pos[t + 1]][Other(e)]
    BY <1>1
<1>3. CASE low <= t
    <2>1. t + 1 \in low + 1 .. MaxHops /\ (t + 1) - 1 = t
        BY <1>0, <1>3
    <2>2. pos[(t + 1) - 1] = routes[pos[t + 1]][Other(e)]
        BY <2>1 DEF Seated
    <2>3. pos[t] = n
        BY <1>2, <2>1, <2>2
    <2> QED BY <1>3, <2>3
<1>4. CASE low = t + 1
    <2>1. PICK q \in [0 .. MaxHops -> Nodes] : q = [pos EXCEPT ![t] = n]
        <3>1. [pos EXCEPT ![t] = n] \in [0 .. MaxHops -> Nodes]
            BY <1>0
        <3> QED BY <3>1
    <2>2. q[t] = n /\ \A k \in 0 .. MaxHops : k # t => q[k] = pos[k]
        BY <1>0, <2>1
    <2>3. \A k \in low .. MaxHops : k \in 0 .. MaxHops /\ q[k] = pos[k]
        BY <1>0, <1>4, <2>2
    <2>4. q[MaxHops] = e
        BY <1>0, <2>3 DEF Seated
    <2>5. \A k \in t .. MaxHops : q[k] # Other(e)
        <3>1. \A k \in t .. MaxHops : k = t \/ k \in low .. MaxHops
            BY <1>0, <1>4
        <3> QED BY <2>2, <2>3, <3>1 DEF Seated
    <2>6. ASSUME NEW k \in t + 1 .. MaxHops PROVE q[k - 1] = routes[q[k]][Other(e)]
        <3>1. k \in low .. MaxHops
            BY <1>4
        <3>2. CASE k = t + 1
            <4>1. k - 1 = t
                BY <1>0, <3>2
            <4> QED BY <1>2, <2>2, <2>3, <3>1, <3>2, <4>1
        <3>3. CASE k # t + 1
            <4>1. k \in low + 1 .. MaxHops /\ k - 1 \in low .. MaxHops
                BY <1>0, <1>4, <3>1, <3>3
            <4>2. pos[k - 1] = routes[pos[k]][Other(e)]
                BY <4>1 DEF Seated
            <4> QED BY <2>3, <3>1, <4>1, <4>2
        <3> QED BY <3>2, <3>3
    <2>7. ASSUME NEW x \in Hops, NEW j \in 1 .. Len(c[x]), c[x][j].src = e
          PROVE  /\ c[x][j].ttl >= t
                 /\ x = <<q[c[x][j].ttl], routes[q[c[x][j].ttl]][Other(e)]>>
        <3>1. c[x][j].ttl >= low /\ c[x][j].ttl \in 0 .. MaxHops
            BY <2>7, InChans DEF Seated
        <3>2. c[x][j].ttl \in low .. MaxHops
            BY <1>0, <3>1
        <3>3. x = <<pos[c[x][j].ttl], routes[pos[c[x][j].ttl]][Other(e)]>>
            BY <2>7 DEF Seated
        <3>4. c[x][j].ttl >= t
            BY <1>0, <1>4, <3>1
        <3> QED BY <2>3, <3>2, <3>3, <3>4
    <2>8. ASSUME NEW m \in Nodes, NEW p \in w[m], p.src = e
          PROVE  p.ttl >= t /\ m = q[p.ttl]
        <3>1. p \in Packets
            BY DEF Works
        <3>2. p.ttl \in 0 .. MaxHops
            BY <3>1 DEF Packets
        <3>3. p.ttl >= low /\ m = pos[p.ttl]
            BY <2>8 DEF Seated
        <3>4. p.ttl \in low .. MaxHops /\ p.ttl >= t
            BY <1>0, <1>4, <3>2, <3>3
        <3> QED BY <2>3, <3>3, <3>4
    <2>9. Seated(e, q, t, c, w)
        BY <2>4, <2>5, <2>6, <2>7, <2>8 DEF Seated
    <2> QED BY <1>0, <2>2, <2>9
<1> QED BY <1>0, <1>1, <1>3, <1>4

-----------------------------------------------------------------------------
(* The order of an end's packets over whole steps.                         *)
(* A frame is read.                                                        *)
LEMMA OrderedRead ==
  ASSUME NEW e \in Ends, NEW c \in Chans, NEW w \in Works, Ordered(e, c, w), NEW g \in Hops, c[g] # << >>
  PROVE  Ordered(e, TakenFrom(c, g), w)
<1>1. PICK pos \in [0 .. MaxHops -> Nodes], low \in 0 .. MaxHops : Seated(e, pos, low, c, w)
    BY DEF Ordered, InLine
<1>2. Seated(e, pos, low, TakenFrom(c, g), w)
    BY <1>1, SeatedKept
<1>3. Ahead(e, TakenFrom(c, g), w)
    BY AheadKept DEF Ordered
<1> QED BY <1>2, <1>3 DEF Ordered, InLine

(* An end sends a packet of its own.                                       *)
LEMMA OrderedSend ==
  ASSUME NEW e \in Ends, NEW c \in Chans, NEW w \in Works, Ordered(e, c, w),
         NEW p \in Packets, p.ttl = MaxHops, p.dst = Other(p.src),
         p.kind = "data" => NoClose(p.src, c, w),
         NEW g \in Hops, g = <<p.src, routes[p.src][p.dst]>>
  PROVE  Ordered(e, WrittenTo(c, g, p), w)
<1>0. MaxHops \in Nat
    BY HopsAssumption
<1>1. PICK pos \in [0 .. MaxHops -> Nodes], low \in 0 .. MaxHops : Seated(e, pos, low, c, w)
    BY DEF Ordered, InLine
<1>2. pos[MaxHops] = e /\ MaxHops >= low
    BY <1>0, <1>1 DEF Seated
<1>3. Seated(e, pos, low, WrittenTo(c, g, p), w)
    <2>1. p.src = e => p.ttl >= low /\ g = <<pos[p.ttl], routes[pos[p.ttl]][Other(e)]>>
        BY <1>2
    <2> QED BY <1>1, <2>1, SeatedKept
<1>4. Ahead(e, WrittenTo(c, g, p), w)
    <2>1. ASSUME DataOf(e, p)
          PROVE  /\ \A h \in Hops : \A i \in 1 .. Len(c[h]) : ~ClosesOf(e, c[h][i])
                 /\ \A n \in Nodes : \A q \in w[n] : ~ClosesOf(e, q)
        BY <2>1 DEF DataOf, NoClose
    <2>2. ASSUME ClosesOf(e, p), NEW h \in Hops, NEW j \in 1 .. Len(c[h]), DataOf(e, c[h][j])
          PROVE  c[h][j].ttl < p.ttl \/ (c[h][j].ttl = p.ttl /\ h = g)
        <3>1. c[h][j].ttl \in 0 .. MaxHops
            BY InChans
        <3>2. c[h][j].src = e /\ p.src = e
            BY <2>2 DEF DataOf, ClosesOf
        <3>3. h = <<pos[c[h][j].ttl], routes[pos[c[h][j].ttl]][Other(e)]>>
            BY <1>1, <3>2 DEF Seated
        <3>4. c[h][j].ttl = MaxHops => h = g
            BY <1>2, <3>2, <3>3
        <3> QED BY <1>0, <3>1, <3>4
    <2> QED BY <2>1, <2>2, AheadKept DEF Ordered
<1> QED BY <1>3, <1>4 DEF Ordered, InLine

(* The acceptor hands an answer to a worker.                               *)
LEMMA OrderedAnswer ==
  ASSUME NEW e \in Ends, NEW c \in Chans, NEW w \in Works, Ordered(e, c, w),
         NEW p \in Packets, p.ttl = MaxHops, p.kind # "close", NEW n \in Nodes, n = p.src
  PROVE  Ordered(e, c, Handed(w, n, p))
<1>0. MaxHops \in Nat
    BY HopsAssumption
<1>1. PICK pos \in [0 .. MaxHops -> Nodes], low \in 0 .. MaxHops : Seated(e, pos, low, c, w)
    BY DEF Ordered, InLine
<1>2. pos[MaxHops] = e /\ MaxHops >= low
    BY <1>0, <1>1 DEF Seated
<1>3. Seated(e, pos, low, c, Handed(w, n, p))
    <2>1. p.src = e => p.ttl >= low /\ n = pos[p.ttl]
        BY <1>2
    <2> QED BY <1>1, <2>1, SeatedKept
<1>4. Ahead(e, c, Handed(w, n, p))
    <2>1. ~ClosesOf(e, p)
        BY DEF ClosesOf
    <2> QED BY <2>1, AheadKept DEF Ordered
<1> QED BY <1>3, <1>4 DEF Ordered, InLine

(* A worker's attempt succeeds.                                            *)
LEMMA OrderedWork ==
  ASSUME NEW e \in Ends, NEW c \in Chans, NEW w \in Works, Ordered(e, c, w),
         NEW n \in Nodes, NEW p \in w[n], p.kind # "data", p.dst = Other(p.src),
         NEW g \in Hops, g = <<n, routes[n][p.dst]>>
  PROVE  Ordered(e, WrittenTo(c, g, p), Finished(w, n, p))
<1>0. p \in Packets /\ Finished(w, n, p) \in Works
    BY EndWork DEF Works
<1>1. PICK pos \in [0 .. MaxHops -> Nodes], low \in 0 .. MaxHops : Seated(e, pos, low, c, w)
    BY DEF Ordered, InLine
<1>2. p.src = e => p.ttl >= low /\ g = <<pos[p.ttl], routes[pos[p.ttl]][Other(e)]>>
    BY <1>1 DEF Seated
<1>3. Seated(e, pos, low, WrittenTo(c, g, p), Finished(w, n, p))
    <2>1. Seated(e, pos, low, c, Finished(w, n, p))
        BY <1>1, SeatedKept
    <2> QED BY <1>0, <1>2, <2>1, SeatedKept
<1>4. Ahead(e, WrittenTo(c, g, p), Finished(w, n, p))
    <2>1. ~DataOf(e, p)
        BY DEF DataOf
    <2>2. ASSUME ClosesOf(e, p), NEW h \in Hops, NEW j \in 1 .. Len(c[h]), DataOf(e, c[h][j])
          PROVE  c[h][j].ttl < p.ttl \/ (c[h][j].ttl = p.ttl /\ h = g)
        <3>1. c[h][j].ttl <= p.ttl
            BY <2>2 DEF Ordered, Ahead
        <3>2. c[h][j].ttl \in Nat /\ p.ttl \in Nat
            BY <1>0, InChans, HopsAssumption DEF Packets
        <3>3. c[h][j].src = e /\ p.src = e
            BY <2>2 DEF DataOf, ClosesOf
        <3>4. h = <<pos[c[h][j].ttl], routes[pos[c[h][j].ttl]][Other(e)]>>
            BY <1>1, <3>3 DEF Seated
        <3>5. c[h][j].ttl = p.ttl => h = g
            BY <1>2, <3>3, <3>4
        <3> QED BY <3>1, <3>2, <3>5
    <2>3. Ahead(e, c, Finished(w, n, p))
        BY AheadKept DEF Ordered
    <2> QED BY <1>0, <2>1, <2>2, <2>3, AheadKept
<1> QED BY <1>3, <1>4 DEF Ordered, InLine

(* A relay passes a packet on: to a worker, or data at once.               *)
LEMMA OrderedRelay ==
  ASSUME NEW e \in Ends, NEW c \in Chans, NEW w \in Works, Ordered(e, c, w),
         NEW h \in Hops, c[h] # << >>, NEW n \in Nodes, h[2] = n,
         NEW p \in Packets, p = Head(c[h]), p.dst = Other(p.src), p.dst # n, NEW t \in Nat, t + 1 = p.ttl,
         NEW q \in Packets, q = [p EXCEPT !.ttl = t]
  PROVE  /\ p.kind # "data" => Ordered(e, TakenFrom(c, h), Handed(w, n, q))
         /\ \A g \in Hops : p.kind = "data" /\ g = <<n, routes[n][p.dst]>> =>
              Ordered(e, WrittenTo(TakenFrom(c, h), g, q), w)
<1> DEFINE d == TakenFrom(c, h)
<1>0. /\ d \in Chans /\ 1 \in 1 .. Len(c[h]) /\ p = c[h][1]
      /\ \A x \in Hops : \A i \in 1 .. Len(d[x]) :
           LET k == IF x = h THEN i + 1 ELSE i
           IN  k \in 1 .. Len(c[x]) /\ d[x][i] = c[x][k]
    BY ReadShift
<1> HIDE DEF d
<1>q. q.src = p.src /\ q.dst = p.dst /\ q.kind = p.kind /\ q.ttl = t
    BY DEF Packets
<1>1. PICK pos \in [0 .. MaxHops -> Nodes], low \in 0 .. MaxHops :
        /\ Seated(e, pos, low, c, w)
        /\ p.src = e => low <= t /\ pos[t] = n
    <2>1. PICK pos \in [0 .. MaxHops -> Nodes], low \in 0 .. MaxHops : Seated(e, pos, low, c, w)
        BY DEF Ordered, InLine
    <2>2. CASE p.src = e
        <3>1. \E r \in [0 .. MaxHops -> Nodes], l \in 0 .. MaxHops :
                Seated(e, r, l, c, w) /\ l <= t /\ r[t] = n
            <4>1. /\ c[h][1].src = e /\ t + 1 = c[h][1].ttl /\ n # Other(e)
                  /\ 1 \in 1 .. Len(c[h])
                BY <1>0, <2>2
            <4> QED BY <2>1, <4>1, LineGrows
        <3> QED BY <3>1
    <2>3. CASE p.src # e
        BY <2>1, <2>3
    <2> QED BY <2>2, <2>3
<1>2. Seated(e, pos, low, d, w)
    BY <1>1, SeatedKept DEF d
<1>3. Ahead(e, d, w)
    BY AheadKept DEF Ordered, d
<1>4. low \in Nat /\ t \in Nat
    BY HopsAssumption
<1>5. ASSUME p.kind # "data" PROVE Ordered(e, d, Handed(w, n, q))
    <2>1. Seated(e, pos, low, d, Handed(w, n, q))
        <3>1. q.src = e => q.ttl >= low /\ n = pos[q.ttl]
            BY <1>1, <1>4, <1>q
        <3> QED BY <1>0, <1>2, <3>1, SeatedKept
    <2>2. ASSUME ClosesOf(e, q), NEW x \in Hops, NEW j \in 1 .. Len(d[x]), DataOf(e, d[x][j])
          PROVE  d[x][j].ttl <= q.ttl
        <3>1. PICK k \in 1 .. Len(c[x]) : d[x][j] = c[x][k]
            BY <1>0
        <3>2. ClosesOf(e, c[h][1]) /\ DataOf(e, c[x][k])
            BY <1>0, <1>q, <2>2, <3>1 DEF ClosesOf
        <3>3. c[x][k].ttl < c[h][1].ttl \/ k < 1
            BY <1>0, <3>2 DEF Ordered, Ahead
        <3>4. c[x][k].ttl \in Nat /\ k \in Nat /\ k >= 1
            BY InChans
        <3> QED BY <1>0, <1>q, <3>1, <3>3, <3>4
    <2>3. Ahead(e, d, Handed(w, n, q))
        BY <1>0, <1>3, <2>2, AheadKept
    <2> QED BY <2>1, <2>3 DEF Ordered, InLine
<1>6. ASSUME NEW g \in Hops, p.kind = "data", g = <<n, routes[n][p.dst]>>
      PROVE  Ordered(e, WrittenTo(d, g, q), w)
    <2>1. Seated(e, pos, low, WrittenTo(d, g, q), w)
        <3>1. q.src = e => q.ttl >= low /\ g = <<pos[q.ttl], routes[pos[q.ttl]][Other(e)]>>
            BY <1>1, <1>4, <1>6, <1>q
        <3> QED BY <1>0, <1>2, <3>1, SeatedKept
    <2>2. ASSUME DataOf(e, q), NEW x \in Hops, NEW i \in 1 .. Len(d[x]), ClosesOf(e, d[x][i])
          PROVE  q.ttl < d[x][i].ttl
        <3>1. PICK k \in 1 .. Len(c[x]) : d[x][i] = c[x][k]
            BY <1>0
        <3>2. DataOf(e, c[h][1]) /\ ClosesOf(e, c[x][k])
            BY <1>0, <1>q, <2>2, <3>1 DEF DataOf
        <3>3. c[h][1].ttl < c[x][k].ttl \/ c[h][1].ttl = c[x][k].ttl
            BY <1>0, <3>2 DEF Ordered, Ahead
        <3>4. c[x][k].ttl \in Nat
            BY InChans
        <3> QED BY <1>0, <1>q, <3>1, <3>3, <3>4
    <2>3. ASSUME DataOf(e, q), NEW m \in Nodes, NEW z \in w[m], ClosesOf(e, z)
          PROVE  q.ttl <= z.ttl
        <3>1. DataOf(e, c[h][1])
            BY <1>0, <1>q, <2>3 DEF DataOf
        <3>2. c[h][1].ttl <= z.ttl
            BY <1>0, <2>3, <3>1 DEF Ordered, Ahead
        <3>3. z \in Packets
            BY DEF Works
        <3>4. z.ttl \in Nat
            BY <3>3, HopsAssumption DEF Packets
        <3> QED BY <1>0, <1>q, <3>2, <3>4
    <2>4. ~ClosesOf(e, q)
        BY <1>6, <1>q DEF ClosesOf
    <2>5. Ahead(e, WrittenTo(d, g, q), w)
        BY <1>0, <1>3, <2>2, <2>3, <2>4, AheadKept
    <2> QED BY <2>1, <2>5 DEF Ordered, InLine
<1> QED BY <1>5, <1>6 DEF d

-----------------------------------------------------------------------------
(* Steps without a fault: what they do to the channels and the workers.    *)
LEMMA CleanTypes ==
  ASSUME StreamInv
  PROVE  /\ net \in Nets(Packets) /\ net.chan \in Chans /\ work \in Works
         /\ \A n \in Nodes : \A p \in work[n] : p \in Packets /\ p.dst = Other(p.src) /\ p.src \in Ends
         /\ \A p \in opening : p \in Packets
<1>1. net \in Nets(Packets)
    BY NetFacts, NetsMonotone
<1>2. net.chan \in Chans /\ work \in Works
    BY <1>1, NetFacts, NetFields DEF Chans, Works
<1>3. \A p \in Good : p \in Packets /\ p.dst = Other(p.src) /\ p.src \in Ends
    BY DEF Good, Packets
<1>4. opening \subseteq Good /\ \A n \in Nodes : work[n] \subseteq Good
    BY NetFacts DEF StreamInv, PacketsGood
<1> QED BY <1>1, <1>2, <1>3, <1>4

(* An attempt that succeeds, or reaches nobody.                            *)
LEMMA SendChan ==
  ASSUME NEW w \in Nets(Packets), NEW n \in Nodes, NEW p \in Packets, NEW o \in sendPacket(w, n, p)
  PROVE  /\ o.ok => /\ <<n, routes[n][p.dst]>> \in Hops
                    /\ o.net.chan = WrittenTo(w.chan, <<n, routes[n][p.dst]>>, p)
         /\ ~o.ok /\ ~o.reached => o.net.chan = w.chan
<1> DEFINE d == routes[n][p.dst]
           hop == <<n, d>>
           written == [w EXCEPT !.chan[hop] = Append(@, p)]
           broken(x) == [x EXCEPT !.up = @ \ {{hop[1], hop[2]}}, !.breaks = @ + 1]
<1>0. w.up \in SUBSET Links /\ w.chan \in [Hops -> Seq(Packets)] /\ w.breaks \in Nat
    BY DEF Nets
<1>1. CASE ~Linked(w, n, p)
    <2>1. o = [ok |-> FALSE, net |-> w, reached |-> FALSE]
        BY <1>1 DEF sendPacket
    <2> QED BY <2>1
<1>2. CASE Linked(w, n, p)
    <2>1. hop \in Hops
        <3>1. {n, d} \in Links
            BY <1>2, <1>0 DEF Linked
        <3> QED BY <3>1, LinksAssumption DEF Hops
    <2>2. written.chan = WrittenTo(w.chan, hop, p)
        <3>1. PICK c : c = [w.chan EXCEPT ![hop] = Append(@, p)]
            OBVIOUS
        <3>2. written = [w EXCEPT !.chan = c]
            BY <3>1 DEF Nets
        <3>3. [w EXCEPT !.chan = c].chan = c
            BY DEF Nets
        <3> QED BY <3>1, <3>2, <3>3 DEF WrittenTo
    <2>3. broken(w).chan = w.chan
        <3>1. PICK u : u = w.up \ {{hop[1], hop[2]}}
            OBVIOUS
        <3>2. PICK b : b = w.breaks + 1
            OBVIOUS
        <3>3. PICK v : v = [w EXCEPT !.up = u]
            OBVIOUS
        <3>4. broken(w) = [v EXCEPT !.breaks = b]
            BY <3>1, <3>2, <3>3
        <3>5. v = [up |-> u, chan |-> w.chan, breaks |-> w.breaks]
            BY <3>3 DEF Nets
        <3>6. [v EXCEPT !.breaks = b] = [up |-> u, chan |-> w.chan, breaks |-> b]
            BY <3>5
        <3> HIDE DEF broken
        <3> QED BY <3>4, <3>6
    <2>4. \/ o = [ok |-> TRUE, net |-> written, reached |-> TRUE]
          \/ o = [ok |-> FALSE, net |-> broken(written), reached |-> TRUE]
          \/ o = [ok |-> FALSE, net |-> broken(w), reached |-> FALSE]
        BY <1>2 DEF sendPacket
    <2> HIDE DEF written, broken, hop, d
    <2>5. CASE o = [ok |-> TRUE, net |-> written, reached |-> TRUE]
        <3>1. o.ok /\ o.net = written
            BY <2>5
        <3> QED BY <2>1, <2>2, <3>1 DEF hop, d
    <2>6. CASE o = [ok |-> FALSE, net |-> broken(written), reached |-> TRUE]
        <3>1. ~o.ok /\ o.reached
            BY <2>6
        <3> QED BY <3>1
    <2>7. CASE o = [ok |-> FALSE, net |-> broken(w), reached |-> FALSE]
        <3>1. ~o.ok /\ o.net = broken(w)
            BY <2>7
        <3> QED BY <2>3, <3>1
    <2> QED BY <2>4, <2>5, <2>6, <2>7
<1> QED BY <1>1, <1>2

(* The reader takes the first frame of the connection.                     *)
LEMMA ReadChan ==
  ASSUME StreamInv, NEW m \in Nodes, NEW n \in Nodes, Readable(m, n)
  PROVE  /\ <<m, n>> \in Hops /\ net.chan[<<m, n>>] # << >>
         /\ Incoming(m, n) = Head(net.chan[<<m, n>>])
         /\ Incoming(m, n) \in Packets /\ Incoming(m, n).dst = Other(Incoming(m, n).src)
         /\ Incoming(m, n).src \in Ends
         /\ Read(m, n) \in Nets(Packets)
         /\ Read(m, n).chan = TakenFrom(net.chan, <<m, n>>)
<1>1. <<m, n>> \in Hops /\ net.chan[<<m, n>>] # << >> /\ Incoming(m, n) = Head(net.chan[<<m, n>>])
    BY DEF Readable, Incoming
<1>2. Incoming(m, n) \in Good /\ Read(m, n) \in Nets(Good)
    BY ReadFacts
<1>3. Incoming(m, n) \in Packets /\ Incoming(m, n).dst = Other(Incoming(m, n).src) /\ Incoming(m, n).src \in Ends
    BY <1>2 DEF Good, Packets
<1>4. Read(m, n) \in Nets(Packets)
    BY <1>2, NetFacts, NetsMonotone
<1>5. Read(m, n).chan = TakenFrom(net.chan, <<m, n>>)
    <2>1. PICK c : c = [net.chan EXCEPT ![<<m, n>>] = Tail(@)]
        OBVIOUS
    <2>2. net \in Nets(Packets)
        BY CleanTypes
    <2>3. Read(m, n) = [net EXCEPT !.chan = c]
        BY <2>1, <2>2 DEF Read, Nets
    <2>4. [net EXCEPT !.chan = c].chan = c
        BY <2>2 DEF Nets
    <2> QED BY <2>1, <2>3, <2>4 DEF TakenFrom
<1> QED BY <1>1, <1>3, <1>4, <1>5

(* The order after a step that changes no route.                           *)
LEMMA OrderAfter ==
  ASSUME UNCHANGED <<routes, flaps>>,
         \A e \in Ends : flaps = 0 => Ordered(e, net'.chan, work')
  PROVE  InOrder'
    BY DEF InOrder, Ordered, InLine, Seated, Ahead

(* Steps that move no packet keep the order, ...                           *)
LEMMA StillForm ==
  ASSUME Clean, net'.chan = net.chan, work' = work, UNCHANGED <<routes, flaps>>
  PROVE  NoDataAt(work') /\ InOrder'
<1>1. \A e \in Ends : flaps = 0 => Ordered(e, net'.chan, work')
    BY DEF Clean, InOrder
<1> QED BY <1>1, OrderAfter DEF Clean

(* ... so does a read, ...                                                 *)
LEMMA ReadForm ==
  ASSUME StreamInv, Clean, NEW m \in Nodes, NEW n \in Nodes, Readable(m, n),
         net' = Read(m, n), UNCHANGED <<work, routes, flaps>>
  PROVE  NoDataAt(work') /\ InOrder'
<1>1. \A e \in Ends : flaps = 0 => Ordered(e, net'.chan, work')
    BY ReadChan, CleanTypes, OrderedRead DEF Clean, InOrder
<1> QED BY <1>1, OrderAfter DEF Clean

(* ... and so does an end that sends a fresh packet, which may be data only *)
(* before its CLOSE.                                                       *)
LEMMA SendForm ==
  ASSUME StreamInv, Clean, UNCHANGED <<work, routes, flaps>>,
         NEW p \in Packets, p.ttl = MaxHops, p.dst = Other(p.src), p.src \in Ends,
         p.kind = "data" => NoClose(p.src, net.chan, work),
         ~Hand(p) \/ NoHandIn(net.chan),
         NEW o \in sendPacket(net, p.src, p), o.ok, net' = o.net
  PROVE  /\ NoDataAt(work') /\ InOrder' /\ LoneIn(net'.chan)
         /\ NoHandIn(net.chan) /\ ~Hand(p) => NoHandIn(net'.chan)
         /\ NoEarlyIn(net.chan) /\ ~Early(p) => NoEarlyIn(net'.chan)
         /\ \A x \in Ends : NoClose(x, net.chan, work) /\ ~ClosesOf(x, p) => NoClose(x, net'.chan, work')
<1>0. p.src \in Nodes
    BY EndsAssumption
<1>1. PICK g \in Hops : g = <<p.src, routes[p.src][p.dst]>> /\ net'.chan = WrittenTo(net.chan, g, p)
    <2>1. net \in Nets(Packets)
        BY CleanTypes
    <2>2. /\ <<p.src, routes[p.src][p.dst]>> \in Hops
          /\ o.net.chan = WrittenTo(net.chan, <<p.src, routes[p.src][p.dst]>>, p)
        BY <1>0, <2>1, SendChan
    <2> QED BY <2>2
<1>2. \A e \in Ends : flaps = 0 => Ordered(e, net'.chan, work')
    BY <1>1, CleanTypes, OrderedSend DEF Clean, InOrder
<1>3. NoDataAt(work') /\ InOrder'
    BY <1>2, OrderAfter DEF Clean
<1>4. /\ LoneIn(net'.chan)
      /\ NoHandIn(net.chan) /\ ~Hand(p) => NoHandIn(net'.chan)
      /\ NoEarlyIn(net.chan) /\ ~Early(p) => NoEarlyIn(net'.chan)
    BY <1>1, CleanTypes, HandWrite DEF Clean, OneHand
<1>5. \A x \in Ends : NoClose(x, net.chan, work) /\ ~ClosesOf(x, p) => NoClose(x, net'.chan, work')
    BY <1>1, CleanTypes, CloseKept
<1> QED BY <1>3, <1>4, <1>5

-----------------------------------------------------------------------------
(* The actions without a fault, one lemma each.                            *)
(* A step that keeps every packet where it is, and at most closes ends.    *)
Calm ==
  /\ \A e \in Ends : s'[e].inc = s[e].inc /\ (s'[e].open => s[e].open)
  /\ UNCHANGED opener

(* Such a step sends no CLOSE too early.                                   *)
LEMMA PartingCalm ==
  ASSUME Clean, Calm, \A x \in Ends : NoClose(x, net.chan, work) => NoClose(x, net'.chan, work')
  PROVE  Parting'
<1>1. A \in Ends /\ B \in Ends
    BY DEF Ends
<1>2. /\ ~Bound' \/ s'[A].open => ~Bound \/ s[A].open
      /\ s'[B].inc = 0 \/ s'[B].open => s[B].inc = 0 \/ s[B].open
    BY <1>1 DEF Calm, Bound
<1> QED BY <1>1, <1>2 DEF Clean, Parting

(* openWithConn up to its wait.                                            *)
LEMMA CleanOpen ==
  ASSUME StreamInv, Clean, Open, faults = {}, faults' = {}
  PROVE  Clean'
<1>1. /\ opener = "idle" /\ UNCHANGED <<routes, flaps, work, result, opening, s>>
      /\ A \in Ends /\ B \in Ends /\ A \in Nodes
    BY EndsFacts DEF Open
<1>2. NoHandIn(net.chan) /\ NoHandAt(work) /\ opening = {} /\ result = << >> /\ s[B].inc = 0 /\ LoneAt(work)
    BY <1>1 DEF Clean, OneHand
<1>3. CASE opener' = "failed" /\ net' = net
    <2>1. NoDataAt(work') /\ InOrder'
        BY <1>1, <1>3, StillForm
    <2>2. OneHand'
        BY <1>1, <1>3 DEF Clean, OneHand
    <2>3. Parting'
        BY <1>1, <1>3 DEF Clean, Parting, Bound
    <2> QED BY <2>1, <2>2, <2>3 DEF Clean
<1>4. ASSUME NEW o \in sendPacket(net, A, newPacket("open", A, B, 0, 0)), net' = o.net,
             opener' = IF o.ok THEN "waiting" ELSE "failed", faults' = faults \cup LossOf(o)
      PROVE  Clean'
    <2>1. o.ok /\ opener' = "waiting"
        BY <1>4 DEF LossOf
    <2>2. PICK p \in Packets :
            /\ p = newPacket("open", A, B, 0, 0) /\ p.kind = "open" /\ p.src = A /\ p.dst = Other(A)
            /\ p.ttl = MaxHops
        <3>1. 0 \in 0 .. MaxFaults /\ Other(A) = B /\ "open" \in PacketKinds
            BY HopsAssumption, OtherFacts DEF PacketKinds
        <3>2. PICK p \in Packets :
                /\ p = newPacket("open", A, B, 0, 0)
                /\ p = [kind |-> "open", src |-> A, dst |-> B, inc |-> 0, seq |-> 0, try |-> 0, ttl |-> MaxHops]
            BY <3>1, <1>1, NewPacket, NoSeq
        <3> QED BY <3>1, <3>2
    <2>3. /\ NoDataAt(work') /\ InOrder' /\ LoneIn(net'.chan)
          /\ \A x \in Ends : NoClose(x, net.chan, work) /\ ~ClosesOf(x, p) => NoClose(x, net'.chan, work')
        BY <1>1, <1>2, <1>4, <2>1, <2>2, SendForm
    <2>4. OneHand'
        BY <1>1, <1>2, <2>1, <2>3 DEF Clean, OneHand
    <2>5. Parting'
        <3>1. \A x \in Ends : NoClose(x, net.chan, work) => NoClose(x, net'.chan, work')
            BY <2>2, <2>3 DEF ClosesOf
        <3> QED BY <1>1, <2>1, <3>1 DEF Clean, Parting, Bound
    <2> QED BY <2>3, <2>4, <2>5 DEF Clean
<1> QED BY <1>3, <1>4 DEF Open

(* The call fails with an ERROR.                                           *)
LEMMA CleanError ==
  ASSUME StreamInv, Clean, OpenError
  PROVE  Clean'
<1>1. /\ opener = "waiting" /\ result # << >> /\ Head(result).kind = "error"
      /\ opener' = "failed" /\ result' = << >>
      /\ UNCHANGED <<net, routes, flaps, work, opening, s>>
    BY DEF OpenError, fwdVars
<1>2. NoDataAt(work') /\ InOrder'
    BY <1>1, StillForm
<1>3. Early(result[1])
    <2>1. result \in Seq(Good)
        BY DEF StreamInv, PacketsGood
    <2> QED BY <1>1, <2>1 DEF Early
<1>4. s[B].inc = 0 /\ NoHandIn(net.chan) /\ NoHandAt(work) /\ opening = {}
    BY <1>1, <1>3 DEF Clean, OneHand
<1>5. OneHand'
    BY <1>1, <1>4 DEF Clean, OneHand
<1>6. Parting'
    BY <1>1 DEF Clean, Parting, Bound
<1> QED BY <1>2, <1>5, <1>6 DEF Clean

(* The call has its keys.                                                  *)
LEMMA CleanAcked ==
  ASSUME StreamInv, Clean, OpenAcked
  PROVE  Clean'
<1>1. /\ opener = "waiting" /\ opener' = "registered" /\ result # << >> /\ result' = << >>
      /\ UNCHANGED <<net, routes, flaps, work, opening>>
      /\ s' = [s EXCEPT ![A] = newStream(Head(result).inc)]
      /\ A \in Ends /\ B \in Ends /\ A # B
    BY EndsFacts, EndsAssumption DEF OpenAcked, fwdVars
<1>2. s'[B] = s[B]
    BY <1>1 DEF StreamInv, Keys
<1>3. NoDataAt(work') /\ InOrder'
    BY <1>1, StillForm
<1>4. NoHandIn(net.chan) /\ NoHandAt(work) /\ opening = {}
    BY <1>1 DEF Clean, OneHand
<1>5. OneHand'
    BY <1>1, <1>2, <1>4 DEF Clean, OneHand
<1>6. Parting'
    BY <1>1, <1>2 DEF Clean, Parting, Bound
<1> QED BY <1>3, <1>5, <1>6 DEF Clean

(* READY is sent.                                                          *)
LEMMA CleanReady ==
  ASSUME StreamInv, Clean, SendReady, faults = {}, faults' = {}
  PROVE  Clean'
<1>1. /\ opener = "registered" /\ opener' = "opened"
      /\ UNCHANGED <<routes, flaps, work, result, opening>>
      /\ A \in Ends /\ B \in Ends /\ A # B
    BY EndsFacts, EndsAssumption DEF SendReady
<1>2. PICK p \in Packets :
        /\ p = newPacket("ready", A, B, 0, 0) /\ p.kind = "ready" /\ p.src = A /\ p.dst = Other(A)
        /\ p.ttl = MaxHops
    <2>1. 0 \in 0 .. MaxFaults /\ Other(A) = B /\ "ready" \in PacketKinds
        BY HopsAssumption, OtherFacts DEF PacketKinds
    <2>2. PICK p \in Packets :
            /\ p = newPacket("ready", A, B, 0, 0)
            /\ p = [kind |-> "ready", src |-> A, dst |-> B, inc |-> 0, seq |-> 0, try |-> 0, ttl |-> MaxHops]
        BY <2>1, <1>1, NewPacket, NoSeq
    <2> QED BY <2>1, <2>2
<1>3. PICK o \in sendPacket(net, A, p) :
        /\ net' = o.net /\ faults' = faults \cup LossOf(o)
        /\ s' = IF o.ok THEN [s EXCEPT ![A].pump = "on"] ELSE removed(A)
    BY <1>2 DEF SendReady
<1>4. o.ok
    BY <1>3 DEF LossOf
<1>5. s'[B] = s[B] /\ s'[A].open = s[A].open
    BY <1>1, <1>3, <1>4 DEF StreamInv, Keys, StreamT
<1>6. ~Hand(p) /\ ~Early(p) /\ \A x : ~ClosesOf(x, p)
    BY <1>2 DEF Hand, Early, ClosesOf
<1>7. /\ NoDataAt(work') /\ InOrder' /\ LoneIn(net'.chan)
      /\ NoHandIn(net.chan) => NoHandIn(net'.chan)
      /\ NoEarlyIn(net.chan) => NoEarlyIn(net'.chan)
      /\ \A x \in Ends : NoClose(x, net.chan, work) => NoClose(x, net'.chan, work')
    BY <1>1, <1>2, <1>3, <1>4, <1>6, SendForm
<1>8. NoHandIn(net.chan) /\ NoHandAt(work) /\ opening = {} /\ result = << >>
    BY <1>1 DEF Clean, OneHand
<1>9. OneHand'
    BY <1>1, <1>5, <1>7, <1>8 DEF Clean, OneHand
<1>10. Parting'
    BY <1>1, <1>5, <1>7 DEF Clean, Parting, Bound
<1> QED BY <1>7, <1>9, <1>10 DEF Clean

(* A chunk is sealed and sent.                                             *)
LEMMA CleanPump ==
  ASSUME StreamInv, Clean, NEW e \in Ends, Pump(e), faults = {}, faults' = {}
  PROVE  Clean'
<1>1. /\ s[e].open /\ UNCHANGED <<routes, flaps, work, opener, result, opening>>
      /\ Len(sent[e][s[e].inc]) < MaxChunks[e]
      /\ A \in Ends /\ B \in Ends /\ Ends = {A, B}
    BY EndsFacts DEF Pump
<1>2. PICK p \in Packets :
        /\ p = newPacket("data", e, Other(e), s[e].inc, Len(sent[e][s[e].inc]))
        /\ p.kind = "data" /\ p.src = e /\ p.dst = Other(e) /\ p.ttl = MaxHops
    <2>1. s[e].inc \in Incarnations /\ "data" \in PacketKinds
        BY EndsFacts DEF PacketKinds
    <2>2. Len(sent[e][s[e].inc]) \in Nat
        BY <2>1 DEF StreamInv, Histories
    <2>3. MaxChunks[A] \in Nat /\ MaxChunks[B] \in Nat
        BY <1>1, BoundsAssumption
    <2>4. Len(sent[e][s[e].inc]) \in 0 .. MaxChunks[A] + MaxChunks[B]
        BY <1>1, <2>2, <2>3
    <2>5. PICK l \in 0 .. MaxChunks[A] + MaxChunks[B] : l = Len(sent[e][s[e].inc])
        BY <2>4
    <2>6. PICK p \in Packets :
            /\ p = newPacket("data", e, Other(e), s[e].inc, l)
            /\ p = [kind |-> "data", src |-> e, dst |-> Other(e), inc |-> s[e].inc, seq |-> l,
                    try |-> 0, ttl |-> MaxHops]
        BY <2>1, NewPacket
    <2> QED BY <2>5, <2>6
<1>3. PICK o \in sendPacket(net, e, p) :
        /\ net' = o.net /\ faults' = faults \cup LossOf(o)
        /\ s' = IF o.ok THEN s ELSE [s EXCEPT ![e].pump = "failing"]
    BY <1>2 DEF Pump
<1>4. o.ok /\ s' = s
    BY <1>3 DEF LossOf
<1>5. NoClose(e, net.chan, work)
    BY <1>1 DEF Clean, Parting
<1>6. ~Hand(p) /\ ~Early(p) /\ \A x : ~ClosesOf(x, p)
    BY <1>2 DEF Hand, Early, ClosesOf
<1>7. /\ NoDataAt(work') /\ InOrder' /\ LoneIn(net'.chan)
      /\ NoHandIn(net.chan) => NoHandIn(net'.chan)
      /\ NoEarlyIn(net.chan) => NoEarlyIn(net'.chan)
      /\ \A x \in Ends : NoClose(x, net.chan, work) => NoClose(x, net'.chan, work')
    BY <1>1, <1>2, <1>3, <1>4, <1>5, <1>6, SendForm
<1>8. OneHand'
    BY <1>1, <1>4, <1>7 DEF Clean, OneHand
<1>9. Parting'
    BY <1>1, <1>4, <1>7, PartingCalm DEF Calm
<1> QED BY <1>7, <1>8, <1>9 DEF Clean

(* An end closes, and may tell the other.                                  *)
LEMMA CleanClose ==
  ASSUME StreamInv, Clean, NEW e \in Ends, s[e].open, NEW notify \in BOOLEAN, closeLocal(net, e, notify),
         UNCHANGED <<routes, flaps, work, opener, result, opening>>, faults = {}, faults' = {}
  PROVE  Clean'
<1>1. /\ s'[e].open = FALSE /\ s'[e].inc = s[e].inc
      /\ \A d \in Ends \ {e} : s'[d] = s[d]
      /\ A \in Ends /\ B \in Ends /\ Ends = {A, B} /\ A # B
    BY RemovedFacts, EndsFacts, EndsAssumption DEF closeLocal
<1>2. Calm
    BY <1>1 DEF Calm
<1>3. s'[B].inc = s[B].inc /\ (s'[B].open => s[B].open)
    BY <1>1, <1>2 DEF Calm
<1>4. CASE ~notify
    <2>1. net' = net
        BY <1>4 DEF closeLocal
    <2>2. NoDataAt(work') /\ InOrder'
        BY <2>1, StillForm
    <2>3. OneHand'
        BY <1>3, <2>1 DEF Clean, OneHand
    <2>4. Parting'
        BY <1>2, <2>1, PartingCalm
    <2> QED BY <2>2, <2>3, <2>4 DEF Clean
<1>5. CASE notify
    <2>1. PICK p \in Packets :
            /\ p = newPacket("close", e, Other(e), s[e].inc, 0)
            /\ p.kind = "close" /\ p.src = e /\ p.dst = Other(e) /\ p.ttl = MaxHops
        <3>1. s[e].inc \in Incarnations /\ "close" \in PacketKinds
            BY EndsFacts DEF PacketKinds
        <3>2. PICK p \in Packets :
                /\ p = newPacket("close", e, Other(e), s[e].inc, 0)
                /\ p = [kind |-> "close", src |-> e, dst |-> Other(e), inc |-> s[e].inc, seq |-> 0,
                        try |-> 0, ttl |-> MaxHops]
            BY <3>1, NewPacket, NoSeq
        <3> QED BY <3>2
    <2>2. PICK o \in sendPacket(net, e, p) : net' = o.net /\ faults' = faults \cup LossOf(o)
        BY <1>5, <2>1 DEF closeLocal
    <2>3. o.ok
        BY <2>2 DEF LossOf
    <2>4. ~Hand(p) /\ ~Early(p) /\ \A x : x # e => ~ClosesOf(x, p)
        BY <2>1 DEF Hand, Early, ClosesOf
    <2>5. /\ NoDataAt(work') /\ InOrder' /\ LoneIn(net'.chan)
          /\ NoHandIn(net.chan) => NoHandIn(net'.chan)
          /\ NoEarlyIn(net.chan) => NoEarlyIn(net'.chan)
          /\ \A x \in Ends : x # e /\ NoClose(x, net.chan, work) => NoClose(x, net'.chan, work')
        BY <2>1, <2>2, <2>3, <2>4, SendForm
    <2>6. OneHand'
        BY <1>3, <2>5 DEF Clean, OneHand
    <2>7. e = A => Bound'
        <3>1. e = A => Bound
            BY DEF StreamInv, Keys
        <3> QED BY <3>1 DEF Bound
    <2>8. e = B => s'[B].inc # 0
        BY <1>1 DEF Clean, OneHand
    <2>9. Parting'
        <3>1. ~Bound' \/ s'[A].open => NoClose(A, net'.chan, work')
            <4>1. CASE e = A
                BY <1>1, <2>7, <4>1
            <4>2. CASE e # A
                BY <1>1, <2>5, <4>2 DEF Clean, Parting, Bound
            <4> QED BY <4>1, <4>2
        <3>2. s'[B].inc = 0 \/ s'[B].open => NoClose(B, net'.chan, work')
            <4>1. CASE e = B
                BY <1>1, <2>8, <4>1
            <4>2. CASE e # B
                BY <1>1, <2>5, <4>2 DEF Clean, Parting
            <4> QED BY <4>1, <4>2
        <3> QED BY <3>1, <3>2 DEF Parting
    <2> QED BY <2>5, <2>6, <2>9 DEF Clean
<1> QED BY <1>4, <1>5

(* A chunk is written locally.                                             *)
LEMMA CleanTake ==
  ASSUME StreamInv, Clean, NEW e \in Ends, Take(e), UNCHANGED routes
  PROVE  Clean'
<1>1. /\ s' = [s EXCEPT ![e].want = @ + 1, ![e].incoming = Tail(@)]
      /\ UNCHANGED <<net, flaps, work, opener, result, opening>>
      /\ A \in Ends /\ B \in Ends /\ s \in [Ends -> StreamT]
    BY EndsFacts DEF Take, StreamInv, Keys
<1>2. \A d \in Ends : s'[d].inc = s[d].inc /\ s'[d].open = s[d].open
    <2>1. PICK u : u = [s EXCEPT ![e].want = @ + 1]
        OBVIOUS
    <2>2. PICK i : i = Tail(u[e].incoming)
        OBVIOUS
    <2>3. s' = [u EXCEPT ![e].incoming = i]
        BY <1>1, <2>1, <2>2
    <2>4. \A d \in Ends : u[d].inc = s[d].inc /\ u[d].open = s[d].open
        BY <1>1, <2>1 DEF StreamT
    <2>5. \A d \in Ends : s'[d].inc = u[d].inc /\ s'[d].open = u[d].open
        BY <1>1, <2>1, <2>3 DEF StreamT
    <2> QED BY <2>4, <2>5
<1>3. NoDataAt(work') /\ InOrder'
    BY <1>1, StillForm
<1>4. OneHand'
    BY <1>1, <1>2 DEF Clean, OneHand
<1>5. Parting'
    BY <1>1, <1>2, PartingCalm DEF Calm
<1> QED BY <1>3, <1>4, <1>5 DEF Clean

(* The last hop: an answer takes the place of the handshake's packet in    *)
(* the pending channel, an OPEN in the goroutine that will handle it.      *)
LEMMA CleanHere ==
  ASSUME StreamInv, Clean, NEW m \in Nodes, NEW n \in Nodes, HandleHere(m, n)
  PROVE  Clean'
<1>1. PICK p \in Packets : p = Incoming(m, n)
    BY ReadChan DEF HandleHere
<1>2. /\ Readable(m, n) /\ p.dst = n /\ handleLocalPacket(n, p) /\ net' = Read(m, n)
      /\ UNCHANGED <<routes, flaps, work, opener>>
    BY <1>1 DEF HandleHere
<1>3. PICK g \in Hops : /\ g = <<m, n>> /\ net.chan[g] # << >> /\ p = Head(net.chan[g])
                        /\ net'.chan = TakenFrom(net.chan, g)
    BY <1>1, <1>2, ReadChan
<1>4. /\ n \in Ends /\ A \in Ends /\ B \in Ends /\ s \in [Ends -> StreamT]
      /\ net.chan \in Chans /\ work \in Works
    BY <1>2, EndsFacts, CleanTypes DEF Packets, StreamInv, Keys
<1>5. NoDataAt(work') /\ InOrder'
    BY <1>2, ReadForm
<1>6. /\ LoneIn(net'.chan)
      /\ NoHandIn(net.chan) => NoHandIn(net'.chan) /\ ~Hand(p)
      /\ NoEarlyIn(net.chan) => NoEarlyIn(net'.chan) /\ ~Early(p)
      /\ Hand(p) => NoHandIn(net'.chan)
    BY <1>3, <1>4, HandRead DEF Clean, OneHand
<1>7. \A x \in Ends : NoClose(x, net.chan, work) => NoClose(x, net'.chan, work')
    BY <1>2, <1>3, <1>4, CloseKept
<1>8. CASE Answer(p)
    <2>1. /\ result' = (IF opener = "waiting" /\ result = <<>> THEN <<p>> ELSE result)
          /\ UNCHANGED <<opening, s>> /\ Hand(p)
        BY <1>8 DEF Answer, Hand
    <2>2. NoHandIn(net'.chan) /\ NoHandAt(work) /\ opening = {} /\ result = << >> /\ opener = "waiting"
        BY <1>6, <2>1 DEF Clean, OneHand
    <2>3. result' = <<p>> /\ result'[1] = p
        BY <2>1, <2>2
    <2>4. OneHand'
        BY <1>2, <1>6, <2>1, <2>2, <2>3 DEF Clean, OneHand
    <2>5. Parting'
        BY <1>2, <1>7, <2>1, PartingCalm DEF Calm
    <2> QED BY <1>5, <2>4, <2>5 DEF Clean
<1>9. CASE OpenArrives(p)
    <2>1. opening' = opening \cup {p} /\ UNCHANGED <<result, s>> /\ Hand(p) /\ Early(p)
        BY <1>9 DEF OpenArrives, Hand, Early
    <2>2. /\ NoHandIn(net'.chan) /\ NoHandAt(work) /\ opening = {} /\ result = << >> /\ opener = "waiting"
          /\ s[B].inc = 0
        BY <1>6, <2>1 DEF Clean, OneHand
    <2>3. OneHand'
        BY <1>2, <1>6, <2>1, <2>2 DEF Clean, OneHand
    <2>4. Parting'
        BY <1>2, <1>7, <2>1, PartingCalm DEF Calm
    <2> QED BY <1>5, <2>3, <2>4 DEF Clean
<1>10. ASSUME UNCHANGED <<result, opening>>,
              \A d \in Ends : s'[d].inc = s[d].inc /\ (s'[d].open => s[d].open)
       PROVE  Clean'
    <2>1. OneHand'
        BY <1>2, <1>4, <1>6, <1>10 DEF Clean, OneHand
    <2>2. Parting'
        BY <1>2, <1>7, <1>10, PartingCalm DEF Calm
    <2> QED BY <1>5, <2>1, <2>2 DEF Clean
<1>11. CASE ReadyArrives(n, p)
    <2>1. UNCHANGED <<result, opening>> /\ (s' = s \/ s' = [s EXCEPT ![n].pump = "on"])
        BY <1>11 DEF ReadyArrives
    <2>2. \A d \in Ends : s'[d].inc = s[d].inc /\ s'[d].open = s[d].open
        <3>1. CASE s' = s
            BY <3>1
        <3>2. CASE s' = [s EXCEPT ![n].pump = "on"]
            BY <1>4, <3>2 DEF StreamT
        <3> QED BY <2>1, <3>1, <3>2
    <2> QED BY <1>10, <2>1, <2>2
<1>12. CASE deliver(n, p)
    <2>1. PICK q : q = Append(s[n].incoming, p)
        OBVIOUS
    <2>2. UNCHANGED <<result, opening>> /\ (s' = s \/ s' = [s EXCEPT ![n].incoming = q])
        BY <1>12, <2>1 DEF deliver
    <2>3. \A d \in Ends : s'[d].inc = s[d].inc /\ s'[d].open = s[d].open
        <3>1. CASE s' = s
            BY <3>1
        <3>2. CASE s' = [s EXCEPT ![n].incoming = q]
            BY <1>4, <3>2 DEF StreamT
        <3> QED BY <2>2, <3>1, <3>2
    <2> QED BY <1>10, <2>2, <2>3
<1>13. CASE CloseArrives(n, p)
    <2>1. UNCHANGED <<result, opening>> /\ (s' = s \/ s' = removed(n))
        BY <1>13 DEF CloseArrives
    <2>2. \A d \in Ends : s'[d].inc = s[d].inc /\ (s'[d].open => s[d].open)
        <3>1. CASE s' = s
            BY <3>1
        <3>2. CASE s' = removed(n)
            <4>1. /\ s'[n].inc = s[n].inc /\ s'[n].open = FALSE
                  /\ \A d \in Ends \ {n} : s'[d] = s[d]
                BY <1>4, <3>2, RemovedFacts
            <4> QED BY <4>1
        <3> QED BY <2>1, <3>1, <3>2
    <2> QED BY <1>10, <2>1, <2>2
<1> QED BY <1>2, <1>8, <1>9, <1>11, <1>12, <1>13 DEF handleLocalPacket

(* A relay hands a control packet to a worker, and sends data itself.      *)
LEMMA CleanRelay ==
  ASSUME StreamInv, Clean, NEW m \in Nodes, NEW n \in Nodes, HandleRelay(m, n), faults = {}, faults' = {}
  PROVE  Clean'
<1>1. PICK p \in Packets : p = Incoming(m, n) /\ p.dst = Other(p.src)
    BY ReadChan DEF HandleRelay
<1>2. PICK w \in Nets(Packets) : w = Read(m, n)
    BY ReadChan DEF HandleRelay
<1>3. /\ Readable(m, n) /\ p.dst # n /\ relay(n, p, w)
      /\ UNCHANGED <<routes, flaps, opener, result, opening, s>>
    BY <1>1, <1>2 DEF HandleRelay, streamVars
<1>4. PICK g \in Hops : /\ g = <<m, n>> /\ net.chan[g] # << >> /\ p = Head(net.chan[g])
                        /\ w.chan = TakenFrom(net.chan, g)
    BY <1>1, <1>2, <1>3, ReadChan
<1>5. /\ A \in Ends /\ B \in Ends /\ g[2] = n
      /\ net.chan \in Chans /\ work \in Works
    BY <1>4, EndsFacts, CleanTypes
<1>6. ~relayDrop(n, p)
    BY <1>3 DEF relay
<1>7. PICK t \in Nat : t + 1 = p.ttl /\ t = p.ttl - 1 /\ t \in 0 .. MaxHops
    <2>1. p.ttl \in 0 .. MaxHops /\ ~(p.ttl <= 1)
        BY <1>6 DEF relayDrop, Packets
    <2>2. p.ttl - 1 \in Nat /\ (p.ttl - 1) + 1 = p.ttl /\ p.ttl - 1 \in 0 .. MaxHops
        BY <2>1, HopsAssumption
    <2> QED BY <2>2
<1>8. PICK q \in Packets : /\ q = [p EXCEPT !.ttl = t] /\ q = [p EXCEPT !.ttl = @ - 1]
                           /\ q.kind = p.kind /\ q.src = p.src /\ q.dst = p.dst
    <2>1. [p EXCEPT !.ttl = t] \in Packets
        BY <1>7 DEF Packets
    <2> QED BY <1>7, <2>1 DEF Packets
<1>9. /\ Hand(q) <=> Hand(p)
      /\ Early(q) <=> Early(p)
      /\ \A x : ClosesOf(x, q) <=> ClosesOf(x, p)
    BY <1>8 DEF Hand, Early, ClosesOf
<1>10. /\ w.chan \in Chans /\ LoneIn(w.chan)
       /\ NoHandIn(net.chan) => NoHandIn(w.chan) /\ ~Hand(p)
       /\ NoEarlyIn(net.chan) => NoEarlyIn(w.chan) /\ ~Early(p)
       /\ Hand(p) => NoHandIn(w.chan)
    BY <1>4, <1>5, HandRead DEF Clean, OneHand
<1>11. \A x \in Ends : NoClose(x, net.chan, work) => NoClose(x, w.chan, work) /\ ~ClosesOf(x, p)
    BY <1>4, <1>5, CloseKept
<1>12. \A e \in Ends : flaps = 0 => Ordered(e, net.chan, work)
    BY DEF Clean, InOrder
<1>13. CASE isStreamControlPacket(p)
    <2>1. work' = Handed(work, n, q) /\ net' = w
        BY <1>3, <1>6, <1>8, <1>13 DEF relay, Handed
    <2>2. p.kind # "data"
        BY <1>13 DEF isStreamControlPacket
    <2>3. /\ ~Hand(p) \/ NoHandAt(work) => LoneAt(work')
          /\ NoHandAt(work) /\ ~Hand(p) => NoHandAt(work')
          /\ NoEarlyAt(work) /\ ~Early(p) => NoEarlyAt(work')
        BY <1>5, <1>9, <2>1, HandAdd DEF Clean, OneHand
    <2>4. OneHand'
        BY <1>3, <1>10, <2>1, <2>3 DEF Clean, OneHand
    <2>5. Parting'
        <3>1. \A x \in Ends : NoClose(x, net.chan, work) => NoClose(x, net'.chan, work')
            BY <1>5, <1>9, <1>10, <1>11, <2>1, CloseKept
        <3> QED BY <1>3, <3>1, PartingCalm DEF Calm
    <2>6. InOrder'
        <3>1. \A e \in Ends : flaps = 0 => Ordered(e, TakenFrom(net.chan, g), Handed(work, n, q))
            <4>1. ASSUME NEW e \in Ends, flaps = 0 PROVE Ordered(e, TakenFrom(net.chan, g), Handed(work, n, q))
                <5>1. Ordered(e, net.chan, work)
                    BY <1>12, <4>1
                <5> QED BY <1>1, <1>3, <1>4, <1>5, <1>7, <1>8, <2>2, <5>1, OrderedRelay, SMTT(30)
            <4> QED BY <4>1
        <3> QED BY <1>3, <1>4, <2>1, <3>1, OrderAfter
    <2>7. NoDataAt(work')
        <3>1. \A x \in Nodes : \A y \in work'[x] : y \in work[x] \/ (x = n /\ y = q)
            BY <1>5, <2>1, AddWork
        <3>2. \A x \in Nodes : \A y \in work[x] : y.kind # "data"
            BY DEF Clean, NoDataAt
        <3> QED BY <1>8, <2>2, <3>1, <3>2 DEF NoDataAt
    <2> QED BY <2>4, <2>5, <2>6, <2>7 DEF Clean
<1>14. CASE ~isStreamControlPacket(p)
    <2>1. PICK o \in sendPacket(w, n, q) : net' = o.net /\ faults' = faults \cup LossOf(o) /\ work' = work
        BY <1>3, <1>6, <1>8, <1>14 DEF relay
    <2>2. o.ok
        BY <2>1 DEF LossOf
    <2>3. PICK h \in Hops : h = <<n, routes[n][q.dst]>> /\ net'.chan = WrittenTo(w.chan, h, q)
        <3>1. /\ <<n, routes[n][q.dst]>> \in Hops
              /\ o.net.chan = WrittenTo(w.chan, <<n, routes[n][q.dst]>>, q)
            BY <2>2, SendChan
        <3> QED BY <2>1, <3>1
    <2>4. p.kind = "data" /\ ~Hand(p) /\ ~Early(p) /\ \A x : ~ClosesOf(x, p)
        BY <1>14 DEF isStreamControlPacket, Packets, PacketKinds, Hand, Early, ClosesOf
    <2>5. /\ LoneIn(net'.chan)
          /\ NoHandIn(w.chan) => NoHandIn(net'.chan)
          /\ NoEarlyIn(w.chan) => NoEarlyIn(net'.chan)
        BY <1>9, <1>10, <2>3, <2>4, HandWrite
    <2>6. OneHand'
        BY <1>3, <1>10, <2>1, <2>5 DEF Clean, OneHand
    <2>7. Parting'
        <3>1. \A x \in Ends : NoClose(x, net.chan, work) => NoClose(x, net'.chan, work')
            <4>1. ASSUME NEW x \in Ends, NoClose(x, net.chan, work) PROVE NoClose(x, net'.chan, work')
                <5>1. NoClose(x, w.chan, work) /\ ~ClosesOf(x, q)
                    BY <1>9, <1>11, <2>4, <4>1
                <5>2. \A f \in Hops, y \in Packets : ~ClosesOf(x, y) => NoClose(x, WrittenTo(w.chan, f, y), work)
                    BY <1>5, <1>10, <5>1, CloseKept
                <5> QED BY <2>1, <2>3, <5>1, <5>2
            <4> QED BY <4>1
        <3> QED BY <1>3, <3>1, PartingCalm DEF Calm
    <2>8. InOrder'
        <3>1. \A e \in Ends : flaps = 0 => Ordered(e, WrittenTo(TakenFrom(net.chan, g), h, q), work)
            <4>1. ASSUME NEW e \in Ends, flaps = 0
                  PROVE  Ordered(e, WrittenTo(TakenFrom(net.chan, g), h, q), work)
                <5>1. Ordered(e, net.chan, work) /\ h = <<n, routes[n][p.dst]>>
                    BY <1>8, <1>12, <2>3, <4>1
                <5>2. \A f \in Hops : p.kind = "data" /\ f = <<n, routes[n][p.dst]>> =>
                        Ordered(e, WrittenTo(TakenFrom(net.chan, g), f, q), work)
                    <6>1. p.dst = Other(p.src) /\ p.dst # n /\ p = Head(net.chan[g]) /\ net.chan[g] # << >>
                        BY <1>1, <1>3, <1>4
                    <6>2. g[2] = n /\ net.chan \in Chans /\ work \in Works /\ t + 1 = p.ttl
                          /\ q = [p EXCEPT !.ttl = t]
                        BY <1>5, <1>7, <1>8
                    <6> QED BY <5>1, <6>1, <6>2, OrderedRelay
                <5> QED BY <2>4, <5>1, <5>2
            <4> QED BY <4>1
        <3> QED BY <1>3, <1>4, <2>1, <2>3, <3>1, OrderAfter
    <2>9. NoDataAt(work')
        BY <2>1 DEF Clean
    <2> QED BY <2>6, <2>7, <2>8, <2>9 DEF Clean
<1> QED BY <1>13, <1>14

(* The acceptor answers the OPEN: the answer takes its place.              *)
LEMMA CleanAnswer ==
  ASSUME StreamInv, Clean, NEW p \in opening, HandleOpen(p)
  PROVE  Clean'
<1>1. /\ opening' = opening \ {p} /\ UNCHANGED <<net, routes, flaps, opener, result>>
      /\ A \in Ends /\ B \in Ends /\ A # B /\ B \in Nodes /\ Other(B) = A
      /\ net.chan \in Chans /\ work \in Works /\ s \in [Ends -> StreamT] /\ s[B].inc \in Nat
    BY EndsFacts, OtherFacts, EndsAssumption, CleanTypes DEF HandleOpen, StreamInv, Keys
<1>2. /\ NoHandIn(net.chan) /\ NoHandAt(work) /\ LoneIn(net.chan) /\ LoneAt(work) /\ result = << >>
      /\ opener = "waiting" /\ s[B].inc = 0 /\ ~s[B].open
    BY DEF Clean, OneHand
<1>3. opening' = {}
    BY <1>1 DEF Clean, OneHand
<1>4. NoEarlyIn(net.chan) /\ NoEarlyAt(work)
    BY <1>2 DEF NoHandIn, NoHandAt, NoEarlyIn, NoEarlyAt, Hand, Early
<1>5. ASSUME NEW q \in Packets, q.kind \in {"error", "ack"}, q.src = B, q.ttl = MaxHops,
             work' = Handed(work, B, q)
      PROVE  /\ NoDataAt(work') /\ InOrder' /\ LoneAt(work')
             /\ ~Early(q) => NoEarlyAt(work')
             /\ \A x \in Ends : NoClose(x, net.chan, work) => NoClose(x, net'.chan, work')
    <2>1. q.kind # "close" /\ q.kind # "data" /\ \A x : ~ClosesOf(x, q)
        BY <1>5 DEF ClosesOf
    <2>2. LoneAt(work') /\ (~Early(q) => NoEarlyAt(work'))
        BY <1>1, <1>2, <1>4, <1>5, HandAdd
    <2>3. \A x \in Ends : NoClose(x, net.chan, work) => NoClose(x, net'.chan, work')
        BY <1>1, <1>5, <2>1, CloseKept
    <2>4. \A e \in Ends : flaps = 0 => Ordered(e, net.chan, work')
        BY <1>1, <1>5, <2>1, OrderedAnswer DEF Clean, InOrder
    <2>5. InOrder'
        BY <1>1, <2>4, OrderAfter
    <2>6. NoDataAt(work')
        <3>1. \A x \in Nodes : \A y \in work'[x] : y \in work[x] \/ (x = B /\ y = q)
            BY <1>1, <1>5, AddWork
        <3>2. \A x \in Nodes : \A y \in work[x] : y.kind # "data"
            BY DEF Clean, NoDataAt
        <3> QED BY <2>1, <3>1, <3>2 DEF NoDataAt
    <2> QED BY <2>2, <2>3, <2>5, <2>6
<1>6. CASE Refuse(p)
    <2>1. p.try \in 0 .. MaxFaults
        BY CleanTypes DEF Packets
    <2>2. PICK q \in Packets : q = refusal(p) /\ q.kind = "error" /\ q.src = B /\ q.ttl = MaxHops
        <3>1. "error" \in PacketKinds
            BY DEF PacketKinds
        <3>2. PICK q \in Packets :
                /\ q = newPacket("error", B, A, p.try, 0)
                /\ q = [kind |-> "error", src |-> B, dst |-> A, inc |-> p.try, seq |-> 0, try |-> 0, ttl |-> MaxHops]
            BY <1>1, <2>1, <3>1, NewPacket, NoSeq
        <3> QED BY <3>2 DEF refusal
    <2>3. work' = Handed(work, B, q) /\ s' = s
        BY <1>6, <2>2 DEF Refuse, Handed
    <2>4. /\ NoDataAt(work') /\ InOrder' /\ LoneAt(work')
          /\ \A x \in Ends : NoClose(x, net.chan, work) => NoClose(x, net'.chan, work')
        BY <1>5, <2>2, <2>3
    <2>5. OneHand'
        BY <1>1, <1>2, <1>3, <2>3, <2>4 DEF Clean, OneHand
    <2>6. Parting'
        BY <1>1, <2>3, <2>4, PartingCalm DEF Calm
    <2> QED BY <2>4, <2>5, <2>6 DEF Clean
<1>7. CASE Accept(p)
    <2>1. s[B].inc + 1 \in Incarnations /\ s[B].inc + 1 = 1
        BY <1>1, <1>2, <1>7, BoundsAssumption DEF Accept, Incarnations
    <2>2. PICK q \in Packets : q = acceptance /\ q.kind = "ack" /\ q.src = B /\ q.ttl = MaxHops
        <3>1. "ack" \in PacketKinds
            BY DEF PacketKinds
        <3>2. PICK i \in Incarnations : i = s[B].inc + 1
            BY <2>1
        <3>3. PICK q \in Packets :
                /\ q = newPacket("ack", B, A, i, 0)
                /\ q = [kind |-> "ack", src |-> B, dst |-> A, inc |-> i, seq |-> 0, try |-> 0, ttl |-> MaxHops]
            BY <1>1, <3>1, NewPacket, NoSeq
        <3> QED BY <3>2, <3>3 DEF acceptance
    <2>3. work' = Handed(work, B, q)
        BY <1>7, <2>2 DEF Accept, Handed
    <2>4. s'[A] = s[A] /\ s'[B].inc = 1
        BY <1>1, <1>7, <2>1, NewStream DEF Accept
    <2>5. ~Early(q)
        BY <2>2 DEF Early
    <2>6. /\ NoDataAt(work') /\ InOrder' /\ LoneAt(work') /\ NoEarlyAt(work')
          /\ \A x \in Ends : NoClose(x, net.chan, work) => NoClose(x, net'.chan, work')
        BY <1>5, <2>2, <2>3, <2>5
    <2>7. OneHand'
        <3>1. s'[B].inc # 0
            BY <2>4
        <3> QED BY <1>1, <1>2, <1>3, <1>4, <2>6, <3>1 DEF OneHand
    <2>8. Parting'
        BY <1>1, <1>2, <2>4, <2>6 DEF Clean, Parting, Bound
    <2> QED BY <2>6, <2>7, <2>8 DEF Clean
<1> QED BY <1>6, <1>7 DEF HandleOpen

(* A worker's packet goes on to the connection, and the worker is done.    *)
LEMMA CleanRetry ==
  ASSUME StreamInv, Clean, NEW n \in Nodes, NEW p \in work[n], Retry(n, p), faults = {}, faults' = {}
  PROVE  Clean'
<1>1. /\ UNCHANGED <<routes, flaps, opener, result, opening, s>>
      /\ A \in Ends /\ B \in Ends
      /\ net \in Nets(Packets) /\ net.chan \in Chans /\ work \in Works
      /\ p \in Packets /\ p.dst = Other(p.src)
    BY EndsFacts, CleanTypes DEF Retry, streamVars
<1>2. PICK o \in sendPacket(net, n, p) :
        /\ net' = o.net
        /\ \/ o.ok /\ work' = [work EXCEPT ![n] = @ \ {p}]
           \/ ~o.ok /\ ~o.reached /\ work' = work
    BY DEF Retry, sendPacketWithRetry
<1>3. CASE ~o.ok /\ ~o.reached /\ work' = work
    <2>1. net'.chan = net.chan
        BY <1>1, <1>2, <1>3, SendChan
    <2>2. NoDataAt(work') /\ InOrder'
        BY <1>1, <1>3, <2>1, StillForm
    <2>3. OneHand' /\ Parting'
        BY <1>1, <1>3, <2>1 DEF Clean, OneHand, Parting, Bound
    <2> QED BY <2>2, <2>3 DEF Clean
<1>4. CASE o.ok /\ work' = [work EXCEPT ![n] = @ \ {p}]
    <2>1. work' = Finished(work, n, p)
        BY <1>4 DEF Finished
    <2>2. PICK g \in Hops : g = <<n, routes[n][p.dst]>> /\ net'.chan = WrittenTo(net.chan, g, p)
        <3>1. /\ <<n, routes[n][p.dst]>> \in Hops
              /\ o.net.chan = WrittenTo(net.chan, <<n, routes[n][p.dst]>>, p)
            BY <1>1, <1>4, SendChan
        <3> QED BY <1>2, <3>1
    <2>3. p.kind # "data"
        BY DEF Clean, NoDataAt
    <2>4. /\ LoneAt(work')
          /\ NoHandAt(work) => NoHandAt(work') /\ ~Hand(p)
          /\ NoEarlyAt(work) => NoEarlyAt(work') /\ ~Early(p)
          /\ Hand(p) => NoHandAt(work')
        BY <1>1, <2>1, HandEnd DEF Clean, OneHand
    <2>5. Hand(p) => NoHandIn(net.chan) /\ opening = {} /\ result = << >> /\ opener = "waiting"
        BY <2>4 DEF Clean, OneHand
    <2>6. /\ LoneIn(net'.chan)
          /\ NoHandIn(net.chan) /\ ~Hand(p) => NoHandIn(net'.chan)
          /\ NoEarlyIn(net.chan) /\ ~Early(p) => NoEarlyIn(net'.chan)
        BY <1>1, <2>2, <2>5, HandWrite DEF Clean, OneHand
    <2>7. OneHand'
        BY <1>1, <2>4, <2>5, <2>6 DEF Clean, OneHand
    <2>8. Parting'
        <3>1. ASSUME NEW x \in Ends, NoClose(x, net.chan, work) PROVE NoClose(x, net'.chan, work')
            <4>1. net'.chan \in Chans
                BY <1>1, <2>2, WriteLast
            <4>2. ~ClosesOf(x, p)
                BY <1>1, <3>1, CloseKept
            <4>3. NoClose(x, net'.chan, work)
                BY <1>1, <2>2, <3>1, <4>2, CloseKept
            <4> QED BY <1>1, <2>1, <4>1, <4>3, CloseKept
        <3> QED BY <1>1, <3>1, PartingCalm DEF Calm
    <2>9. InOrder'
        <3>1. \A e \in Ends : flaps = 0 => Ordered(e, net'.chan, work')
            BY <1>1, <2>1, <2>2, <2>3, OrderedWork DEF Clean, InOrder
        <3> QED BY <1>1, <3>1, OrderAfter
    <2>10. NoDataAt(work')
        BY <1>1, <2>1, EndWork DEF Clean, NoDataAt
    <2> QED BY <2>7, <2>8, <2>9, <2>10 DEF Clean
<1> QED BY <1>2, <1>3, <1>4

(* A step that moves no packet and changes nobody's state.                 *)
LEMMA CleanStill ==
  ASSUME StreamInv, Clean, net'.chan = net.chan, UNCHANGED <<work, opener, result, opening, s>>,
         UNCHANGED <<routes, flaps>> \/ (flaps \in Nat /\ flaps' = flaps + 1)
  PROVE  Clean'
<1>1. InOrder'
    <2>1. CASE UNCHANGED <<routes, flaps>>
        BY <2>1, StillForm
    <2>2. CASE flaps \in Nat /\ flaps' = flaps + 1
        <3>1. flaps' # 0
            BY <2>2
        <3> QED BY <3>1 DEF InOrder
    <2> QED BY <2>1, <2>2
<1>2. OneHand' /\ Parting'
    BY DEF Clean, OneHand, Parting, Bound
<1> QED BY <1>1, <1>2 DEF Clean, NoDataAt

-----------------------------------------------------------------------------
(* Nothing is in flight at the start.                                      *)
LEMMA CleanStarts == Init => CleanInv
<1> SUFFICES ASSUME Init PROVE CleanInv
    OBVIOUS
<1>1. StreamInv
    BY StreamStarts
<1>2. /\ net = [up |-> Links, chan |-> [h \in Hops |-> <<>>], breaks |-> 0]
      /\ work = [n \in Nodes |-> {}] /\ opener = "idle" /\ result = << >> /\ opening = {}
      /\ s = [e \in Ends |-> NoStream]
    BY DEF Init, FwdInit
<1>3. /\ \A h \in Hops : Len(net.chan[h]) = 0
      /\ \A h \in Hops : 1 .. Len(net.chan[h]) = {}
      /\ \A n \in Nodes : work[n] = {}
      /\ s[B].inc = 0 /\ ~s[B].open
    <2>1. \A h \in Hops : net.chan[h] = << >>
        BY <1>2
    <2>2. B \in Ends
        BY DEF Ends
    <2> QED BY <1>2, <2>1, <2>2 DEF NoStream
<1>4. NoDataAt(work)
    BY <1>3 DEF NoDataAt
<1>5. OneHand
    <2>1. NoHandIn(net.chan) /\ LoneIn(net.chan)
        BY <1>3 DEF NoHandIn, LoneIn
    <2>2. NoHandAt(work) /\ LoneAt(work)
        BY <1>3 DEF NoHandAt, LoneAt
    <2> QED BY <1>2, <1>3, <2>1, <2>2 DEF OneHand
<1>6. Parting
    <2>1. \A e : NoClose(e, net.chan, work)
        BY <1>3 DEF NoClose
    <2> QED BY <2>1 DEF Parting
<1>7. ASSUME NEW e \in Ends PROVE Ordered(e, net.chan, work)
    <2>1. Ahead(e, net.chan, work)
        BY <1>3 DEF Ahead
    <2>2. PICK pos \in [0 .. MaxHops -> Nodes] : pos = [k \in 0 .. MaxHops |-> e]
        BY EndsAssumption
    <2>3. MaxHops \in 0 .. MaxHops /\ Other(e) # e
        BY HopsAssumption, OtherFacts
    <2>4. Seated(e, pos, MaxHops, net.chan, work)
        <3>1. MaxHops .. MaxHops = {MaxHops} /\ MaxHops + 1 .. MaxHops = {}
            BY HopsAssumption
        <3>2. pos[MaxHops] = e
            BY <2>2, <2>3
        <3> QED BY <1>3, <2>3, <3>1, <3>2 DEF Seated
    <2> QED BY <2>1, <2>3, <2>4 DEF Ordered, InLine
<1>8. InOrder
    BY <1>7 DEF InOrder
<1> QED BY <1>1, <1>4, <1>5, <1>6, <1>8 DEF CleanInv, Clean

(* A step after which nothing has gone wrong yet keeps the handshake and   *)
(* the order.                                                              *)
LEMMA CleanSteps == CleanInv /\ [Next]_vars => CleanInv'
<1> SUFFICES ASSUME CleanInv, [Next]_vars PROVE CleanInv'
    OBVIOUS
<1>1. StreamInv /\ StreamInv' /\ flaps \in Nat
    BY StreamSteps, NetFacts DEF CleanInv
<1> SUFFICES ASSUME faults' = {} PROVE Clean'
    BY <1>1 DEF CleanInv
<1>2. ASSUME faults = {} PROVE Clean
    BY <1>2 DEF CleanInv
<1>3. ASSUME Open PROVE Clean'
    <2>1. faults = {}
        BY <1>3 DEF Open
    <2> QED BY <1>1, <1>2, <1>3, <2>1, CleanOpen
<1>4. ASSUME OpenTimeout PROVE Clean'
    BY <1>4 DEF OpenTimeout
<1>5. ASSUME OpenError PROVE Clean'
    <2>1. faults = {}
        BY <1>5 DEF OpenError, fwdVars
    <2> QED BY <1>1, <1>2, <1>5, <2>1, CleanError
<1>6. ASSUME OpenAcked PROVE Clean'
    <2>1. faults = {}
        BY <1>6 DEF OpenAcked, fwdVars
    <2> QED BY <1>1, <1>2, <1>6, <2>1, CleanAcked
<1>18. ASSUME SendReady PROVE Clean'
    <2>1. faults = {}
        BY <1>18 DEF SendReady
    <2> QED BY <1>1, <1>2, <1>18, <2>1, CleanReady
<1>7. ASSUME NEW e \in Ends, s[e].open, NEW notify \in BOOLEAN, closeLocal(net, e, notify),
             UNCHANGED <<routes, flaps, work, opener, result, opening>>
      PROVE  Clean'
    <2>1. faults = {}
        BY <1>7 DEF closeLocal
    <2> QED BY <1>1, <1>2, <1>7, <2>1, CleanClose
<1>8. ASSUME NEW e \in Ends, EndStep(e) PROVE Clean'
    <2>1. CASE Pump(e)
        <3>1. faults = {}
            BY <2>1 DEF Pump
        <3> QED BY <1>1, <1>2, <2>1, <3>1, CleanPump
    <2>2. CASE PumpFailed(e)
        <3>1. /\ s[e].open /\ closeLocal(net, e, FALSE)
              /\ UNCHANGED <<routes, flaps, work, opener, result, opening>>
            BY <2>2 DEF PumpFailed
        <3> QED BY <1>7, <3>1
    <2>3. CASE PumpEOF(e)
        <3>1. /\ s[e].open /\ closeLocal(net, e, TRUE)
              /\ UNCHANGED <<routes, flaps, work, opener, result, opening>>
            BY <2>3 DEF PumpEOF
        <3> QED BY <1>7, <3>1
    <2>4. CASE Receive(e)
        <3>1. s[e].open /\ UNCHANGED <<routes, flaps, work, opener, result, opening>>
            BY <2>4 DEF Receive
        <3>2. CASE closeLocal(net, e, TRUE)
            BY <1>7, <3>1, <3>2
        <3>3. CASE Take(e) /\ faults' = faults
            BY <1>1, <1>2, <3>1, <3>3, CleanTake
        <3> QED BY <2>4, <3>2, <3>3 DEF Receive, Take
    <2> QED BY <1>8, <2>1, <2>2, <2>3, <2>4 DEF EndStep
<1>9. ASSUME NEW m \in Nodes, NEW n \in Nodes, HandleHere(m, n) PROVE Clean'
    <2>1. faults = {}
        BY <1>9 DEF HandleHere, handleLocalPacket, Answer, OpenArrives, ReadyArrives, deliver, CloseArrives
    <2> QED BY <1>1, <1>2, <1>9, <2>1, CleanHere
<1>10. ASSUME NEW m \in Nodes, NEW n \in Nodes, HandleRelay(m, n) PROVE Clean'
    <2>1. faults = {}
        BY <1>10 DEF HandleRelay, relay
    <2> QED BY <1>1, <1>2, <1>10, <2>1, CleanRelay
<1>11. ASSUME NEW p \in opening, HandleOpen(p) PROVE Clean'
    <2>1. faults = {}
        BY <1>11 DEF HandleOpen
    <2> QED BY <1>1, <1>2, <1>11, <2>1, CleanAnswer
<1>12. ASSUME NEW n \in Nodes, NEW p \in work[n], Retry(n, p) PROVE Clean'
    <2>1. faults = {}
        BY <1>12 DEF Retry, sendPacketWithRetry
    <2> QED BY <1>1, <1>2, <1>12, <2>1, CleanRetry
<1>13. ASSUME NEW n \in Nodes, NEW p \in work[n], GiveUp(n, p) PROVE Clean'
    BY <1>13 DEF GiveUp, deadlinePassed
<1>14. ASSUME NEW m \in Nodes, NEW n \in Nodes, Lose(m, n) PROVE Clean'
    BY <1>14 DEF Lose
<1>15. ASSUME NEW l \in Links, Reconnect(l), UNCHANGED streamVars PROVE Clean'
    <2>1. UNCHANGED <<routes, flaps, work, faults, opener, result, opening, s>>
        BY <1>15 DEF Reconnect, streamVars
    <2>2. net'.chan = net.chan
        BY <1>1, <1>15, CleanTypes DEF Reconnect, Nets
    <2> QED BY <1>1, <1>2, <2>1, <2>2, CleanStill
<1>16. ASSUME NEW n \in Nodes, NEW d \in Ends, recomputeRoutes(n, d), UNCHANGED streamVars PROVE Clean'
    <2>1. UNCHANGED <<net, work, faults, opener, result, opening, s>> /\ flaps' = flaps + 1
        BY <1>16 DEF recomputeRoutes, streamVars
    <2> QED BY <1>1, <1>2, <2>1, CleanStill
<1>17. ASSUME UNCHANGED vars PROVE Clean'
    <2>1. UNCHANGED <<net, routes, flaps, work, faults, opener, result, opening, s>>
        BY <1>17 DEF vars, fwdVars, streamVars
    <2> QED BY <1>1, <1>2, <2>1, CleanStill
<1> QED BY <1>3, <1>4, <1>5, <1>6, <1>8, <1>9, <1>10, <1>11, <1>12, <1>13, <1>14, <1>15, <1>16, <1>17, <1>18
       DEF Next, ConnStep

(* A call that failed before anything went wrong left no stream.           *)
LEMMA CleanHandshake == CleanInv => Handshake
<1> SUFFICES ASSUME CleanInv PROVE Handshake
    OBVIOUS
<1>1. TypeOK /\ DataFindsStream
    BY TypesAndOrder DEF CleanInv
<1>2. FailedCleanly
    BY DEF FailedCleanly, CleanInv, Clean, OneHand
<1> QED BY <1>1, <1>2 DEF Handshake

(* The data in front of a CLOSE has been read when the CLOSE is: data that *)
(* is further down the line than a CLOSE at its destination would have     *)
(* passed the destination.                                                 *)
LEMMA CleanCloseLast == CleanInv => CloseLast
<1> SUFFICES ASSUME CleanInv, faults = {}, flaps = 0, NEW m \in Nodes, NEW n \in Nodes, Readable(m, n),
                    Incoming(m, n).kind = "close", Incoming(m, n).dst = n,
                    NEW p \in InFlight, p.kind = "data", p.dst = n
             PROVE  FALSE
    BY DEF CloseLast
<1>1. StreamInv /\ Clean /\ net.chan \in Chans /\ net \in Nets(Good)
    BY CleanTypes, NetFacts DEF CleanInv
<1>2. PICK g \in Hops : \E j \in 1 .. Len(net.chan[g]) : p = net.chan[g][j]
    BY <1>1 DEF InFlight, Nets
<1>3. PICK j \in 1 .. Len(net.chan[g]) : p = net.chan[g][j]
    BY <1>2
<1>4. PICK h \in Hops : h = <<m, n>> /\ net.chan[h] # << >> /\ Incoming(m, n) = Head(net.chan[h])
    BY <1>1, ReadChan
<1>5. PICK i \in 1 .. Len(net.chan[h]) : i = 1 /\ Incoming(m, n) = net.chan[h][i]
    <2>1. net.chan[h] \in Seq(Packets)
        BY <1>1 DEF Chans
    <2> QED BY <1>4, <2>1
<1>6. PICK q \in Packets : q = net.chan[h][i] /\ q.kind = "close" /\ q.dst = n /\ q.dst = Other(q.src)
    BY <1>1, <1>4, <1>5, ReadChan
<1>7. p \in Packets /\ p.dst = Other(p.src)
    <2>1. net.chan[g] \in Seq(Good)
        BY <1>1 DEF Nets
    <2>2. p \in Good
        BY <1>3, <2>1
    <2> QED BY <2>2 DEF Good
<1>8. PICK e \in Ends : e = q.src /\ e = p.src /\ Other(e) = n
    BY <1>6, <1>7, OtherFacts DEF Packets, Ends
<1>9. Ordered(e, net.chan, work)
    BY <1>1 DEF Clean, InOrder
<1>10. PICK pos \in [0 .. MaxHops -> Nodes], low \in 0 .. MaxHops : Seated(e, pos, low, net.chan, work)
    BY <1>9 DEF Ordered, InLine
<1>11. p.ttl \in Nat /\ q.ttl \in 0 .. MaxHops /\ i \in Nat /\ j \in Nat /\ low \in Nat /\ j >= 1
    BY <1>6, <1>7, HopsAssumption DEF Packets
<1>12. p.ttl < q.ttl
    <2>1. DataOf(e, net.chan[g][j]) /\ ClosesOf(e, net.chan[h][i])
        BY <1>3, <1>6, <1>8 DEF DataOf, ClosesOf
    <2>2. \/ net.chan[g][j].ttl < net.chan[h][i].ttl
          \/ net.chan[g][j].ttl = net.chan[h][i].ttl /\ g = h /\ j < i
        BY <1>9, <2>1 DEF Ordered, Ahead
    <2>3. p.ttl < q.ttl \/ j < i
        BY <1>3, <1>6, <2>2
    <2> QED BY <1>5, <1>11, <2>3
<1>13. p.ttl >= low
    BY <1>3, <1>8, <1>10 DEF Seated
<1>14. q.ttl \in low + 1 .. MaxHops /\ q.ttl - 1 \in low .. MaxHops
    BY <1>11, <1>12, <1>13, HopsAssumption
<1>15. h = <<pos[q.ttl], routes[pos[q.ttl]][n]>>
    BY <1>6, <1>8, <1>10 DEF Seated
<1>16. pos[q.ttl - 1] = routes[pos[q.ttl]][n]
    BY <1>8, <1>10, <1>14 DEF Seated
<1>17. pos[q.ttl - 1] # n
    BY <1>8, <1>10, <1>14 DEF Seated
<1> QED BY <1>4, <1>15, <1>16, <1>17

(* The handshake: types, no data before the initiator's stream exists,     *)
(* and no stream left by a call that failed cleanly (openWithConn,         *)
(* handleOpen).                                                            *)
THEOREM HandshakeHolds == Spec => []Handshake
<1> QED BY CleanStarts, CleanSteps, CleanHandshake, PTL DEF Spec

(* Without a failure or a route change the reader that handles a CLOSE has *)
(* the sender's data behind it (handlePacket).                             *)
THEOREM CloseComesLast == Spec => []CloseLast
<1> QED BY CleanStarts, CleanSteps, CleanCloseLast, PTL DEF Spec
=============================================================================
