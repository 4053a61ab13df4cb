---------------------------- MODULE ServiceProofs ----------------------------
(***************************************************************************)
(* Proofs about published services: the introduction points that forward   *)
(* requests to a service (Introduction), the rendezvous at which it meets  *)
(* its clients (Rendezvous), and the mailbox, a service that keeps         *)
(* messages for others (Mailbox).  Each is proved on its own, for any      *)
(* number of circuits, requests, introduction points, connections,         *)
(* envelopes and files, and any bounds on failures.                        *)
(***************************************************************************)
EXTENDS Introduction, Rendezvous, Mailbox, FiniteSetTheorems, TLAPS

(***************************************************************************)
(* Introduction.                                                           *)
(***************************************************************************)
-----------------------------------------------------------------------------
(* What a channel to the service may hold.                                 *)

(* The end of the circuit comes last, the acknowledgement once.            *)
Orderly(s) ==
  /\ \A i \in 1..Len(s) : s[i] = "eof" => i = Len(s)
  /\ \A i, j \in 1..Len(s) : s[i] = "ack" /\ s[j] = "ack" => i = j

(* What a write adds to a channel. *)
LEMMA AppendFacts ==
  ASSUME NEW s \in Seq(Message), NEW m \in Message
  PROVE  /\ Append(s, m) \in Seq(Message) /\ Append(s, m) # << >>
         /\ Elements(Append(s, m)) = Elements(s) \cup {m}
         /\ s # << >> => Head(Append(s, m)) = Head(s)
         /\ s = << >> => Head(Append(s, m)) = m
         /\ (Orderly(s) /\ "eof" \notin Elements(s) /\ (m = "ack" => "ack" \notin Elements(s)))
              => Orderly(Append(s, m))
<1> DEFINE t == Append(s, m)
<1>1. t \in Seq(Message) /\ Len(t) = Len(s) + 1 /\ t[Len(t)] = m /\ Len(s) \in Nat
      /\ \A i \in 1..Len(s) : t[i] = s[i]
    OBVIOUS
<1>2. t # << >> /\ (s # << >> => Head(t) = Head(s)) /\ (s = << >> => Head(t) = m)
    OBVIOUS
<1> HIDE DEF t
<1>3. Elements(t) = Elements(s) \cup {m}
    <2>1. \A i \in 1..Len(t) : i \in 1..Len(s) \/ i = Len(t)
        BY <1>1
    <2>2. 1..Len(s) \subseteq 1..Len(t) /\ Len(t) \in 1..Len(t)
        BY <1>1
    <2> QED BY <1>1, <2>1, <2>2 DEF Elements
<1>4. ASSUME Orderly(s), "eof" \notin Elements(s), m = "ack" => "ack" \notin Elements(s)
      PROVE  Orderly(t)
    <2>1. \A i \in 1..Len(t) : i \in 1..Len(s) \/ i = Len(t)
        BY <1>1
    <2>2. \A i \in 1..Len(s) : s[i] # "eof" /\ (m = "ack" => s[i] # "ack")
        BY <1>4 DEF Elements
    <2>3. \A i \in 1..Len(t) : t[i] = "eof" => i = Len(t)
        BY <1>1, <2>1, <2>2
    <2>4. \A i, j \in 1..Len(t) : t[i] = "ack" /\ t[j] = "ack" => i = j
        BY <1>1, <1>4, <2>1, <2>2 DEF Orderly
    <2> QED BY <2>3, <2>4 DEF Orderly
<1> QED BY <1>1, <1>2, <1>3, <1>4 DEF t

(* What a read takes from a channel. *)
LEMMA TailFacts ==
  ASSUME NEW s \in Seq(Message), s # << >>
  PROVE  /\ Tail(s) \in Seq(Message) /\ Head(s) \in Message
         /\ Elements(s) = Elements(Tail(s)) \cup {Head(s)}
         /\ Orderly(s) => Orderly(Tail(s))
         /\ Orderly(s) /\ Head(s) = "eof" => Elements(Tail(s)) = {}
         /\ Orderly(s) /\ Head(s) = "ack" => "ack" \notin Elements(Tail(s))
<1> DEFINE t == Tail(s)
<1>1. t \in Seq(Message) /\ Len(s) = Len(t) + 1 /\ Len(t) \in Nat /\ Head(s) = s[1]
      /\ Head(s) \in Message /\ \A i \in 1..Len(t) : t[i] = s[i + 1]
    OBVIOUS
<1> HIDE DEF t
<1>2. \A i \in 1..Len(t) : i + 1 \in 1..Len(s) /\ i + 1 # 1
    BY <1>1
<1>3. \A j \in 1..Len(s) : j # 1 => j - 1 \in 1..Len(t) /\ t[j - 1] = s[j]
    BY <1>1
<1>4. 1 \in 1..Len(s)
    BY <1>1
<1>5. Elements(s) = Elements(t) \cup {Head(s)}
    <2>1. \A x \in Elements(s) : x \in Elements(t) \/ x = Head(s)
        BY <1>1, <1>3 DEF Elements
    <2>2. \A x \in Elements(t) : x \in Elements(s)
        BY <1>1, <1>2 DEF Elements
    <2>3. Head(s) \in Elements(s)
        BY <1>1, <1>4 DEF Elements
    <2> QED BY <2>1, <2>2, <2>3
<1>6. ASSUME Orderly(s) PROVE Orderly(t)
    <2>1. \A i \in 1..Len(t) : t[i] = "eof" => i = Len(t)
        BY <1>1, <1>2, <1>6 DEF Orderly
    <2>2. ASSUME NEW i \in 1..Len(t), NEW j \in 1..Len(t), t[i] = "ack", t[j] = "ack"
          PROVE  i = j
        <3>1. i + 1 = j + 1
            BY <1>1, <1>2, <1>6, <2>2 DEF Orderly
        <3> QED BY <3>1
    <2> QED BY <2>1, <2>2 DEF Orderly
<1>7. ASSUME Orderly(s), Head(s) = "eof" PROVE Elements(t) = {}
    BY <1>1, <1>4, <1>7 DEF Orderly, Elements
<1>8. ASSUME Orderly(s), Head(s) = "ack" PROVE "ack" \notin Elements(t)
    BY <1>1, <1>2, <1>4, <1>8 DEF Orderly, Elements
<1> QED BY <1>1, <1>5, <1>6, <1>7, <1>8 DEF t

(* A channel that is dropped, or has not been written. *)
LEMMA EmptyFacts == << >> \in Seq(Message) /\ Elements(<< >>) = {} /\ Orderly(<< >>)
BY DEF Elements, Orderly

-----------------------------------------------------------------------------
(* The inductive invariant.                                                *)

(* The handler has taken the registration or refused it.                   *)
Past(c) == registrar[c] \notin {"none", "reading"}

(* No client was told to use circuit c.                                    *)
Unused(c) == \A r \in Requests : intro[r].on # c

(* No request on c overtook the acknowledgement of its registration.       *)
NoEarly(c) == \A q \in Requests : ~(intro[q].early /\ intro[q].on = c)

(* maintainIntro works with the newest circuit, and has not closed it.     *)
Opening ==
  /\ current # NoCircuit => current = opened
  /\ \A c \in Circuits : registrar[c] = "none" <=> c > opened
  /\ \A c \in Circuits : registrar[c] = "none" => toPoint[c] = << >>
  /\ current # NoCircuit => \A i \in 1..Len(toPoint[current]) : toPoint[current][i] # "eof"

(* Before its registration is read, a circuit is not known to anybody else *)
(* at the introduction point, and the registration comes first on it.      *)
BeforeRegistration ==
  \A c \in Circuits : ~Past(c) =>
    /\ toService[c] = << >> /\ registration # c /\ Unused(c)
    /\ c \notin cutOff => c \notin shut
    /\ c \notin cutOff /\ registrar[c] = "reading" =>
         toPoint[c] # << >> /\ Head(toPoint[c]) = "register"

(* A handler ends, and the end of the circuit is written to the service,   *)
(* only with the pipe closed; after that nothing is written.               *)
Ending ==
  \A c \in Circuits :
    /\ registrar[c] = "done" => c \in shut
    /\ registrar[c] = "blocked" => c \in cutOff
    /\ "eof" \in Pending(c) => c \in shut /\ registration # c
    /\ "nack" \in Pending(c) => c \in shut /\ registration # c /\ Unused(c)

(* A registration is acknowledged once, before the session exists.         *)
Acknowledging ==
  \A c \in Circuits :
    /\ "ack" \in Pending(c) => registrar[c] \in {"waiting", "done"}
    /\ session = c => registrar[c] \in {"waiting", "done"} /\ "ack" \notin Pending(c)
    /\ Orderly(toService[c])

(* What took the registration of the circuit in use away has told so.      *)
Told ==
  \A c \in Circuits : current = c /\ c \notin cutOff /\ c \notin outdated =>
    /\ c \in shut => "eof" \in Pending(c)
    /\ Past(c) => registration = c \/ "eof" \in Pending(c) \/ Displaced(c)

(* What a handler has displaced and not yet closed is out of the map, has  *)
(* been told nothing, and is closed by that handler alone.                 *)
Displacing ==
  \A d \in Circuits : displaced[d] # NoCircuit =>
    /\ registrar[d] = "registered"
    /\ Past(displaced[d]) /\ displaced[d] # registration
    /\ "eof" \notin Pending(displaced[d]) /\ "nack" \notin Pending(displaced[d])
    /\ \A e \in Circuits : displaced[e] = displaced[d] => e = d

(* What handleIntroduce holds.                                             *)
Asking ==
  \A r \in Requests :
    /\ intro[r].pc \in {"forward", "acknowledged", "blocked"} => intro[r].on \in Circuits
    /\ intro[r].early => intro[r].pc = "acknowledged"

(* As long as no request overtakes it, the acknowledgement is what the     *)
(* service reads first, and a circuit it has left is closed at the point.  *)
AckFirst ==
  \A c \in Circuits : c \notin cutOff /\ NoEarly(c) =>
    /\ registrar[c] = "registered" /\ c \notin shut => toService[c] = << >>
    /\ (current = c /\ session = NoCircuit
          /\ (registrar[c] = "waiting"
                \/ \E r \in Requests : intro[r].pc = "acknowledged" /\ intro[r].on = c))
         => toService[c] # << >> /\ Head(toService[c]) = "ack"
    /\ c <= opened /\ c # current => c \in shut

IntroInv ==
  /\ IntroTypeOK /\ Opening /\ BeforeRegistration /\ Ending /\ Acknowledging
  /\ Told /\ Displacing /\ Asking /\ AckFirst /\ DeliveredAfterAck

(* The invariant holds before the first circuit is opened. *)
LEMMA IntroInitInv == IntroInit => IntroInv
<1> SUFFICES ASSUME IntroInit PROVE IntroInv
    OBVIOUS
<1> USE MaxCircuitsAssumption, NoCircuitAssumption DEF IntroInit
<1>1. IntroTypeOK
    <2>1. left \in [IntroBounds -> Nat]
        BY IntroBudgetsAssumption
    <2>2. intro \in [Requests -> [pc : {"new", "refused", "forward", "acknowledged",
                                       "unavailable", "blocked"},
                                 on : Circuits \cup {NoCircuit}, early : BOOLEAN]]
        OBVIOUS
    <2>3. opened \in 0..MaxCircuits
        OBVIOUS
    <2>4. toService \in [Circuits -> Seq(Message)] /\ toPoint \in [Circuits -> Seq({"register", "eof"})]
        BY EmptyFacts
    <2> QED BY <2>1, <2>2, <2>3, <2>4 DEF IntroTypeOK
<1>2. Opening /\ BeforeRegistration /\ Asking
    BY DEF Opening, BeforeRegistration, Asking, Past, Unused, Circuits
<1>3. Ending /\ Acknowledging
    <2>1. \A c \in Circuits : Pending(c) = {} /\ Orderly(toService[c]) /\ registrar[c] = "none"
        BY EmptyFacts DEF Pending
    <2>2. \A c \in Circuits : session # c
        BY DEF Circuits
    <2> QED BY <2>1, <2>2 DEF Ending, Acknowledging
<1>4. Told /\ AckFirst /\ DeliveredAfterAck
    <2>1. Told
        BY DEF Told, Circuits
    <2>2. AckFirst /\ DeliveredAfterAck
        BY DEF AckFirst, DeliveredAfterAck, Circuits
    <2> QED BY <2>1, <2>2
<1>5. Displacing
    BY DEF Displacing
<1> QED BY <1>1, <1>2, <1>3, <1>4, <1>5 DEF IntroInv

(* What the set of circuits gives the provers. *)
LEMMA CircuitFacts ==
  /\ Circuits \subseteq Nat /\ NoCircuit \notin Circuits
  /\ \A c \in Circuits : c \in 1..MaxCircuits
BY MaxCircuitsAssumption, NoCircuitAssumption DEF Circuits

(* A bound that is spent stays a number. *)
LEMMA IntroSpendFacts ==
  ASSUME IntroTypeOK, NEW what \in IntroBounds, IntroSpend(what)
  PROVE  left' \in [IntroBounds -> Nat]
BY DEF IntroTypeOK, IntroSpend

(* A request that was acknowledged stays where it is while nothing is *)
(* taken from the channels. *)
LEMMA DeliveredKept ==
  ASSUME Asking, DeliveredAfterAck,
         intro' = intro, accepted' = accepted, current' = current, cutOff \subseteq cutOff',
         \A d \in Circuits : d \notin cutOff' => Elements(toService[d]) \subseteq Elements(toService'[d])
  PROVE  DeliveredAfterAck'
BY DEF Asking, DeliveredAfterAck, Pending

(* What closing the current circuit does to the channel to the point. *)
LEMMA ClosedFacts ==
  ASSUME IntroTypeOK, NEW c \in Circuits,
         toPoint' \in {toPoint, Closed(c), [toPoint EXCEPT ![c] = << >>]}
  PROVE  /\ toPoint' \in [Circuits -> Seq({"register", "eof"})]
         /\ \A d \in Circuits : d # c => toPoint'[d] = toPoint[d]
<1>1. CASE toPoint' = toPoint
    BY <1>1 DEF IntroTypeOK
<1>2. CASE toPoint' = [toPoint EXCEPT ![c] = Append(@, "eof")]
    BY <1>2 DEF IntroTypeOK
<1>3. CASE toPoint' = [toPoint EXCEPT ![c] = << >>]
    BY <1>3 DEF IntroTypeOK
<1> QED BY <1>1, <1>2, <1>3 DEF Closed

(* The end of a circuit arrives: not while the service uses it. *)
LEMMA EndArrivesStep ==
  ASSUME IntroInv, NEW c \in Circuits, endArrives(c)
  PROVE  IntroInv'
<1> USE CircuitFacts
<1>1. (c # current /\ Past(c)) \/ c \in cutOff
    BY DEF IntroInv, IntroTypeOK, Opening, BeforeRegistration, endArrives, Past
<1>2. IntroTypeOK'
    BY <1>1 DEF IntroInv, IntroTypeOK, Message, endArrives, serviceVars
<1>3. Opening'
    BY <1>1 DEF IntroInv, IntroTypeOK, Opening, Circuits, endArrives, serviceVars
<1>4. BeforeRegistration'
    BY <1>1 DEF IntroInv, IntroTypeOK, BeforeRegistration, Past, Unused, endArrives, serviceVars
<1>5. Ending'
    BY <1>1 DEF IntroInv, IntroTypeOK, Ending, Pending, Unused, endArrives, serviceVars
<1>6. Acknowledging'
    BY <1>1 DEF IntroInv, IntroTypeOK, Acknowledging, Pending, endArrives, serviceVars
<1>7. Told'
    BY <1>1
    DEF IntroInv, IntroTypeOK, Told, Displaced, Opening, Pending, Past, Circuits, endArrives, serviceVars
<1>8. Asking'
    BY <1>1 DEF IntroInv, IntroTypeOK, Asking, endArrives, serviceVars
<1>9. AckFirst'
    BY <1>1 DEF IntroInv, IntroTypeOK, AckFirst, NoEarly, endArrives, serviceVars
<1>10. DeliveredAfterAck'
    BY <1>1 DEF IntroInv, IntroTypeOK, DeliveredAfterAck, Pending, endArrives, serviceVars
<1>11. Displacing'
    BY <1>1
    DEF IntroInv, IntroTypeOK, Displacing, Opening, Pending, Past, Circuits, endArrives, serviceVars
<1> QED BY <1>2, <1>3, <1>4, <1>5, <1>6, <1>7, <1>8, <1>9, <1>10, <1>11 DEF IntroInv

(* A registration whose acknowledgement fails. *)
LEMMA WriteAckFailsStep ==
  ASSUME IntroInv, NEW c \in Circuits, writeAckFails(c)
  PROVE  IntroInv'
<1> USE CircuitFacts
<1>1. IntroTypeOK'
    BY DEF IntroInv, IntroTypeOK, Message, writeAckFails, serviceVars
<1>2. Opening'
    BY DEF IntroInv, IntroTypeOK, Opening, Circuits, writeAckFails, serviceVars
<1>3. BeforeRegistration'
    BY DEF IntroInv, IntroTypeOK, BeforeRegistration, Past, Unused, writeAckFails, serviceVars
<1>4. Ending'
    BY DEF IntroInv, IntroTypeOK, Ending, Pending, Unused, writeAckFails, serviceVars
<1>5. Acknowledging'
    BY DEF IntroInv, IntroTypeOK, Acknowledging, Pending, writeAckFails, serviceVars
<1>6. Told'
    BY DEF IntroInv, IntroTypeOK, Told, Displaced, Pending, Past, writeAckFails, serviceVars
<1>7. Asking'
    BY DEF IntroInv, IntroTypeOK, Asking, writeAckFails, serviceVars
<1>8. AckFirst'
    BY DEF IntroInv, IntroTypeOK, AckFirst, NoEarly, writeAckFails, serviceVars
<1>9. DeliveredAfterAck'
    BY DEF IntroInv, IntroTypeOK, DeliveredAfterAck, Pending, writeAckFails, serviceVars
<1>10. Displacing'
    BY DEF IntroInv, IntroTypeOK, Displacing, Pending, Past, writeAckFails, serviceVars
<1> QED BY <1>1, <1>2, <1>3, <1>4, <1>5, <1>6, <1>7, <1>8, <1>9, <1>10 DEF IntroInv

(* A registration whose acknowledgement blocks. *)
LEMMA WriteAckBlocksStep ==
  ASSUME IntroInv, NEW c \in Circuits, writeAckBlocks(c)
  PROVE  IntroInv'
<1> USE CircuitFacts
<1>1. IntroTypeOK'
    BY DEF IntroInv, IntroTypeOK, Message, writeAckBlocks, serviceVars
<1>2. Opening'
    BY DEF IntroInv, IntroTypeOK, Opening, Circuits, writeAckBlocks, serviceVars
<1>3. BeforeRegistration'
    BY DEF IntroInv, IntroTypeOK, BeforeRegistration, Past, Unused, writeAckBlocks, serviceVars
<1>4. Ending'
    BY DEF IntroInv, IntroTypeOK, Ending, Pending, Unused, writeAckBlocks, serviceVars
<1>5. Acknowledging'
    BY DEF IntroInv, IntroTypeOK, Acknowledging, Pending, writeAckBlocks, serviceVars
<1>6. Told'
    BY DEF IntroInv, IntroTypeOK, Told, Displaced, Pending, Past, writeAckBlocks, serviceVars
<1>7. Asking'
    BY DEF IntroInv, IntroTypeOK, Asking, writeAckBlocks, serviceVars
<1>8. AckFirst'
    BY DEF IntroInv, IntroTypeOK, AckFirst, NoEarly, writeAckBlocks, serviceVars
<1>9. DeliveredAfterAck'
    BY DEF IntroInv, IntroTypeOK, DeliveredAfterAck, Pending, writeAckBlocks, serviceVars
<1>10. Displacing'
    BY DEF IntroInv, IntroTypeOK, Displacing, Pending, Past, writeAckBlocks, serviceVars
<1> QED BY <1>1, <1>2, <1>3, <1>4, <1>5, <1>6, <1>7, <1>8, <1>9, <1>10 DEF IntroInv

(* The blocked write fails. *)
LEMMA WriteAckReleasedStep ==
  ASSUME IntroInv, NEW c \in Circuits, writeAckReleased(c)
  PROVE  IntroInv'
<1> USE CircuitFacts
<1>1. IntroTypeOK'
    BY DEF IntroInv, IntroTypeOK, Message, writeAckReleased, serviceVars
<1>2. Opening'
    BY DEF IntroInv, IntroTypeOK, Opening, Circuits, writeAckReleased, serviceVars
<1>3. BeforeRegistration'
    BY DEF IntroInv, IntroTypeOK, BeforeRegistration, Past, Unused, writeAckReleased, serviceVars
<1>4. Ending'
    BY DEF IntroInv, IntroTypeOK, Ending, Pending, Unused, writeAckReleased, serviceVars
<1>5. Acknowledging'
    BY DEF IntroInv, IntroTypeOK, Acknowledging, Pending, writeAckReleased, serviceVars
<1>6. Told'
    BY DEF IntroInv, IntroTypeOK, Told, Displaced, Pending, Past, writeAckReleased, serviceVars
<1>7. Asking'
    BY DEF IntroInv, IntroTypeOK, Asking, writeAckReleased, serviceVars
<1>8. AckFirst'
    BY DEF IntroInv, IntroTypeOK, AckFirst, NoEarly, writeAckReleased, serviceVars
<1>9. DeliveredAfterAck'
    BY DEF IntroInv, IntroTypeOK, DeliveredAfterAck, Pending, writeAckReleased, serviceVars
<1>10. Displacing'
    BY DEF IntroInv, IntroTypeOK, Displacing, Pending, Past, writeAckReleased, serviceVars
<1> QED BY <1>1, <1>2, <1>3, <1>4, <1>5, <1>6, <1>7, <1>8, <1>9, <1>10 DEF IntroInv

(* A handler takes its own registration away. *)
LEMMA HandlerEndsStep ==
  ASSUME IntroInv, NEW c \in Circuits, handlerEnds(c)
  PROVE  IntroInv'
<1> USE CircuitFacts
<1>1. IntroTypeOK'
    BY DEF IntroInv, IntroTypeOK, Message, handlerEnds, serviceVars, AfterEnd
<1>2. Opening'
    BY DEF IntroInv, IntroTypeOK, Opening, Circuits, handlerEnds, serviceVars, AfterEnd
<1>3. BeforeRegistration'
    BY
    DEF IntroInv, IntroTypeOK, BeforeRegistration, Past, Unused, handlerEnds, serviceVars, AfterEnd
<1>4. Ending'
    BY DEF IntroInv, IntroTypeOK, Ending, Pending, Unused, handlerEnds, serviceVars, AfterEnd
<1>5. Acknowledging'
    BY DEF IntroInv, IntroTypeOK, Acknowledging, Pending, handlerEnds, serviceVars, AfterEnd
<1>6. Told'
    BY DEF IntroInv, IntroTypeOK, Told, Displaced, Pending, Past, handlerEnds, serviceVars, AfterEnd
<1>7. Asking'
    BY DEF IntroInv, IntroTypeOK, Asking, handlerEnds, serviceVars, AfterEnd
<1>8. AckFirst'
    BY DEF IntroInv, IntroTypeOK, AckFirst, NoEarly, handlerEnds, serviceVars, AfterEnd
<1>9. DeliveredAfterAck'
    BY DEF IntroInv, IntroTypeOK, DeliveredAfterAck, Pending, handlerEnds, serviceVars, AfterEnd
<1>10. Displacing'
    BY DEF IntroInv, IntroTypeOK, Displacing, Pending, Past, handlerEnds, serviceVars, AfterEnd
<1> QED BY <1>1, <1>2, <1>3, <1>4, <1>5, <1>6, <1>7, <1>8, <1>9, <1>10 DEF IntroInv

(* A registration expires. *)
LEMMA ExpireRegistrationStep ==
  ASSUME IntroInv, NEW c \in Circuits, ExpireRegistration(c)
  PROVE  IntroInv'
<1> USE CircuitFacts
<1>1. left' \in [IntroBounds -> Nat]
    BY IntroSpendFacts DEF IntroInv, ExpireRegistration, IntroBounds
<1>2. IntroTypeOK'
    BY <1>1 DEF IntroInv, IntroTypeOK, Message, ExpireRegistration, serviceVars, pointVars
<1>3. Opening'
    BY <1>1 DEF IntroInv, IntroTypeOK, Opening, Circuits, ExpireRegistration, serviceVars, pointVars
<1>4. BeforeRegistration'
    BY <1>1 DEF IntroInv, IntroTypeOK, BeforeRegistration, Past, Unused, ExpireRegistration,
       serviceVars, pointVars
<1>5. Ending'
    BY <1>1
    DEF IntroInv, IntroTypeOK, Ending, Pending, Unused, ExpireRegistration, serviceVars, pointVars
<1>6. Acknowledging'
    BY <1>1
    DEF IntroInv, IntroTypeOK, Acknowledging, Pending, ExpireRegistration, serviceVars, pointVars
<1>7. Told'
    BY <1>1
    DEF IntroInv, IntroTypeOK, Told, Displaced, Pending, Past, ExpireRegistration, serviceVars, pointVars
<1>8. Asking'
    BY <1>1 DEF IntroInv, IntroTypeOK, Asking, ExpireRegistration, serviceVars, pointVars
<1>9. AckFirst'
    BY <1>1 DEF IntroInv, IntroTypeOK, AckFirst, NoEarly, ExpireRegistration, serviceVars, pointVars
<1>10. DeliveredAfterAck'
    BY <1>1 DEF IntroInv, IntroTypeOK, DeliveredAfterAck, Pending, ExpireRegistration, serviceVars,
       pointVars
<1>11. Displacing'
    BY <1>1
    DEF IntroInv, IntroTypeOK, Displacing, Pending, Past, ExpireRegistration, serviceVars, pointVars
<1> QED BY <1>2, <1>3, <1>4, <1>5, <1>6, <1>7, <1>8, <1>9, <1>10, <1>11 DEF IntroInv

(* A circuit is opened. *)
LEMMA OpenCircuitStep ==
  ASSUME IntroInv, openCircuit
  PROVE  IntroInv'
<1> USE CircuitFacts
<1>1. opened + 1 \in Circuits /\ session = NoCircuit /\ registrar[opened + 1] = "none"
    BY MaxCircuitsAssumption DEF IntroInv, IntroTypeOK, Opening, openCircuit, Circuits
<1>2. IntroTypeOK'
    BY <1>1 DEF IntroInv, IntroTypeOK, BeforeRegistration, Opening, Asking, Message, Past, Unused,
       Circuits, openCircuit
<1>3. Opening'
    BY <1>1 DEF IntroInv, IntroTypeOK, Opening, BeforeRegistration, Asking, Circuits, Past, Unused,
       openCircuit
<1>4. BeforeRegistration'
    BY <1>1 DEF IntroInv, IntroTypeOK, BeforeRegistration, Opening, Asking, Past, Unused, Circuits,
       openCircuit
<1>5. Ending'
    BY <1>1 DEF IntroInv, IntroTypeOK, Ending, BeforeRegistration, Opening, Asking, Pending,
       Unused, Past, Circuits, openCircuit
<1>6. Acknowledging'
    BY <1>1 DEF IntroInv, IntroTypeOK, Acknowledging, BeforeRegistration, Opening, Asking, Pending,
       Past, Unused, Circuits, openCircuit
<1>7. Told'
    BY <1>1 DEF IntroInv, IntroTypeOK, Told, Displaced, BeforeRegistration, Opening, Asking, Pending, Past,
       Unused, Circuits, openCircuit
<1>8. Asking'
    BY <1>1 DEF IntroInv, IntroTypeOK, Asking, BeforeRegistration, Opening, Past, Unused, Circuits,
       openCircuit
<1>9. AckFirst'
    BY <1>1 DEF IntroInv, IntroTypeOK, AckFirst, BeforeRegistration, Opening, Asking, NoEarly,
       Past, Unused, Circuits, openCircuit
<1>10. DeliveredAfterAck'
    BY <1>1 DEF IntroInv, IntroTypeOK, DeliveredAfterAck, BeforeRegistration, Opening, Asking,
       Pending, Past, Unused, Circuits, openCircuit
<1>11. Displacing'
    BY <1>1 DEF IntroInv, IntroTypeOK, Displacing, BeforeRegistration, Opening, Asking, Pending, Past,
       Unused, Circuits, openCircuit
<1> QED BY <1>2, <1>3, <1>4, <1>5, <1>6, <1>7, <1>8, <1>9, <1>10, <1>11 DEF IntroInv

(* A forward that blocks. *)
LEMMA ForwardBlocksStep ==
  ASSUME IntroInv, NEW r \in Requests, forwardBlocks(r)
  PROVE  IntroInv'
<1> USE CircuitFacts
<1>1. /\ intro'[r].on = intro[r].on /\ intro'[r].early = intro[r].early
      /\ intro'[r].pc = "blocked" /\ \A q \in Requests : q # r => intro'[q] = intro[q]
      /\ \A q \in Requests : intro'[q].on = intro[q].on /\ intro'[q].early = intro[q].early
    BY DEF IntroInv, IntroTypeOK, forwardBlocks
<1>2. \A d \in Circuits : NoEarly(d)' <=> NoEarly(d)
    BY <1>1 DEF NoEarly
<1>3. \A q \in Requests : intro'[q].pc = "acknowledged" => intro'[q] = intro[q]
    BY <1>1
<1>4. IntroTypeOK'
    BY <1>1, <1>2, <1>3 DEF IntroInv, IntroTypeOK, Message, forwardBlocks, serviceVars, pointVars
<1>5. Opening'
    BY <1>1, <1>2, <1>3
    DEF IntroInv, IntroTypeOK, Opening, Circuits, forwardBlocks, serviceVars, pointVars
<1>6. BeforeRegistration'
    BY <1>1, <1>2, <1>3 DEF IntroInv, IntroTypeOK, BeforeRegistration, Past, Unused, forwardBlocks,
       serviceVars, pointVars
<1>7. Ending'
    BY <1>1, <1>2, <1>3
    DEF IntroInv, IntroTypeOK, Ending, Pending, Unused, forwardBlocks, serviceVars, pointVars
<1>8. Acknowledging'
    BY <1>1, <1>2, <1>3
    DEF IntroInv, IntroTypeOK, Acknowledging, Pending, forwardBlocks, serviceVars, pointVars
<1>9. Told'
    BY <1>1, <1>2, <1>3
    DEF IntroInv, IntroTypeOK, Told, Displaced, Pending, Past, forwardBlocks, serviceVars, pointVars
<1>10. Asking'
    BY <1>1, <1>2, <1>3 DEF IntroInv, IntroTypeOK, Asking, forwardBlocks, serviceVars, pointVars
<1>11. AckFirst'
    BY <1>2, <1>3 DEF IntroInv, AckFirst, forwardBlocks, serviceVars, pointVars
<1>12. DeliveredAfterAck'
    BY <1>1, <1>2, <1>3
    DEF IntroInv, IntroTypeOK, DeliveredAfterAck, Pending, forwardBlocks, serviceVars, pointVars
<1>13. Displacing'
    BY <1>1, <1>2, <1>3
    DEF IntroInv, IntroTypeOK, Displacing, Pending, Past, forwardBlocks, serviceVars, pointVars
<1> QED BY <1>4, <1>5, <1>6, <1>7, <1>8, <1>9, <1>10, <1>11, <1>12, <1>13 DEF IntroInv

(* The blocked forward fails. *)
LEMMA ForwardReleasedStep ==
  ASSUME IntroInv, NEW r \in Requests, forwardReleased(r)
  PROVE  IntroInv'
<1> USE CircuitFacts
<1>1. /\ intro'[r].on = intro[r].on /\ intro'[r].early = intro[r].early
      /\ intro'[r].pc = "unavailable" /\ \A q \in Requests : q # r => intro'[q] = intro[q]
      /\ \A q \in Requests : intro'[q].on = intro[q].on /\ intro'[q].early = intro[q].early
    BY DEF IntroInv, IntroTypeOK, forwardReleased
<1>2. \A d \in Circuits : NoEarly(d)' <=> NoEarly(d)
    BY <1>1 DEF NoEarly
<1>3. \A q \in Requests : intro'[q].pc = "acknowledged" => intro'[q] = intro[q]
    BY <1>1
<1>4. IntroTypeOK'
    BY ZenonT(40), <1>1, <1>2, <1>3
    DEF IntroInv, IntroTypeOK, Message, forwardReleased, serviceVars, pointVars
<1>5. Opening'
    BY <1>1, <1>2, <1>3
    DEF IntroInv, IntroTypeOK, Opening, Circuits, forwardReleased, serviceVars, pointVars
<1>6. BeforeRegistration'
    BY <1>1, <1>2, <1>3 DEF IntroInv, IntroTypeOK, BeforeRegistration, Past, Unused,
       forwardReleased, serviceVars, pointVars
<1>7. Ending'
    BY <1>1, <1>2, <1>3
    DEF IntroInv, IntroTypeOK, Ending, Pending, Unused, forwardReleased, serviceVars, pointVars
<1>8. Acknowledging'
    BY <1>1, <1>2, <1>3
    DEF IntroInv, IntroTypeOK, Acknowledging, Pending, forwardReleased, serviceVars, pointVars
<1>9. Told'
    BY <1>1, <1>2, <1>3
    DEF IntroInv, IntroTypeOK, Told, Displaced, Pending, Past, forwardReleased, serviceVars, pointVars
<1>10. Asking'
    BY <1>1, <1>2, <1>3 DEF IntroInv, IntroTypeOK, Asking, forwardReleased, serviceVars, pointVars
<1>11. AckFirst'
    BY <1>2, <1>3 DEF IntroInv, AckFirst, forwardReleased, serviceVars, pointVars
<1>12. DeliveredAfterAck'
    BY <1>1, <1>2, <1>3
    DEF IntroInv, IntroTypeOK, DeliveredAfterAck, Pending, forwardReleased, serviceVars, pointVars
<1>13. Displacing'
    BY <1>1, <1>2, <1>3
    DEF IntroInv, IntroTypeOK, Displacing, Pending, Past, forwardReleased, serviceVars, pointVars
<1> QED BY <1>4, <1>5, <1>6, <1>7, <1>8, <1>9, <1>10, <1>11, <1>12, <1>13 DEF IntroInv

(* The session begins. *)
LEMMA ReadAckStep ==
  ASSUME IntroInv, readAck
  PROVE  IntroInv'
<1> USE CircuitFacts
<1>1. current \in Circuits /\ toService[current] \in Seq(Message) /\ toService[current] # << >>
    BY DEF IntroInv, IntroTypeOK, readAck
<1>2. /\ toService' \in [Circuits -> Seq(Message)]
      /\ \A d \in Circuits : d # current => toService'[d] = toService[d]
      /\ toService'[current] = Tail(toService[current])
    BY <1>1, TailFacts DEF IntroInv, IntroTypeOK, readAck
<1>3. /\ Elements(toService[current]) = Elements(toService'[current]) \cup {Head(toService[current])}
      /\ Orderly(toService'[current])
      /\ Head(toService[current]) = "ack" => "ack" \notin Elements(toService'[current])
    BY <1>1, <1>2, TailFacts DEF IntroInv, IntroTypeOK, Acknowledging
<1>4. registrar[current] \in {"waiting", "done"}
    BY <1>1, <1>3 DEF IntroInv, Acknowledging, Pending, readAck
<1>5. IntroTypeOK'
    BY <1>1, <1>2, <1>3, <1>4 DEF IntroInv, IntroTypeOK, Message, readAck, pointVars
<1>6. Opening'
    BY <1>1, <1>2, <1>3, <1>4 DEF IntroInv, IntroTypeOK, Opening, Circuits, readAck, pointVars
<1>7. BeforeRegistration'
    BY <1>1, <1>2, <1>3, <1>4
    DEF IntroInv, IntroTypeOK, BeforeRegistration, Past, Unused, readAck, pointVars
<1>8. Ending'
    BY <1>1, <1>2, <1>3, <1>4 DEF IntroInv, IntroTypeOK, Ending, Pending, Unused, readAck, pointVars
<1>9. Acknowledging'
    BY <1>1, <1>2, <1>3, <1>4 DEF IntroInv, IntroTypeOK, Acknowledging, Pending, readAck, pointVars
<1>10. Told'
    BY <1>1, <1>2, <1>3, <1>4 DEF IntroInv, IntroTypeOK, Told, Displaced, Pending, Past, readAck, pointVars
<1>11. Asking'
    BY <1>1, <1>2, <1>3, <1>4 DEF IntroInv, IntroTypeOK, Asking, readAck, pointVars
<1>12. AckFirst'
    BY <1>1, <1>2, <1>3, <1>4 DEF IntroInv, IntroTypeOK, AckFirst, NoEarly, readAck, pointVars
<1>13. DeliveredAfterAck'
    <2>1. "ack" \notin Requests
        BY RequestsAssumption
    <2> QED BY <1>1, <1>2, <1>3, <2>1
            DEF IntroInv, DeliveredAfterAck, Asking, Pending, readAck, pointVars
<1>14. Displacing'
    BY <1>1, <1>2, <1>3, <1>4 DEF IntroInv, IntroTypeOK, Displacing, Pending, Past, readAck, pointVars
<1> QED BY <1>5, <1>6, <1>7, <1>8, <1>9, <1>10, <1>11, <1>12, <1>13, <1>14 DEF IntroInv

(* A request is handed over. *)
LEMMA ReadIntroductionStep ==
  ASSUME IntroInv, readIntroduction
  PROVE  IntroInv'
<1> USE CircuitFacts
<1>1. /\ current \in Circuits /\ session = current
      /\ toService[current] \in Seq(Message) /\ toService[current] # << >>
    BY DEF IntroInv, IntroTypeOK, readIntroduction
<1>2. /\ toService' \in [Circuits -> Seq(Message)]
      /\ \A d \in Circuits : d # current => toService'[d] = toService[d]
      /\ toService'[current] = Tail(toService[current])
    BY <1>1, TailFacts DEF IntroInv, IntroTypeOK, readIntroduction
<1>3. /\ Elements(toService[current]) = Elements(toService'[current]) \cup {Head(toService[current])}
      /\ Orderly(toService'[current])
      /\ Head(toService[current]) = "ack" => "ack" \notin Elements(toService'[current])
    BY <1>1, <1>2, TailFacts DEF IntroInv, IntroTypeOK, Acknowledging
<1>4. registrar[current] \in {"waiting", "done"} /\ Head(toService[current]) \in Requests
    BY <1>1 DEF IntroInv, Acknowledging, readIntroduction
<1>5. "eof" \notin Requests
    BY RequestsAssumption
<1>6. IntroTypeOK'
    BY <1>1, <1>2, <1>3, <1>4, <1>5
    DEF IntroInv, IntroTypeOK, Message, readIntroduction, serviceVars, pointVars
<1>7. Opening'
    BY <1>1, <1>2, <1>3, <1>4, <1>5
    DEF IntroInv, IntroTypeOK, Opening, Circuits, readIntroduction, serviceVars, pointVars
<1>8. BeforeRegistration'
    BY <1>1, <1>2, <1>3, <1>4, <1>5 DEF IntroInv, IntroTypeOK, BeforeRegistration, Past, Unused,
       readIntroduction, serviceVars, pointVars
<1>9. Ending'
    BY <1>1, <1>2, <1>3, <1>4, <1>5
    DEF IntroInv, IntroTypeOK, Ending, Pending, Unused, readIntroduction, serviceVars, pointVars
<1>10. Acknowledging'
    BY <1>1, <1>2, <1>3, <1>4, <1>5
    DEF IntroInv, IntroTypeOK, Acknowledging, Pending, readIntroduction, serviceVars, pointVars
<1>11. Told'
    BY <1>1, <1>2, <1>3, <1>4, <1>5
    DEF IntroInv, IntroTypeOK, Told, Displaced, Pending, Past, readIntroduction, serviceVars, pointVars
<1>12. Asking'
    BY <1>1, <1>2, <1>3, <1>4, <1>5
    DEF IntroInv, IntroTypeOK, Asking, readIntroduction, serviceVars, pointVars
<1>13. AckFirst'
    BY <1>1, <1>2, <1>3, <1>4, <1>5
    DEF IntroInv, IntroTypeOK, AckFirst, Asking, NoEarly, readIntroduction, serviceVars, pointVars
<1>14. DeliveredAfterAck'
    BY <1>1, <1>2, <1>3, <1>4, <1>5 DEF IntroInv, IntroTypeOK, DeliveredAfterAck, Asking, Pending,
       readIntroduction, serviceVars, pointVars
<1>15. Displacing'
    BY <1>1, <1>2, <1>3, <1>4, <1>5
    DEF IntroInv, IntroTypeOK, Displacing, Pending, Past, readIntroduction, serviceVars, pointVars
<1> QED BY <1>6, <1>7, <1>8, <1>9, <1>10, <1>11, <1>12, <1>13, <1>14, <1>15 DEF IntroInv

(* Something else is read in place of the acknowledgement. *)
LEMMA ReadAckFailsStep ==
  ASSUME IntroInv, readAckFails
  PROVE  IntroInv'
<1> USE CircuitFacts
<1>1. /\ current \in Circuits /\ toService[current] \in Seq(Message)
      /\ toService[current] # << >> /\ Head(toService[current]) # "ack"
      /\ Head(toService[current]) \in Elements(toService[current])
      /\ Head(toService[current]) \in Message
    BY TailFacts DEF IntroInv, IntroTypeOK, readAckFails
<1>2. /\ toService' \in [Circuits -> Seq(Message)]
      /\ \A d \in Circuits : d # current => toService'[d] = toService[d]
      /\ toService'[current] = << >> /\ Elements(toService'[current]) = {}
      /\ Orderly(toService'[current])
    BY <1>1, EmptyFacts DEF IntroInv, IntroTypeOK, readAckFails
<1>3. /\ toPoint' \in [Circuits -> Seq({"register", "eof"})]
      /\ \A d \in Circuits : d # current => toPoint'[d] = toPoint[d]
    BY <1>1, ClosedFacts DEF IntroInv, readAckFails
<1>4. Past(current)
    BY <1>1 DEF IntroInv, BeforeRegistration
<1>5. current \in shut \/ current \in cutOff \/ ~NoEarly(current)
    BY <1>1, <1>4 DEF IntroInv, IntroTypeOK, AckFirst, Ending, Past, readAckFails
<1>6. \A r \in Requests : intro[r].pc = "acknowledged" /\ intro[r].on = current
        => current \in cutOff \/ ~NoEarly(current)
    BY <1>1 DEF IntroInv, AckFirst, readAckFails
<1>7. IntroTypeOK'
    BY <1>1, <1>2, <1>3, <1>4, <1>5, <1>6
    DEF IntroInv, IntroTypeOK, Message, readAckFails, pointVars
<1>8. Opening'
    BY <1>1, <1>2, <1>3, <1>4, <1>5, <1>6 DEF IntroInv, IntroTypeOK, Opening, BeforeRegistration,
       Circuits, Past, Unused, readAckFails, pointVars
<1>9. BeforeRegistration'
    BY <1>1, <1>2, <1>3, <1>4, <1>5, <1>6
    DEF IntroInv, IntroTypeOK, BeforeRegistration, Past, Unused, readAckFails, pointVars
<1>10. Ending'
    BY <1>1, <1>2, <1>3, <1>4, <1>5, <1>6
    DEF IntroInv, IntroTypeOK, Ending, Pending, Unused, readAckFails, pointVars
<1>11. Acknowledging'
    BY <1>1, <1>2, <1>3, <1>4, <1>5, <1>6
    DEF IntroInv, IntroTypeOK, Acknowledging, Pending, readAckFails, pointVars
<1>12. Told'
    BY <1>1, <1>2, <1>3, <1>4, <1>5, <1>6
    DEF IntroInv, IntroTypeOK, Told, Displaced, Pending, Past, readAckFails, pointVars
<1>13. Asking'
    BY <1>1, <1>2, <1>3, <1>4, <1>5, <1>6 DEF IntroInv, IntroTypeOK, Asking, readAckFails, pointVars
<1>14. AckFirst'
    BY <1>1, <1>2, <1>3, <1>4, <1>5, <1>6
    DEF IntroInv, IntroTypeOK, AckFirst, NoEarly, readAckFails, pointVars
<1>15. DeliveredAfterAck'
    BY <1>1, <1>2, <1>3, <1>4, <1>5, <1>6 DEF IntroInv, IntroTypeOK, DeliveredAfterAck, Asking,
       AckFirst, Pending, NoEarly, readAckFails, pointVars
<1>16. Displacing'
    BY <1>1, <1>2, <1>3, <1>4, <1>5, <1>6
    DEF IntroInv, IntroTypeOK, Displacing, Pending, Past, readAckFails, pointVars
<1> QED BY <1>7, <1>8, <1>9, <1>10, <1>11, <1>12, <1>13, <1>14, <1>15, <1>16 DEF IntroInv

(* The session ends. *)
LEMMA SessionEndsStep ==
  ASSUME IntroInv, sessionEnds
  PROVE  IntroInv'
<1> USE CircuitFacts
<1>1. /\ current \in Circuits /\ toService[current] \in Seq(Message) /\ session = current
      /\ toService[current] # << >> /\ Head(toService[current]) \notin Requests
      /\ Head(toService[current]) \in Elements(toService[current])
      /\ Head(toService[current]) \in Message
    BY TailFacts DEF IntroInv, IntroTypeOK, sessionEnds
<1>2. /\ toService' \in [Circuits -> Seq(Message)]
      /\ \A d \in Circuits : d # current => toService'[d] = toService[d]
      /\ toService'[current] = << >> /\ Elements(toService'[current]) = {}
      /\ Orderly(toService'[current])
    BY <1>1, EmptyFacts DEF IntroInv, IntroTypeOK, sessionEnds
<1>3. /\ toPoint' \in [Circuits -> Seq({"register", "eof"})]
      /\ \A d \in Circuits : d # current => toPoint'[d] = toPoint[d]
    BY <1>1, ClosedFacts DEF IntroInv, sessionEnds
<1>4. Past(current)
    BY <1>1 DEF IntroInv, BeforeRegistration
<1>5. current \in shut /\ \A r \in Requests : intro[r].on = current => r \notin Elements(toService[current])
    <2>1. Head(toService[current]) # "ack"
        BY <1>1 DEF IntroInv, Acknowledging, Pending
    <2>2. CASE Head(toService[current]) = "nack"
        BY <1>1, <2>2 DEF IntroInv, Ending, Pending, Unused
    <2>3. CASE Head(toService[current]) = "eof"
        <3>1. Orderly(toService[current]) /\ current \in shut
            BY <1>1, <2>3 DEF IntroInv, Ending, Acknowledging, Pending
        <3>2. Elements(toService[current]) = {"eof"}
            BY <1>1, <2>3, <3>1, TailFacts
        <3> QED BY <3>1, <3>2, RequestsAssumption
    <2> QED BY <1>1, <2>1, <2>2, <2>3 DEF Message
<1>6. IntroTypeOK'
    BY <1>1, <1>2, <1>3, <1>4, <1>5 DEF IntroInv, IntroTypeOK, Message, sessionEnds, pointVars
<1>7. Opening'
    BY <1>1, <1>2, <1>3, <1>4, <1>5 DEF IntroInv, IntroTypeOK, Opening, BeforeRegistration,
       Circuits, Past, Unused, sessionEnds, pointVars
<1>8. BeforeRegistration'
    BY <1>1, <1>2, <1>3, <1>4, <1>5
    DEF IntroInv, IntroTypeOK, BeforeRegistration, Past, Unused, sessionEnds, pointVars
<1>9. Ending'
    BY <1>1, <1>2, <1>3, <1>4, <1>5
    DEF IntroInv, IntroTypeOK, Ending, Pending, Unused, sessionEnds, pointVars
<1>10. Acknowledging'
    BY <1>1, <1>2, <1>3, <1>4, <1>5
    DEF IntroInv, IntroTypeOK, Acknowledging, Pending, sessionEnds, pointVars
<1>11. Told'
    BY <1>1, <1>2, <1>3, <1>4, <1>5
    DEF IntroInv, IntroTypeOK, Told, Displaced, Pending, Past, sessionEnds, pointVars
<1>12. Asking'
    BY <1>1, <1>2, <1>3, <1>4, <1>5 DEF IntroInv, IntroTypeOK, Asking, sessionEnds, pointVars
<1>13. AckFirst'
    BY <1>1, <1>2, <1>3, <1>4, <1>5
    DEF IntroInv, IntroTypeOK, AckFirst, NoEarly, sessionEnds, pointVars
<1>14. DeliveredAfterAck'
    BY <1>1, <1>2, <1>3, <1>4, <1>5
    DEF IntroInv, IntroTypeOK, DeliveredAfterAck, Asking, Pending, sessionEnds, pointVars
<1>15. Displacing'
    BY <1>1, <1>2, <1>3, <1>4, <1>5
    DEF IntroInv, IntroTypeOK, Displacing, Pending, Past, sessionEnds, pointVars
<1> QED BY <1>6, <1>7, <1>8, <1>9, <1>10, <1>11, <1>12, <1>13, <1>14, <1>15 DEF IntroInv

(* The node of the service is restarted. *)
LEMMA RestartServiceStep ==
  ASSUME IntroInv, RestartService
  PROVE  IntroInv'
<1> USE CircuitFacts
<1>1. current \in Circuits /\ left' \in [IntroBounds -> Nat]
    BY IntroSpendFacts DEF IntroInv, IntroTypeOK, RestartService, IntroBounds
<1>2. /\ toService' \in [Circuits -> Seq(Message)]
      /\ \A d \in Circuits : d # current => toService'[d] = toService[d]
      /\ toService'[current] = << >> /\ Elements(toService'[current]) = {}
      /\ Orderly(toService'[current])
    BY <1>1, EmptyFacts DEF IntroInv, IntroTypeOK, RestartService
<1>3. /\ toPoint' \in [Circuits -> Seq({"register", "eof"})]
      /\ \A d \in Circuits : d # current => toPoint'[d] = toPoint[d]
    BY <1>1, ClosedFacts DEF IntroInv, RestartService
<1>4. IntroTypeOK'
    BY <1>1, <1>2, <1>3 DEF IntroInv, IntroTypeOK, Message, RestartService, pointVars
<1>5. Opening'
    BY <1>1, <1>2, <1>3 DEF IntroInv, IntroTypeOK, Opening, BeforeRegistration, Circuits, Past,
       Unused, RestartService, pointVars
<1>6. BeforeRegistration'
    BY <1>1, <1>2, <1>3
    DEF IntroInv, IntroTypeOK, BeforeRegistration, Past, Unused, RestartService, pointVars
<1>7. Ending'
    BY <1>1, <1>2, <1>3
    DEF IntroInv, IntroTypeOK, Ending, Pending, Unused, RestartService, pointVars
<1>8. Acknowledging'
    BY <1>1, <1>2, <1>3 DEF IntroInv, IntroTypeOK, Acknowledging, Pending, RestartService, pointVars
<1>9. Told'
    BY <1>1, <1>2, <1>3 DEF IntroInv, IntroTypeOK, Told, Displaced, Pending, Past, RestartService, pointVars
<1>10. Asking'
    BY <1>1, <1>2, <1>3 DEF IntroInv, IntroTypeOK, Asking, RestartService, pointVars
<1>11. AckFirst'
    BY <1>1, <1>2, <1>3 DEF IntroInv, IntroTypeOK, AckFirst, NoEarly, RestartService, pointVars
<1>12. DeliveredAfterAck'
    BY <1>1, <1>2, <1>3
    DEF IntroInv, IntroTypeOK, DeliveredAfterAck, Asking, Pending, RestartService, pointVars
<1>13. Displacing'
    BY <1>1, <1>2, <1>3 DEF IntroInv, IntroTypeOK, Displacing, Pending, Past, RestartService, pointVars
<1> QED BY <1>4, <1>5, <1>6, <1>7, <1>8, <1>9, <1>10, <1>11, <1>12, <1>13 DEF IntroInv

(* A registration that has expired is refused. *)
LEMMA RefuseStep ==
  ASSUME IntroInv, NEW c \in Circuits, refuse(c)
  PROVE  IntroInv'
<1> USE CircuitFacts
<1>1. /\ toPoint' \in [Circuits -> Seq({"register", "eof"})]
      /\ \A d \in Circuits : d # c => toPoint'[d] = toPoint[d]
      /\ \A i \in 1..Len(toPoint'[c]) : i + 1 \in 1..Len(toPoint[c]) /\ toPoint'[c][i] = toPoint[c][i + 1]
    BY DEF IntroInv, IntroTypeOK, refuse
<1>2. toService[c] = << >> /\ toService[c] \in Seq(Message)
    BY DEF IntroInv, IntroTypeOK, BeforeRegistration, Past, refuse
<1>3. /\ toService' \in [Circuits -> Seq(Message)]
      /\ \A d \in Circuits : d # c => toService'[d] = toService[d]
      /\ c \in cutOff => toService' = toService
      /\ c \notin cutOff => toService'[c] = Append(toService[c], "nack")
    BY AppendFacts DEF IntroInv, IntroTypeOK, Written, Message, refuse
<1>4. c \notin cutOff =>
        /\ toService'[c] # << >>
        /\ Elements(toService'[c]) = Elements(toService[c]) \cup {"nack"}
        /\ toService[c] # << >> => Head(toService'[c]) = Head(toService[c])
        /\ toService[c] = << >> => Head(toService'[c]) = "nack"
    BY <1>2, <1>3, AppendFacts DEF IntroInv, IntroTypeOK, Message
<1>5. Elements(toService[c]) = {} /\ Orderly(toService'[c])
    BY <1>2, <1>3, EmptyFacts, AppendFacts DEF Message
<1>6. registration # c /\ Unused(c)
    BY DEF IntroInv, BeforeRegistration, Past, refuse
<1>7. IntroTypeOK'
    BY <1>1, <1>2, <1>3, <1>4, <1>5, <1>6 DEF IntroInv, IntroTypeOK, Message, refuse, serviceVars
<1>8. Opening'
    BY <1>1, <1>2, <1>3, <1>4, <1>5, <1>6
    DEF IntroInv, IntroTypeOK, Opening, Circuits, refuse, serviceVars
<1>9. BeforeRegistration'
    BY <1>1, <1>2, <1>3, <1>4, <1>5, <1>6
    DEF IntroInv, IntroTypeOK, BeforeRegistration, Past, Unused, refuse, serviceVars
<1>10. Ending'
    BY <1>1, <1>2, <1>3, <1>4, <1>5, <1>6
    DEF IntroInv, IntroTypeOK, Ending, Pending, Unused, refuse, serviceVars
<1>11. Acknowledging'
    BY <1>1, <1>2, <1>3, <1>4, <1>5, <1>6
    DEF IntroInv, IntroTypeOK, Acknowledging, Pending, refuse, serviceVars
<1>12. Told'
    BY <1>1, <1>2, <1>3, <1>4, <1>5, <1>6
    DEF IntroInv, IntroTypeOK, Told, Displaced, Opening, Pending, Past, Circuits, refuse, serviceVars
<1>13. Asking'
    BY <1>1, <1>2, <1>3, <1>4, <1>5, <1>6 DEF IntroInv, IntroTypeOK, Asking, refuse, serviceVars
<1>14. AckFirst'
    <2> SUFFICES ASSUME NEW d \in Circuits, d \notin cutOff, NoEarly(d)
                 PROVE  /\ registrar'[d] = "registered" /\ d \notin shut' => toService'[d] = << >>
                        /\ (current = d /\ session = NoCircuit
                              /\ (registrar'[d] = "waiting" \/ \E q \in Requests :
                                     intro[q].pc = "acknowledged" /\ intro[q].on = d))
                             => toService'[d] # << >> /\ Head(toService'[d]) = "ack"
                        /\ d <= opened /\ d # current => d \in shut'
        BY DEF AckFirst, NoEarly, refuse, serviceVars
    <2>1. shut' = shut \cup {c} /\ registrar'[c] = "done"
          /\ \A e \in Circuits : e # c => registrar'[e] = registrar[e]
        BY DEF IntroInv, IntroTypeOK, refuse
    <2>2. CASE d = c
        BY <1>6, <2>1, <2>2 DEF Unused
    <2>3. CASE d # c
        BY <1>3, <2>1, <2>3 DEF IntroInv, AckFirst
    <2> QED BY <2>2, <2>3
<1>15. DeliveredAfterAck'
    <2>1. \A d \in Circuits : d \notin cutOff' => Elements(toService[d]) \subseteq Elements(toService'[d])
        BY <1>3, <1>4 DEF refuse
    <2>2. Asking /\ DeliveredAfterAck /\ intro' = intro /\ accepted' = accepted /\ current' = current
          /\ cutOff \subseteq cutOff'
        BY DEF IntroInv, refuse, serviceVars
    <2> QED BY <2>1, <2>2, DeliveredKept
<1>16. Displacing'
    BY <1>1, <1>2, <1>3, <1>4, <1>5, <1>6
    DEF IntroInv, IntroTypeOK, Displacing, Opening, Pending, Past, Circuits, refuse, serviceVars
<1> QED BY <1>7, <1>8, <1>9, <1>10, <1>11, <1>12, <1>13, <1>14, <1>15, <1>16 DEF IntroInv

(* The acknowledgement is written. *)
LEMMA WriteAckStep ==
  ASSUME IntroInv, NEW c \in Circuits, writeAck(c)
  PROVE  IntroInv'
<1> USE CircuitFacts
<1>1. toService[c] \in Seq(Message)
    BY DEF IntroInv, IntroTypeOK
<1>2. /\ toService' \in [Circuits -> Seq(Message)]
      /\ \A d \in Circuits : d # c => toService'[d] = toService[d]
      /\ c \in cutOff => toService' = toService
      /\ c \notin cutOff => toService'[c] = Append(toService[c], "ack")
    BY AppendFacts DEF IntroInv, IntroTypeOK, Written, Message, writeAck
<1>3. c \notin cutOff =>
        /\ toService'[c] # << >>
        /\ Elements(toService'[c]) = Elements(toService[c]) \cup {"ack"}
        /\ toService[c] # << >> => Head(toService'[c]) = Head(toService[c])
        /\ toService[c] = << >> => Head(toService'[c]) = "ack"
    BY <1>1, <1>2, AppendFacts DEF IntroInv, IntroTypeOK, Message
<1>4. "ack" \notin Elements(toService[c]) /\ "eof" \notin Elements(toService[c]) /\ session # c
    BY DEF IntroInv, Ending, Acknowledging, Pending, writeAck
<1>5. Orderly(toService'[c])
    BY <1>1, <1>2, <1>4, AppendFacts DEF IntroInv, Acknowledging, Message
<1>6. IntroTypeOK'
    BY <1>1, <1>2, <1>3, <1>4, <1>5 DEF IntroInv, IntroTypeOK, Message, writeAck, serviceVars
<1>7. Opening'
    BY <1>1, <1>2, <1>3, <1>4, <1>5
    DEF IntroInv, IntroTypeOK, Opening, Circuits, writeAck, serviceVars
<1>8. BeforeRegistration'
    BY <1>1, <1>2, <1>3, <1>4, <1>5
    DEF IntroInv, IntroTypeOK, BeforeRegistration, Past, Unused, writeAck, serviceVars
<1>9. Ending'
    BY <1>1, <1>2, <1>3, <1>4, <1>5
    DEF IntroInv, IntroTypeOK, Ending, Pending, Unused, writeAck, serviceVars
<1>10. Acknowledging'
    BY <1>1, <1>2, <1>3, <1>4, <1>5
    DEF IntroInv, IntroTypeOK, Acknowledging, Pending, writeAck, serviceVars
<1>11. Told'
    BY <1>1, <1>2, <1>3, <1>4, <1>5
    DEF IntroInv, IntroTypeOK, Told, Displaced, Pending, Past, writeAck, serviceVars
<1>12. Asking'
    BY <1>1, <1>2, <1>3, <1>4, <1>5 DEF IntroInv, IntroTypeOK, Asking, writeAck, serviceVars
<1>13. AckFirst'
    BY <1>1, <1>2, <1>3, <1>4, <1>5
    DEF IntroInv, IntroTypeOK, AckFirst, NoEarly, writeAck, serviceVars
<1>14. DeliveredAfterAck'
    <2>1. \A d \in Circuits : d \notin cutOff' => Elements(toService[d]) \subseteq Elements(toService'[d])
        BY <1>2, <1>3 DEF writeAck
    <2>2. Asking /\ DeliveredAfterAck /\ intro' = intro /\ accepted' = accepted /\ current' = current
          /\ cutOff \subseteq cutOff'
        BY DEF IntroInv, writeAck, serviceVars
    <2> QED BY <2>1, <2>2, DeliveredKept
<1>15. Displacing'
    <2>1. \A d \in Circuits : \A m \in {"eof", "nack"} :
            m \in Elements(toService'[d]) => m \in Elements(toService[d])
        BY <1>2, <1>3
    <2>2. \A d \in Circuits : displaced[d] # NoCircuit => displaced[d] \in Circuits
        BY DEF IntroInv, IntroTypeOK
    <2>3. /\ displaced[c] = NoCircuit /\ displaced' = displaced /\ registration' = registration
          /\ registrar'[c] = "waiting"
          /\ \A d \in Circuits : d # c => registrar'[d] = registrar[d]
        BY DEF IntroInv, IntroTypeOK, writeAck
    <2>4. \A d \in Circuits : Past(d) => Past(d)'
        BY <2>3 DEF Past
    <2>5. ASSUME NEW d \in Circuits, displaced[d] # NoCircuit
          PROVE  /\ registrar'[d] = "registered"
                 /\ Past(displaced[d])' /\ displaced[d] # registration
                 /\ "eof" \notin Elements(toService'[displaced[d]])
                 /\ "nack" \notin Elements(toService'[displaced[d]])
                 /\ \A e \in Circuits : displaced[e] = displaced[d] => e = d
        BY <2>1, <2>2, <2>3, <2>4, <2>5 DEF IntroInv, Displacing, Pending
    <2> QED BY <2>3, <2>5 DEF Displacing, Past, Pending
<1> QED BY <1>6, <1>7, <1>8, <1>9, <1>10, <1>11, <1>12, <1>13, <1>14, <1>15 DEF IntroInv

(* A registration takes the place of an older one. *)
LEMMA RegisterStep ==
  ASSUME IntroInv, NEW c \in Circuits, register(c)
  PROVE  IntroInv'
<1> USE CircuitFacts
<1>1. /\ toPoint' \in [Circuits -> Seq({"register", "eof"})]
      /\ \A d \in Circuits : d # c => toPoint'[d] = toPoint[d]
      /\ \A i \in 1..Len(toPoint'[c]) : i + 1 \in 1..Len(toPoint[c]) /\ toPoint'[c][i] = toPoint[c][i + 1]
    BY DEF IntroInv, IntroTypeOK, register
<1>2. /\ toService[c] = << >> /\ registration # c /\ Unused(c)
      /\ registrar[c] = "reading" /\ c \notin outdated /\ ~Past(c)
    BY DEF IntroInv, BeforeRegistration, Past, register
<1>3. registration # NoCircuit => registration \in Circuits /\ Past(registration)
    BY DEF IntroInv, IntroTypeOK, BeforeRegistration
<1>4. /\ registrar'[c] = "registered" /\ displaced'[c] = registration
      /\ \A d \in Circuits : d # c => registrar'[d] = registrar[d] /\ displaced'[d] = displaced[d]
      /\ registration' = c
    BY DEF IntroInv, IntroTypeOK, register
<1>5. displaced[c] = NoCircuit /\ \A d \in Circuits : Past(d)' <=> Past(d) \/ d = c
    BY <1>2, <1>4 DEF IntroInv, Displacing, Past
<1>6. IntroTypeOK'
    BY <1>1, <1>3 DEF IntroInv, IntroTypeOK, Message, register, serviceVars
<1>7. Opening'
    BY <1>1, <1>2, <1>3, <1>4
    DEF IntroInv, IntroTypeOK, Opening, Circuits, register, serviceVars
<1>8. BeforeRegistration'
    BY <1>1, <1>2, <1>3, <1>4
    DEF IntroInv, IntroTypeOK, BeforeRegistration, Past, Unused, register, serviceVars
<1>9. Ending'
    BY <1>2, <1>4, EmptyFacts DEF IntroInv, IntroTypeOK, Ending, Pending, Unused, register
<1>10. Acknowledging'
    BY <1>2, <1>4 DEF IntroInv, IntroTypeOK, Acknowledging, Pending, register, serviceVars
<1>11. Told'
    <2> SUFFICES ASSUME NEW d \in Circuits, current = d, d \notin cutOff, d \notin outdated
                 PROVE  /\ d \in shut => "eof" \in Pending(d)
                        /\ Past(d)' => c = d \/ "eof" \in Pending(d) \/ Displaced(d)'
        BY <1>4 DEF Told, Pending, register, serviceVars
    <2>1. d = registration => Displaced(d)'
        BY <1>4 DEF Displaced
    <2>2. Displaced(d) => Displaced(d)'
        BY <1>4, <1>5 DEF Displaced
    <2> QED BY <1>5, <2>1, <2>2 DEF IntroInv, Told
<1>12. Displacing'
    <2> SUFFICES ASSUME NEW d \in Circuits, displaced'[d] # NoCircuit
                 PROVE  /\ registrar'[d] = "registered"
                        /\ registrar'[displaced'[d]] \notin {"none", "reading"}
                        /\ displaced'[d] # c
                        /\ "eof" \notin Pending(displaced'[d])
                        /\ "nack" \notin Pending(displaced'[d])
                        /\ \A e \in Circuits : displaced'[e] = displaced'[d] => e = d
        BY <1>4 DEF Displacing, Past, Pending, register
    <2>1. CASE d = c
        <3>1. \A e \in Circuits : e # c => displaced'[e] # registration
            BY <1>4, <2>1 DEF IntroInv, Displacing
        <3>2. "eof" \notin Pending(registration) /\ "nack" \notin Pending(registration)
            BY <1>3, <1>4, <2>1 DEF IntroInv, Ending
        <3>3. registration \in Circuits /\ displaced'[d] = registration
            BY <1>3, <1>4, <2>1
        <3>4. registrar'[registration] \notin {"none", "reading"}
            BY <1>2, <1>3, <1>4, <3>3 DEF Past
        <3> QED BY <1>2, <1>4, <2>1, <3>1, <3>2, <3>3, <3>4
    <2>2. CASE d # c
        <3>1. displaced[d] \in Circuits /\ displaced[d] # registration /\ displaced[d] # c
            BY <1>2, <1>4, <2>2 DEF IntroInv, IntroTypeOK, Displacing
        <3>2. displaced'[d] = displaced[d] /\ displaced[d] # NoCircuit
            BY <1>4, <2>2
        <3>3. registrar'[displaced[d]] \notin {"none", "reading"}
            BY <1>4, <3>1, <3>2 DEF IntroInv, Displacing, Past
        <3>4. \A e \in Circuits : displaced'[e] = displaced[d] => e = d
            BY <1>4, <3>1, <3>2 DEF IntroInv, Displacing
        <3> QED BY <1>4, <2>2, <3>1, <3>2, <3>3, <3>4 DEF IntroInv, Displacing
    <2> QED BY <2>1, <2>2
<1>13. Asking'
    BY DEF IntroInv, IntroTypeOK, Asking, register, serviceVars
<1>14. AckFirst'
    BY <1>2, <1>4 DEF IntroInv, AckFirst, NoEarly, Unused, register, serviceVars
<1>15. DeliveredAfterAck'
    BY DEF IntroInv, DeliveredAfterAck, Pending, register, serviceVars
<1> QED BY <1>6, <1>7, <1>8, <1>9, <1>10, <1>11, <1>12, <1>13, <1>14, <1>15 DEF IntroInv

(* The registration that was replaced is closed, and its service told. *)
LEMMA CloseDisplacedStep ==
  ASSUME IntroInv, NEW c \in Circuits, closeDisplaced(c)
  PROVE  IntroInv'
<1> USE CircuitFacts
<1> DEFINE o == displaced[c]
<1>1. /\ o \in Circuits /\ o # registration /\ Past(o) /\ toService[o] \in Seq(Message)
      /\ "eof" \notin Elements(toService[o]) /\ "nack" \notin Elements(toService[o])
      /\ \A d \in Circuits : displaced[d] = o => d = c
    BY DEF IntroInv, IntroTypeOK, Displacing, Pending, closeDisplaced
<1>2. /\ displaced'[c] = NoCircuit /\ shut' = shut \cup {o}
      /\ \A d \in Circuits : d # c => displaced'[d] = displaced[d]
    BY DEF IntroInv, IntroTypeOK, closeDisplaced
<1>3. /\ toService' \in [Circuits -> Seq(Message)]
      /\ \A d \in Circuits : d # o => toService'[d] = toService[d]
      /\ o \in cutOff => toService' = toService
      /\ o \notin cutOff => toService'[o] = Append(toService[o], "eof")
    <2>1. Append(toService[o], "eof") \in Seq(Message)
        BY <1>1, AppendFacts DEF Message
    <2>2. CASE o \in cutOff
        BY <2>2 DEF IntroInv, IntroTypeOK, closeDisplaced, Written
    <2>3. CASE o \notin cutOff
        <3>1. toService' = [toService EXCEPT ![o] = Append(@, "eof")]
            BY <2>3 DEF closeDisplaced, Written
        <3> QED BY <1>1, <2>1, <2>3, <3>1 DEF IntroInv, IntroTypeOK
    <2> QED BY <2>2, <2>3
<1>4. o \notin cutOff =>
        /\ toService'[o] # << >> /\ Elements(toService'[o]) = Elements(toService[o]) \cup {"eof"}
        /\ toService[o] # << >> => Head(toService'[o]) = Head(toService[o])
    BY <1>1, <1>3, AppendFacts DEF Message
<1>5. Orderly(toService'[o])
    <2>1. Orderly(toService[o])
        BY <1>1 DEF IntroInv, Acknowledging
    <2> QED BY <1>1, <1>3, <2>1, AppendFacts DEF Message
<1>6. \A d \in Circuits : \A m \in {"ack", "nack"} :
        m \in Elements(toService'[d]) => m \in Elements(toService[d])
    BY <1>3, <1>4
<1> HIDE DEF o
<1>7. IntroTypeOK'
    <2>1. displaced' \in [Circuits -> Circuits \cup {NoCircuit}]
        BY DEF IntroInv, IntroTypeOK, closeDisplaced
    <2> QED BY <1>1, <1>2, <1>3, <2>1
            DEF IntroInv, IntroTypeOK, Message, closeDisplaced, serviceVars
<1>8. Opening'
    BY DEF IntroInv, Opening, closeDisplaced, serviceVars
<1>9. BeforeRegistration'
    BY <1>1, <1>2, <1>3
    DEF IntroInv, BeforeRegistration, Past, Unused, closeDisplaced, serviceVars
<1>10. Ending'
    BY <1>1, <1>2, <1>3, <1>6 DEF IntroInv, Ending, Pending, Unused, closeDisplaced, serviceVars
<1>11. Acknowledging'
    BY <1>1, <1>3, <1>5, <1>6 DEF IntroInv, Acknowledging, Pending, closeDisplaced, serviceVars
<1>12. Told'
    <2> SUFFICES ASSUME NEW d \in Circuits, current = d, d \notin cutOff, d \notin outdated
                 PROVE  /\ d \in shut' => "eof" \in Elements(toService'[d])
                        /\ Past(d) => registration = d \/ "eof" \in Elements(toService'[d])
                                         \/ Displaced(d)'
        BY DEF Told, Past, Pending, closeDisplaced, serviceVars
    <2>1. CASE d = o
        BY <1>4, <2>1
    <2>2. CASE d # o
        <3>1. Displaced(d) => Displaced(d)'
            BY <1>2, <2>2 DEF Displaced, o
        <3> QED BY <1>2, <1>3, <2>2, <3>1 DEF IntroInv, Told, Pending
    <2> QED BY <2>1, <2>2
<1>13. Displacing'
    <2> SUFFICES ASSUME NEW d \in Circuits, displaced'[d] # NoCircuit
                 PROVE  /\ registrar[d] = "registered"
                        /\ Past(displaced'[d]) /\ displaced'[d] # registration
                        /\ "eof" \notin Elements(toService'[displaced'[d]])
                        /\ "nack" \notin Elements(toService'[displaced'[d]])
                        /\ \A e \in Circuits : displaced'[e] = displaced'[d] => e = d
        BY DEF Displacing, Past, Pending, closeDisplaced
    <2>1. d # c /\ displaced'[d] = displaced[d] /\ displaced[d] # o /\ displaced[d] \in Circuits
        BY <1>1, <1>2 DEF IntroInv, IntroTypeOK
    <2>2. \A e \in Circuits : displaced'[e] = displaced'[d] => displaced[e] = displaced[d]
        BY <1>2, <2>1
    <2> QED BY <1>3, <2>1, <2>2 DEF IntroInv, Displacing, Pending
<1>14. Asking'
    BY DEF IntroInv, Asking, closeDisplaced
<1>15. AckFirst'
    <2> SUFFICES ASSUME NEW d \in Circuits, d \notin cutOff, NoEarly(d)
                 PROVE  /\ registrar[d] = "registered" /\ d \notin shut' => toService'[d] = << >>
                        /\ (current = d /\ session = NoCircuit
                              /\ (registrar[d] = "waiting" \/ \E q \in Requests :
                                     intro[q].pc = "acknowledged" /\ intro[q].on = d))
                             => toService'[d] # << >> /\ Head(toService'[d]) = "ack"
                        /\ d <= opened /\ d # current => d \in shut'
        BY DEF AckFirst, NoEarly, closeDisplaced, serviceVars
    <2>1. CASE d = o
        BY <1>2, <1>4, <2>1 DEF IntroInv, AckFirst
    <2>2. CASE d # o
        BY <1>2, <1>3, <2>2 DEF IntroInv, AckFirst
    <2> QED BY <2>1, <2>2
<1>16. DeliveredAfterAck'
    <2>1. \A d \in Circuits : d \notin cutOff' => Elements(toService[d]) \subseteq Elements(toService'[d])
        BY <1>3, <1>4 DEF closeDisplaced
    <2>2. Asking /\ DeliveredAfterAck /\ intro' = intro /\ accepted' = accepted /\ current' = current
          /\ cutOff \subseteq cutOff'
        BY DEF IntroInv, closeDisplaced, serviceVars
    <2> QED BY <2>1, <2>2, DeliveredKept
<1> QED BY <1>7, <1>8, <1>9, <1>10, <1>11, <1>12, <1>13, <1>14, <1>15, <1>16 DEF IntroInv

(* A client is refused; a registration that has expired is taken away. *)
LEMMA LookupRefusedStep ==
  ASSUME IntroInv, NEW r \in Requests, lookup(r), registration = NoCircuit \/ registration \in outdated
  PROVE  IntroInv'
<1> USE CircuitFacts
<1>1. intro' = [intro EXCEPT ![r].pc = "refused"] /\ registration' = NoCircuit
    BY DEF lookup
<1>2. /\ \A q \in Requests : q # r => intro'[q] = intro[q]
      /\ intro'[r].on = intro[r].on /\ intro'[r].early = intro[r].early /\ intro'[r].pc = "refused"
      /\ \A q \in Requests : intro'[q].on = intro[q].on /\ intro'[q].early = intro[q].early
      /\ intro[r].early = FALSE
      /\ intro' \in [Requests -> [pc : {"new", "refused", "forward", "acknowledged",
                                      "unavailable", "blocked"},
                                 on : Circuits \cup {NoCircuit}, early : BOOLEAN]]
    <2>1. intro[r].early = FALSE
        BY DEF IntroInv, IntroTypeOK, Asking, lookup
    <2>2. intro' \in [Requests -> [pc : {"new", "refused", "forward", "acknowledged",
                                      "unavailable", "blocked"},
                                 on : Circuits \cup {NoCircuit}, early : BOOLEAN]]
        BY ZenonT(40), <1>1 DEF IntroInv, IntroTypeOK
    <2> QED BY <1>1, <2>1, <2>2 DEF IntroInv, IntroTypeOK
<1>3. IntroTypeOK'
    BY <1>1, <1>2 DEF IntroInv, IntroTypeOK, Message, lookup, serviceVars
<1>4. Opening'
    BY <1>1, <1>2 DEF IntroInv, IntroTypeOK, Opening, Circuits, lookup, serviceVars
<1>5. BeforeRegistration'
    BY <1>1, <1>2 DEF IntroInv, IntroTypeOK, BeforeRegistration, Past, Unused, lookup, serviceVars
<1>6. Ending'
    BY <1>1, <1>2 DEF IntroInv, IntroTypeOK, Ending, Pending, Unused, lookup, serviceVars
<1>7. Acknowledging'
    BY <1>1, <1>2 DEF IntroInv, IntroTypeOK, Acknowledging, Pending, lookup, serviceVars
<1>8. Told'
    BY <1>1, <1>2 DEF IntroInv, IntroTypeOK, Told, Displaced, Pending, Past, lookup, serviceVars
<1>9. Asking'
    BY <1>1, <1>2 DEF IntroInv, IntroTypeOK, Asking, lookup, serviceVars
<1>10. AckFirst'
    <2>1. \A q \in Requests : intro'[q].pc = "acknowledged" => intro'[q] = intro[q]
        BY <1>2
    <2>2. \A d \in Circuits : NoEarly(d)' => NoEarly(d)
        BY <1>2 DEF NoEarly
    <2> QED BY <2>1, <2>2 DEF IntroInv, AckFirst, lookup, serviceVars
<1>11. DeliveredAfterAck'
    <2>1. \A q \in Requests : intro'[q].pc = "acknowledged" => intro'[q] = intro[q]
        BY <1>2
    <2>2. \A q \in Requests : intro'[q].on = intro[q].on /\ intro'[q].early = intro[q].early
        BY <1>2
    <2> QED BY <2>1, <2>2 DEF IntroInv, DeliveredAfterAck, Pending, lookup, serviceVars
<1>12. Displacing'
    BY <1>1, <1>2 DEF IntroInv, IntroTypeOK, Displacing, Pending, Past, lookup, serviceVars
<1> QED BY <1>3, <1>4, <1>5, <1>6, <1>7, <1>8, <1>9, <1>10, <1>11, <1>12 DEF IntroInv

(* A client finds the registration. *)
LEMMA LookupFoundStep ==
  ASSUME IntroInv, NEW r \in Requests, lookup(r), ~(registration = NoCircuit \/ registration \in outdated)
  PROVE  IntroInv'
<1> USE CircuitFacts
<1>1. /\ intro' = [intro EXCEPT ![r] = [pc |-> "forward", on |-> registration, early |-> FALSE]]
      /\ registration' = registration /\ registration \in Circuits
    BY DEF IntroInv, IntroTypeOK, lookup
<1>2. /\ \A q \in Requests : q # r => intro'[q] = intro[q]
      /\ intro'[r].on = registration /\ intro'[r].early = FALSE /\ intro'[r].pc = "forward"
      /\ intro[r].early = FALSE /\ intro[r].pc = "new"
      /\ \A q \in Requests : intro'[q].early = intro[q].early
      /\ intro' \in [Requests -> [pc : {"new", "refused", "forward", "acknowledged",
                                      "unavailable", "blocked"},
                                 on : Circuits \cup {NoCircuit}, early : BOOLEAN]]
    BY <1>1 DEF IntroInv, IntroTypeOK, Asking, lookup
<1>3. Past(registration) /\ "nack" \notin Elements(toService[registration])
    BY <1>1 DEF IntroInv, BeforeRegistration, Ending, Pending
<1>4. \A d \in Circuits : NoEarly(d)' => NoEarly(d)
    BY <1>2 DEF NoEarly
<1>5. \A d \in Circuits : d # registration => (Unused(d) => Unused(d)')
    BY <1>2 DEF Unused
<1>6. IntroTypeOK'
    BY <1>1, <1>2, <1>3, <1>4, <1>5 DEF IntroInv, IntroTypeOK, Message, lookup, serviceVars
<1>7. Opening'
    BY <1>1, <1>2, <1>3, <1>4, <1>5
    DEF IntroInv, IntroTypeOK, Opening, Circuits, lookup, serviceVars
<1>8. BeforeRegistration'
    <2>1. \A d \in Circuits : ~Past(d)' => ~Past(d) /\ d # registration
        BY <1>3 DEF Past, lookup
    <2> QED BY <1>1, <1>5, <2>1 DEF IntroInv, BeforeRegistration, lookup, serviceVars
<1>9. Ending'
    BY <1>1, <1>3, <1>5 DEF IntroInv, Ending, Pending, lookup, serviceVars
<1>10. Acknowledging'
    BY <1>1, <1>2, <1>3, <1>4, <1>5
    DEF IntroInv, IntroTypeOK, Acknowledging, Pending, lookup, serviceVars
<1>11. Told'
    BY <1>1, <1>2, <1>3, <1>4, <1>5
    DEF IntroInv, IntroTypeOK, Told, Displaced, Pending, Past, lookup, serviceVars
<1>12. Asking'
    BY <1>1, <1>2, <1>3, <1>4, <1>5 DEF IntroInv, IntroTypeOK, Asking, lookup, serviceVars
<1>13. AckFirst'
    <2>1. \A q \in Requests : intro'[q].pc = "acknowledged" => intro'[q] = intro[q]
        BY <1>2
    <2> QED BY <1>1, <1>4, <2>1 DEF IntroInv, AckFirst, lookup, serviceVars
<1>14. DeliveredAfterAck'
    <2> SUFFICES ASSUME NEW q \in Requests, intro'[q].pc = "acknowledged", intro'[q].on \notin cutOff,
                        ~ \E p \in Requests : intro'[p].early /\ intro'[p].on = intro'[q].on
                 PROVE  q \in accepted \/ (current = intro[q].on /\ q \in Pending(intro[q].on))
        BY <1>2 DEF DeliveredAfterAck, Pending, lookup, serviceVars
    <2>1. intro'[q] = intro[q]
        BY <1>2
    <2>2. ~ \E p \in Requests : intro[p].early /\ intro[p].on = intro[q].on
        BY <1>2, <2>1
    <2> QED BY <2>1, <2>2 DEF IntroInv, DeliveredAfterAck
<1>15. Displacing'
    BY <1>1, <1>2, <1>3, <1>4, <1>5
    DEF IntroInv, IntroTypeOK, Displacing, Pending, Past, lookup, serviceVars
<1> QED BY <1>6, <1>7, <1>8, <1>9, <1>10, <1>11, <1>12, <1>13, <1>14, <1>15 DEF IntroInv

(* The circuit of a request was closed. *)
LEMMA ForwardFailsStep ==
  ASSUME IntroInv, NEW r \in Requests, forward(r), intro[r].on \in shut
  PROVE  IntroInv'
<1> USE CircuitFacts
<1>1. intro' = [intro EXCEPT ![r].pc = "unavailable"] /\ toService' = toService
    BY DEF forward
<1>2. /\ intro'[r].on = intro[r].on /\ intro'[r].early = intro[r].early
      /\ intro'[r].pc = "unavailable" /\ \A q \in Requests : q # r => intro'[q] = intro[q]
      /\ \A q \in Requests : intro'[q].on = intro[q].on /\ intro'[q].early = intro[q].early
      /\ intro[r].early = FALSE
      /\ intro' \in [Requests -> [pc : {"new", "refused", "forward", "acknowledged",
                                      "unavailable", "blocked"},
                                 on : Circuits \cup {NoCircuit}, early : BOOLEAN]]
    <2>1. intro[r].early = FALSE
        BY DEF IntroInv, IntroTypeOK, Asking, forward
    <2>2. intro' \in [Requests -> [pc : {"new", "refused", "forward", "acknowledged",
                                      "unavailable", "blocked"},
                                 on : Circuits \cup {NoCircuit}, early : BOOLEAN]]
        BY ZenonT(40), <1>1 DEF IntroInv, IntroTypeOK
    <2> QED BY <1>1, <2>1, <2>2 DEF IntroInv, IntroTypeOK
<1>3. \A d \in Circuits : NoEarly(d)' <=> NoEarly(d)
    BY <1>2 DEF NoEarly
<1>4. \A q \in Requests : intro'[q].pc = "acknowledged" => intro'[q] = intro[q]
    BY <1>2
<1>5. IntroTypeOK'
    BY <1>1, <1>2, <1>3, <1>4 DEF IntroInv, IntroTypeOK, Message, forward, serviceVars, pointVars
<1>6. Opening'
    BY <1>1, <1>2, <1>3, <1>4
    DEF IntroInv, IntroTypeOK, Opening, Circuits, forward, serviceVars, pointVars
<1>7. BeforeRegistration'
    BY <1>1, <1>2, <1>3, <1>4
    DEF IntroInv, IntroTypeOK, BeforeRegistration, Past, Unused, forward, serviceVars, pointVars
<1>8. Ending'
    BY <1>1, <1>2, <1>3, <1>4
    DEF IntroInv, IntroTypeOK, Ending, Pending, Unused, forward, serviceVars, pointVars
<1>9. Acknowledging'
    BY <1>1, <1>2, <1>3, <1>4
    DEF IntroInv, IntroTypeOK, Acknowledging, Pending, forward, serviceVars, pointVars
<1>10. Told'
    BY <1>1, <1>2, <1>3, <1>4
    DEF IntroInv, IntroTypeOK, Told, Displaced, Pending, Past, forward, serviceVars, pointVars
<1>11. Asking'
    BY <1>1, <1>2, <1>3, <1>4 DEF IntroInv, IntroTypeOK, Asking, forward, serviceVars, pointVars
<1>12. AckFirst'
    BY <1>1, <1>3, <1>4 DEF IntroInv, AckFirst, forward, serviceVars, pointVars
<1>13. DeliveredAfterAck'
    BY <1>1, <1>2, <1>3, <1>4
    DEF IntroInv, IntroTypeOK, DeliveredAfterAck, Pending, forward, serviceVars, pointVars
<1>14. Displacing'
    BY <1>1 DEF IntroInv, Displacing, Pending, Past, forward, pointVars
<1> QED BY <1>5, <1>6, <1>7, <1>8, <1>9, <1>10, <1>11, <1>12, <1>13, <1>14 DEF IntroInv

(* A request is forwarded. *)
LEMMA ForwardStep ==
  ASSUME IntroInv, NEW r \in Requests, NEW c \in Circuits, forward(r),
         c = intro[r].on, c \notin shut
  PROVE  IntroInv'
<1> USE CircuitFacts
<1>1. /\ intro' = [intro EXCEPT ![r] =
                     [pc |-> "acknowledged", on |-> c, early |-> registrar[c] = "registered"]]
      /\ toService' = Written(c, r) /\ intro[r].pc = "forward" /\ r \in Message
    BY DEF IntroInv, IntroTypeOK, forward, Message
<1>2. /\ \A q \in Requests : q # r => intro'[q] = intro[q]
      /\ intro'[r].on = c /\ intro'[r].pc = "acknowledged"
      /\ intro'[r].early <=> registrar[c] = "registered"
      /\ ~intro[r].early
      /\ \A q \in Requests : intro'[q].on = intro[q].on /\ (intro[q].early => intro'[q].early)
      /\ intro' \in [Requests -> [pc : {"new", "refused", "forward", "acknowledged",
                                      "unavailable", "blocked"},
                                 on : Circuits \cup {NoCircuit}, early : BOOLEAN]]
    BY <1>1 DEF IntroInv, IntroTypeOK, Asking
<1>3. toService[c] \in Seq(Message)
    BY DEF IntroInv, IntroTypeOK
<1>4. /\ toService' \in [Circuits -> Seq(Message)]
      /\ \A d \in Circuits : d # c => toService'[d] = toService[d]
      /\ c \in cutOff => toService' = toService
      /\ c \notin cutOff => toService'[c] = Append(toService[c], r)
    <2>1. Append(toService[c], r) \in Seq(Message)
        BY <1>1, <1>3, AppendFacts
    <2>2. CASE c \in cutOff
        BY <1>1, <2>2 DEF IntroInv, IntroTypeOK, Written
    <2>3. CASE c \notin cutOff
        <3>1. toService' = [toService EXCEPT ![c] = Append(@, r)]
            BY <1>1, <2>3 DEF Written
        <3> QED BY <2>1, <2>3, <3>1 DEF IntroInv, IntroTypeOK
    <2> QED BY <2>2, <2>3
<1>5. c \notin cutOff =>
        /\ toService'[c] # << >> /\ Elements(toService'[c]) = Elements(toService[c]) \cup {r}
        /\ toService[c] # << >> => Head(toService'[c]) = Head(toService[c])
    BY ZenonT(40), <1>1, <1>3, <1>4, AppendFacts
<1>6. /\ Past(c) /\ "eof" \notin Elements(toService[c]) /\ "nack" \notin Elements(toService[c])
      /\ registrar[c] # "done" /\ (c \notin cutOff => registrar[c] # "blocked")
    BY DEF IntroInv, BeforeRegistration, Ending, Pending, Unused
<1>7. r \notin {"ack", "nack", "eof"}
    BY RequestsAssumption
<1>8. Orderly(toService'[c])
    <2>1. Orderly(toService[c])
        BY DEF IntroInv, Acknowledging
    <2> QED BY <1>1, <1>3, <1>4, <1>6, <1>7, <2>1, AppendFacts
<1>9. \A d \in Circuits : (NoEarly(d)' => NoEarly(d)) /\ (Unused(d)' <=> Unused(d))
    BY <1>2 DEF NoEarly, Unused
<1>10. registrar[c] = "registered" => ~NoEarly(c)'
    BY <1>2 DEF NoEarly
<1>11. registrar[c] \in {"registered", "waiting"} \/ c \in cutOff
    BY <1>6 DEF IntroInv, IntroTypeOK, Past
<1>12. current = c \/ c \in cutOff \/ ~NoEarly(c)
    <2>1. c <= opened
        BY <1>6 DEF IntroInv, IntroTypeOK, Opening, Past
    <2> QED BY <2>1 DEF IntroInv, AckFirst
<1>13. IntroTypeOK'
    BY <1>1, <1>2, <1>3, <1>4, <1>5, <1>6, <1>7, <1>8, <1>9, <1>10, <1>11, <1>12
    DEF IntroInv, IntroTypeOK, Message, forward, serviceVars, pointVars
<1>14. Opening'
    BY <1>1, <1>2, <1>3, <1>4, <1>5, <1>6, <1>7, <1>8, <1>9, <1>10, <1>11, <1>12
    DEF IntroInv, IntroTypeOK, Opening, Circuits, forward, serviceVars, pointVars
<1>15. BeforeRegistration'
    BY <1>4, <1>6, <1>9 DEF IntroInv, BeforeRegistration, Past, forward, serviceVars, pointVars
<1>16. Ending'
    <2>1. \A d \in Circuits : "eof" \in Elements(toService'[d]) => "eof" \in Elements(toService[d])
        BY <1>4, <1>5, <1>7
    <2>2. \A d \in Circuits : "nack" \in Elements(toService'[d]) => "nack" \in Elements(toService[d])
        BY <1>4, <1>5, <1>7
    <2> QED BY <1>9, <2>1, <2>2 DEF IntroInv, Ending, Pending, forward, serviceVars, pointVars
<1>17. Acknowledging'
    <2>1. \A d \in Circuits : "ack" \in Elements(toService'[d]) => "ack" \in Elements(toService[d])
        BY <1>4, <1>5, <1>7
    <2>2. \A d \in Circuits : Orderly(toService'[d])
        BY <1>4, <1>8 DEF IntroInv, Acknowledging
    <2> QED BY <2>1, <2>2 DEF IntroInv, Acknowledging, Pending, forward, serviceVars, pointVars
<1>18. Told'
    <2>1. \A d \in Circuits : "eof" \in Elements(toService[d]) => "eof" \in Elements(toService'[d])
        BY <1>4, <1>5
    <2> QED BY <2>1 DEF IntroInv, Told, Displaced, Past, Pending, forward, serviceVars, pointVars
<1>19. Asking'
    BY <1>1, <1>2, <1>3, <1>4, <1>5, <1>6, <1>7, <1>8, <1>9, <1>10, <1>11, <1>12
    DEF IntroInv, IntroTypeOK, Asking, forward, serviceVars, pointVars
<1>20. AckFirst'
    <2> SUFFICES ASSUME NEW d \in Circuits, d \notin cutOff, NoEarly(d)'
                 PROVE  /\ registrar[d] = "registered" /\ d \notin shut => toService'[d] = << >>
                        /\ (current = d /\ session = NoCircuit
                              /\ (registrar[d] = "waiting" \/ \E q \in Requests :
                                     intro'[q].pc = "acknowledged" /\ intro'[q].on = d))
                             => toService'[d] # << >> /\ Head(toService'[d]) = "ack"
                        /\ d <= opened /\ d # current => d \in shut
        BY DEF AckFirst, forward, serviceVars, pointVars
    <2>1. NoEarly(d)
        BY <1>9
    <2>2. CASE d # c
        <3>1. toService'[d] = toService[d]
            BY <1>4, <2>2
        <3>2. \A q \in Requests : intro'[q].on = d => intro'[q] = intro[q]
            BY <1>2, <2>2
        <3> QED BY <2>1, <3>1, <3>2 DEF IntroInv, AckFirst
    <2>3. CASE d = c
        <3>1. registrar[c] = "waiting"
            BY <1>10, <1>11, <2>3
        <3> QED BY <1>5, <2>1, <2>3, <3>1 DEF IntroInv, AckFirst
    <2> QED BY <2>2, <2>3
<1>21. DeliveredAfterAck'
    <2> SUFFICES ASSUME NEW q \in Requests, intro'[q].pc = "acknowledged", intro'[q].on \notin cutOff,
                        ~ \E p \in Requests : intro'[p].early /\ intro'[p].on = intro'[q].on
                 PROVE  q \in accepted \/ (current = intro[q].on /\ q \in Elements(toService'[intro[q].on]))
        BY <1>2 DEF DeliveredAfterAck, Pending, forward, serviceVars
    <2>1. ~ \E p \in Requests : intro[p].early /\ intro[p].on = intro[q].on
        BY <1>2
    <2>2. CASE q = r
        <3>1. current = c
            BY <1>2, <1>12, <2>1, <2>2 DEF NoEarly
        <3> QED BY <1>2, <1>5, <2>2, <3>1
    <2>3. CASE q # r
        <3>1. intro'[q] = intro[q] /\ intro[q].on \in Circuits
            BY <1>2, <2>3 DEF IntroInv, Asking
        <3>2. q \in accepted \/ (current = intro[q].on /\ q \in Elements(toService[intro[q].on]))
            BY <2>1, <3>1 DEF IntroInv, DeliveredAfterAck, Pending
        <3> QED BY <1>4, <1>5, <3>1, <3>2
    <2> QED BY <2>2, <2>3
<1>22. Displacing'
    <2>1. \A d \in Circuits : \A m \in {"eof", "nack"} :
            m \in Elements(toService'[d]) => m \in Elements(toService[d])
        BY <1>4, <1>5, <1>7
    <2>2. \A d \in Circuits : displaced[d] # NoCircuit => displaced[d] \in Circuits
        BY DEF IntroInv, IntroTypeOK
    <2> QED BY <2>1, <2>2
            DEF IntroInv, Displacing, Past, Pending, forward, serviceVars, pointVars
<1> QED BY <1>13, <1>14, <1>15, <1>16, <1>17, <1>18, <1>19, <1>20, <1>21, <1>22 DEF IntroInv

(* A circuit is cut. *)
LEMMA CutCircuitStep ==
  ASSUME IntroInv, NEW c \in Circuits, CutCircuit(c)
  PROVE  IntroInv'
<1> USE CircuitFacts
<1>1. left' \in [IntroBounds -> Nat]
    BY IntroSpendFacts DEF IntroInv, CutCircuit, IntroBounds
<1>2. /\ toService' \in [Circuits -> Seq(Message)] /\ toPoint' \in [Circuits -> Seq({"register", "eof"})]
      /\ \A d \in Circuits : d # c => toService'[d] = toService[d] /\ toPoint'[d] = toPoint[d]
      /\ toService'[c] = toService[c] \/ toService'[c] = << >>
      /\ toPoint'[c] = toPoint[c] \/ toPoint'[c] = << >>
    <2>1. /\ toService' \in [Circuits -> Seq(Message)]
          /\ \A d \in Circuits : d # c => toService'[d] = toService[d]
          /\ toService'[c] = toService[c] \/ toService'[c] = << >>
        <3>1. CASE toService' = toService
            BY <3>1 DEF IntroInv, IntroTypeOK
        <3>2. CASE toService' = [toService EXCEPT ![c] = << >>]
            BY <3>2, EmptyFacts DEF IntroInv, IntroTypeOK
        <3> QED BY <3>1, <3>2 DEF CutCircuit
    <2>2. /\ toPoint' \in [Circuits -> Seq({"register", "eof"})]
          /\ \A d \in Circuits : d # c => toPoint'[d] = toPoint[d]
          /\ toPoint'[c] = toPoint[c] \/ toPoint'[c] = << >>
        <3>1. CASE toPoint' = toPoint
            BY <3>1 DEF IntroInv, IntroTypeOK
        <3>2. CASE toPoint' = [toPoint EXCEPT ![c] = << >>]
            BY <3>2 DEF IntroInv, IntroTypeOK
        <3> QED BY <3>1, <3>2 DEF CutCircuit
    <2> QED BY <2>1, <2>2
<1>3. Elements(toService'[c]) \subseteq Elements(toService[c]) /\ Orderly(toService'[c])
    BY <1>2, EmptyFacts DEF IntroInv, Acknowledging
<1>4. IntroTypeOK'
    BY <1>1, <1>2, <1>3 DEF IntroInv, IntroTypeOK, Message, CutCircuit, serviceVars, pointVars
<1>5. Opening'
    BY <1>1, <1>2, <1>3
    DEF IntroInv, IntroTypeOK, Opening, Circuits, CutCircuit, serviceVars, pointVars
<1>6. BeforeRegistration'
    BY <1>1, <1>2, <1>3
    DEF IntroInv, IntroTypeOK, BeforeRegistration, Past, Unused, CutCircuit, serviceVars, pointVars
<1>7. Ending'
    BY <1>1, <1>2, <1>3
    DEF IntroInv, IntroTypeOK, Ending, Pending, Unused, CutCircuit, serviceVars, pointVars
<1>8. Acknowledging'
    BY <1>1, <1>2, <1>3
    DEF IntroInv, IntroTypeOK, Acknowledging, Pending, CutCircuit, serviceVars, pointVars
<1>9. Told'
    BY <1>1, <1>2, <1>3
    DEF IntroInv, IntroTypeOK, Told, Displaced, Pending, Past, CutCircuit, serviceVars, pointVars
<1>10. Asking'
    BY <1>1, <1>2, <1>3 DEF IntroInv, IntroTypeOK, Asking, CutCircuit, serviceVars, pointVars
<1>11. AckFirst'
    BY <1>1, <1>2, <1>3
    DEF IntroInv, IntroTypeOK, AckFirst, NoEarly, CutCircuit, serviceVars, pointVars
<1>12. DeliveredAfterAck'
    <2>1. \A d \in Circuits : d \notin cutOff' => Elements(toService[d]) \subseteq Elements(toService'[d])
        BY <1>2 DEF CutCircuit
    <2>2. Asking /\ DeliveredAfterAck /\ intro' = intro /\ accepted' = accepted /\ current' = current
          /\ cutOff \subseteq cutOff'
        BY DEF IntroInv, CutCircuit, serviceVars
    <2> QED BY <2>1, <2>2, DeliveredKept
<1>13. Displacing'
    <2>1. \A d \in Circuits : \A m \in {"eof", "nack"} :
            m \in Elements(toService'[d]) => m \in Elements(toService[d])
        BY <1>2, <1>3
    <2>2. \A d \in Circuits : displaced[d] # NoCircuit => displaced[d] \in Circuits
        BY DEF IntroInv, IntroTypeOK
    <2> QED BY <2>1, <2>2 DEF IntroInv, IntroTypeOK, Displacing, Past, Pending, CutCircuit, serviceVars, pointVars
<1> QED BY <1>4, <1>5, <1>6, <1>7, <1>8, <1>9, <1>10, <1>11, <1>12, <1>13 DEF IntroInv

(* Every step preserves the invariant. *)
LEMMA IntroInvStep == IntroInv /\ [IntroNext]_introVars => IntroInv'
<1> SUFFICES ASSUME IntroInv, [IntroNext]_introVars PROVE IntroInv'
    OBVIOUS
<1>1. CASE Service
    BY <1>1, OpenCircuitStep, ReadAckStep, ReadAckFailsStep, ReadIntroductionStep,
       SessionEndsStep DEF Service
<1>2. CASE RestartService
    BY <1>2, RestartServiceStep
<1>3. ASSUME NEW c \in Circuits, Handler(c) PROVE IntroInv'
    BY <1>3, RegisterStep, CloseDisplacedStep, RefuseStep, EndArrivesStep, WriteAckStep, WriteAckFailsStep,
       WriteAckBlocksStep, HandlerEndsStep, WriteAckReleasedStep DEF Handler
<1>4. ASSUME NEW c \in Circuits, CutCircuit(c) \/ ExpireRegistration(c) PROVE IntroInv'
    BY <1>4, CutCircuitStep, ExpireRegistrationStep
<1>5. ASSUME NEW r \in Requests, Introduce(r) PROVE IntroInv'
    <2>1. CASE lookup(r)
        BY <2>1, LookupRefusedStep, LookupFoundStep
    <2>2. CASE forward(r)
        <3>1. intro[r].on \in Circuits
            BY <2>2 DEF IntroInv, Asking, forward
        <3> QED BY <2>2, <3>1, ForwardFailsStep, ForwardStep
    <2> QED BY <1>5, <2>1, <2>2, ForwardBlocksStep, ForwardReleasedStep DEF Introduce
<1>6. CASE UNCHANGED introVars
    <2> USE <1>6 DEF introVars
    <2>1. IntroTypeOK' /\ Opening' /\ Asking'
        BY DEF IntroInv, IntroTypeOK, Opening, Asking
    <2>2. BeforeRegistration' /\ Ending' /\ Acknowledging'
        BY DEF IntroInv, BeforeRegistration, Ending, Acknowledging, Past, Unused, Pending
    <2>3. Told' /\ Displacing' /\ AckFirst' /\ DeliveredAfterAck'
        BY DEF IntroInv, Told, Displaced, Displacing, AckFirst, DeliveredAfterAck, Past, NoEarly,
           Pending
    <2> QED BY <2>1, <2>2, <2>3 DEF IntroInv
<1> QED BY <1>1, <1>2, <1>3, <1>4, <1>5, <1>6 DEF IntroNext

(* The invariant holds of every state. *)
LEMMA IntroInvariant == IntroSpec => []IntroInv
<1>1. IntroInit => IntroInv
    BY IntroInitInv
<1>2. IntroInv /\ [IntroNext]_introVars => IntroInv'
    BY IntroInvStep
<1> QED BY <1>1, <1>2, PTL DEF IntroSpec

(* While a session works and its registration has not expired, the         *)
(* introduction point has that very registration, or has put another in    *)
(* its place and is about to close it (handleIntroRegister,                *)
(* maintainIntro): for any number of circuits, cuts, restarts, expiries    *)
(* and clients.                                                            *)
THEOREM SessionIsRegistered == IntroSpec => []SessionRegistered
<1>1. IntroInv => SessionRegistered
    <2> SUFFICES ASSUME IntroInv, NEW c \in Circuits, Serving(c), c \notin outdated
                 PROVE  registration = c \/ Displaced(c)
        BY DEF IntroInv, SessionRegistered
    <2>1. current = c /\ session = c /\ c \notin cutOff
        BY CircuitFacts DEF IntroInv, IntroTypeOK, Serving
    <2>2. Past(c)
        BY <2>1 DEF IntroInv, Acknowledging, Past
    <2> QED BY <2>1, <2>2 DEF IntroInv, Told, Serving
<1> QED BY <1>1, IntroInvariant, PTL

(* A request that handleIntroduce has acknowledged to its client is in the *)
(* hands of the service or on the circuit that it reads, unless that       *)
(* circuit is cut or a request overtook the acknowledgement on it.         *)
THEOREM RequestsAreDelivered == IntroSpec => []DeliveredAfterAck
<1>1. IntroInv => DeliveredAfterAck
    BY DEF IntroInv
<1> QED BY <1>1, IntroInvariant, PTL

(***************************************************************************)
(* Rendezvous.                                                             *)
(***************************************************************************)
(* What a sequence holds after a write. *)
LEMMA AppendElements ==
  ASSUME NEW S, NEW s \in Seq(S), NEW x \in S
  PROVE  Append(s, x) \in Seq(S) /\ Elements(Append(s, x)) = Elements(s) \cup {x}
<1> DEFINE t == Append(s, x)
<1>1. t \in Seq(S) /\ Len(t) = Len(s) + 1 /\ t[Len(t)] = x /\ Len(s) \in Nat
      /\ \A i \in 1..Len(s) : t[i] = s[i]
    OBVIOUS
<1> HIDE DEF t
<1>2. \A i \in 1..Len(t) : i \in 1..Len(s) \/ i = Len(t)
    BY <1>1
<1>3. 1..Len(s) \subseteq 1..Len(t) /\ Len(t) \in 1..Len(t)
    BY <1>1
<1>4. Elements(t) = Elements(s) \cup {x}
    BY <1>1, <1>2, <1>3 DEF Elements
<1> QED BY <1>1, <1>4 DEF t

(* What a sequence holds after a read. *)
LEMMA TailElements ==
  ASSUME NEW S, NEW s \in Seq(S), s # << >>
  PROVE  /\ Tail(s) \in Seq(S) /\ Head(s) \in S /\ Head(s) \in Elements(s)
         /\ Elements(Tail(s)) \subseteq Elements(s)
<1> DEFINE t == Tail(s)
<1>1. t \in Seq(S) /\ Len(s) = Len(t) + 1 /\ Len(t) \in Nat /\ Head(s) = s[1]
      /\ Head(s) \in S /\ \A i \in 1..Len(t) : t[i] = s[i + 1]
    OBVIOUS
<1> HIDE DEF t
<1>2. 1 \in 1..Len(s) /\ \A i \in 1..Len(t) : i + 1 \in 1..Len(s)
    BY <1>1
<1>3. Head(s) \in Elements(s) /\ Elements(t) \subseteq Elements(s)
    BY <1>1, <1>2 DEF Elements
<1> QED BY <1>1, <1>3 DEF t

-----------------------------------------------------------------------------
(* The inductive invariant.                                                *)

Cells == [from : Parties, what : {"hello", "ack", "data", "close"}]

(* The types of Meeting and of what it leaves open.                        *)
MeetShape ==
  /\ MeetTypeOK
  /\ link \in [Conns -> Seq(Cells)] /\ toParty \in [Parties -> Seq(Cells)]
  /\ closes \in [Parties -> Nat] /\ budget \in [Bounds -> Nat]

(* A party comes to the rendezvous once.                                   *)
Coming ==
  /\ cl = "new" => handler[Client] = "none"
  /\ \A a \in Points : service[a].pc \in {"none", "requested"} => handler[a] = "none"
  /\ \A a \in Points : a > tried => service[a].pc = "none"

(* What a handler holds: a party that proxyBoth copies for has the handler *)
(* of its partner waiting, and w.done is then open.                        *)
Handling ==
  \A p \in Parties :
    /\ handler[p] \in {"none", "hello"} => partner[p] = None /\ closes[p] = 0
    /\ p \in copying => partner[p] # None
    /\ handler[p] = "proxy" =>
         partner[p] # None /\ handler[partner[p]] = "waiting" /\ closes[partner[p]] = 0

(* The run of acceptIntroduction that wrote c has come this far.           *)
Answered(c) == c.from \in Points /\ service[c.from].pc \notin {"none", "requested"}

(* An acknowledgement comes from a run that has come to the rendezvous,    *)
(* and what a party reads comes from its partner.                          *)
Carried ==
  /\ \A k \in Conns : \A c \in Elements(link[k]) : c.what = "ack" => Answered(c)
  /\ \A p \in Parties : \A c \in Elements(toParty[p]) : c.what # "close" =>
       c.from = partner[p] /\ (c.what = "ack" => Answered(c))

MeetInv ==
  MeetShape /\ DoneOnce /\ Pairing /\ SameSession /\ Coming /\ Handling /\ Carried

-----------------------------------------------------------------------------
(* What steps share.                                                       *)

(* Nothing is carried that was not before, but what the step itself may    *)
(* write.                                                                  *)
CellsKept ==
  /\ \A k \in Conns : \A c \in Elements(link'[k]) :
       c \in Elements(link[k]) \/ c.what # "ack" \/ Answered(c)'
  /\ \A p \in Parties : \A c \in Elements(toParty'[p]) :
       c \in Elements(toParty[p]) \/ c.what = "close"

ServiceKept == \A a \in Points :
  service[a].pc \notin {"none", "requested"} => service'[a].pc \notin {"none", "requested"}

PartnersKept == \A p \in Parties : partner[p] # None => partner'[p] = partner[p]

(* The parties of the model. *)
LEMMA PartyFacts ==
  /\ Client \in Parties /\ Client \notin Points /\ None \notin Parties /\ None \notin Points
  /\ Points \subseteq Parties /\ Points \subseteq Nat
  /\ \A p \in Parties : p \in Points \/ p = Client
BY PartiesAssumption DEF Parties, Points

(* A sequence holds members of its set. *)
LEMMA ElementsTyped == ASSUME NEW S, NEW s \in Seq(S) PROVE Elements(s) \subseteq S
BY DEF Elements

(* An empty sequence holds nothing. *)
LEMMA NoElements == Elements(<< >>) = {}
BY DEF Elements

(* What is carried stays as it should while nothing is added to it. *)
LEMMA CarriedStep ==
  ASSUME MeetShape, Carried, CellsKept, ServiceKept, PartnersKept
  PROVE  Carried'
<1>1. \A k \in Conns : Elements(link[k]) \subseteq Cells
    BY ElementsTyped DEF MeetShape
<1>2. \A p \in Parties : Elements(toParty[p]) \subseteq Cells
    BY ElementsTyped DEF MeetShape
<1>3. \A c : Answered(c) => Answered(c)'
    BY DEF Answered, ServiceKept
<1>4. \A k \in Conns : \A c \in Elements(link'[k]) : c.what = "ack" => Answered(c)'
    BY <1>3 DEF Carried, CellsKept
<1>5. ASSUME NEW p \in Parties, NEW c \in Elements(toParty'[p]), c.what # "close"
      PROVE  c.from = partner'[p] /\ (c.what = "ack" => Answered(c)')
    <2>1. c \in Elements(toParty[p]) /\ c.from \in Parties
        BY <1>2, <1>5 DEF CellsKept, Cells
    <2>2. c.from = partner[p] /\ (c.what = "ack" => Answered(c))
        BY <1>5, <2>1 DEF Carried
    <2>3. partner'[p] = partner[p]
        BY <2>1, <2>2, PartyFacts DEF PartnersKept
    <2> QED BY <1>3, <2>2, <2>3
<1> QED BY <1>4, <1>5 DEF Carried

(* A session keeps its keys. *)
LEMMA SessionStep ==
  ASSUME MeetShape, SameSession, key' = key, ServiceKept, PartnersKept
  PROVE  SameSession'
BY PartyFacts DEF MeetShape, MeetTypeOK, SameSession, ServiceKept, PartnersKept

(* A step of an end, which leaves the rendezvous node alone. *)
LEMMA NodeKept ==
  ASSUME MeetInv, UNCHANGED <<exit, pipe, handler, waiting, partner, copying, closes>>
  PROVE  DoneOnce' /\ Pairing' /\ Handling' /\ PartnersKept
BY DEF MeetInv, DoneOnce, Pairing, Handling, PartnersKept, Role

(* What a party writes on its circuit. *)
LEMMA SentFacts ==
  ASSUME MeetShape, NEW p \in Parties, NEW what \in {"hello", "ack", "data", "close"},
         link' = Sent(p, what)
  PROVE  /\ link' \in [Conns -> Seq(Cells)]
         /\ \A k \in Conns : Elements(link'[k]) \subseteq Elements(link[k]) \cup {Cell(p, what)}
<1>1. Cell(p, what) \in Cells /\ via[p] \in Conns /\ link[via[p]] \in Seq(Cells)
    BY DEF Cell, Cells, MeetShape, MeetTypeOK
<1>2. CASE p \in cut
    BY <1>2 DEF Sent, MeetShape
<1>3. CASE p \notin cut
    <2>1. link' = [link EXCEPT ![via[p]] = Append(@, Cell(p, what))]
        BY <1>3 DEF Sent
    <2>2. /\ Append(link[via[p]], Cell(p, what)) \in Seq(Cells)
          /\ Elements(Append(link[via[p]], Cell(p, what)))
               = Elements(link[via[p]]) \cup {Cell(p, what)}
        BY <1>1, AppendElements
    <2>3. \A k \in Conns : k # via[p] => link'[k] = link[k]
        BY <2>1 DEF MeetShape
    <2>4. link'[via[p]] = Append(link[via[p]], Cell(p, what))
        BY <1>1, <2>1 DEF MeetShape
    <2>5. link' \in [Conns -> Seq(Cells)]
        BY <2>1, <2>2 DEF MeetShape
    <2> QED BY <2>2, <2>3, <2>4, <2>5
<1> QED BY <1>2, <1>3

(* What the reader of a connection takes. *)
LEMMA ArrivedFacts ==
  ASSUME MeetShape, NEW k \in Conns, NEW p \in Parties, Arrived(k, p)
  PROVE  /\ link' \in [Conns -> Seq(Cells)]
         /\ \A j \in Conns : Elements(link'[j]) \subseteq Elements(link[j])
         /\ Head(link[k]) \in Elements(link[k]) /\ Head(link[k]) \in Cells
         /\ Head(link[k]).from = p
<1>1. link[k] \in Seq(Cells) /\ link[k] # << >>
    BY DEF MeetShape, Arrived
<1>2. /\ Tail(link[k]) \in Seq(Cells) /\ Head(link[k]) \in Cells
      /\ Head(link[k]) \in Elements(link[k])
      /\ Elements(Tail(link[k])) \subseteq Elements(link[k])
    BY <1>1, TailElements
<1>3. \A j \in Conns : j # k => link'[j] = link[j]
    BY DEF MeetShape, Arrived
<1>4. link'[k] = Tail(link[k]) /\ link' \in [Conns -> Seq(Cells)]
    BY <1>2 DEF MeetShape, Arrived
<1> QED BY <1>2, <1>3, <1>4 DEF Arrived

(* What the pump of a circuit passes on. *)
LEMMA UpFacts ==
  ASSUME MeetShape, NEW p \in Parties, NEW c \in Cells, toParty' = Up(p, c)
  PROVE  /\ toParty' \in [Parties -> Seq(Cells)]
         /\ \A q \in Parties : q # p => toParty'[q] = toParty[q]
         /\ Elements(toParty'[p]) \subseteq Elements(toParty[p]) \cup {c}
<1>1. toParty[p] \in Seq(Cells)
    BY DEF MeetShape
<1>2. CASE p \in cut
    BY <1>2 DEF Up, MeetShape
<1>3. CASE p \notin cut
    <2>1. toParty' = [toParty EXCEPT ![p] = Append(@, c)]
        BY <1>3 DEF Up
    <2>2. /\ Append(toParty[p], c) \in Seq(Cells)
          /\ Elements(Append(toParty[p], c)) = Elements(toParty[p]) \cup {c}
        BY <1>1, AppendElements
    <2>3. toParty'[p] = Append(toParty[p], c) /\ \A q \in Parties : q # p => toParty'[q] = toParty[q]
        BY <2>1 DEF MeetShape
    <2>4. toParty' \in [Parties -> Seq(Cells)]
        BY <2>1, <2>2 DEF MeetShape
    <2> QED BY <2>2, <2>3, <2>4
<1> QED BY <1>2, <1>3

(* What an end reads. *)
LEMMA ReadFacts ==
  ASSUME MeetShape, NEW p \in Parties, toParty[p] # << >>,
         toParty' = [toParty EXCEPT ![p] = Tail(@)]
  PROVE  /\ toParty' \in [Parties -> Seq(Cells)]
         /\ \A q \in Parties : Elements(toParty'[q]) \subseteq Elements(toParty[q])
         /\ Head(toParty[p]) \in Elements(toParty[p]) /\ Head(toParty[p]) \in Cells
<1>1. toParty[p] \in Seq(Cells)
    BY DEF MeetShape
<1>2. /\ Tail(toParty[p]) \in Seq(Cells) /\ Head(toParty[p]) \in Cells
      /\ Head(toParty[p]) \in Elements(toParty[p])
      /\ Elements(Tail(toParty[p])) \subseteq Elements(toParty[p])
    BY <1>1, TailElements
<1>3. toParty'[p] = Tail(toParty[p]) /\ \A q \in Parties : q # p => toParty'[q] = toParty[q]
    BY DEF MeetShape
<1>4. toParty' \in [Parties -> Seq(Cells)]
    BY <1>2 DEF MeetShape
<1> QED BY <1>2, <1>3, <1>4

(* A bound that is spent stays a number. *)
LEMMA SpendFacts ==
  ASSUME MeetShape, NEW what \in Bounds, Spend(what)
  PROVE  budget' \in [Bounds -> Nat]
BY DEF MeetShape, Spend

-----------------------------------------------------------------------------
(* The steps of the client.                                                *)

(* The client comes. *)
LEMMA ClientHelloStep ==
  ASSUME MeetInv, clientHello
  PROVE  MeetInv'
<1>1. /\ link' \in [Conns -> Seq(Cells)]
      /\ \A k \in Conns : Elements(link'[k]) \subseteq Elements(link[k]) \cup {Cell(Client, "hello")}
    BY SentFacts, PartyFacts DEF MeetInv, clientHello
<1>2. MeetShape'
    BY <1>1, PartyFacts
    DEF MeetInv, MeetShape, MeetTypeOK, clientHello, openInternalEndpoint, endVars, meetVars
<1>3. DoneOnce' /\ Pairing' /\ Handling' /\ PartnersKept
    <2>1. handler[Client] = "none"
        BY PartyFacts DEF MeetInv, Coming, clientHello
    <2>2. handler' = [handler EXCEPT ![Client] = "hello"] /\ pipe' = [pipe EXCEPT ![Client] = TRUE]
          /\ exit' = [exit EXCEPT ![Client] = "open"]
          /\ UNCHANGED <<waiting, partner, copying, closes>>
        BY DEF clientHello, openInternalEndpoint
    <2>3. waiting # Client /\ partner[Client] = None /\ closes[Client] = 0 /\ Client \in Parties
        BY <2>1, PartyFacts DEF MeetInv, Handling, Pairing
    <2>4. DoneOnce' /\ PartnersKept
        BY <2>2 DEF MeetInv, DoneOnce, PartnersKept
    <2>5. Pairing'
        BY <2>2, <2>3, PartyFacts DEF MeetInv, MeetShape, MeetTypeOK, Pairing, Role
    <2>6. Handling'
        BY <2>1, <2>2, <2>3, PartyFacts DEF MeetInv, MeetShape, MeetTypeOK, Handling
    <2> QED BY <2>4, <2>5, <2>6
<1>4. Coming'
    BY <1>1, PartyFacts DEF MeetInv, MeetShape, MeetTypeOK, Coming, clientHello,
       openInternalEndpoint, endVars, meetVars
<1>5. ServiceKept
    BY <1>1, PartyFacts DEF MeetInv, MeetShape, MeetTypeOK, ServiceKept, clientHello,
       openInternalEndpoint, endVars, meetVars
<1>6. CellsKept
    BY <1>1, PartyFacts DEF CellsKept, Cell, clientHello, openInternalEndpoint, endVars, meetVars
<1>7. SameSession'
    BY <1>3, <1>5, SessionStep DEF MeetInv, clientHello, openInternalEndpoint, endVars, meetVars
<1> QED BY <1>2, <1>3, <1>4, <1>5, <1>6, <1>7, CarriedStep DEF MeetInv

(* A request is forwarded to the service. *)
LEMMA IntroduceStep ==
  ASSUME MeetInv, NEW a \in Points, introduce(a)
  PROVE  MeetInv'
<1>1. budget' \in [Bounds -> Nat]
    BY SpendFacts DEF MeetInv, MeetShape, Bounds, introduce
<1>2. /\ service[a].pc = "none" /\ service'[a].pc = "requested"
      /\ \A b \in Points : b # a => service'[b] = service[b]
    BY DEF MeetInv, MeetShape, MeetTypeOK, Coming, Points, introduce
<1>3. service' \in [Points -> ServiceRun]
    BY DEF ServiceRun, MeetInv, MeetShape, MeetTypeOK, introduce
<1>4. tried' \in 0..N /\ tried' = tried + 1
    BY PartiesAssumption DEF MeetInv, MeetShape, MeetTypeOK, Points, introduce
<1>5. MeetShape'
    BY <1>1, <1>2, <1>3, <1>4, PartyFacts
    DEF MeetInv, MeetShape, MeetTypeOK, introduce, endVars, meetVars
<1>6. DoneOnce' /\ Pairing' /\ Handling' /\ PartnersKept
    BY NodeKept DEF introduce, endVars, meetVars
<1>7. Coming'
    BY <1>1, <1>2, <1>3, <1>4, PartyFacts
    DEF MeetInv, MeetShape, MeetTypeOK, Coming, introduce, endVars, meetVars
<1>8. ServiceKept
    BY <1>1, <1>2, <1>3, <1>4, PartyFacts
    DEF MeetInv, MeetShape, MeetTypeOK, ServiceKept, introduce, endVars, meetVars
<1>9. CellsKept
    BY <1>1, <1>2, <1>3, <1>4, PartyFacts DEF CellsKept, Cell, introduce, endVars, meetVars
<1>10. SameSession'
    BY <1>6, <1>8, SessionStep DEF MeetInv, introduce, endVars, meetVars
<1> QED BY <1>5, <1>6, <1>7, <1>8, <1>9, <1>10, CarriedStep DEF MeetInv

(* A request is not forwarded. *)
LEMMA IntroduceFailsStep ==
  ASSUME MeetInv, NEW a \in Points, introduceFails(a)
  PROVE  MeetInv'
<1>1. budget' \in [Bounds -> Nat]
    BY SpendFacts DEF MeetInv, Bounds, introduceFails
<1>2. tried' \in 0..N /\ tried' = tried + 1 /\ tried \in Nat
    BY PartiesAssumption DEF MeetInv, MeetShape, MeetTypeOK, Points, introduceFails
<1>3. MeetShape'
    BY <1>1, <1>2, PartyFacts DEF MeetInv, MeetShape, MeetTypeOK, introduceFails, endVars, meetVars
<1>4. DoneOnce' /\ Pairing' /\ Handling' /\ PartnersKept
    BY NodeKept DEF introduceFails, endVars, meetVars
<1>5. Coming'
    <2>1. Coming /\ UNCHANGED <<cl, handler, service>>
        BY DEF MeetInv, introduceFails, meetVars
    <2>2. \A x \in Points : x > tried' => x > tried
        BY <1>2, PartyFacts
    <2> QED BY <2>1, <2>2 DEF Coming
<1>6. ServiceKept
    BY <1>1, <1>2, PartyFacts
    DEF MeetInv, MeetShape, MeetTypeOK, ServiceKept, introduceFails, endVars, meetVars
<1>7. CellsKept
    BY <1>1, <1>2, PartyFacts DEF CellsKept, Cell, introduceFails, endVars, meetVars
<1>8. SameSession'
    BY <1>4, <1>6, SessionStep DEF MeetInv, introduceFails, endVars, meetVars
<1> QED BY <1>3, <1>4, <1>5, <1>6, <1>7, <1>8, CarriedStep DEF MeetInv

(* No request was forwarded. *)
LEMMA NotIntroducedStep ==
  ASSUME MeetInv, notIntroduced
  PROVE  MeetInv'
<1>1. /\ link' \in [Conns -> Seq(Cells)]
      /\ \A k \in Conns : Elements(link'[k]) \subseteq Elements(link[k]) \cup {Cell(Client, "close")}
    BY SentFacts, PartyFacts DEF MeetInv, notIntroduced
<1>2. MeetShape'
    BY <1>1, PartyFacts DEF MeetInv, MeetShape, MeetTypeOK, notIntroduced, endVars, meetVars
<1>3. DoneOnce' /\ Pairing' /\ Handling' /\ PartnersKept
    BY NodeKept DEF notIntroduced, endVars, meetVars
<1>4. Coming'
    BY <1>1, PartyFacts DEF MeetInv, MeetShape, MeetTypeOK, Coming, notIntroduced, endVars, meetVars
<1>5. ServiceKept
    BY <1>1, PartyFacts
    DEF MeetInv, MeetShape, MeetTypeOK, ServiceKept, notIntroduced, endVars, meetVars
<1>6. CellsKept
    BY <1>1, PartyFacts DEF CellsKept, Cell, notIntroduced, endVars, meetVars
<1>7. SameSession'
    BY <1>3, <1>5, SessionStep DEF MeetInv, notIntroduced, endVars, meetVars
<1> QED BY <1>2, <1>3, <1>4, <1>5, <1>6, <1>7, CarriedStep DEF MeetInv

(* The client reads the acknowledgement, or something else. *)
LEMMA ReadServiceAckStep ==
  ASSUME MeetInv, readServiceAck
  PROVE  MeetInv'
<1>1. /\ toParty' \in [Parties -> Seq(Cells)]
      /\ \A q \in Parties : Elements(toParty'[q]) \subseteq Elements(toParty[q])
      /\ Head(toParty[Client]) \in Elements(toParty[Client]) /\ Head(toParty[Client]) \in Cells
    BY ReadFacts, PartyFacts DEF MeetInv, readServiceAck
<1>2. /\ link' \in [Conns -> Seq(Cells)]
      /\ \A k \in Conns : Elements(link'[k]) \subseteq Elements(link[k]) \cup {Cell(Client, "close")}
    BY SentFacts, PartyFacts DEF MeetInv, MeetShape, readServiceAck
<1>3. key' = key \/ (key' = partner[Client] /\ key' \in Points
                       /\ service[key'].pc \notin {"none", "requested"})
    BY <1>1, PartyFacts DEF MeetInv, Carried, Answered, readServiceAck, verifyServiceAck
<1>4. MeetShape'
    BY <1>1, <1>2, <1>3, PartyFacts
    DEF MeetInv, MeetShape, MeetTypeOK, readServiceAck, endVars, meetVars
<1>5. DoneOnce' /\ Pairing' /\ Handling' /\ PartnersKept
    BY NodeKept DEF readServiceAck, endVars, meetVars
<1>6. Coming'
    BY <1>1, <1>2, <1>3, PartyFacts
    DEF MeetInv, MeetShape, MeetTypeOK, Coming, readServiceAck, endVars, meetVars
<1>7. ServiceKept
    BY <1>1, <1>2, <1>3, PartyFacts
    DEF MeetInv, MeetShape, MeetTypeOK, ServiceKept, readServiceAck, endVars, meetVars
<1>8. CellsKept
    BY <1>1, <1>2, <1>3, PartyFacts DEF CellsKept, Cell, readServiceAck, endVars, meetVars
<1>9. SameSession'
    <2>1. CASE key' = key
        BY <1>5, <1>7, <2>1, SessionStep DEF MeetInv
    <2>2. CASE key' # key
        BY <1>3, <2>2 DEF SameSession, readServiceAck, meetVars
    <2> QED BY <2>1, <2>2
<1> QED BY <1>4, <1>5, <1>6, <1>7, <1>8, <1>9, CarriedStep DEF MeetInv

(* The caller reads. *)
LEMMA ClientReadStep ==
  ASSUME MeetInv, clientRead
  PROVE  MeetInv'
<1>1. /\ toParty' \in [Parties -> Seq(Cells)]
      /\ \A q \in Parties : Elements(toParty'[q]) \subseteq Elements(toParty[q])
      /\ Head(toParty[Client]) \in Elements(toParty[Client]) /\ Head(toParty[Client]) \in Cells
    BY ReadFacts, PartyFacts DEF MeetInv, clientRead
<1>2. MeetShape'
    BY <1>1, PartyFacts DEF MeetInv, MeetShape, MeetTypeOK, clientRead, endVars, meetVars
<1>3. DoneOnce' /\ Pairing' /\ Handling' /\ PartnersKept
    BY NodeKept DEF clientRead, endVars, meetVars
<1>4. Coming'
    BY <1>1, PartyFacts DEF MeetInv, MeetShape, MeetTypeOK, Coming, clientRead, endVars, meetVars
<1>5. ServiceKept
    BY <1>1, PartyFacts
    DEF MeetInv, MeetShape, MeetTypeOK, ServiceKept, clientRead, endVars, meetVars
<1>6. CellsKept
    BY <1>1, PartyFacts DEF CellsKept, Cell, clientRead, endVars, meetVars
<1>7. SameSession'
    BY <1>3, <1>5, SessionStep DEF MeetInv, clientRead, endVars, meetVars
<1> QED BY <1>2, <1>3, <1>4, <1>5, <1>6, <1>7, CarriedStep DEF MeetInv

(* The caller writes. *)
LEMMA ClientWriteStep ==
  ASSUME MeetInv, clientWrite
  PROVE  MeetInv'
<1>1. /\ link' \in [Conns -> Seq(Cells)]
      /\ \A k \in Conns : Elements(link'[k]) \subseteq Elements(link[k]) \cup {Cell(Client, "data")}
    BY SentFacts, PartyFacts DEF MeetInv, clientWrite
<1>2. budget' \in [Bounds -> Nat]
    BY SpendFacts DEF MeetInv, Bounds, clientWrite
<1>3. MeetShape'
    BY <1>1, <1>2, PartyFacts DEF MeetInv, MeetShape, MeetTypeOK, clientWrite, endVars, meetVars
<1>4. DoneOnce' /\ Pairing' /\ Handling' /\ PartnersKept
    BY NodeKept DEF clientWrite, endVars, meetVars
<1>5. Coming'
    BY <1>1, <1>2, PartyFacts
    DEF MeetInv, MeetShape, MeetTypeOK, Coming, clientWrite, endVars, meetVars
<1>6. ServiceKept
    BY <1>1, <1>2, PartyFacts
    DEF MeetInv, MeetShape, MeetTypeOK, ServiceKept, clientWrite, endVars, meetVars
<1>7. CellsKept
    BY <1>1, <1>2, PartyFacts DEF CellsKept, Cell, clientWrite, endVars, meetVars
<1>8. SameSession'
    BY <1>4, <1>6, SessionStep DEF MeetInv, clientWrite, endVars, meetVars
<1> QED BY <1>3, <1>4, <1>5, <1>6, <1>7, <1>8, CarriedStep DEF MeetInv

(* The caller closes. *)
LEMMA ClientCloseStep ==
  ASSUME MeetInv, clientClose
  PROVE  MeetInv'
<1>1. /\ link' \in [Conns -> Seq(Cells)]
      /\ \A k \in Conns : Elements(link'[k]) \subseteq Elements(link[k]) \cup {Cell(Client, "close")}
    BY SentFacts, PartyFacts DEF MeetInv, clientClose
<1>2. MeetShape'
    BY <1>1, PartyFacts DEF MeetInv, MeetShape, MeetTypeOK, clientClose, endVars, meetVars
<1>3. DoneOnce' /\ Pairing' /\ Handling' /\ PartnersKept
    BY NodeKept DEF clientClose, endVars, meetVars
<1>4. Coming'
    BY <1>1, PartyFacts DEF MeetInv, MeetShape, MeetTypeOK, Coming, clientClose, endVars, meetVars
<1>5. ServiceKept
    BY <1>1, PartyFacts
    DEF MeetInv, MeetShape, MeetTypeOK, ServiceKept, clientClose, endVars, meetVars
<1>6. CellsKept
    BY <1>1, PartyFacts DEF CellsKept, Cell, clientClose, endVars, meetVars
<1>7. SameSession'
    BY <1>3, <1>5, SessionStep DEF MeetInv, clientClose, endVars, meetVars
<1> QED BY <1>2, <1>3, <1>4, <1>5, <1>6, <1>7, CarriedStep DEF MeetInv

-----------------------------------------------------------------------------
(* The steps of the service.                                               *)

(* The service comes. *)
LEMMA AcceptIntroductionStep ==
  ASSUME MeetInv, NEW a \in Points, acceptIntroduction(a)
  PROVE  MeetInv'
<1>1. /\ link' \in [Conns -> Seq(Cells)]
      /\ \A k \in Conns : Elements(link'[k]) \subseteq Elements(link[k]) \cup {Cell(a, "hello")}
    BY SentFacts, PartyFacts DEF MeetInv, acceptIntroduction
<1>2. service' \in [Points -> ServiceRun]
    BY DEF ServiceRun, MeetInv, MeetShape, MeetTypeOK, acceptIntroduction
<1>3. MeetShape'
    BY <1>1, <1>2, PartyFacts
    DEF MeetInv, MeetShape, MeetTypeOK, acceptIntroduction, openInternalEndpoint, endVars, meetVars
<1>4. DoneOnce' /\ Pairing' /\ Handling' /\ PartnersKept
    <2>1. handler[a] = "none"
        BY PartyFacts DEF MeetInv, Coming, acceptIntroduction
    <2>2. handler' = [handler EXCEPT ![a] = "hello"] /\ pipe' = [pipe EXCEPT ![a] = TRUE]
          /\ exit' = [exit EXCEPT ![a] = "open"]
          /\ UNCHANGED <<waiting, partner, copying, closes>>
        BY DEF acceptIntroduction, openInternalEndpoint
    <2>3. waiting # a /\ partner[a] = None /\ closes[a] = 0 /\ a \in Parties
        BY <2>1, PartyFacts DEF MeetInv, Handling, Pairing
    <2>4. DoneOnce' /\ PartnersKept
        BY <2>2 DEF MeetInv, DoneOnce, PartnersKept
    <2>5. Pairing'
        BY <2>2, <2>3, PartyFacts DEF MeetInv, MeetShape, MeetTypeOK, Pairing, Role
    <2>6. Handling'
        BY <2>1, <2>2, <2>3, PartyFacts DEF MeetInv, MeetShape, MeetTypeOK, Handling
    <2> QED BY <2>4, <2>5, <2>6
<1>5. Coming'
    BY <1>1, <1>2, PartyFacts DEF MeetInv, MeetShape, MeetTypeOK, Coming, acceptIntroduction,
       openInternalEndpoint, endVars, meetVars
<1>6. ServiceKept
    BY <1>1, <1>2, PartyFacts DEF MeetInv, MeetShape, MeetTypeOK, ServiceKept, acceptIntroduction,
       openInternalEndpoint, endVars, meetVars
<1>7. CellsKept
    BY <1>1, <1>2, PartyFacts
    DEF CellsKept, Cell, acceptIntroduction, openInternalEndpoint, endVars, meetVars
<1>8. SameSession'
    BY <1>4, <1>6, SessionStep
    DEF MeetInv, acceptIntroduction, openInternalEndpoint, endVars, meetVars
<1> QED BY <1>3, <1>4, <1>5, <1>6, <1>7, <1>8, CarriedStep DEF MeetInv

(* The service does not come. *)
LEMMA AcceptFailsStep ==
  ASSUME MeetInv, NEW a \in Points, acceptFails(a)
  PROVE  MeetInv'
<1>1. budget' \in [Bounds -> Nat]
    BY SpendFacts DEF MeetInv, Bounds, acceptFails
<1>2. service' \in [Points -> ServiceRun]
    BY DEF ServiceRun, MeetInv, MeetShape, MeetTypeOK, acceptFails
<1>3. MeetShape'
    BY <1>1, <1>2, PartyFacts DEF MeetInv, MeetShape, MeetTypeOK, acceptFails, endVars, meetVars
<1>4. DoneOnce' /\ Pairing' /\ Handling' /\ PartnersKept
    BY NodeKept DEF acceptFails, endVars, meetVars
<1>5. Coming'
    BY <1>1, <1>2, PartyFacts
    DEF MeetInv, MeetShape, MeetTypeOK, Coming, acceptFails, endVars, meetVars
<1>6. ServiceKept
    BY <1>1, <1>2, PartyFacts
    DEF MeetInv, MeetShape, MeetTypeOK, ServiceKept, acceptFails, endVars, meetVars
<1>7. CellsKept
    BY <1>1, <1>2, PartyFacts DEF CellsKept, Cell, acceptFails, endVars, meetVars
<1>8. SameSession'
    BY <1>4, <1>6, SessionStep DEF MeetInv, acceptFails, endVars, meetVars
<1> QED BY <1>3, <1>4, <1>5, <1>6, <1>7, <1>8, CarriedStep DEF MeetInv

(* The service acknowledges. *)
LEMMA WriteServiceAckStep ==
  ASSUME MeetInv, NEW a \in Points, writeServiceAck(a)
  PROVE  MeetInv'
<1>1. /\ link' \in [Conns -> Seq(Cells)]
      /\ \A k \in Conns : Elements(link'[k]) \subseteq Elements(link[k]) \cup {Cell(a, "ack")}
    BY SentFacts, PartyFacts DEF MeetInv, writeServiceAck
<1>2. service'[a].pc = "dial" /\ \A b \in Points : b # a => service'[b] = service[b]
    BY DEF MeetInv, MeetShape, MeetTypeOK, writeServiceAck
<1>3. service' \in [Points -> ServiceRun]
    BY DEF ServiceRun, MeetInv, MeetShape, MeetTypeOK, writeServiceAck
<1>4. MeetShape'
    BY <1>1, <1>2, <1>3, PartyFacts
    DEF MeetInv, MeetShape, MeetTypeOK, writeServiceAck, endVars, meetVars
<1>5. DoneOnce' /\ Pairing' /\ Handling' /\ PartnersKept
    BY NodeKept DEF writeServiceAck, endVars, meetVars
<1>6. Coming'
    BY <1>1, <1>2, <1>3, PartyFacts
    DEF MeetInv, MeetShape, MeetTypeOK, Coming, writeServiceAck, endVars, meetVars
<1>7. ServiceKept
    BY <1>1, <1>2, <1>3, PartyFacts
    DEF MeetInv, MeetShape, MeetTypeOK, ServiceKept, writeServiceAck, endVars, meetVars
<1>8. CellsKept
    BY <1>1, <1>2 DEF CellsKept, Cell, Answered, writeServiceAck
<1>9. SameSession'
    BY <1>5, <1>7, SessionStep DEF MeetInv, writeServiceAck, endVars, meetVars
<1> QED BY <1>4, <1>5, <1>6, <1>7, <1>8, <1>9, CarriedStep DEF MeetInv

(* The target is dialled. *)
LEMMA DialServiceTargetStep ==
  ASSUME MeetInv, NEW a \in Points, dialServiceTarget(a)
  PROVE  MeetInv'
<1>1. /\ link' \in [Conns -> Seq(Cells)]
      /\ \A k \in Conns : Elements(link'[k]) \subseteq Elements(link[k]) \cup {Cell(a, "close")}
    BY SentFacts, PartyFacts DEF MeetInv, MeetShape, dialServiceTarget
<1>2. budget' \in [Bounds -> Nat]
    BY SpendFacts DEF MeetInv, MeetShape, Bounds, dialServiceTarget
<1>3. /\ service' \in [Points -> ServiceRun]
      /\ service'[a].pc \in {"proxy", "ended"} /\ service[a].pc = "dial"
      /\ \A b \in Points : b # a => service'[b] = service[b]
    <2>1. CASE service' = [service EXCEPT ![a] = [pc |-> "proxy", reading |-> TRUE, target |-> "up"]]
        BY <2>1 DEF ServiceRun, MeetInv, MeetShape, MeetTypeOK, dialServiceTarget
    <2>2. CASE service' = [service EXCEPT ![a].pc = "ended"]
        BY <2>2 DEF ServiceRun, MeetInv, MeetShape, MeetTypeOK, dialServiceTarget
    <2> QED BY <2>1, <2>2 DEF dialServiceTarget
<1>4. MeetShape'
    BY <1>1, <1>2, <1>3, PartyFacts
    DEF MeetInv, MeetShape, MeetTypeOK, dialServiceTarget, endVars, meetVars
<1>5. DoneOnce' /\ Pairing' /\ Handling' /\ PartnersKept
    BY NodeKept DEF dialServiceTarget, endVars, meetVars
<1>6. Coming'
    <2>1. ~(a > tried)
        BY DEF MeetInv, Coming, dialServiceTarget
    <2>2. /\ \A b \in Points : b # a => service'[b] = service[b]
          /\ service'[a].pc \notin {"none", "requested"}
        BY <1>3 DEF MeetInv, MeetShape, MeetTypeOK, dialServiceTarget
    <2> QED BY <2>1, <2>2 DEF MeetInv, Coming, dialServiceTarget, meetVars
<1>7. ServiceKept
    BY <1>1, <1>2, <1>3, PartyFacts
    DEF MeetInv, MeetShape, MeetTypeOK, ServiceKept, dialServiceTarget, endVars, meetVars
<1>8. CellsKept
    BY <1>1, <1>2, <1>3, PartyFacts DEF CellsKept, Cell, dialServiceTarget, endVars, meetVars
<1>9. SameSession'
    BY <1>5, <1>7, SessionStep DEF MeetInv, dialServiceTarget, endVars, meetVars
<1> QED BY <1>4, <1>5, <1>6, <1>7, <1>8, <1>9, CarriedStep DEF MeetInv

(* The target writes. *)
LEMMA TargetWritesStep ==
  ASSUME MeetInv, NEW a \in Points, targetWrites(a)
  PROVE  MeetInv'
<1>1. /\ link' \in [Conns -> Seq(Cells)]
      /\ \A k \in Conns : Elements(link'[k]) \subseteq Elements(link[k]) \cup {Cell(a, "data")}
    BY SentFacts, PartyFacts DEF MeetInv, targetWrites
<1>2. budget' \in [Bounds -> Nat]
    BY SpendFacts DEF MeetInv, Bounds, targetWrites
<1>3. MeetShape'
    BY <1>1, <1>2, PartyFacts DEF MeetInv, MeetShape, MeetTypeOK, targetWrites, endVars, meetVars
<1>4. DoneOnce' /\ Pairing' /\ Handling' /\ PartnersKept
    BY NodeKept DEF targetWrites, endVars, meetVars
<1>5. Coming'
    BY <1>1, <1>2, PartyFacts
    DEF MeetInv, MeetShape, MeetTypeOK, Coming, targetWrites, endVars, meetVars
<1>6. ServiceKept
    BY <1>1, <1>2, PartyFacts
    DEF MeetInv, MeetShape, MeetTypeOK, ServiceKept, targetWrites, endVars, meetVars
<1>7. CellsKept
    BY <1>1, <1>2, PartyFacts DEF CellsKept, Cell, targetWrites, endVars, meetVars
<1>8. SameSession'
    BY <1>4, <1>6, SessionStep DEF MeetInv, targetWrites, endVars, meetVars
<1> QED BY <1>3, <1>4, <1>5, <1>6, <1>7, <1>8, CarriedStep DEF MeetInv

(* The target ends. *)
LEMMA TargetEndsStep ==
  ASSUME MeetInv, NEW a \in Points, targetEnds(a)
  PROVE  MeetInv'
<1>1. budget' \in [Bounds -> Nat]
    BY SpendFacts DEF MeetInv, MeetShape, Bounds, targetEnds
<1>2. service' \in [Points -> ServiceRun]
    BY DEF ServiceRun, MeetInv, MeetShape, MeetTypeOK, targetEnds
<1>3. MeetShape'
    BY <1>1, <1>2, PartyFacts DEF MeetInv, MeetShape, MeetTypeOK, targetEnds, endVars, meetVars
<1>4. DoneOnce' /\ Pairing' /\ Handling' /\ PartnersKept
    BY NodeKept DEF targetEnds, endVars, meetVars
<1>5. Coming'
    BY <1>1, <1>2, PartyFacts
    DEF MeetInv, MeetShape, MeetTypeOK, Coming, targetEnds, endVars, meetVars
<1>6. ServiceKept
    BY <1>1, <1>2, PartyFacts
    DEF MeetInv, MeetShape, MeetTypeOK, ServiceKept, targetEnds, endVars, meetVars
<1>7. CellsKept
    BY <1>1, <1>2, PartyFacts DEF CellsKept, Cell, targetEnds, endVars, meetVars
<1>8. SameSession'
    BY <1>4, <1>6, SessionStep DEF MeetInv, targetEnds, endVars, meetVars
<1> QED BY <1>3, <1>4, <1>5, <1>6, <1>7, <1>8, CarriedStep DEF MeetInv

(* The service reads. *)
LEMMA ServiceReadStep ==
  ASSUME MeetInv, NEW a \in Points, serviceRead(a)
  PROVE  MeetInv'
<1>1. /\ toParty' \in [Parties -> Seq(Cells)]
      /\ \A q \in Parties : Elements(toParty'[q]) \subseteq Elements(toParty[q])
      /\ Head(toParty[a]) \in Elements(toParty[a]) /\ Head(toParty[a]) \in Cells
    BY ReadFacts, PartyFacts DEF MeetInv, serviceRead
<1>2. service' \in [Points -> ServiceRun]
    <2>1. PICK b \in BOOLEAN : b <=> (Head(toParty[a]).what # "close" /\ service[a].target = "up")
        OBVIOUS
    <2>2. service' = [service EXCEPT ![a].reading = b]
        BY <2>1 DEF serviceRead
    <2> QED BY <2>2 DEF ServiceRun, MeetInv, MeetShape, MeetTypeOK
<1>3. MeetShape'
    BY <1>1, <1>2, PartyFacts DEF MeetInv, MeetShape, MeetTypeOK, serviceRead, endVars, meetVars
<1>4. DoneOnce' /\ Pairing' /\ Handling' /\ PartnersKept
    BY NodeKept DEF serviceRead, endVars, meetVars
<1>5. Coming'
    BY <1>1, <1>2, PartyFacts
    DEF MeetInv, MeetShape, MeetTypeOK, Coming, serviceRead, endVars, meetVars
<1>6. ServiceKept
    BY <1>1, <1>2, PartyFacts
    DEF MeetInv, MeetShape, MeetTypeOK, ServiceKept, serviceRead, endVars, meetVars
<1>7. CellsKept
    BY <1>1, <1>2, PartyFacts DEF CellsKept, Cell, serviceRead, endVars, meetVars
<1>8. SameSession'
    BY <1>4, <1>6, SessionStep DEF MeetInv, serviceRead, endVars, meetVars
<1> QED BY <1>3, <1>4, <1>5, <1>6, <1>7, <1>8, CarriedStep DEF MeetInv

(* The service has served. *)
LEMMA AcceptReturnsStep ==
  ASSUME MeetInv, NEW a \in Points, acceptReturns(a)
  PROVE  MeetInv'
<1>1. /\ link' \in [Conns -> Seq(Cells)]
      /\ \A k \in Conns : Elements(link'[k]) \subseteq Elements(link[k]) \cup {Cell(a, "close")}
    BY SentFacts, PartyFacts DEF MeetInv, acceptReturns
<1>2. service' \in [Points -> ServiceRun]
    BY DEF ServiceRun, MeetInv, MeetShape, MeetTypeOK, acceptReturns
<1>3. MeetShape'
    BY <1>1, <1>2, PartyFacts DEF MeetInv, MeetShape, MeetTypeOK, acceptReturns, endVars, meetVars
<1>4. DoneOnce' /\ Pairing' /\ Handling' /\ PartnersKept
    BY NodeKept DEF acceptReturns, endVars, meetVars
<1>5. Coming'
    <2>1. ~(a > tried)
        BY DEF MeetInv, Coming, acceptReturns
    <2>2. /\ \A b \in Points : b # a => service'[b] = service[b]
          /\ service'[a].pc \notin {"none", "requested"}
        BY <1>2 DEF MeetInv, MeetShape, MeetTypeOK, acceptReturns
    <2> QED BY <2>1, <2>2 DEF MeetInv, Coming, acceptReturns, meetVars
<1>6. ServiceKept
    BY <1>1, <1>2, PartyFacts
    DEF MeetInv, MeetShape, MeetTypeOK, ServiceKept, acceptReturns, endVars, meetVars
<1>7. CellsKept
    BY <1>1, <1>2, PartyFacts DEF CellsKept, Cell, acceptReturns, endVars, meetVars
<1>8. SameSession'
    BY <1>4, <1>6, SessionStep DEF MeetInv, acceptReturns, endVars, meetVars
<1> QED BY <1>3, <1>4, <1>5, <1>6, <1>7, <1>8, CarriedStep DEF MeetInv

-----------------------------------------------------------------------------
(* The steps of the rendezvous node.                                       *)

(* A step of the node leaves the ends alone. *)
LEMMA EndsKept ==
  ASSUME MeetInv, UNCHANGED endVars,
         \A p \in Parties : handler[p] = "none" => handler'[p] = "none"
  PROVE  Coming' /\ ServiceKept
BY PartyFacts DEF MeetInv, Coming, ServiceKept, endVars

(* A party that waits is paired with nobody. *)
LEMMA WaitingFacts ==
  ASSUME MeetInv, waiting # None
  PROVE  /\ waiting \in Parties /\ partner[waiting] = None /\ closes[waiting] = 0
         /\ handler[waiting] = "waiting" /\ \A q \in Parties : partner[q] # waiting
<1>1. waiting \in Parties
    BY DEF MeetInv, MeetShape, MeetTypeOK
<1>2. partner[waiting] = None /\ handler[waiting] = "waiting" /\ closes[waiting] = 0
    BY <1>1 DEF MeetInv, Pairing
<1>3. ASSUME NEW q \in Parties, partner[q] = waiting PROVE FALSE
    BY <1>1, <1>2, <1>3, PartyFacts DEF MeetInv, Pairing
<1> QED BY <1>1, <1>2, <1>3

(* What the sweep closes: the entry of the party that waited too long. *)
LEMMA SweepFacts ==
  ASSUME MeetInv, NEW P, closed(P)
  PROVE  /\ pipe' \in [Parties -> BOOLEAN] /\ closes' \in [Parties -> Nat]
         /\ \A q \in Parties : q # waiting => closes'[q] = closes[q]
         /\ \A q \in Parties : q # waiting /\ q \notin P => (pipe'[q] <=> pipe[q])
         /\ \A q \in Parties : closes'[q] <= 1
         /\ ~sweeps => closes' = closes
         /\ ~sweeps => \A q \in Parties : q \notin P => (pipe'[q] <=> pipe[q])
<1>1. pipe' \in [Parties -> BOOLEAN] /\ \A q \in Parties :
        pipe'[q] <=> (pipe[q] /\ ~(sweeps /\ q = waiting) /\ q \notin P)
    BY Zenon DEF closed
<1>2. CASE sweeps
    <2>1. waiting \in Parties /\ closes[waiting] = 0
        BY <1>2, WaitingFacts DEF sweeps
    <2>2. closes' = [closes EXCEPT ![waiting] = @ + 1]
        BY <1>2 DEF closed
    <2>3. closes' \in [Parties -> Nat] /\ closes'[waiting] = 1
          /\ \A q \in Parties : q # waiting => closes'[q] = closes[q]
        BY <2>1, <2>2 DEF MeetInv, MeetShape
    <2>4. \A q \in Parties : closes'[q] <= 1
        BY <2>3 DEF MeetInv, DoneOnce
    <2> QED BY <1>1, <1>2, <2>3, <2>4
<1>3. CASE ~sweeps
    <2>1. closes' = closes
        BY <1>3 DEF closed
    <2> QED BY <1>1, <1>3, <2>1 DEF MeetInv, MeetShape, DoneOnce
<1> QED BY <1>2, <1>3

(* Steps that change a circuit but no entry: a waiting party whose pipe is *)
(* closed has lost its circuit.                                            *)
LEMMA CircuitKept ==
  ASSUME MeetInv, UNCHANGED <<handler, waiting, partner, closes>>,
         copying' \subseteq copying,
         \A p \in Parties : pipe[p] => pipe'[p] \/ exit'[p] = "closed",
         \A p \in Parties : exit[p] = "closed" => exit'[p] = "closed"
  PROVE  DoneOnce' /\ Pairing' /\ Handling' /\ PartnersKept
<1>1. DoneOnce' /\ PartnersKept
    BY DEF MeetInv, DoneOnce, PartnersKept
<1>2. Pairing'
    BY WaitingFacts DEF MeetInv, Pairing, Role
<1>3. Handling'
    BY DEF MeetInv, Handling
<1> QED BY <1>1, <1>2, <1>3

(* A party that comes is in nobody's hands yet. *)
LEMMA ComingFacts ==
  ASSUME MeetInv, NEW p \in Parties, handler[p] = "hello"
  PROVE  /\ p # waiting /\ p # None /\ partner[p] = None /\ closes[p] = 0 /\ p \notin copying
         /\ \A q \in Parties : partner[q] # p
<1>1. p # waiting /\ p # None
    BY WaitingFacts, PartyFacts
<1>2. partner[p] = None /\ closes[p] = 0 /\ p \notin copying
    BY DEF MeetInv, Handling
<1>3. ASSUME NEW q \in Parties, partner[q] = p PROVE FALSE
    BY <1>1, <1>2, <1>3, PartyFacts DEF MeetInv, Pairing
<1> QED BY <1>1, <1>2, <1>3

(* The first party comes and waits. *)
LEMMA WaitsStep ==
  ASSUME MeetInv, NEW p \in Parties, handler[p] = "hello", pipe[p], waits(p), exit' = exit
  PROVE  DoneOnce' /\ Pairing' /\ Handling' /\ PartnersKept
<1>1. /\ p # waiting /\ p # None /\ partner[p] = None /\ closes[p] = 0 /\ p \notin copying
      /\ \A q \in Parties : partner[q] # p
    BY ComingFacts
<1>2. /\ \A q \in Parties : q # waiting => closes'[q] = closes[q]
      /\ \A q \in Parties : q # waiting => (pipe'[q] <=> pipe[q])
      /\ \A q \in Parties : closes'[q] <= 1
    BY SweepFacts DEF waits
<1>3. /\ waiting' = p /\ partner' = partner /\ copying' = copying /\ handler'[p] = "waiting"
      /\ \A q \in Parties : q # p => handler'[q] = handler[q]
    BY DEF waits, MeetInv, MeetShape, MeetTypeOK
<1>4. waiting # None => handler[waiting] = "waiting" /\ \A q \in Parties : partner[q] # waiting
    BY WaitingFacts
<1>5. DoneOnce' /\ PartnersKept
    BY <1>2, <1>3 DEF DoneOnce, PartnersKept
<1>6. Pairing'
    BY <1>1, <1>2, <1>3 DEF MeetInv, Pairing, Role
<1>7. ASSUME NEW q \in Parties
      PROVE  /\ handler'[q] \in {"none", "hello"} => partner[q] = None /\ closes'[q] = 0
             /\ q \in copying => partner[q] # None
             /\ handler'[q] = "proxy" =>
                  partner[q] # None /\ handler'[partner[q]] = "waiting" /\ closes'[partner[q]] = 0
    <2>1. handler'[q] \in {"none", "hello"} => partner[q] = None /\ closes'[q] = 0
        BY <1>2, <1>3, <1>4, PartyFacts DEF MeetInv, Handling
    <2>2. q \in copying => partner[q] # None
        BY DEF MeetInv, Handling
    <2>3. ASSUME handler'[q] = "proxy"
          PROVE  partner[q] # None /\ handler'[partner[q]] = "waiting" /\ closes'[partner[q]] = 0
        <3>1. handler[q] = "proxy"
            BY <1>3, <2>3
        <3>2. partner[q] # None /\ handler[partner[q]] = "waiting" /\ closes[partner[q]] = 0
              /\ partner[q] \in Parties
            BY <3>1 DEF MeetInv, MeetShape, MeetTypeOK, Handling
        <3> QED BY <1>1, <1>2, <1>3, <1>4, <3>2
    <2> QED BY <2>1, <2>2, <2>3
<1>8. Handling'
    BY <1>3, <1>7 DEF Handling
<1> QED BY <1>5, <1>6, <1>8

(* A second party of the same role is turned away. *)
LEMMA TurnedAwayStep ==
  ASSUME MeetInv, NEW p \in Parties, handler[p] = "hello", turnedAway(p), exit' = exit
  PROVE  DoneOnce' /\ Pairing' /\ Handling' /\ PartnersKept
<1>1. /\ p # waiting /\ p # None /\ partner[p] = None /\ closes[p] = 0 /\ p \notin copying
      /\ \A q \in Parties : partner[q] # p
    BY ComingFacts
<1>2. ~sweeps
    BY DEF turnedAway, first
<1>3. closes' = closes /\ \A q \in Parties : q # p => (pipe'[q] <=> pipe[q])
    BY <1>2, SweepFacts DEF turnedAway
<1>4. /\ waiting' = waiting /\ partner' = partner /\ copying' = copying /\ handler'[p] = "done"
      /\ \A q \in Parties : q # p => handler'[q] = handler[q]
    BY DEF turnedAway, MeetInv, MeetShape, MeetTypeOK
<1>5. waiting # None => waiting \in Parties
    BY WaitingFacts
<1>6. DoneOnce' /\ PartnersKept
    BY <1>3, <1>4 DEF MeetInv, DoneOnce, PartnersKept
<1>7. Pairing'
    BY <1>1, <1>3, <1>4, <1>5 DEF MeetInv, Pairing, Role
<1>8. Handling'
    BY <1>1, <1>3, <1>4 DEF MeetInv, MeetShape, MeetTypeOK, Handling
<1> QED BY <1>6, <1>7, <1>8

(* The other party comes: the two are paired, and w.done stays open. *)
LEMMA PairsStep ==
  ASSUME MeetInv, NEW p \in Parties, handler[p] = "hello", pairs(p), exit' = exit
  PROVE  /\ DoneOnce' /\ Pairing' /\ Handling' /\ PartnersKept
         /\ partner' \in [Parties -> Parties \union {None}] /\ copying' \subseteq Parties
<1>1. /\ p # waiting /\ p # None /\ partner[p] = None /\ closes[p] = 0 /\ p \notin copying
      /\ \A q \in Parties : partner[q] # p
    BY ComingFacts
<1>2. ~sweeps /\ first = waiting /\ waiting # None /\ Role(waiting) # Role(p)
    BY DEF pairs, first
<1>3. closes' = closes
    BY <1>2, SweepFacts DEF pairs
<1>4. /\ waiting \in Parties /\ partner[waiting] = None /\ closes[waiting] = 0
      /\ handler[waiting] = "waiting" /\ \A q \in Parties : partner[q] # waiting
    BY <1>2, WaitingFacts
<1>5. /\ waiting' = None /\ handler'[p] = "proxy" /\ copying' = copying \union {p, waiting}
      /\ \A q \in Parties : q # p => handler'[q] = handler[q]
    BY <1>2 DEF pairs, MeetInv, MeetShape, MeetTypeOK
<1>6. partner' = [partner EXCEPT ![p] = waiting, ![waiting] = p]
    BY <1>2 DEF pairs
<1>7. /\ partner' \in [Parties -> Parties \union {None}]
      /\ partner'[p] = waiting /\ partner'[waiting] = p
      /\ \A q \in Parties : q # p /\ q # waiting => partner'[q] = partner[q]
    BY <1>1, <1>4, <1>6 DEF MeetInv, MeetShape, MeetTypeOK
<1>8. DoneOnce' /\ PartnersKept /\ copying' \subseteq Parties
    BY <1>1, <1>3, <1>4, <1>5, <1>7 DEF MeetInv, MeetShape, MeetTypeOK, DoneOnce, PartnersKept
<1>9. Pairing'
    <2>1. ASSUME NEW q \in Parties, partner'[q] # None
          PROVE  partner'[partner'[q]] = q /\ Role(partner'[q]) # Role(q) /\ waiting' # q
        <3>1. CASE q = p
            BY <1>1, <1>2, <1>5, <1>7, <3>1
        <3>2. CASE q = waiting
            BY <1>2, <1>5, <1>7, <3>2
        <3>3. CASE q # p /\ q # waiting
            <4>1. partner'[q] = partner[q] /\ partner[q] \in Parties
                BY <1>7, <2>1, <3>3 DEF MeetInv, MeetShape, MeetTypeOK
            <4>2. partner[partner[q]] = q /\ Role(partner[q]) # Role(q)
                BY <2>1, <4>1 DEF MeetInv, Pairing
            <4>3. partner'[partner[q]] = partner[partner[q]]
                BY <1>1, <1>4, <1>7, <4>1
            <4> QED BY <1>5, <4>1, <4>2, <4>3, PartyFacts
        <3> QED BY <3>1, <3>2, <3>3
    <2> QED BY <1>5, <2>1 DEF Pairing, Role
<1>10. ASSUME NEW q \in Parties
       PROVE  /\ handler'[q] \in {"none", "hello"} => partner'[q] = None /\ closes'[q] = 0
              /\ q \in copying' => partner'[q] # None
              /\ handler'[q] = "proxy" =>
                   /\ partner'[q] # None /\ handler'[partner'[q]] = "waiting"
                   /\ closes'[partner'[q]] = 0
    <2>1. CASE q = p
        BY <1>1, <1>2, <1>3, <1>4, <1>5, <1>7, <2>1
    <2>2. CASE q = waiting
        BY <1>1, <1>4, <1>5, <1>7, <2>2
    <2>3. CASE q # p /\ q # waiting
        <3>1. partner'[q] = partner[q] /\ handler'[q] = handler[q] /\ closes'[q] = closes[q]
              /\ (q \in copying' => q \in copying)
            BY <1>3, <1>5, <1>7, <2>3
        <3>2. partner[q] \in Parties => handler'[partner[q]] = handler[partner[q]]
            BY <1>1, <1>5
        <3> QED BY <1>3, <3>1, <3>2 DEF MeetInv, MeetShape, MeetTypeOK, Handling
    <2> QED BY <2>1, <2>2, <2>3
<1>11. Handling'
    BY <1>10 DEF Handling
<1> QED BY <1>7, <1>8, <1>9, <1>11

(* A party comes: it waits, is turned away or is paired. *)
LEMMA HandleRendezvousStep ==
  ASSUME MeetInv, NEW k \in Conns, NEW p \in Parties, handleRendezvous(k, p)
  PROVE  MeetInv'
<1>1. /\ link' \in [Conns -> Seq(Cells)]
      /\ \A j \in Conns : Elements(link'[j]) \subseteq Elements(link[j])
      /\ Head(link[k]) \in Elements(link[k]) /\ Head(link[k]) \in Cells
      /\ Head(link[k]).from = p
    BY ArrivedFacts DEF MeetInv, handleRendezvous
<1>2. handler[p] = "hello" /\ pipe[p] /\ exit' = exit /\ (waits(p) \/ turnedAway(p) \/ pairs(p))
    BY DEF handleRendezvous
<1>3. pipe' \in [Parties -> BOOLEAN] /\ closes' \in [Parties -> Nat]
    BY <1>2, SweepFacts DEF waits, turnedAway, pairs
<1>4. /\ handler' \in [Parties -> {"none", "hello", "waiting", "proxy", "done"}]
      /\ \A q \in Parties : handler[q] = "none" => handler'[q] = "none"
      /\ waiting' \in Parties \union {None} /\ overdue' \in BOOLEAN
    BY <1>2 DEF MeetInv, MeetShape, MeetTypeOK, waits, turnedAway, pairs
<1>5. partner' \in [Parties -> Parties \union {None}] /\ copying' \subseteq Parties
    BY <1>2, PairsStep DEF MeetInv, MeetShape, MeetTypeOK, waits, turnedAway
<1>6. MeetShape'
    BY <1>1, <1>3, <1>4, <1>5 DEF MeetInv, MeetShape, MeetTypeOK, handleRendezvous, endVars
<1>7. DoneOnce' /\ Pairing' /\ Handling' /\ PartnersKept
    BY <1>2, WaitsStep, TurnedAwayStep, PairsStep
<1>8. Coming'
    BY <1>4, EndsKept DEF handleRendezvous
<1>9. ServiceKept
    BY DEF ServiceKept, handleRendezvous, endVars
<1>10. CellsKept
    BY <1>1 DEF CellsKept, handleRendezvous
<1>11. SameSession'
    BY <1>7, <1>9, SessionStep DEF MeetInv, handleRendezvous, endVars, meetVars
<1> QED BY <1>6, <1>7, <1>8, <1>9, <1>10, <1>11, CarriedStep DEF MeetInv

(* proxyBoth copies what has arrived from a party to its partner. *)
LEMMA CopiesStep ==
  ASSUME MeetInv, NEW k \in Conns, NEW p \in Parties, copies(k, p)
  PROVE  MeetInv'
<1>1. /\ link' \in [Conns -> Seq(Cells)]
      /\ \A j \in Conns : Elements(link'[j]) \subseteq Elements(link[j])
      /\ Head(link[k]) \in Elements(link[k]) /\ Head(link[k]) \in Cells
      /\ Head(link[k]).from = p
    BY ArrivedFacts DEF MeetInv, copies
<1>2. partner[p] \in Parties /\ partner[partner[p]] = p /\ partner[p] # None
    BY PartyFacts DEF MeetInv, MeetShape, MeetTypeOK, Handling, Pairing, copies
<1>3. /\ toParty' \in [Parties -> Seq(Cells)]
      /\ \A q \in Parties : q # partner[p] => toParty'[q] = toParty[q]
      /\ Elements(toParty'[partner[p]]) \subseteq Elements(toParty[partner[p]]) \cup {Head(link[k])}
    <2>1. CASE toParty' = toParty
        BY <1>2, <2>1 DEF MeetInv, MeetShape
    <2>2. CASE toParty' = Up(partner[p], Head(link[k]))
        BY <1>1, <1>2, <2>2, UpFacts DEF MeetInv
    <2> QED BY <2>1, <2>2 DEF copies
<1>4. copying' \subseteq copying
    BY DEF copies
<1>5. MeetShape'
    BY <1>1, <1>3, <1>4 DEF MeetInv, MeetShape, MeetTypeOK, copies, endVars
<1>6. DoneOnce' /\ Pairing' /\ Handling' /\ PartnersKept
    BY <1>4, CircuitKept DEF copies
<1>7. Coming'
    BY EndsKept DEF copies
<1>8. ServiceKept
    BY DEF ServiceKept, copies, endVars
<1>9. Carried'
    <2>1. partner' = partner /\ service' = service
        BY DEF copies, endVars
    <2>2. \A c : Answered(c)' <=> Answered(c)
        BY <2>1 DEF Answered
    <2>3. \A j \in Conns : \A c \in Elements(link'[j]) : c.what = "ack" => Answered(c)
        BY <1>1 DEF MeetInv, Carried
    <2>4. ASSUME NEW q \in Parties, NEW c \in Elements(toParty'[q]), c.what # "close"
          PROVE  c.from = partner[q] /\ (c.what = "ack" => Answered(c))
        <3>1. CASE c \in Elements(toParty[q])
            BY <2>4, <3>1 DEF MeetInv, Carried
        <3>2. CASE c \notin Elements(toParty[q])
            <4>1. q = partner[p] /\ c = Head(link[k])
                BY <1>3, <2>4, <3>2
            <4>2. c.what = "ack" => Answered(c)
                BY <1>1, <4>1 DEF MeetInv, Carried
            <4> QED BY <1>1, <1>2, <4>1, <4>2
        <3> QED BY <3>1, <3>2
    <2> QED BY <2>1, <2>2, <2>3, <2>4 DEF Carried
<1>10. SameSession'
    BY <1>6, <1>8, SessionStep DEF MeetInv, copies, endVars, meetVars
<1> QED BY <1>5, <1>6, <1>7, <1>8, <1>9, <1>10 DEF MeetInv

(* A copy reads the end of its pipe. *)
LEMMA CopyEndsStep ==
  ASSUME MeetInv, NEW p \in Parties, copyEnds(p)
  PROVE  MeetInv'
<1>1. MeetShape'
    BY PartyFacts DEF MeetInv, MeetShape, MeetTypeOK, copyEnds, endVars, meetVars
<1>2. DoneOnce' /\ Pairing' /\ Handling' /\ PartnersKept
    BY CircuitKept DEF MeetInv, MeetShape, MeetTypeOK, copyEnds, meetVars
<1>3. Coming'
    BY EndsKept DEF MeetInv, MeetShape, MeetTypeOK, copyEnds, meetVars
<1>4. ServiceKept
    BY DEF ServiceKept, copyEnds, endVars
<1>5. CellsKept
    BY PartyFacts DEF CellsKept, Cell, copyEnds, endVars, meetVars
<1>6. SameSession'
    BY <1>2, <1>4, SessionStep DEF MeetInv, copyEnds, endVars, meetVars
<1> QED BY <1>1, <1>2, <1>3, <1>4, <1>5, <1>6, CarriedStep DEF MeetInv

(* proxyBoth returns and w.done of the first party is closed. *)
LEMMA ProxyReturnsStep ==
  ASSUME MeetInv, NEW p \in Parties, proxyReturns(p)
  PROVE  MeetInv'
<1>1. /\ handler[p] = "proxy" /\ handler' = [handler EXCEPT ![p] = "done"]
      /\ pipe' = [pipe EXCEPT ![p] = FALSE] /\ closes' = [closes EXCEPT ![partner[p]] = @ + 1]
      /\ UNCHANGED <<via, endVars, link, toParty, exit, waiting, overdue, partner, copying, late, cut,
                     untold, budget>>
    BY DEF proxyReturns, ProxyOver
<1>2. /\ partner[p] \in Parties /\ handler[partner[p]] = "waiting" /\ closes[partner[p]] = 0
      /\ partner[partner[p]] = p /\ p # partner[p] /\ waiting # p /\ waiting # partner[p]
    BY <1>1, PartyFacts, WaitingFacts DEF MeetInv, MeetShape, MeetTypeOK, Handling, Pairing
<1>3. /\ closes' \in [Parties -> Nat] /\ closes'[partner[p]] = 1
      /\ \A q \in Parties : q # partner[p] => closes'[q] = closes[q]
    BY <1>1, <1>2 DEF MeetInv, MeetShape
<1>4. /\ handler'[p] = "done" /\ \A q \in Parties : q # p => handler'[q] = handler[q]
      /\ \A q \in Parties : q # p => pipe'[q] = pipe[q]
    BY <1>1 DEF MeetInv, MeetShape, MeetTypeOK
<1>5. MeetShape'
    BY <1>1, <1>3 DEF MeetInv, MeetShape, MeetTypeOK, endVars
<1>6. DoneOnce' /\ Pairing' /\ Handling' /\ PartnersKept
    <2>1. DoneOnce' /\ PartnersKept
        BY <1>1, <1>3 DEF MeetInv, DoneOnce, PartnersKept
    <2>2. Pairing'
        BY <1>1, <1>2, <1>3, <1>4, WaitingFacts DEF MeetInv, Pairing, Role
    <2>3. ASSUME NEW q \in Parties
          PROVE  /\ handler'[q] \in {"none", "hello"} => partner[q] = None /\ closes'[q] = 0
                 /\ q \in copying => partner[q] # None
                 /\ handler'[q] = "proxy" =>
                      /\ partner[q] # None /\ handler'[partner[q]] = "waiting"
                      /\ closes'[partner[q]] = 0
        <3>1. handler'[q] \in {"none", "hello"} => partner[q] = None /\ closes'[q] = 0
            BY <1>2, <1>3, <1>4 DEF MeetInv, Handling
        <3>2. q \in copying => partner[q] # None
            BY DEF MeetInv, Handling
        <3>3. ASSUME handler'[q] = "proxy"
              PROVE  /\ partner[q] # None /\ handler'[partner[q]] = "waiting"
                     /\ closes'[partner[q]] = 0
            <4>1. q # p /\ handler[q] = "proxy"
                BY <1>4, <3>3
            <4>2. /\ partner[q] \in Parties /\ partner[q] # None /\ closes[partner[q]] = 0
                  /\ handler[partner[q]] = "waiting" /\ partner[partner[q]] = q
                BY <4>1 DEF MeetInv, MeetShape, MeetTypeOK, Handling, Pairing
            <4> QED BY <1>1, <1>2, <1>3, <1>4, <4>1, <4>2
        <3> QED BY <3>1, <3>2, <3>3
    <2>4. Handling'
        BY <1>1, <2>3 DEF Handling
    <2> QED BY <2>1, <2>2, <2>4
<1>7. Coming'
    BY <1>1, <1>4, EndsKept
<1>8. ServiceKept
    BY <1>1 DEF ServiceKept, endVars
<1>9. CellsKept
    BY <1>1 DEF CellsKept
<1>10. SameSession'
    BY <1>1, <1>6, <1>8, SessionStep DEF MeetInv, endVars
<1> QED BY <1>5, <1>6, <1>7, <1>8, <1>9, <1>10, CarriedStep DEF MeetInv

(* A waiting handler wakes up and is done. *)
LEMMA WaiterReturnsStep ==
  ASSUME MeetInv, NEW p \in Parties, waiterReturns(p)
  PROVE  MeetInv'
<1>1. /\ handler'[p] = "done" /\ \A q \in Parties : q # p => handler'[q] = handler[q]
      /\ \A q \in Parties : q # p => pipe'[q] = pipe[q]
    BY DEF MeetInv, MeetShape, MeetTypeOK, waiterReturns
<1>2. closes[p] # 0 /\ waiting # p /\ handler[p] = "waiting"
    BY WaitingFacts, PartyFacts DEF waiterReturns
<1>3. MeetShape'
    BY <1>1, <1>2, PartyFacts DEF MeetInv, MeetShape, MeetTypeOK, waiterReturns, endVars, meetVars
<1>4. DoneOnce' /\ Pairing' /\ Handling' /\ PartnersKept
    <2>1. DoneOnce' /\ PartnersKept
        BY DEF MeetInv, DoneOnce, PartnersKept, waiterReturns
    <2>2. Pairing'
        BY <1>1, <1>2, WaitingFacts DEF MeetInv, Pairing, Role, waiterReturns
    <2>3. Handling'
        BY <1>1, <1>2 DEF MeetInv, MeetShape, MeetTypeOK, Handling, waiterReturns
    <2> QED BY <2>1, <2>2, <2>3
<1>5. Coming'
    BY <1>1, <1>2, EndsKept DEF waiterReturns
<1>6. ServiceKept
    BY DEF ServiceKept, waiterReturns, endVars
<1>7. CellsKept
    BY <1>1, <1>2, PartyFacts DEF CellsKept, Cell, waiterReturns, endVars, meetVars
<1>8. SameSession'
    BY <1>4, <1>6, SessionStep DEF MeetInv, waiterReturns, endVars, meetVars
<1> QED BY <1>3, <1>4, <1>5, <1>6, <1>7, <1>8, CarriedStep DEF MeetInv

(* The pump sees the end of the pipe and tells the party. *)
LEMMA PumpEndsStep ==
  ASSUME MeetInv, NEW p \in Parties, pumpEnds(p)
  PROVE  MeetInv'
<1>1. Cell(p, "close") \in Cells /\ Cell(p, "close").what = "close"
    BY DEF Cell, Cells
<1>2. /\ toParty' \in [Parties -> Seq(Cells)]
      /\ \A q \in Parties : q # p => toParty'[q] = toParty[q]
      /\ Elements(toParty'[p]) \subseteq Elements(toParty[p]) \cup {Cell(p, "close")}
    BY <1>1, UpFacts DEF MeetInv, pumpEnds
<1>3. MeetShape'
    BY <1>1, <1>2, PartyFacts DEF MeetInv, MeetShape, MeetTypeOK, pumpEnds, endVars, meetVars
<1>4. DoneOnce' /\ Pairing' /\ Handling' /\ PartnersKept
    BY CircuitKept DEF MeetInv, MeetShape, MeetTypeOK, pumpEnds, meetVars
<1>5. Coming'
    BY EndsKept DEF MeetInv, MeetShape, MeetTypeOK, pumpEnds, meetVars
<1>6. ServiceKept
    BY DEF ServiceKept, pumpEnds, endVars
<1>7. CellsKept
    BY <1>1, <1>2 DEF CellsKept, pumpEnds
<1>8. SameSession'
    BY <1>4, <1>6, SessionStep DEF MeetInv, pumpEnds, endVars, meetVars
<1> QED BY <1>3, <1>4, <1>5, <1>6, <1>7, <1>8, CarriedStep DEF MeetInv

(* The reader finds the pipe closed. *)
LEMMA ReaderFailsStep ==
  ASSUME MeetInv, NEW k \in Conns, NEW p \in Parties, readerFails(k, p)
  PROVE  MeetInv'
<1>1. /\ link' \in [Conns -> Seq(Cells)]
      /\ \A j \in Conns : Elements(link'[j]) \subseteq Elements(link[j])
      /\ Head(link[k]) \in Elements(link[k]) /\ Head(link[k]) \in Cells
      /\ Head(link[k]).from = p
    BY ArrivedFacts DEF MeetInv, readerFails
<1>2. MeetShape'
    BY <1>1, PartyFacts DEF MeetInv, MeetShape, MeetTypeOK, readerFails, endVars, meetVars
<1>3. DoneOnce' /\ Pairing' /\ Handling' /\ PartnersKept
    BY CircuitKept DEF MeetInv, MeetShape, MeetTypeOK, readerFails, meetVars
<1>4. Coming'
    BY EndsKept DEF MeetInv, MeetShape, MeetTypeOK, readerFails, meetVars
<1>5. ServiceKept
    BY DEF ServiceKept, readerFails, endVars
<1>6. CellsKept
    BY <1>1, PartyFacts DEF CellsKept, Cell, readerFails, endVars, meetVars
<1>7. SameSession'
    BY <1>3, <1>5, SessionStep DEF MeetInv, readerFails, endVars, meetVars
<1> QED BY <1>2, <1>3, <1>4, <1>5, <1>6, <1>7, CarriedStep DEF MeetInv

(* The reader meets a party's CLOSE. *)
LEMMA ReaderClosesStep ==
  ASSUME MeetInv, NEW k \in Conns, NEW p \in Parties, readerCloses(k, p)
  PROVE  MeetInv'
<1>1. /\ link' \in [Conns -> Seq(Cells)]
      /\ \A j \in Conns : Elements(link'[j]) \subseteq Elements(link[j])
      /\ Head(link[k]) \in Elements(link[k]) /\ Head(link[k]) \in Cells
      /\ Head(link[k]).from = p
    BY ArrivedFacts DEF MeetInv, readerCloses
<1>2. MeetShape'
    BY <1>1, PartyFacts DEF MeetInv, MeetShape, MeetTypeOK, readerCloses, endVars, meetVars
<1>3. DoneOnce' /\ Pairing' /\ Handling' /\ PartnersKept
    BY CircuitKept DEF MeetInv, MeetShape, MeetTypeOK, readerCloses, meetVars
<1>4. Coming'
    BY EndsKept DEF MeetInv, MeetShape, MeetTypeOK, readerCloses, meetVars
<1>5. ServiceKept
    BY DEF ServiceKept, readerCloses, endVars
<1>6. CellsKept
    BY <1>1, PartyFacts DEF CellsKept, Cell, readerCloses, endVars, meetVars
<1>7. SameSession'
    BY <1>3, <1>5, SessionStep DEF MeetInv, readerCloses, endVars, meetVars
<1> QED BY <1>2, <1>3, <1>4, <1>5, <1>6, <1>7, CarriedStep DEF MeetInv

-----------------------------------------------------------------------------
(* The steps of the environment.                                           *)

(* An entry grows old. *)
LEMMA ExpireStep ==
  ASSUME MeetInv, Expire
  PROVE  MeetInv'
<1>1. budget' \in [Bounds -> Nat]
    BY SpendFacts DEF MeetInv, Bounds, Expire
<1>2. MeetShape'
    BY <1>1, PartyFacts DEF MeetInv, MeetShape, MeetTypeOK, Expire, endVars, meetVars
<1>3. DoneOnce' /\ Pairing' /\ Handling' /\ PartnersKept
    BY NodeKept DEF Expire, endVars, meetVars
<1>4. Coming'
    BY EndsKept DEF MeetInv, MeetShape, MeetTypeOK, Expire, meetVars
<1>5. ServiceKept
    BY DEF ServiceKept, Expire, endVars
<1>6. CellsKept
    BY <1>1, PartyFacts DEF CellsKept, Cell, Expire, endVars, meetVars
<1>7. SameSession'
    BY <1>3, <1>5, SessionStep DEF MeetInv, Expire, endVars, meetVars
<1> QED BY <1>2, <1>3, <1>4, <1>5, <1>6, <1>7, CarriedStep DEF MeetInv

(* A party with another cookie sweeps. *)
LEMMA PasserStep ==
  ASSUME MeetInv, Passer
  PROVE  MeetInv'
<1>1. budget' \in [Bounds -> Nat] /\ overdue' \in BOOLEAN
    BY SpendFacts DEF MeetInv, Bounds, Passer
<1>2. /\ pipe' \in [Parties -> BOOLEAN] /\ closes' \in [Parties -> Nat]
      /\ \A q \in Parties : q # waiting => closes'[q] = closes[q]
      /\ \A q \in Parties : closes'[q] <= 1
      /\ ~sweeps => closes' = closes
      /\ ~sweeps => \A q \in Parties : pipe'[q] <=> pipe[q]
    BY SweepFacts DEF Passer
<1>3. waiting' = (IF sweeps THEN None ELSE waiting) /\ waiting' \in Parties \union {None}
    BY DEF Passer, first, MeetInv, MeetShape, MeetTypeOK
<1>4. MeetShape'
    BY <1>1, <1>2, <1>3 DEF MeetInv, MeetShape, MeetTypeOK, Passer, endVars
<1>5. DoneOnce' /\ Pairing' /\ Handling' /\ PartnersKept
    <2>1. DoneOnce' /\ PartnersKept
        BY <1>2 DEF DoneOnce, PartnersKept, Passer
    <2>2. UNCHANGED <<exit, handler, partner, copying>>
        BY DEF Passer
    <2>3. CASE ~sweeps
        BY <1>2, <1>3, <2>2, <2>3, CircuitKept
    <2>4. CASE sweeps
        <3>1. waiting' = None
            BY <1>3, <2>4
        <3>2. Pairing'
            BY <2>2, <3>1, PartyFacts DEF MeetInv, Pairing, Role
        <3>3. /\ waiting \in Parties /\ handler[waiting] = "waiting"
              /\ \A q \in Parties : partner[q] # waiting
            BY <2>4, WaitingFacts DEF sweeps
        <3>4. Handling'
            BY <1>2, <2>2, <3>3 DEF MeetInv, MeetShape, MeetTypeOK, Handling
        <3> QED BY <2>1, <3>2, <3>4
    <2> QED BY <2>3, <2>4
<1>6. Coming'
    BY EndsKept DEF Passer
<1>7. ServiceKept
    BY DEF ServiceKept, Passer, endVars
<1>8. CellsKept
    BY <1>1, <1>2, <1>3, PartyFacts DEF CellsKept, Cell, Passer, endVars, meetVars
<1>9. SameSession'
    BY <1>5, <1>7, SessionStep DEF MeetInv, Passer, endVars, meetVars
<1> QED BY <1>4, <1>5, <1>6, <1>7, <1>8, <1>9, CarriedStep DEF MeetInv

(* What is left of a sequence holds nothing else. *)
LEMMA WithoutFacts ==
  ASSUME NEW S, NEW s \in Seq(S), NEW p, NEW t \in Without(s, p)
  PROVE  t \in Seq(S) /\ Elements(t) \subseteq Elements(s)
<1> DEFINE keep == {i \in 1..Len(s) : s[i].from # p}
           n == Cardinality(keep)
<1>1. Len(s) \in Nat /\ keep \subseteq 1..Len(s)
    OBVIOUS
<1>2. n \in Nat
    <2>1. IsFiniteSet(1..Len(s))
        BY <1>1, FS_Interval
    <2>2. IsFiniteSet(keep)
        BY <1>1, <2>1, FS_Subset
    <2> QED BY <2>2, FS_CardinalityType
<1>3. PICK at \in [1..n -> keep] : t = [j \in 1..n |-> s[at[j]]]
    BY DEF Without
<1>4. \A j \in 1..n : at[j] \in 1..Len(s)
    BY <1>1, <1>3
<1> HIDE DEF keep, n
<1>5. t \in Seq(S) /\ Len(t) = n
    BY <1>2, <1>3, <1>4
<1>6. Elements(t) \subseteq Elements(s)
    BY <1>3, <1>4, <1>5 DEF Elements
<1> QED BY <1>5, <1>6

(* A circuit is cut, and what it carried is lost. *)
LEMMA CutStep ==
  ASSUME MeetInv, NEW p \in Parties, Cut(p)
  PROVE  MeetInv'
<1>1. budget' \in [Bounds -> Nat]
    BY SpendFacts DEF MeetInv, Bounds, Cut
<1>2. /\ toParty' \in [Parties -> Seq(Cells)]
      /\ \A q \in Parties : Elements(toParty'[q]) \subseteq Elements(toParty[q])
    BY NoElements DEF MeetInv, MeetShape, Cut
<1>3. via[p] \in Conns /\ link[via[p]] \in Seq(Cells)
    BY DEF MeetInv, MeetShape, MeetTypeOK
<1>4. PICK rest \in Without(link[via[p]], p) : link' = [link EXCEPT ![via[p]] = rest]
    BY DEF Cut
<1>5. rest \in Seq(Cells) /\ Elements(rest) \subseteq Elements(link[via[p]])
    BY <1>3, <1>4, WithoutFacts
<1>6. /\ link' \in [Conns -> Seq(Cells)]
      /\ \A k \in Conns : Elements(link'[k]) \subseteq Elements(link[k])
    BY <1>3, <1>4, <1>5 DEF MeetInv, MeetShape
<1>7. MeetShape'
    BY <1>1, <1>2, <1>3, <1>4, <1>5, <1>6, PartyFacts
    DEF MeetInv, MeetShape, MeetTypeOK, Cut, endVars, meetVars
<1>8. DoneOnce' /\ Pairing' /\ Handling' /\ PartnersKept
    BY NodeKept DEF Cut, endVars, meetVars
<1>9. Coming'
    BY EndsKept DEF MeetInv, MeetShape, MeetTypeOK, Cut, meetVars
<1>10. ServiceKept
    BY DEF ServiceKept, Cut, endVars
<1>11. CellsKept
    BY <1>1, <1>2, <1>3, <1>4, <1>5, <1>6, PartyFacts DEF CellsKept, Cell, Cut, endVars, meetVars
<1>12. SameSession'
    BY <1>8, <1>10, SessionStep DEF MeetInv, Cut, endVars, meetVars
<1> QED BY <1>7, <1>8, <1>9, <1>10, <1>11, <1>12, CarriedStep DEF MeetInv

-----------------------------------------------------------------------------
(* The invariant holds to begin with. *)
LEMMA InitMeetInv == MeetInit => MeetInv
<1> SUFFICES ASSUME MeetInit PROVE MeetInv
    OBVIOUS
<1>1. /\ \A k \in Conns : link[k] = << >>
      /\ \A p \in Parties : toParty[p] = << >>
      /\ link \in [Conns -> Seq(Cells)] /\ toParty \in [Parties -> Seq(Cells)]
    BY DEF MeetInit
<1>2. service \in [Points -> ServiceRun]
      /\ \A a \in Points : service[a].pc = "none"
    BY DEF ServiceRun, MeetInit
<1>3. MeetShape
    <2>1. via \in [Parties -> Conns] /\ budget \in [Bounds -> Nat] /\ tried \in 0..N
        BY PartiesAssumption, PathsAssumption, BudgetsAssumption DEF MeetInit
    <2>2. /\ exit \in [Parties -> {"none", "open", "closed"}] /\ pipe \in [Parties -> BOOLEAN]
          /\ handler \in [Parties -> {"none", "hello", "waiting", "proxy", "done"}]
          /\ partner \in [Parties -> Parties \union {None}] /\ closes \in [Parties -> Nat]
        BY DEF MeetInit
    <2> QED BY <1>1, <1>2, <2>1, <2>2 DEF MeetInit, MeetShape, MeetTypeOK
<1>4. DoneOnce /\ Pairing /\ SameSession /\ Handling
    BY PartyFacts DEF MeetInit, DoneOnce, Pairing, SameSession, Handling
<1>5. Coming
    BY <1>2, PartyFacts DEF MeetInit, Coming
<1>6. Carried
    BY <1>1, NoElements DEF Carried
<1> QED BY <1>3, <1>4, <1>5, <1>6 DEF MeetInv

(* Every step keeps it. *)
LEMMA MeetInvStep == MeetInv /\ [MeetNext]_rendezvousVars => MeetInv'
<1> SUFFICES ASSUME MeetInv, [MeetNext]_rendezvousVars PROVE MeetInv'
    OBVIOUS
<1>1. CASE ClientNext
    BY <1>1, ClientHelloStep, IntroduceStep, IntroduceFailsStep, NotIntroducedStep,
       ReadServiceAckStep, ClientReadStep, ClientWriteStep, ClientCloseStep
    DEF ClientNext
<1>2. CASE ServiceNext
    BY <1>2, AcceptIntroductionStep, AcceptFailsStep, WriteServiceAckStep, DialServiceTargetStep,
       TargetWritesStep, TargetEndsStep, ServiceReadStep, AcceptReturnsStep
    DEF ServiceNext
<1>3. CASE NodeNext
    BY <1>3, HandleRendezvousStep, CopiesStep, ReaderFailsStep, ReaderClosesStep, CopyEndsStep,
       ProxyReturnsStep, WaiterReturnsStep, PumpEndsStep
    DEF NodeNext, Reader
<1>4. CASE Expire \/ Passer \/ \E p \in Parties : Cut(p)
    BY <1>4, ExpireStep, PasserStep, CutStep
<1>5. CASE UNCHANGED rendezvousVars
    BY <1>5 DEF rendezvousVars, endVars, meetVars, MeetInv, MeetShape, MeetTypeOK, DoneOnce,
       Pairing, Role, SameSession, Coming, Handling, Carried, Answered
<1> QED BY <1>1, <1>2, <1>3, <1>4, <1>5 DEF MeetNext

(* Two parties meet with each other or with nobody, however often the      *)
(* service comes and however the sweep, the end of a wait and an arrival   *)
(* at handleRendezvous fall together: w.done is closed at most once, a     *)
(* pair is symmetric and of two roles, and the keys of a connection are    *)
(* those of the run of acceptIntroduction at its other end.                *)
THEOREM PartiesMeet == MeetSpec => []Meeting
<1>1. MeetInv => Meeting
    BY DEF MeetInv, MeetShape, Meeting
<1> QED BY InitMeetInv, MeetInvStep, <1>1, PTL DEF MeetSpec

(***************************************************************************)
(* Mailbox.                                                                *)
(***************************************************************************)
-----------------------------------------------------------------------------
(* What Kept, Bounded and DeliveredOnce rest on.                           *)

(* A file is there because its sender's call was handled or cut short by a *)
(* crash, and a temporary one because a crash is on record.                *)
FilesKnown ==
  /\ IsFiniteSet(files)
  /\ \A f \in files : out[f.id] \in {"ok", "error"}
  /\ \A f \in files : f.temp => f.id \in leftover

(* The recipient has opened what it is about to acknowledge, and what it   *)
(* has opened is in its hands, deleted, or on record as unsure or left     *)
(* over.                                                                   *)
BoxKnown ==
  /\ rpc \in {"idle", "fetch"} => box = {}
  /\ \A e \in box : delivered[e] > 0
  /\ \A e \in Envelopes : delivered[e] > 0 =>
       /\ out[e] \in {"ok", "error"}
       /\ Final(e) \in files => e \in box \cup unsure \cup leftover

IInv == StoreSound /\ FilesKnown /\ BoxKnown

-----------------------------------------------------------------------------
(* A file is the final or a temporary one of its envelope.                 *)
FilesType == files \subseteq UNION {{Final(e)} \cup Temps(e) : e \in Envelopes}

(* A file names its envelope, and is temporary or the final one of it. *)
LEMMA FileFacts ==
  ASSUME FilesType
  PROVE  /\ \A e : Final(e).id = e /\ ~Final(e).temp /\ Final(e).whole
         /\ \A e, f : f \in Temps(e) => f.id = e /\ f.temp
         /\ \A f \in files : f.id \in Envelopes /\ (f.temp \/ f = Final(f.id))
<1>1. \A e : Final(e).id = e /\ ~Final(e).temp /\ Final(e).whole
    BY DEF Final
<1>2. \A e, f : f \in Temps(e) => f.id = e /\ f.temp
    BY DEF Temps
<1>3. ASSUME NEW f \in files
      PROVE  f.id \in Envelopes /\ (f.temp \/ f = Final(f.id))
    <2>1. PICK e \in Envelopes : f = Final(e) \/ f \in Temps(e)
        BY DEF FilesType
    <2> QED BY <2>1, <1>1, <1>2
<1> QED BY <1>1, <1>2, <1>3

(* Cleaning up only removes final or temporary files that have expired.    *)
LEMMA UnexpiredFacts ==
  ASSUME TypeOK, IsFiniteSet(files)
  PROVE  /\ unexpired \subseteq files /\ IsFiniteSet(unexpired)
         /\ Cardinality(unexpired) \in Nat
         /\ Cardinality(unexpired) <= Cardinality(files)
         /\ \A f \in files \ unexpired : now - created[f.id] > TTL
<1>1. unexpired \subseteq files
    BY DEF unexpired
<1>2. \A f \in files : f.id \in Envelopes
    BY FileFacts DEF TypeOK, FilesType
<1>3. \A f \in files \ unexpired : now - created[f.id] > TTL
    BY <1>2, LimitAssumption DEF unexpired, expired, TypeOK
<1> QED BY <1>1, <1>3, FS_Subset, FS_CardinalityType

(* An accepted file fits: the directory stays within its bound.            *)
LEMMA RoomFacts ==
  ASSUME TypeOK, IsFiniteSet(files), Bounded, NEW e \in Envelopes, room(e), NEW f,
         f = Final(e) \/ Final(e) \notin unexpired
  PROVE  /\ IsFiniteSet(unexpired \cup {f})
         /\ Cardinality(unexpired \cup {f}) <= MaxPerRecipient
<1>1. /\ IsFiniteSet(unexpired) /\ Cardinality(unexpired) \in Nat
      /\ Cardinality(files) \in Nat
      /\ Cardinality(unexpired) <= Cardinality(files)
    BY UnexpiredFacts, FS_CardinalityType
<1>2. /\ IsFiniteSet(unexpired \cup {f})
      /\ Cardinality(unexpired \cup {f}) =
           IF f \in unexpired THEN Cardinality(unexpired) ELSE Cardinality(unexpired) + 1
    BY <1>1, FS_AddElement
<1> QED BY <1>1, <1>2, LimitAssumption DEF room, Bounded

-----------------------------------------------------------------------------
(* Before anything is sent the invariant holds.                            *)
LEMMA InitIInv == Init => IInv
<1> SUFFICES ASSUME Init PROVE IInv
    OBVIOUS
<1>1. TypeOK
    BY ClockAssumption DEF Init, TypeOK
<1>2. IsFiniteSet(files) /\ Bounded
    BY FS_EmptySet, LimitAssumption DEF Init, Bounded
<1> QED BY <1>1, <1>2 DEF Init, IInv, StoreSound, Kept, DeliveredOnce, FilesKnown, BoxKnown

(* The files an action may leave keep the types.                           *)
LEMMA FilesTypeStep ==
  ASSUME FilesType, NEW e \in Envelopes, NEW S, S \subseteq files \cup {Final(e)} \cup Temps(e)
  PROVE  S \subseteq UNION {{Final(d)} \cup Temps(d) : d \in Envelopes}
    BY DEF FilesType

(* What a listing returns are files, at most Limit of them.                *)
LEMMA ListFacts == \A S \in List : S \subseteq unexpired
    BY DEF List, kSubset

(* Each action keeps the types.                                            *)
LEMMA TypeStep == TypeOK /\ [Next]_vars => TypeOK'
<1> SUFFICES ASSUME TypeOK, [Next]_vars PROVE TypeOK'
    OBVIOUS
<1> USE ClockAssumption
<1>0. FilesType /\ unexpired \subseteq files
    BY DEF TypeOK, FilesType, unexpired
<1>f. \A S : S \subseteq files => S \subseteq UNION {{Final(d)} \cup Temps(d) : d \in Envelopes}
    BY <1>0 DEF FilesType
<1>1. ASSUME NEW e \in Envelopes, Seal(e) PROVE TypeOK'
    BY <1>1 DEF Seal, store, client, TypeOK
<1>2. ASSUME NEW e \in Envelopes, Put(e) PROVE TypeOK'
    <2>1. files' \subseteq files \cup {Final(e)} \cup Temps(e)
        BY <1>2, <1>0 DEF Put
    <2>2. files' \subseteq UNION {{Final(d)} \cup Temps(d) : d \in Envelopes}
        BY <2>1, <1>0, FilesTypeStep
    <2>3. nFaults' \in 0 .. MaxFaults /\ out' \in [Envelopes -> {"new", "put", "ok", "error"}]
        BY <1>2 DEF Put, Fault, TypeOK
    <2> QED BY <1>2, <2>2, <2>3 DEF Put, client, TypeOK
<1>3. ASSUME NEW e \in Envelopes, SendFails(e) PROVE TypeOK'
    BY <1>3 DEF SendFails, Fault, store, client, TypeOK
<1>4. ASSUME Crashes, UNCHANGED <<now, created, delivered>>,
             files' \subseteq UNION {{Final(d)} \cup Temps(d) : d \in Envelopes},
             leftover' \cup acked' \subseteq Envelopes
      PROVE TypeOK'
    <2>1. nFaults' \in 0 .. MaxFaults
        BY <1>4 DEF Crashes, Fault, TypeOK
    <2>4. up' \in BOOLEAN
        BY <1>4 DEF Crashes
    <2>2. out' \in [Envelopes -> {"new", "put", "ok", "error"}]
        BY <1>4 DEF Crashes, TypeOK
    <2>3. /\ rpc' \in {"idle", "fetch", "opened", "ack"}
          /\ box' \cup unsure' \subseteq Envelopes
        BY <1>4 DEF Crashes, TypeOK
    <2> QED BY <1>4, <2>1, <2>2, <2>3, <2>4 DEF TypeOK
<1>5. ASSUME NEW e \in Envelopes, CrashInPut(e) PROVE TypeOK'
    <2>1. /\ files' \subseteq files \cup {Final(e)} \cup Temps(e)
          /\ leftover' \subseteq leftover \cup {e} /\ acked' = acked
        BY <1>5, <1>0 DEF CrashInPut
    <2>2. files' \subseteq UNION {{Final(d)} \cup Temps(d) : d \in Envelopes}
        BY <2>1, <1>0, FilesTypeStep
    <2>3. leftover' \cup acked' \subseteq Envelopes
        BY <2>1 DEF TypeOK
    <2>4. Crashes /\ UNCHANGED <<now, created, delivered>>
        BY <1>5 DEF CrashInPut
    <2> QED BY <2>2, <2>3, <2>4, <1>4
<1>6. CASE Fetch
    BY <1>6 DEF Fetch, store, TypeOK
<1>7. CASE Fetched
    <2>1. PICK S \in List :
            LET legible == Opened(S) IN
            IF writeFrame(S) /\ legible # {}
              THEN /\ rpc' = "opened" /\ box' = legible
                   /\ delivered' = [e \in Envelopes |->
                                      IF e \in legible /\ delivered[e] < 2 THEN delivered[e] + 1
                                                                          ELSE delivered[e]]
              ELSE rpc' = "idle" /\ UNCHANGED <<box, delivered>>
        BY <1>7 DEF Fetched
    <2>2. /\ box' \subseteq Envelopes /\ delivered' \in [Envelopes -> 0 .. 2]
          /\ rpc' \in {"idle", "fetch", "opened", "ack"}
        BY <2>1, EnvelopesAssumption DEF Opened, TypeOK
    <2>3. files' \subseteq UNION {{Final(d)} \cup Temps(d) : d \in Envelopes}
        BY <1>7, <1>0, <1>f DEF Fetched
    <2> QED BY <1>7, <2>2, <2>3 DEF Fetched, TypeOK
<1>8. CASE Ack
    BY <1>8 DEF Ack, store, TypeOK
<1>9. CASE Acked
    <2>1. files' \subseteq UNION {{Final(d)} \cup Temps(d) : d \in Envelopes}
        BY <1>9, <1>f DEF Acked
    <2> QED BY <1>9, <2>1 DEF Acked, TypeOK
<1>10. CASE CallFails
    BY <1>10 DEF CallFails, Fault, store, TypeOK
<1>11. CASE Crash
    <2>1. leftover' \cup acked' \subseteq Envelopes /\ files' = files
        BY <1>11 DEF Crash, store, TypeOK
    <2> QED BY <1>11, <2>1, <1>4, <1>f DEF Crash
<1>12. CASE Restart
    BY <1>12 DEF Restart, store, client, TypeOK
<1>13. CASE Tick
    BY <1>13 DEF Tick, store, client, TypeOK
<1>14. CASE UNCHANGED vars
    BY <1>14 DEF vars, store, client, TypeOK
<1> QED BY <1>1, <1>2, <1>3, <1>5, <1>6, <1>7, <1>8, <1>9, <1>10, <1>11, <1>12, <1>13, <1>14
        DEF Next

-----------------------------------------------------------------------------
(* Each action keeps the invariant.                                        *)
LEMMA IInvStep == IInv /\ [Next]_vars => IInv'
<1> SUFFICES ASSUME IInv, [Next]_vars
             PROVE  (Kept /\ Bounded /\ DeliveredOnce /\ FilesKnown /\ BoxKnown)'
    BY TypeStep DEF IInv, StoreSound
<1>0. TypeOK /\ Kept /\ Bounded /\ DeliveredOnce /\ FilesKnown /\ BoxKnown
    BY DEF IInv, StoreSound
<1>t. /\ out \in [Envelopes -> {"new", "put", "ok", "error"}]
      /\ created \in [Envelopes -> Int] /\ now \in Int /\ TTL \in Int
      /\ delivered \in [Envelopes -> 0 .. 2]
      /\ box \subseteq Envelopes
    BY <1>0, LimitAssumption, ClockAssumption DEF TypeOK
<1>f. /\ \A e : Final(e).id = e /\ ~Final(e).temp /\ Final(e).whole
      /\ \A e, f : f \in Temps(e) => f.id = e /\ f.temp
      /\ \A f \in files : f.id \in Envelopes /\ (f.temp \/ f = Final(f.id))
    BY <1>0, FileFacts DEF TypeOK, FilesType
<1>u. /\ unexpired \subseteq files /\ IsFiniteSet(unexpired)
      /\ Cardinality(unexpired) <= MaxPerRecipient
      /\ \A f \in files \ unexpired : now - created[f.id] > TTL
    <2>1. IsFiniteSet(files) /\ Cardinality(files) \in Nat
        BY <1>0, FS_CardinalityType DEF FilesKnown
    <2> QED BY <1>0, <2>1, UnexpiredFacts, LimitAssumption DEF Bounded
<1> DEFINE Goal == (Kept /\ Bounded /\ DeliveredOnce /\ FilesKnown /\ BoxKnown)'
<1>1. ASSUME NEW e \in Envelopes, Seal(e) PROVE Goal
    <2>1. /\ out[e] = "new"
          /\ \A d \in Envelopes : d # e => out'[d] = out[d] /\ created'[d] = created[d]
          /\ out'[e] \in {"put", "error"}
          /\ UNCHANGED <<files, leftover, acked, now, rpc, box, delivered, unsure>>
        BY <1>1, <1>t DEF Seal, store, client
    <2>2. Kept' /\ Bounded' /\ DeliveredOnce'
        BY <2>1, <1>0 DEF Kept, Bounded, DeliveredOnce
    <2>3. FilesKnown'
        BY <2>1, <1>0, <1>f DEF FilesKnown
    <2>4. BoxKnown'
        BY <2>1, <1>0 DEF BoxKnown
    <2> QED BY <2>2, <2>3, <2>4
<1>2. ASSUME NEW e \in Envelopes, Put(e) PROVE Goal
    <2>1. /\ out[e] = "put" /\ out'[e] \in {"ok", "error"}
          /\ \A d \in Envelopes : d # e => out'[d] = out[d]
          /\ out'[e] = "ok" => Final(e) \in files'
          /\ files' = unexpired \/ (files' = unexpired \cup {Final(e)} /\ room(e))
          /\ UNCHANGED <<leftover, acked, now, created, rpc, box, delivered, unsure>>
        BY <1>2, <1>t DEF Put, client
    <2>2. Bounded' /\ IsFiniteSet(files')
        BY <2>1, <1>0, <1>u, RoomFacts DEF Bounded, FilesKnown
    <2>3. Kept'
        BY <2>1, <1>0, <1>f, <1>u DEF Kept
    <2>4. DeliveredOnce'
        BY <2>1, <1>0 DEF DeliveredOnce
    <2>5. FilesKnown'
        BY <2>1, <2>2, <1>0, <1>f, <1>u DEF FilesKnown
    <2>6. BoxKnown'
        <3>1. delivered[e] = 0
            BY <2>1, <1>0, <1>t DEF BoxKnown
        <3>2. \A d \in Envelopes : d # e /\ Final(d) \in files' => Final(d) \in files
            BY <2>1, <1>f, <1>u
        <3> QED BY <2>1, <3>1, <3>2, <1>0, <1>t DEF BoxKnown
    <2> QED BY <2>2, <2>3, <2>4, <2>5, <2>6
<1>3. ASSUME NEW e \in Envelopes, SendFails(e) PROVE Goal
    <2>1. /\ out[e] = "put" /\ out'[e] = "error"
          /\ \A d \in Envelopes : d # e => out'[d] = out[d]
          /\ UNCHANGED <<files, leftover, acked, now, created, rpc, box, delivered, unsure>>
        BY <1>3, <1>t DEF SendFails, store, client
    <2>2. Kept' /\ Bounded' /\ DeliveredOnce'
        BY <2>1, <1>0 DEF Kept, Bounded, DeliveredOnce
    <2>3. FilesKnown' /\ BoxKnown'
        BY <2>1, <1>0, <1>f DEF FilesKnown, BoxKnown
    <2> QED BY <2>2, <2>3
<1>4. ASSUME Crashes, UNCHANGED <<now, created, delivered, acked>>,
             FilesKnown', Bounded', leftover \subseteq leftover',
             \A d \in Envelopes : Final(d) \in files => Final(d) \in files' \/ now - created[d] > TTL,
             \A d \in Envelopes : Final(d) \in files' => Final(d) \in files \/ out[d] = "put"
      PROVE Goal
    <2>1. \A d \in Envelopes : out'[d] = IF out[d] = "put" THEN "error" ELSE out[d]
        BY <1>4, <1>t DEF Crashes
    <2>2. /\ rpc' = (IF rpc = "opened" THEN rpc ELSE "idle")
          /\ box' = (IF rpc = "opened" THEN box ELSE {})
          /\ unsure' = (IF rpc = "ack" THEN unsure \cup box ELSE unsure)
        BY <1>4 DEF Crashes
    <2>3. Kept'
        BY <2>1, <1>4, <1>0 DEF Kept
    <2>4. DeliveredOnce'
        BY <2>2, <1>4, <1>0 DEF DeliveredOnce
    <2>5. BoxKnown'
        <3>1. rpc \in {"idle", "fetch", "opened", "ack"}
            BY <1>0 DEF TypeOK
        <3>2. box \cup unsure \subseteq box' \cup unsure'
            BY <2>2, <3>1, <1>0 DEF BoxKnown
        <3>3. \A d \in Envelopes : delivered'[d] > 0 =>
                 /\ out'[d] \in {"ok", "error"}
                 /\ Final(d) \in files' => d \in box' \cup unsure' \cup leftover'
            BY <2>1, <3>2, <1>4, <1>0 DEF BoxKnown
        <3> QED BY <2>2, <3>3, <1>4, <1>0 DEF BoxKnown
    <2> QED BY <2>3, <2>4, <2>5, <1>4
<1>5. ASSUME NEW e \in Envelopes, CrashInPut(e) PROVE Goal
    <2>1. PICK f \in Temps(e) \cup {Final(e)} :
            /\ files' = unexpired \cup {f}
            /\ leftover' = IF f = Final(e) THEN leftover ELSE leftover \cup {e}
        BY <1>5, <1>f DEF CrashInPut
    <2>2. /\ out[e] = "put" /\ Final(e) \notin unexpired /\ room(e) /\ Crashes
          /\ UNCHANGED <<now, created, delivered, acked>>
        BY <1>5 DEF CrashInPut
    <2>3. Bounded' /\ IsFiniteSet(files')
        BY <2>1, <2>2, <1>0, RoomFacts DEF Bounded, FilesKnown
    <2>4. \A d \in Envelopes : out'[d] = IF out[d] = "put" THEN "error" ELSE out[d]
        BY <2>2, <1>t DEF Crashes
    <2>5. FilesKnown'
        <3>1. f.id = e /\ (f.temp => f # Final(e))
            BY <1>f
        <3> QED BY <2>1, <2>2, <2>3, <2>4, <3>1, <1>0, <1>f, <1>u DEF FilesKnown
    <2>6. \A d \in Envelopes : Final(d) \in files =>
             Final(d) \in files' \/ now - created[d] > TTL
        BY <2>1, <1>u, <1>f
    <2>7. \A d \in Envelopes : Final(d) \in files' => Final(d) \in files \/ out[d] = "put"
        BY <2>1, <2>2, <1>u, <1>f
    <2> QED BY <1>4, <2>1, <2>2, <2>3, <2>5, <2>6, <2>7
<1>6. CASE Crash
    <2>1. Crashes /\ UNCHANGED <<files, leftover, acked, now, created, delivered>>
        BY <1>6 DEF Crash, store
    <2>2. \A d \in Envelopes : out'[d] = IF out[d] = "put" THEN "error" ELSE out[d]
        BY <2>1, <1>t DEF Crashes
    <2>3. FilesKnown' /\ Bounded'
        BY <2>1, <2>2, <1>0, <1>f DEF FilesKnown, Bounded
    <2> QED BY <2>1, <2>3, <1>4
<1>7. CASE Fetched
    <2>1. PICK S \in List :
            LET legible == Opened(S) IN
            IF writeFrame(S) /\ legible # {}
              THEN /\ rpc' = "opened" /\ box' = legible
                   /\ delivered' = [e \in Envelopes |->
                                      IF e \in legible /\ delivered[e] < 2 THEN delivered[e] + 1
                                                                          ELSE delivered[e]]
              ELSE rpc' = "idle" /\ UNCHANGED <<box, delivered>>
        BY <1>7 DEF Fetched
    <2>2. /\ rpc = "fetch" /\ box = {} /\ files' = unexpired
          /\ UNCHANGED <<leftover, acked, now, out, created, unsure>>
        BY <1>7, <1>0 DEF Fetched, BoxKnown
    <2>3. PICK legible \in SUBSET Envelopes :
            /\ \A d \in legible : \E f \in files : f.id = d
            /\ box' = legible /\ (rpc' = "opened" \/ (rpc' = "idle" /\ legible = {}))
            /\ \A d \in Envelopes : delivered'[d] =
                 IF d \in legible /\ delivered[d] < 2 THEN delivered[d] + 1 ELSE delivered[d]
        <3>1. /\ Opened(S) \subseteq Envelopes
              /\ \A d \in Opened(S) : \E f \in files : f.id = d
            BY ListFacts, <1>u, EnvelopesAssumption DEF Opened
        <3>2. CASE writeFrame(S) /\ Opened(S) # {}
            BY <2>1, <3>1, <3>2
        <3>3. CASE ~(writeFrame(S) /\ Opened(S) # {})
            <4>1. box' = {} /\ rpc' = "idle" /\ delivered' = delivered
                BY <2>1, <2>2, <3>3
            <4> QED BY <4>1
        <3> QED BY <3>2, <3>3
    <2>4. \A d \in legible : out[d] \in {"ok", "error"}
        BY <2>3, <1>0 DEF FilesKnown
    <2>5. \A d \in legible : delivered[d] > 0 => d \in unsure \cup leftover
        BY <2>2, <2>3, <1>0, <1>f DEF FilesKnown, BoxKnown
    <2>6. Kept'
        BY <2>2, <2>3, <1>0, <1>t, <1>f, <1>u DEF Kept
    <2>7. Bounded' /\ FilesKnown'
        BY <2>2, <1>0, <1>u DEF Bounded, FilesKnown
    <2>8. DeliveredOnce'
        BY <2>2, <2>3, <2>5, <1>0, <1>t DEF DeliveredOnce
    <2>9. BoxKnown'
        <3>1. \A d \in box' : delivered'[d] > 0
            BY <2>3, <1>t
        <3>2. \A d \in Envelopes : delivered'[d] > 0 =>
                 /\ out'[d] \in {"ok", "error"}
                 /\ Final(d) \in files' => d \in box' \cup unsure' \cup leftover'
            BY <2>2, <2>3, <2>4, <1>0, <1>t, <1>u DEF BoxKnown
        <3> QED BY <2>3, <3>1, <3>2 DEF BoxKnown
    <2> QED BY <2>6, <2>7, <2>8, <2>9
<1>8. CASE Acked
    <2>1. /\ files' = files \ Delete(box) /\ acked' = acked \cup box
          /\ rpc' = "idle" /\ box' = {}
          /\ UNCHANGED <<leftover, now, out, created, delivered, unsure>>
        BY <1>8 DEF Acked
    <2>2. \A d \in Envelopes : Final(d) \in files' <=> Final(d) \in files /\ d \notin box
        BY <2>1, <1>f DEF Delete
    <2>3. Kept'
        BY <2>1, <2>2, <1>0 DEF Kept, BoxKnown
    <2>4. Bounded' /\ IsFiniteSet(files')
        <3>1. files' \in SUBSET files
            BY <2>1
        <3>2. /\ IsFiniteSet(files') /\ Cardinality(files') <= Cardinality(files)
              /\ Cardinality(files) \in Nat /\ Cardinality(files') \in Nat
            BY <3>1, <1>0, FS_Subset, FS_CardinalityType DEF FilesKnown
        <3> QED BY <3>2, <1>0, LimitAssumption DEF Bounded
    <2>5. FilesKnown' /\ DeliveredOnce'
        BY <2>1, <2>4, <1>0 DEF FilesKnown, DeliveredOnce
    <2>6. BoxKnown'
        BY <2>1, <2>2, <1>0 DEF BoxKnown
    <2> QED BY <2>3, <2>4, <2>5, <2>6
<1>9. ASSUME Fetch \/ Ack \/ CallFails \/ Restart \/ UNCHANGED vars PROVE Goal
    <2>1. /\ UNCHANGED <<files, leftover, acked, now, out, created, delivered>>
          /\ \/ UNCHANGED <<rpc, box, unsure>>
             \/ rpc = "idle" /\ rpc' = "fetch" /\ UNCHANGED <<box, unsure>>
             \/ rpc = "opened" /\ rpc' = "ack" /\ UNCHANGED <<box, unsure>>
             \/ rpc' = "idle" /\ box' = {} /\ unsure' = unsure \cup box
        BY <1>9 DEF Fetch, Ack, CallFails, Restart, vars, store, client
    <2>2. Kept' /\ Bounded' /\ FilesKnown' /\ DeliveredOnce'
        BY <2>1, <1>0 DEF Kept, Bounded, FilesKnown, DeliveredOnce
    <2>3. BoxKnown'
        BY <2>1, <1>0 DEF BoxKnown
    <2> QED BY <2>2, <2>3
<1>10. CASE Tick
    <2>1. /\ now' = now + 1
          /\ UNCHANGED <<files, leftover, acked, out, created, rpc, box, delivered, unsure>>
        BY <1>10 DEF Tick, store, client
    <2>2. Kept'
        BY <2>1, <1>0, <1>t DEF Kept
    <2>3. Bounded' /\ FilesKnown' /\ DeliveredOnce' /\ BoxKnown'
        BY <2>1, <1>0 DEF Bounded, FilesKnown, DeliveredOnce, BoxKnown
    <2> QED BY <2>2, <2>3
<1> QED BY <1>1, <1>2, <1>3, <1>5, <1>6, <1>7, <1>8, <1>9, <1>10 DEF Next

(* The mailbox of one recipient is sound whatever crashes and broken calls *)
(* there are: an envelope whose sender was told "ok" is in the directory   *)
(* until it is acknowledged or expires, the directory never exceeds its    *)
(* limit, and an envelope is delivered twice only after a failed           *)
(* acknowledgement or a crash that left a copy (pkg/knotmailbox, Put, List *)
(* and Delete of the file store, and Fetch of the client).                 *)
THEOREM MailboxIsSound == Spec => []StoreSound
<1>1. IInv => StoreSound
    BY DEF IInv
<1> QED BY <1>1, InitIInv, IInvStep, PTL DEF Spec
==============================================================================
